---------------------------- MODULE MCAccounting ----------------------------
EXTENDS Accounting, TLC

SomeGarbage == {-1, 5}
Symmetry == Permutations(Children)
=============================================================================
