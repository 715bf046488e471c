-------------------------- MODULE MCCommandChannel --------------------------
EXTENDS CommandChannel, TLC

Symmetry == Permutations(Removers)
=============================================================================
