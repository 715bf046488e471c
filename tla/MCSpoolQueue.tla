---------------------------- MODULE MCSpoolQueue ----------------------------
EXTENDS SpoolQueueRefinement, TLC

\* The processes of one kind, and the printers, are interchangeable.
Symmetry == Permutations(Clients) \cup Permutations(Removers) \cup Permutations(Printers)
=============================================================================
