------------------------------ MODULE MCAdmin ------------------------------
(* Instances of Admin for TLC. *)
EXTENDS Admin, TLC

\* Pages, and names, are told apart by nothing but their equality.
Symmetry ==
    Permutations(Pages) \cup Permutations(QueueNames) \cup Permutations(PrinterNames)
=============================================================================
