------------------------ MODULE SpoolQueueRefinement ------------------------
(***************************************************************************)
(* The queue's processes implement PrintSpool when nobody removes jobs,    *)
(* crashes included.  A job is held from the moment its inf file is there  *)
(* until the file is unlinked; it is at a printer while the queue child's  *)
(* table says so, and leaving while zombie_harvester removes its two       *)
(* files, or when a crash has left its inf file without the data.          *)
(***************************************************************************)
EXTENDS SpoolQueue

AtPrinter == [p \in Printers |-> entry[p].inf]

BeingReaped ==
    IF svc.pc \in {"unlinkdat", "unlinkinf"} THEN {inf[svc.reaping]} ELSE {}

Half == {inf[s] : s \in {t \in Files : dat[t] = NoJob}}

HeldJobs == {inf[s] : s \in Files}

\* The jobs that have had an inf file and have it no more.
PastJobs ==
    {j \in 1 .. lastJob : /\ j \notin HeldJobs
                          /\ \A c \in Clients : ppr[c].pc = "inf" => ppr[c].job # j}

Spool == INSTANCE PrintSpool WITH
    Job <- Jobs,
    Printer <- Printers,
    Capacity <- QUEUE_LENGTH,
    None <- NoJob,
    queued <- HeldJobs \ ({entry[p].inf : p \in Busy} \cup BeingReaped \cup Half),
    at <- AtPrinter,
    leaving <- BeingReaped \cup Half,
    gone <- PastJobs,
    crashes <- crashes

\* Every step of ppr, of the queue child and of the printing children is a
\* step of PrintSpool or changes nothing it shows: no job is lost, held twice
\* or printed by two printers, and there are never more than QUEUE_LENGTH.
ImplementsPrintSpool == Spool!Spec
=============================================================================
