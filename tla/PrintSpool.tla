----------------------------- MODULE PrintSpool -----------------------------
(***************************************************************************)
(* What one print queue promises its users, without files, locks, signals  *)
(* or processes: at most Capacity jobs are held, each is sent to one       *)
(* printer, once, and is given up only after that.  Jobs need not leave in *)
(* the order they came: the printers finish when they will, and a job can  *)
(* be left waiting behind later ones.                                      *)
(***************************************************************************)
EXTENDS FiniteSets, Naturals

CONSTANTS Job, Printer, Capacity, None

VARIABLES
    queued,     \* jobs waiting
    at,         \* at[p]: the job at printer p, or None
    leaving,    \* jobs whose printer is free again, not yet given up
    gone,       \* jobs given up
    crashes     \* times the machine has crashed

vars == <<queued, at, leaving, gone, crashes>>

AtPrinters == {at[p] : p \in Printer} \ {None}
Held == queued \cup AtPrinters \cup leaving

Init ==
    /\ queued = {}
    /\ at = [p \in Printer |-> None]
    /\ leaving = {}
    /\ gone = {}
    /\ crashes = 0

Submit(j) ==
    /\ j \notin Held \cup gone
    /\ Cardinality(Held) < Capacity
    /\ queued' = queued \cup {j}
    /\ UNCHANGED <<at, leaving, gone, crashes>>

Send(j, p) ==
    /\ j \in queued
    /\ at[p] = None
    /\ queued' = queued \ {j}
    /\ at' = [at EXCEPT ![p] = j]
    /\ UNCHANGED <<leaving, gone, crashes>>

Finish(p) ==
    /\ at[p] # None
    /\ leaving' = leaving \cup {at[p]}
    /\ at' = [at EXCEPT ![p] = None]
    /\ UNCHANGED <<queued, gone, crashes>>

GiveUp(j) ==
    /\ j \in leaving
    /\ leaving' = leaving \ {j}
    /\ gone' = gone \cup {j}
    /\ UNCHANGED <<queued, at, crashes>>

\* Held jobs survive a crash and wait again, those at a printer included; one
\* that was leaving may be half gone.  A submission under way may be lost.
Crash ==
    /\ crashes' = crashes + 1
    /\ \E half \in SUBSET leaving :
         /\ leaving' = half
         /\ queued' = Held \ half
    /\ at' = [p \in Printer |-> None]
    /\ \E cut \in SUBSET (Job \ (Held \cup gone)) : gone' = gone \cup cut

Next ==
    \/ \E j \in Job : Submit(j) \/ GiveUp(j) \/ \E p \in Printer : Send(j, p)
    \/ \E p \in Printer : Finish(p)
    \/ Crash

Spec == Init /\ [][Next]_vars
=============================================================================
