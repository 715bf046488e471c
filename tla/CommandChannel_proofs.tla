----------------------- MODULE CommandChannel_proofs ------------------------
(***************************************************************************)
(* What holds of the commands that pprm sends to the queue child, for any  *)
(* number of pprm processes, printers and jobs, and any QUEUE_LENGTH.      *)
(*                                                                         *)
(* The argument for StoppedWasAsked is one of distances.  When a command   *)
(* is written its job is one of the last QUEUE_LENGTH submitted: it is at  *)
(* a printer, and pprm holds .lock, so no job comes in meanwhile.  Between *)
(* the moment the command is put on the list and the moment it is          *)
(* dispatched the queue child sends at most one more job.  The job whose   *)
(* child is to be stopped is one of the last QUEUE_LENGTH too, and two     *)
(* jobs with the same number are 2 * QUEUE_LENGTH apart: so it is the very *)
(* job the command was written for.                                        *)
(***************************************************************************)
EXTENDS CommandChannel, FiniteSetTheorems, WellFoundedInduction, TLAPS

Commands == [from : Removers \cup {Free}, jobnum : Numbers]

RemoverState ==
    [pc : {"idle", "lock", "lockcommand", "signal", "await"},
     jobnum : Numbers, left : Nat]

ServicePcs == {"loop", "forked", "awake", "topause", "paused",
               "lockcommand", "dispatch", "drop", "dead"}

ServiceState ==
    [pc : ServicePcs, next : Entries, pending : BOOLEAN,
     childExited : BOOLEAN, cut : BOOLEAN, temp : Seq(Commands)]

EntryState ==
    [state : {"idle", "starting", "printing", "zombie"}, jobnum : Numbers,
     serial : Nat, stop : BOOLEAN]

\* The type of the variables, with the serial numbers in their order.
TypeOK ==
    /\ lock \in Removers \cup {Free}
    /\ commandLock \in Removers \cup {Free, Service}
    /\ command \in Commands
    /\ rm \in [Removers -> RemoverState]
    /\ svc \in ServiceState
    /\ list \in Seq(Commands)
    /\ entry \in [Entries -> EntryState]
    /\ asked \in SUBSET (Nat \ {0})
    /\ sent \in Nat
    /\ submitted \in Nat
    /\ sent <= submitted

\* A pprm about to signal holds the lock on .command, which still has its
\* command; a queue child at work on its list holds it unless its wait was
\* cut short.
LockHolders ==
    /\ \A r \in Removers :
         rm[r].pc = "signal" => /\ commandLock = r
                                /\ command.jobnum = rm[r].jobnum
    /\ svc.pc \in {"dispatch", "drop"} /\ ~svc.cut => commandLock = Service

\* The number of the job submitted as the s-th.
NumberOf(s) == (s - 1) % (2 * QUEUE_LENGTH)

\* The jobs not yet printed are among the last QUEUE_LENGTH submitted.
JobsInWindow ==
    /\ submitted <= sent + QUEUE_LENGTH
    /\ \A p \in Busy : /\ entry[p].serial \in 1 .. sent
                       /\ entry[p].jobnum = NumberOf(entry[p].serial)
                       /\ submitted < entry[p].serial + QUEUE_LENGTH

\* While pprm has a job's number and has not signalled, it holds .lock, and
\* no job is submitted.
NamedInWindow ==
    \A r \in Removers :
        rm[r].pc \in {"lockcommand", "signal"}
        => /\ lock = r
           /\ \E s \in asked : /\ s <= sent /\ NumberOf(s) = rm[r].jobnum
                               /\ submitted < s + QUEUE_LENGTH

\* n is the number of a job that was asked for, and since whose submission
\* less than d jobs were sent.
AskedFor(n, d) ==
    \E s \in asked : s <= sent /\ NumberOf(s) = n /\ sent < s + d

\* Commands wait for no more than one round of the loop.
CommandsRecent ==
    /\ list # << >> \/ svc.temp # << >> => svc.pending
    /\ \A i \in 1 .. Len(list) :
         /\ AskedFor(list[i].jobnum, QUEUE_LENGTH + 1)
         /\ svc.pc = "loop" => AskedFor(list[i].jobnum, QUEUE_LENGTH)
    /\ \A i \in 1 .. Len(svc.temp) : AskedFor(svc.temp[i].jobnum, QUEUE_LENGTH + 1)
    /\ svc.temp # << >> => svc.pc \in {"drop", "dead"}

ChannelInv ==
    TypeOK /\ LockHolders /\ JobsInWindow /\ NamedInWindow /\ CommandsRecent
    /\ StoppedWasAsked

-----------------------------------------------------------------------------
(* Numbers and sequences.                                                  *)

\* Two numbers with one remainder that are less than the divisor apart are
\* equal.
LEMMA SameRemainder ==
    ASSUME NEW N \in Nat \ {0}, NEW a \in Nat, NEW b \in Nat,
           a <= b, b - a < N, a % N = b % N
    PROVE  a = b
  <1>1. /\ a \div N \in Int /\ b \div N \in Int
        /\ a = N * (a \div N) + (a % N)
        /\ b = N * (b \div N) + (b % N)
    OBVIOUS
  <1>2. ASSUME NEW x \in Int, NEW y \in Int
        PROVE  (\E d \in Int : d = x - y) /\ N * (x - y) = N * x - N * y
    OBVIOUS
  <1>3. PICK d \in Int : d = (b \div N) - (a \div N)
    BY <1>1, <1>2
  <1>4. b - a = N * d
    <2>1. N * d = N * (b \div N) - N * (a \div N)
      BY <1>1, <1>2, <1>3
    <2>2. QED
      BY <1>1, <2>1
  <1>5. CASE d <= 0
    <2>1. N * d <= 0
      BY <1>5
    <2>2. QED
      BY <2>1, <1>4
  <1>6. CASE d >= 1
    <2>1. N * d >= N
      BY <1>6
    <2>2. QED
      BY <2>1, <1>4
  <1>7. QED
    BY <1>5, <1>6

\* There are numbers, and an entry to begin with.
LEMMA NumberFacts ==
    /\ QUEUE_LENGTH \in Nat /\ QUEUE_LENGTH >= 1
    /\ 2 * QUEUE_LENGTH \in Nat \ {0}
    /\ 0 \in Numbers
    /\ 1 \in Entries
    /\ \A n \in Nat : n % (2 * QUEUE_LENGTH) \in Numbers
  <1>1. QUEUE_LENGTH \in Nat \ {0} /\ NumPrinters \in Nat \ {0}
    BY ChannelAssumption
  <1>2. 2 * QUEUE_LENGTH \in Nat \ {0} /\ 1 \in Entries
    BY <1>1 DEF Entries
  <1>3. ASSUME NEW N \in Nat \ {0}, NEW n \in Nat
        PROVE  n % N \in 0 .. N - 1
    OBVIOUS
  <1>4. \A n \in Nat : n % (2 * QUEUE_LENGTH) \in Numbers
    BY <1>2, <1>3 DEF Numbers
  <1>5. QED
    BY <1>1, <1>2, <1>4 DEF Numbers

\* A number is that of one job only among 2 * QUEUE_LENGTH in a row.
LEMMA NumbersDiffer ==
    ASSUME NEW s \in Nat \ {0}, NEW t \in Nat \ {0},
           s - t < 2 * QUEUE_LENGTH, t - s < 2 * QUEUE_LENGTH,
           NumberOf(s) = NumberOf(t)
    PROVE  s = t
  <1>1. PICK a \in Nat, b \in Nat : a = s - 1 /\ b = t - 1
    <2>1. \A n \in Nat \ {0} : \E m \in Nat : m = n - 1
      OBVIOUS
    <2>2. QED
      BY <2>1
  <1>2. /\ a % (2 * QUEUE_LENGTH) = b % (2 * QUEUE_LENGTH)
        /\ a - b < 2 * QUEUE_LENGTH /\ b - a < 2 * QUEUE_LENGTH
    BY <1>1, NumberFacts DEF NumberOf
  <1>3. a = b
    <2>1. a <= b \/ b <= a
      OBVIOUS
    <2>2. QED
      BY <1>2, <2>1, SameRemainder, NumberFacts
  <1>4. QED
    BY <1>1, <1>3

\* Of any numbers one is the smallest.
LEMMA SmallestExists ==
    ASSUME NEW S \in SUBSET Nat, S # {}
    PROVE  \E h \in S : \A v \in S : h <= v
  <1> DEFINE below(h) == {s \in S : s < h}
             T == {below(h) : h \in S}
  <1>1. \A s \in S : s \in Nat
    OBVIOUS
  <1>2. \A h \in S : IsFiniteSet(below(h))
    <2>1. ASSUME NEW h \in S
          PROVE  IsFiniteSet(below(h))
      <3>1. IsFiniteSet(0 .. h)
        BY FS_Interval
      <3>2. ASSUME NEW s \in S, s < h
            PROVE  s \in 0 .. h
        BY <3>2, <1>1
      <3>3. QED
        BY <3>1, <3>2, FS_Subset
    <2>2. QED
      BY <2>1
  <1>3. T \subseteq FiniteSubsetsOf(S) /\ T # {}
    <2>1. \A h \in S : below(h) \in SUBSET S
      OBVIOUS
    <2> HIDE DEF below
    <2>2. QED
      BY <1>2, <2>1 DEF FiniteSubsetsOf
  <1>4. PICK X \in T : \A Y \in T : <<Y, X>> \notin StrictSubsetOrdering(S)
    BY <1>3, FS_StrictSubsetOrderingWellFounded, WFMin
  <1>5. PICK h \in S : X = below(h)
    OBVIOUS
  <1>6. ASSUME NEW v \in below(h)
        PROVE  FALSE
    <2>1. v \in S /\ below(v) \in T /\ v \notin below(v)
      BY <1>6
    <2>2. ASSUME NEW s \in S, s < v
          PROVE  s < h
      BY <2>1, <2>2, <1>1, <1>6
    <2>3. <<below(v), below(h)>> \in StrictSubsetOrdering(S)
      BY <2>1, <2>2, <1>6 DEF StrictSubsetOrdering
    <2>4. QED
      BY <2>1, <2>3, <1>4, <1>5
  <1>7. QED
    BY <1>6

\* The search for an idle printer finds one if there is one.
LEMMA NextEligibleIdle ==
    ASSUME Busy # Entries, svc.next \in Entries
    PROVE  NextEligible \in Entries \ Busy
  <1> DEFINE after(p) == (p + NumPrinters - svc.next) % NumPrinters
             S == {after(p) : p \in Entries \ Busy}
  <1>1. NumPrinters \in Nat \ {0}
    BY ChannelAssumption
  <1>2. \A p \in Entries : p + NumPrinters - svc.next \in Nat
    BY <1>1 DEF Entries
  <1>3. ASSUME NEW N \in Nat \ {0}, NEW n \in Nat
        PROVE  n % N \in Nat
    OBVIOUS
  <1>4. S \in SUBSET Nat /\ S # {}
    <2>1. \A p \in Entries : after(p) \in Nat
      BY <1>1, <1>2, <1>3
    <2>2. Entries \ Busy # {}
      BY DEF Busy
    <2> HIDE DEF after
    <2>3. QED
      BY <2>1, <2>2
  <1>5. \E p \in Entries \ Busy : \A q \in Entries \ Busy : after(p) <= after(q)
    <2> HIDE DEF after
    <2>1. PICK h \in S : \A v \in S : h <= v
      <3> HIDE DEF S
      <3> QED BY <1>4, SmallestExists
    <2>2. QED
      BY <2>1
  <1>6. QED
    BY <1>5 DEF NextEligible

-----------------------------------------------------------------------------
(* What a signal does, and the types.                                      *)

\* The constant states and the moves of the records stay within their types.
LEMMA ConstantStates ==
    /\ Idle \in RemoverState /\ NoCommand \in Commands
    /\ \A f \in [Removers -> RemoverState], r \in Removers :
         [f EXCEPT ![r] = Idle] \in [Removers -> RemoverState]
  BY NumberFacts DEF Idle, NoCommand, RemoverState, Commands

\* A signal leaves the queue child where it was, wakes it, or cuts short its
\* wait for the lock; nothing else of it changes.
LEMMA SignalMoves ==
    ASSUME NEW s \in ServiceState, NEW t \in AfterSignal(s)
    PROVE  /\ t \in ServiceState
           /\ t.temp = s.temp /\ t.pending = s.pending
           /\ \/ t = s
              \/ s.pc \in {"paused", "forked"} /\ t.pc = "awake"
              \/ s.pc = "lockcommand" /\ t.pc = "dispatch" /\ t.cut
  BY DEF AfterSignal, ServiceState, ServicePcs

\* A command that arrives is added to the list, replaces another or is lost.
LEMMA ListGrows ==
    ASSUME list \in Seq(Commands), NEW c \in Commands, NEW l \in ListAfter(c)
    PROVE  /\ l \in Seq(Commands)
           /\ \A i \in 1 .. Len(l) : \/ l[i] = c
                                     \/ i \in 1 .. Len(list) /\ l[i] = list[i]
  <1>1. CASE Len(list) = 0
    <2>1. l = <<c>>
      BY <1>1 DEF ListAfter
    <2>2. QED
      BY <2>1
  <1>2. CASE Len(list) = 1
    <2>1. l = list \/ l = Append(list, c)
      BY <1>2 DEF ListAfter
    <2>2. QED
      BY <2>1
  <1>3. CASE Len(list) > 1
    <2>1. l = Append(SubSeq(list, 1, Len(list) - 1), c)
      BY <1>3 DEF ListAfter
    <2>2. /\ SubSeq(list, 1, Len(list) - 1) \in Seq(Commands)
          /\ Len(SubSeq(list, 1, Len(list) - 1)) = Len(list) - 1
          /\ \A i \in 1 .. Len(list) - 1 :
               SubSeq(list, 1, Len(list) - 1)[i] = list[i]
      BY <1>3
    <2>3. QED
      BY <1>3, <2>1, <2>2
  <1>4. Len(list) = 0 \/ Len(list) = 1 \/ Len(list) > 1
    <2>1. \A n \in Nat : n = 0 \/ n = 1 \/ n > 1
      OBVIOUS
    <2>2. Len(list) \in Nat
      OBVIOUS
    <2>3. QED
      BY <2>1, <2>2
  <1>5. QED
    BY <1>1, <1>2, <1>3, <1>4

\* What the arrival of a command does to the queue child and its list.
LEMMA ArrivalMoves ==
    ASSUME svc \in ServiceState, list \in Seq(Commands), NEW c \in Commands,
           CommandArrives(c)
    PROVE  /\ svc' \in ServiceState /\ list' \in Seq(Commands)
           /\ svc'.temp = svc.temp
           /\ \/ svc'.pc = "dead" /\ list' = list /\ svc'.pending = svc.pending
              \/ /\ svc'.pending
                 /\ list' \in ListAfter(c)
                 /\ \/ svc'.pc = svc.pc /\ svc'.cut = svc.cut
                    \/ svc.pc \in {"paused", "forked"} /\ svc'.pc = "awake"
                    \/ svc.pc = "lockcommand" /\ svc'.pc = "dispatch" /\ svc'.cut
  <1> DEFINE s == [svc EXCEPT !.pending = TRUE]
  <1>1. /\ s \in ServiceState /\ s.pc = svc.pc /\ s.cut = svc.cut
        /\ s.temp = svc.temp /\ s.pending
    BY DEF ServiceState
  <1>2. CASE svc' \in AfterSignal(s) /\ list' \in ListAfter(c)
    <2> HIDE DEF s
    <2>1. QED
      BY <1>1, <1>2, SignalMoves, ListGrows
  <1>3. CASE svc' = [svc EXCEPT !.pc = "dead"] /\ list' = list
    BY <1>3 DEF ServiceState, ServicePcs
  <1>4. QED
    BY <1>2, <1>3 DEF CommandArrives

\* The types hold before the first job.
LEMMA TypeInit == Init => TypeOK
  <1> SUFFICES ASSUME Init
               PROVE  TypeOK
    OBVIOUS
  <1>1. svc \in ServiceState
    BY NumberFacts DEF Init, ServiceState, ServicePcs
  <1>2. entry \in [Entries -> EntryState]
    <2>1. ASSUME NEW e \in [state : {"idle"}, jobnum : Garbage,
                             serial : {0}, stop : {FALSE}]
          PROVE  e \in EntryState
      <3>1. /\ e = [state |-> "idle", jobnum |-> e.jobnum,
                     serial |-> 0, stop |-> FALSE]
            /\ e.jobnum \in Numbers
        BY ChannelAssumption
      <3>2. \A n \in Numbers : [state |-> "idle", jobnum |-> n, serial |-> 0,
                                stop |-> FALSE] \in EntryState
        BY DEF EntryState
      <3>3. QED
        BY <3>1, <3>2
    <2>2. QED
      BY <2>1 DEF Init
  <1>3. QED
    BY <1>1, <1>2, ConstantStates DEF Init, TypeOK

\* The types are kept by every step.
LEMMA TypeStep == TypeOK /\ JobsInWindow /\ [Next]_vars => TypeOK'
  <1> SUFFICES ASSUME TypeOK, JobsInWindow, [Next]_vars
               PROVE  TypeOK'
    OBVIOUS
  <1> USE DEF TypeOK
  <1>1. CASE Submit
    <2>1. svc' \in ServiceState
      BY <1>1, SignalMoves DEF Submit
    <2>2. QED
      BY <1>1, <2>1 DEF Submit
  <1>2. ASSUME NEW r \in Removers, RmStart(r)
        PROVE  TypeOK'
    <2>1. \A n \in Nat : [Idle EXCEPT !.pc = "lock", !.left = n] \in RemoverState
      BY NumberFacts DEF Idle, RemoverState
    <2>2. \A n \in 1 .. MaxRequests : n \in Nat
      BY ChannelAssumption
    <2>3. QED
      BY <1>2, <2>1, <2>2 DEF RmStart
  <1>3. ASSUME NEW r \in Removers, RmLock(r)
        PROVE  TypeOK'
    <2>1. PICK p \in Busy :
             /\ rm' = [rm EXCEPT ![r].pc = "lockcommand",
                                 ![r].jobnum = entry[p].jobnum]
             /\ asked' = asked \cup {entry[p].serial}
      BY <1>3 DEF RmLock
    <2>2. entry[p] \in EntryState /\ entry[p].serial \in Nat \ {0}
      BY DEF JobsInWindow, Busy
    <2>3. rm' \in [Removers -> RemoverState]
      <3>1. [rm[r] EXCEPT !.pc = "lockcommand", !.jobnum = entry[p].jobnum] \in RemoverState
        BY <2>2 DEF RemoverState, EntryState
      <3>2. rm' = [rm EXCEPT ![r] = [@ EXCEPT !.pc = "lockcommand",
                                              !.jobnum = entry[p].jobnum]]
        BY <2>1
      <3>3. QED
        BY <3>1, <3>2
    <2>4. asked' \in SUBSET (Nat \ {0})
      BY <2>1, <2>2
    <2>5. lock' \in Removers \cup {Free}
      BY <1>3 DEF RmLock
    <2>6. QED
      BY <1>3, <2>3, <2>4, <2>5 DEF RmLock
  <1>4. ASSUME NEW r \in Removers, RmWriteCommand(r)
        PROVE  TypeOK'
    <2>1. command' \in Commands /\ rm' \in [Removers -> RemoverState]
      BY <1>4 DEF RmWriteCommand, Commands, RemoverState
    <2>2. QED
      BY <1>4, <2>1 DEF RmWriteCommand
  <1>5. ASSUME NEW r \in Removers, RmSignal(r)
        PROVE  TypeOK'
    <2>1. rm' \in [Removers -> RemoverState]
      BY <1>5 DEF RmSignal, RemoverState
    <2>2. svc' \in ServiceState /\ list' \in Seq(Commands)
      BY <1>5, ArrivalMoves DEF RmSignal
    <2>3. QED
      BY <1>5, <2>1, <2>2 DEF RmSignal
  <1>6. ASSUME NEW r \in Removers, RmNoChild(r)
        PROVE  TypeOK'
    BY <1>6 DEF RmNoChild, RemoverState
  <1>7. ASSUME NEW r \in Removers, RmJobOver(r)
        PROVE  TypeOK'
    <2>1. rm' \in [Removers -> RemoverState]
      BY <1>7, ConstantStates DEF RmJobOver, RemoverState
    <2>2. QED
      BY <1>7, <2>1 DEF RmJobOver, LockAfterJob
  <1>8. ASSUME NEW r \in Removers, RmRefused(r) \/ RmOtherwise(r)
        PROVE  TypeOK'
    BY <1>8, ConstantStates DEF RmRefused, RmOtherwise
  <1>9. CASE SvcSend
    <2>1. NextEligible \in Entries \ Busy
      BY <1>9, NextEligibleIdle DEF SvcSend, CanSend, ServiceState
    <2>2. svc' \in ServiceState
      BY <1>9, <2>1 DEF SvcSend, ServiceState, ServicePcs
    <2>3. [state |-> "starting", jobnum |-> TailNumber,
           serial |-> sent + 1, stop |-> FALSE] \in EntryState
      <3>1. TailNumber \in Numbers /\ sent + 1 \in Nat
        <4>1. sent % (2 * QUEUE_LENGTH) \in Numbers
          BY NumberFacts
        <4>2. QED
          BY <4>1 DEF TailNumber
      <3>2. \A n \in Numbers, s \in Nat :
              [state |-> "starting", jobnum |-> n, serial |-> s, stop |-> FALSE]
                \in EntryState
        BY DEF EntryState
      <3>3. QED
        BY <3>1, <3>2
    <2>4. entry' \in [Entries -> EntryState]
      BY <1>9, <2>1, <2>3 DEF SvcSend
    <2>5. QED
      BY <1>9, <2>2, <2>4 DEF SvcSend, CanSend
  <1>10. CASE SvcForked \/ SvcSendNothing \/ SvcPause
    BY <1>10 DEF SvcForked, SvcSendNothing, SvcPause, ServiceState, ServicePcs
  <1>11. CASE SvcHarvest
    <2>1. svc' \in ServiceState
      BY <1>11 DEF SvcHarvest, ServiceState, ServicePcs
    <2>2. \A e \in EntryState : Harvested(e) \in EntryState
      BY DEF Harvested, EntryState
    <2>3. QED
      BY <1>11, <2>1, <2>2 DEF SvcHarvest
  <1>12. CASE SvcLockCommand
    BY <1>12 DEF SvcLockCommand, ServiceState, ServicePcs
  <1>13. CASE SvcDispatch
    <2>1. Tail(list) \in Seq(Commands)
      BY <1>13 DEF SvcDispatch
    <2>2. svc' \in ServiceState
      BY <1>13, <2>1 DEF SvcDispatch, ServiceState, ServicePcs
    <2>3. \A e \in EntryState : [e EXCEPT !.stop = TRUE] \in EntryState
      BY DEF EntryState
    <2>4. QED
      BY <1>13, <2>2, <2>3 DEF SvcDispatch
  <1>14. CASE SvcDrop
    <2>1. svc' \in ServiceState
      <3>1. << >> \in Seq(Commands)
        OBVIOUS
      <3>2. QED
        BY <1>14, <3>1 DEF SvcDrop, ServiceState, ServicePcs
    <2>2. list' \in Seq(Commands)
      BY <1>14 DEF SvcDrop, ServiceState
    <2>3. QED
      BY <1>14, <2>1, <2>2 DEF SvcDrop
  <1>15. CASE SvcDispatched
    BY <1>15 DEF SvcDispatched, ServiceState, ServicePcs
  <1>16. ASSUME NEW p \in Entries, ChildReady(p)
         PROVE  TypeOK'
    BY <1>16 DEF ChildReady, EntryState
  <1>17. ASSUME NEW p \in Entries, ChildEnds(p)
         PROVE  TypeOK'
    <2>1. entry' \in [Entries -> EntryState]
      BY <1>17 DEF ChildEnds, EntryState
    <2>2. [svc EXCEPT !.childExited = TRUE] \in ServiceState
      BY DEF ServiceState
    <2>3. svc' \in ServiceState
      BY <1>17, <2>2, SignalMoves DEF ChildEnds
    <2>4. QED
      BY <1>17, <2>1, <2>3 DEF ChildEnds
  <1>18. CASE UNCHANGED vars
    BY <1>18 DEF vars
  <1>19. QED
    BY <1>1, <1>2, <1>3, <1>4, <1>5, <1>6, <1>7, <1>8, <1>9, <1>10, <1>11,
       <1>12, <1>13, <1>14, <1>15, <1>16, <1>17, <1>18
    DEF Next, RmStep, SvcStep

-----------------------------------------------------------------------------
(* The invariant.                                                          *)

\* It holds when the queue child starts.
LEMMA ChannelInit == Init => ChannelInv
  <1> SUFFICES ASSUME Init
               PROVE  ChannelInv
    OBVIOUS
  <1>1. TypeOK
    BY TypeInit
  <1>2. \A p \in Entries : entry[p].state = "idle" /\ entry[p].stop = FALSE
    BY DEF Init
  <1>3. LockHolders
    BY DEF Init, LockHolders, Idle
  <1>4. JobsInWindow
    BY <1>2, NumberFacts DEF Init, JobsInWindow, Busy
  <1>5. NamedInWindow
    BY DEF Init, NamedInWindow, Idle
  <1>6. CommandsRecent
    BY DEF Init, CommandsRecent
  <1>7. StoppedWasAsked
    BY <1>2 DEF StoppedWasAsked
  <1>8. QED
    BY <1>1, <1>3, <1>4, <1>5, <1>6, <1>7 DEF ChannelInv

\* The lock on .command stays with whom it guards.
LEMMA LockStep == TypeOK /\ LockHolders /\ [Next]_vars => LockHolders'
  <1> SUFFICES ASSUME TypeOK, LockHolders, [Next]_vars
               PROVE  LockHolders'
    OBVIOUS
  <1> USE DEF TypeOK, LockHolders
  <1>1. Free # Service /\ Service \notin Removers
    BY ChannelAssumption
  <1>2. CASE Submit
    <2>1. \/ svc'.pc = svc.pc /\ svc'.cut = svc.cut
          \/ svc'.pc = "awake"
          \/ svc'.pc = "dispatch" /\ svc'.cut
      BY <1>2, SignalMoves DEF Submit
    <2>2. QED
      BY <1>2, <2>1 DEF Submit
  <1>3. ASSUME NEW r \in Removers, RmStart(r) \/ RmLock(r) \/ RmNoChild(r)
        PROVE  LockHolders'
    <2>1. ASSUME NEW q \in Removers, rm'[q].pc = "signal"
          PROVE  rm'[q] = rm[q]
      <3>1. CASE q = r
        BY <1>3, <2>1, <3>1 DEF RmStart, RmLock, RmNoChild, RemoverState, Idle
      <3>2. CASE q # r
        BY <1>3, <3>2 DEF RmStart, RmLock, RmNoChild
      <3>3. QED
        BY <3>1, <3>2
    <2>2. UNCHANGED <<commandLock, command, svc>>
      BY <1>3 DEF RmStart, RmLock, RmNoChild
    <2>3. QED
      BY <2>1, <2>2
  <1>4. ASSUME NEW r \in Removers, RmWriteCommand(r)
        PROVE  LockHolders'
    <2>1. commandLock' = r /\ commandLock \in {Free, r} /\ svc' = svc
      BY <1>4 DEF RmWriteCommand, CommandLockAvailable
    <2>2. command'.jobnum = rm'[r].jobnum
      BY <1>4 DEF RmWriteCommand, RemoverState
    <2>3. \A q \in Removers : q # r => rm'[q] = rm[q]
      BY <1>4 DEF RmWriteCommand
    <2>4. \A q \in Removers : q # r => rm'[q].pc # "signal"
      BY <2>1, <2>3, ChannelAssumption
    <2>5. QED
      BY <1>1, <2>1, <2>2, <2>4
  <1>5. ASSUME NEW r \in Removers, RmSignal(r)
        PROVE  LockHolders'
    <2>1. \/ svc'.pc = svc.pc /\ svc'.cut = svc.cut
          \/ svc'.pc \in {"dead", "awake"}
          \/ svc'.pc = "dispatch" /\ svc'.cut
      BY <1>5, ArrivalMoves DEF RmSignal
    <2>2. QED
      BY <1>5, <2>1 DEF RmSignal, RemoverState
  <1>6. ASSUME NEW r \in Removers, RmJobOver(r)
        PROVE  LockHolders'
    BY <1>1, <1>6 DEF RmJobOver, RemoverState, Idle
  <1>7. ASSUME NEW r \in Removers, RmRefused(r) \/ RmOtherwise(r)
        PROVE  LockHolders'
    <2>1. /\ rm' = [rm EXCEPT ![r] = Idle]
          /\ commandLock' = IF commandLock = r THEN Free ELSE commandLock
          /\ UNCHANGED <<command, svc>>
      BY <1>7 DEF RmRefused, RmOtherwise
    <2>2. QED
      BY <1>1, <2>1 DEF Idle
  <1>8. CASE SvcSend \/ SvcForked \/ SvcSendNothing \/ SvcPause \/ SvcHarvest
    BY <1>8 DEF SvcSend, SvcForked, SvcSendNothing, SvcPause, SvcHarvest, ServiceState
  <1>9. CASE SvcLockCommand \/ SvcDispatch \/ SvcDrop
    <2>1. CASE SvcLockCommand
      BY <1>1, <2>1, ChannelAssumption DEF SvcLockCommand, ServiceState
    <2>2. CASE SvcDispatch \/ SvcDrop
      BY <2>2 DEF SvcDispatch, SvcDrop, ServiceState
    <2>3. QED
      BY <1>9, <2>1, <2>2
  <1>10. CASE SvcDispatched
    BY <1>1, <1>10 DEF SvcDispatched, ServiceState
  <1>11. ASSUME NEW p \in Entries, ChildReady(p)
         PROVE  LockHolders'
    BY <1>11 DEF ChildReady
  <1>12. ASSUME NEW p \in Entries, ChildEnds(p)
         PROVE  LockHolders'
    <2> DEFINE s == [svc EXCEPT !.childExited = TRUE]
    <2>1. s \in ServiceState /\ s.pc = svc.pc /\ s.cut = svc.cut
      BY DEF ServiceState
    <2>2. svc' = svc \/ svc' \in AfterSignal(s)
      BY <1>12 DEF ChildEnds
    <2> HIDE DEF s
    <2>3. \/ svc'.pc = svc.pc /\ svc'.cut = svc.cut
          \/ svc'.pc = "awake"
          \/ svc'.pc = "dispatch" /\ svc'.cut
      BY <2>1, <2>2, SignalMoves
    <2>4. QED
      BY <1>12, <2>3 DEF ChildEnds
  <1>13. CASE UNCHANGED vars
    BY <1>13 DEF vars
  <1>14. QED
    BY <1>2, <1>3, <1>4, <1>5, <1>6, <1>7, <1>8, <1>9, <1>10, <1>11, <1>12, <1>13
    DEF Next, RmStep, SvcStep

\* The jobs at printers and the jobs waiting stay within QUEUE_LENGTH.
LEMMA WindowStep == TypeOK /\ JobsInWindow /\ [Next]_vars => JobsInWindow'
  <1> SUFFICES ASSUME TypeOK, JobsInWindow, [Next]_vars
               PROVE  JobsInWindow'
    OBVIOUS
  <1> USE DEF TypeOK, JobsInWindow, Busy
  <1>1. CASE Submit
    <2>1. submitted + 1 <= sent + QUEUE_LENGTH
      <3>1. CASE sent < submitted
        <4>1. sent + 1 \in (sent + 1) .. submitted
          BY <3>1
        <4>2. submitted + 1 - (sent + 1) < QUEUE_LENGTH
          BY <1>1, <4>1 DEF Submit, Room
        <4>3. QED
          BY <4>2, NumberFacts
      <3>2. CASE sent = submitted
        BY <3>2, NumberFacts
      <3>3. QED
        BY <3>1, <3>2
    <2>2. ASSUME NEW p \in Busy
          PROVE  submitted + 1 < entry[p].serial + QUEUE_LENGTH
      <3>1. submitted + 1 - entry[p].serial < QUEUE_LENGTH
        BY <1>1 DEF Submit, Room
      <3>2. entry[p].serial \in Nat
        BY DEF EntryState
      <3>3. PICK n \in Nat : n = entry[p].serial
        BY <3>2
      <3>4. submitted + 1 - n < QUEUE_LENGTH
        BY <3>1, <3>3
      <3>5. submitted + 1 < n + QUEUE_LENGTH
        BY <3>4, NumberFacts
      <3>6. QED
        BY <3>3, <3>5
    <2>3. QED
      BY <1>1, <2>1, <2>2 DEF Submit
  <1>2. ASSUME NEW r \in Removers, RmStart(r) \/ RmStep(r)
        PROVE  JobsInWindow'
    BY <1>2 DEF RmStart, RmStep, RmLock, RmWriteCommand, RmSignal, RmNoChild,
       RmJobOver, RmRefused, RmOtherwise
  <1>3. CASE SvcSend
    <2>1. sent' = sent + 1 /\ sent < submitted /\ submitted' = submitted
      BY <1>3 DEF SvcSend, CanSend
    <2>2. ASSUME NEW p \in Entries, entry'[p].state # "idle"
          PROVE  /\ entry'[p].serial \in 1 .. sent'
                 /\ entry'[p].jobnum = NumberOf(entry'[p].serial)
                 /\ submitted' < entry'[p].serial + QUEUE_LENGTH
      <3>1. CASE p = NextEligible
        <4>1. entry'[p].serial = sent + 1 /\ entry'[p].jobnum = TailNumber
          BY <1>3, <3>1 DEF SvcSend
        <4>2. sent + 1 - 1 = sent
          OBVIOUS
        <4>3. QED
          BY <2>1, <4>1, <4>2, NumberFacts DEF TailNumber, NumberOf
      <3>2. CASE p # NextEligible
        <4>1. entry'[p] = entry[p]
          BY <1>3, <3>2 DEF SvcSend
        <4>2. /\ entry[p].serial \in 1 .. sent
              /\ entry[p].jobnum = NumberOf(entry[p].serial)
              /\ submitted < entry[p].serial + QUEUE_LENGTH
          BY <2>2, <4>1
        <4>3. entry[p].serial \in 1 .. sent + 1
          BY <4>2
        <4>4. QED
          BY <2>1, <4>1, <4>2, <4>3
      <3>3. QED
        BY <3>1, <3>2
    <2>3. QED
      BY <2>1, <2>2, NumberFacts
  <1>4. CASE SvcForked \/ SvcSendNothing \/ SvcPause \/ SvcLockCommand \/ SvcDrop
             \/ SvcDispatched
    BY <1>4 DEF SvcForked, SvcSendNothing, SvcPause, SvcLockCommand, SvcDrop,
       SvcDispatched
  <1>5. CASE SvcHarvest
    <2>1. \A p \in Entries : entry'[p].state # "idle" => entry'[p] = entry[p]
      BY <1>5 DEF SvcHarvest, Harvested, EntryState
    <2>2. QED
      BY <1>5, <2>1 DEF SvcHarvest
  <1>6. CASE SvcDispatch
    <2>1. \A p \in Entries : /\ entry'[p].state = entry[p].state
                             /\ entry'[p].serial = entry[p].serial
                             /\ entry'[p].jobnum = entry[p].jobnum
      BY <1>6 DEF SvcDispatch, EntryState
    <2>2. QED
      BY <1>6, <2>1 DEF SvcDispatch
  <1>7. ASSUME NEW c \in Entries, ChildReady(c) \/ ChildEnds(c)
        PROVE  JobsInWindow'
    <2>1. \A p \in Entries : /\ entry'[p].state # "idle" => entry[p].state # "idle"
                             /\ entry'[p].serial = entry[p].serial
                             /\ entry'[p].jobnum = entry[p].jobnum
      <3>1. \E state \in {"printing", "zombie"} :
              /\ entry[c].state # "idle"
              /\ entry' = [entry EXCEPT ![c].state = state]
        BY <1>7 DEF ChildReady, ChildEnds
      <3>2. QED
        BY <3>1 DEF EntryState
    <2>2. QED
      BY <1>7, <2>1 DEF ChildReady, ChildEnds
  <1>8. CASE UNCHANGED vars
    BY <1>8 DEF vars
  <1>9. QED
    BY <1>1, <1>2, <1>3, <1>4, <1>5, <1>6, <1>7, <1>8 DEF Next, SvcStep

\* The job a pprm has named stays within QUEUE_LENGTH while it holds .lock.
LEMMA NamedStep ==
    TypeOK /\ JobsInWindow /\ NamedInWindow /\ [Next]_vars => NamedInWindow'
  <1> SUFFICES ASSUME TypeOK, JobsInWindow, NamedInWindow, [Next]_vars
               PROVE  NamedInWindow'
    OBVIOUS
  <1> USE DEF TypeOK
  <1> DEFINE Named(r) ==
        \E s \in asked : /\ s <= sent /\ NumberOf(s) = rm[r].jobnum
                         /\ submitted < s + QUEUE_LENGTH
  <1>1. CASE Submit
    <2>1. \A r \in Removers : rm[r].pc \notin {"lockcommand", "signal"}
      BY <1>1, ChannelAssumption DEF Submit, NamedInWindow
    <2>2. QED
      BY <1>1, <2>1 DEF Submit, NamedInWindow
  \* A step of r's: the other processes keep what they have, and .lock with
  \* it, for it is not r's; and r has named a job already or does so now.
  <1>2. ASSUME NEW r \in Removers, RmStart(r) \/ RmStep(r)
        PROVE  NamedInWindow'
    <2>1. submitted' = submitted /\ sent' = sent /\ asked \subseteq asked'
      BY <1>2 DEF RmStart, RmStep, RmLock, RmWriteCommand, RmSignal, RmNoChild,
         RmJobOver, RmRefused, RmOtherwise
    <2>2. \A q \in Removers : q # r => rm'[q] = rm[q]
      BY <1>2 DEF RmStart, RmStep, RmLock, RmWriteCommand, RmSignal, RmNoChild,
         RmJobOver, RmRefused, RmOtherwise
    <2>3. \A q \in Removers : q # r => (lock = q => lock' = q)
      <3>1. lock' = lock \/ lock = Free \/ lock = r
        BY <1>2 DEF RmStart, RmStep, RmLock, RmWriteCommand, RmSignal, RmNoChild,
           RmJobOver, RmRefused, RmOtherwise, LockAfterJob
      <3>2. QED
        BY <3>1, ChannelAssumption
    <2>4. ASSUME NEW q \in Removers, q # r, rm'[q].pc \in {"lockcommand", "signal"}
          PROVE  lock' = q /\ Named(q)'
      <3>1. lock = q /\ Named(q)
        BY <2>2, <2>4 DEF NamedInWindow
      <3>2. QED
        BY <2>1, <2>2, <2>3, <2>4, <3>1
    <2>5. ASSUME rm'[r].pc \in {"lockcommand", "signal"}
          PROVE  lock' = r /\ Named(r)'
      <3>1. CASE RmLock(r)
        <4>1. PICK p \in Busy :
                 /\ rm' = [rm EXCEPT ![r].pc = "lockcommand",
                                     ![r].jobnum = entry[p].jobnum]
                 /\ asked' = asked \cup {entry[p].serial}
          BY <3>1 DEF RmLock
        <4>2. rm'[r].jobnum = NumberOf(entry[p].serial)
          BY <4>1 DEF JobsInWindow, RemoverState
        <4>3. entry[p].serial <= sent /\ submitted < entry[p].serial + QUEUE_LENGTH
          BY DEF JobsInWindow
        <4>4. QED
          BY <2>1, <3>1, <4>1, <4>2, <4>3 DEF RmLock
      <3>2. CASE RmWriteCommand(r)
        <4>1. /\ rm[r].pc = "lockcommand" /\ rm'[r].jobnum = rm[r].jobnum
              /\ lock' = lock
          BY <3>2 DEF RmWriteCommand, RemoverState
        <4>2. QED
          BY <2>1, <4>1 DEF NamedInWindow
      <3>3. CASE ~RmLock(r) /\ ~RmWriteCommand(r)
        <4>1. CASE RmStart(r)
          BY <2>5, <4>1 DEF RmStart, Idle
        <4>2. CASE RmSignal(r) \/ RmNoChild(r)
          BY <2>5, <4>2 DEF RmSignal, RmNoChild, RemoverState
        <4>3. CASE RmJobOver(r)
          BY <2>5, <4>3 DEF RmJobOver, Idle, RemoverState
        <4>4. CASE RmRefused(r) \/ RmOtherwise(r)
          BY <2>5, <4>4 DEF RmRefused, RmOtherwise, Idle
        <4>5. QED
          BY <1>2, <3>3, <4>1, <4>2, <4>3, <4>4 DEF RmStep
      <3>4. QED
        BY <3>1, <3>2, <3>3
    <2>6. QED
      BY <2>4, <2>5 DEF NamedInWindow
  <1>3. CASE SvcStep \/ \E p \in Entries : ChildReady(p) \/ ChildEnds(p)
    <2>1. UNCHANGED <<lock, rm, asked, submitted>> /\ sent' \in {sent, sent + 1}
      BY <1>3 DEF SvcStep, SvcSend, SvcForked, SvcSendNothing, SvcPause, SvcHarvest,
         SvcLockCommand, SvcDispatch, SvcDrop, SvcDispatched, ChildReady, ChildEnds
    <2>2. \A s \in asked : s <= sent => s <= sent'
      BY <2>1
    <2>3. QED
      BY <2>1, <2>2 DEF NamedInWindow
  <1>4. CASE UNCHANGED vars
    BY <1>4 DEF vars, NamedInWindow
  <1>5. QED
    BY <1>1, <1>2, <1>3, <1>4 DEF Next

\* A number asked for stays one, as long as no job is sent.
LEMMA AskedForStays ==
    ASSUME asked \subseteq asked', sent' = sent, NEW n, NEW d
    PROVE  AskedFor(n, d) => AskedFor(n, d)'
  BY DEF AskedFor

\* A number asked for less than QUEUE_LENGTH jobs ago was asked for less than
\* one more ago.
LEMMA AskedForLonger ==
    ASSUME TypeOK, NEW n, AskedFor(n, QUEUE_LENGTH)
    PROVE  AskedFor(n, QUEUE_LENGTH + 1)
  <1>1. PICK s \in asked : s <= sent /\ NumberOf(s) = n /\ sent < s + QUEUE_LENGTH
    BY DEF AskedFor
  <1>2. sent < s + (QUEUE_LENGTH + 1)
    BY <1>1, NumberFacts DEF TypeOK
  <1>3. QED
    BY <1>1, <1>2 DEF AskedFor

\* Commands are dispatched within one round of the loop.
LEMMA RecentStep ==
    TypeOK /\ LockHolders /\ NamedInWindow /\ CommandsRecent /\ [Next]_vars
    => CommandsRecent'
  <1> SUFFICES ASSUME TypeOK, LockHolders, NamedInWindow, CommandsRecent, [Next]_vars
               PROVE  CommandsRecent'
    OBVIOUS
  <1> USE DEF TypeOK
  \* As long as no job is sent, it is enough that what is on the list was
  \* there, and that the loop does not begin anew.
  <1>1. ASSUME asked \subseteq asked', sent' = sent, list' = list,
               svc'.temp = svc.temp, svc'.pending = svc.pending \/ svc'.pending,
               svc'.pc = "loop" => svc.pc = "loop" \/ list = << >>,
               svc.pc \in {"drop", "dead"} => svc'.pc = svc.pc \/ svc'.pc = "dead"
        PROVE  CommandsRecent'
    <2>1. \A n, d : AskedFor(n, d) => AskedFor(n, d)'
      BY <1>1, AskedForStays
    <2>2. QED
      BY <1>1, <2>1 DEF CommandsRecent
  <1>2. CASE Submit
    <2>1. /\ svc'.temp = svc.temp /\ svc'.pending = svc.pending
          /\ svc'.pc = "loop" => svc.pc = "loop"
          /\ svc.pc \in {"drop", "dead"} => svc'.pc = svc.pc
      BY <1>2, SignalMoves DEF Submit
    <2>2. QED
      BY <1>1, <1>2, <2>1 DEF Submit
  <1>3. ASSUME NEW r \in Removers, RmStart(r) \/ RmLock(r) \/ RmWriteCommand(r)
                 \/ RmNoChild(r) \/ RmJobOver(r) \/ RmRefused(r) \/ RmOtherwise(r)
        PROVE  CommandsRecent'
    <2>1. asked \subseteq asked' /\ UNCHANGED <<sent, list, svc>>
      BY <1>3 DEF RmStart, RmLock, RmWriteCommand, RmNoChild, RmJobOver,
         RmRefused, RmOtherwise
    <2>2. QED
      BY <1>1, <2>1
  <1>4. ASSUME NEW r \in Removers, RmSignal(r)
        PROVE  CommandsRecent'
    <2>1. CommandArrives(command) /\ svc.pc # "dead" /\ UNCHANGED <<asked, sent>>
      BY <1>4 DEF RmSignal
    <2>2. AskedFor(command.jobnum, QUEUE_LENGTH)
      <3>1. rm[r].pc = "signal" /\ command.jobnum = rm[r].jobnum
        BY <1>4 DEF RmSignal, LockHolders
      <3>2. PICK s \in asked : /\ s <= sent /\ NumberOf(s) = command.jobnum
                               /\ submitted < s + QUEUE_LENGTH
        BY <3>1 DEF NamedInWindow
      <3>3. sent < s + QUEUE_LENGTH
        BY <3>2, NumberFacts
      <3>4. QED
        BY <3>2, <3>3 DEF AskedFor
    <2>3. CASE svc'.pc = "dead" /\ list' = list /\ svc'.pending = svc.pending
      BY <1>1, <2>1, <2>3, ArrivalMoves
    <2>4. CASE svc'.pending /\ list' \in ListAfter(command)
      <3>1. /\ svc'.temp = svc.temp
            /\ svc'.pc = "loop" => svc.pc = "loop"
            /\ svc.pc = "drop" => svc'.pc \in {"drop", "dead"}
        BY <2>1, ArrivalMoves
      <3>2. \A n, d : AskedFor(n, d) => AskedFor(n, d)'
        BY <2>1, AskedForStays
      <3>3. ASSUME NEW i \in 1 .. Len(list')
            PROVE  /\ AskedFor(list'[i].jobnum, QUEUE_LENGTH + 1)
                   /\ svc'.pc = "loop" => AskedFor(list'[i].jobnum, QUEUE_LENGTH)
        <4>1. CASE list'[i] = command
          BY <2>2, <4>1, AskedForLonger
        <4>2. CASE i \in 1 .. Len(list) /\ list'[i] = list[i]
          BY <3>1, <4>2 DEF CommandsRecent
        <4>3. QED
          BY <2>4, <4>1, <4>2, ListGrows
      <3>4. QED
        BY <2>1, <2>4, <3>1, <3>2, <3>3 DEF CommandsRecent
    <2>5. QED
      BY <2>1, <2>3, <2>4, ArrivalMoves
  <1>5. CASE SvcSend
    <2>1. /\ sent' = sent + 1 /\ UNCHANGED <<list, asked>>
          /\ svc.pc = "loop" /\ svc'.pc = "forked"
          /\ svc'.temp = svc.temp /\ svc'.pending = svc.pending
      BY <1>5 DEF SvcSend, ServiceState
    <2>2. ASSUME NEW n, AskedFor(n, QUEUE_LENGTH)
          PROVE  AskedFor(n, QUEUE_LENGTH + 1)'
      <3>1. PICK s \in asked : /\ s <= sent /\ NumberOf(s) = n
                               /\ sent < s + QUEUE_LENGTH
        BY <2>2 DEF AskedFor
      <3>2. s <= sent + 1 /\ sent + 1 < s + (QUEUE_LENGTH + 1)
        <4>1. s \in Nat
          OBVIOUS
        <4>2. QED
          BY <3>1, <4>1, NumberFacts
      <3>3. QED
        BY <2>1, <3>1, <3>2 DEF AskedFor
    <2>3. svc.temp = << >>
      BY <2>1 DEF CommandsRecent
    <2>4. QED
      BY <2>1, <2>2, <2>3 DEF CommandsRecent
  <1>6. CASE SvcForked \/ SvcSendNothing \/ SvcPause \/ SvcLockCommand
    <2>1. /\ UNCHANGED <<asked, sent, list>>
          /\ svc.pc \notin {"drop", "dead"} /\ svc'.pc # "loop"
          /\ svc'.temp = svc.temp /\ svc'.pending = svc.pending
      BY <1>6 DEF SvcForked, SvcSendNothing, SvcPause, SvcLockCommand, ServiceState
    <2>2. QED
      BY <1>1, <2>1
  <1>7. CASE SvcHarvest
    <2>1. /\ UNCHANGED <<asked, sent, list>> /\ svc.pc = "awake"
          /\ svc'.temp = svc.temp /\ svc'.pending = svc.pending
          /\ svc'.pc = "loop" => ~svc.pending
      BY <1>7 DEF SvcHarvest, ServiceState
    <2>2. svc'.pc = "loop" => list = << >>
      BY <2>1 DEF CommandsRecent
    <2>3. QED
      BY <1>1, <2>1, <2>2
  <1>8. CASE SvcDispatch
    <2>1. /\ UNCHANGED <<asked, sent, list>> /\ svc'.pc = "drop"
          /\ list # << >> /\ svc'.temp = Tail(list) /\ svc'.pending = svc.pending
      BY <1>8 DEF SvcDispatch, ServiceState
    <2>2. \A n, d : AskedFor(n, d) => AskedFor(n, d)'
      BY <2>1, AskedForStays
    <2>3. ASSUME NEW i \in 1 .. Len(Tail(list))
          PROVE  i + 1 \in 1 .. Len(list) /\ Tail(list)[i] = list[i + 1]
      BY <2>1
    <2>4. QED
      BY <2>1, <2>2, <2>3 DEF CommandsRecent
  <1>9. CASE SvcDrop
    <2>1. /\ UNCHANGED <<asked, sent>> /\ list' = svc.temp
          /\ svc'.pc = "dispatch" /\ svc'.temp = << >> /\ svc'.pending = svc.pending
      BY <1>9 DEF SvcDrop, ServiceState
    <2>2. \A n, d : AskedFor(n, d) => AskedFor(n, d)'
      BY <2>1, AskedForStays
    <2>3. QED
      BY <2>1, <2>2 DEF CommandsRecent
  <1>10. CASE SvcDispatched
    <2>1. /\ UNCHANGED <<asked, sent, list>> /\ svc.pc = "dispatch" /\ list = << >>
          /\ svc'.temp = svc.temp /\ svc'.pending = svc.pending
      BY <1>10 DEF SvcDispatched, ServiceState
    <2>2. QED
      BY <1>1, <2>1
  <1>11. ASSUME NEW p \in Entries, ChildReady(p)
         PROVE  CommandsRecent'
    BY <1>1, <1>11 DEF ChildReady
  <1>12. ASSUME NEW p \in Entries, ChildEnds(p)
         PROVE  CommandsRecent'
    <2> DEFINE s == [svc EXCEPT !.childExited = TRUE]
    <2>1. /\ s \in ServiceState /\ s.pc = svc.pc
          /\ s.temp = svc.temp /\ s.pending = svc.pending
      BY DEF ServiceState
    <2>2. svc' = svc \/ svc' \in AfterSignal(s)
      BY <1>12 DEF ChildEnds
    <2> HIDE DEF s
    <2>3. /\ svc'.temp = svc.temp /\ svc'.pending = svc.pending
          /\ svc'.pc = "loop" => svc.pc = "loop"
          /\ svc.pc \in {"drop", "dead"} => svc'.pc = svc.pc
      BY <2>1, <2>2, SignalMoves
    <2>4. QED
      BY <1>1, <1>12, <2>3 DEF ChildEnds
  <1>13. CASE UNCHANGED vars
    BY <1>1, <1>13 DEF vars
  <1>14. QED
    BY <1>2, <1>3, <1>4, <1>5, <1>6, <1>7, <1>8, <1>9, <1>10, <1>11, <1>12, <1>13
    DEF Next, RmStep, SvcStep

\* A child is stopped for a job that was asked for: see above.
LEMMA StoppedStep ==
    TypeOK /\ JobsInWindow /\ CommandsRecent /\ StoppedWasAsked /\ [Next]_vars
    => StoppedWasAsked'
  <1> SUFFICES ASSUME TypeOK, JobsInWindow, CommandsRecent, StoppedWasAsked,
                      [Next]_vars
               PROVE  StoppedWasAsked'
    OBVIOUS
  <1> USE DEF TypeOK, StoppedWasAsked
  <1>1. CASE Submit \/ \E r \in Removers : RmStart(r) \/ RmStep(r)
    <2>1. asked \subseteq asked' /\ entry' = entry
      BY <1>1 DEF Submit, RmStart, RmStep, RmLock, RmWriteCommand, RmSignal,
         RmNoChild, RmJobOver, RmRefused, RmOtherwise
    <2>2. QED
      BY <2>1
  <1>2. CASE SvcSend
    BY <1>2 DEF SvcSend
  <1>3. CASE SvcForked \/ SvcSendNothing \/ SvcPause \/ SvcLockCommand \/ SvcDrop
             \/ SvcDispatched
    BY <1>3 DEF SvcForked, SvcSendNothing, SvcPause, SvcLockCommand, SvcDrop,
       SvcDispatched
  <1>4. CASE SvcHarvest
    <2>1. \A p \in Entries : entry'[p] = entry[p] \/ ~entry'[p].stop
      BY <1>4 DEF SvcHarvest, Harvested, EntryState
    <2>2. QED
      BY <1>4, <2>1 DEF SvcHarvest
  <1>5. CASE SvcDispatch
    <2>1. ASSUME NEW p \in ToStop(Head(list).jobnum)
          PROVE  entry[p].serial \in asked
      <3>1. /\ p \in Busy
            /\ NumberOf(entry[p].serial) = Head(list).jobnum
            /\ entry[p].serial \in 1 .. sent
            /\ submitted < entry[p].serial + QUEUE_LENGTH
        BY DEF ToStop, JobsInWindow
      <3>2. AskedFor(Head(list).jobnum, QUEUE_LENGTH + 1)
        BY <1>5 DEF SvcDispatch, CommandsRecent
      <3>3. PICK s \in asked : /\ s <= sent /\ sent < s + (QUEUE_LENGTH + 1)
                               /\ NumberOf(s) = Head(list).jobnum
        BY <3>2 DEF AskedFor
      <3>4. PICK t \in Nat \ {0} : t = entry[p].serial
        BY <3>1
      <3>5. s \in Nat \ {0}
        OBVIOUS
      <3>6. s - t < 2 * QUEUE_LENGTH /\ t - s < 2 * QUEUE_LENGTH
        <4>1. t <= sent /\ submitted < t + QUEUE_LENGTH
          BY <3>1, <3>4
        <4>2. \A a, b, m, n, q \in Nat :
                 /\ q >= 1 /\ a <= m /\ b <= m /\ m <= n
                 /\ m < a + (q + 1) /\ n < b + q
                 => a - b < 2 * q /\ b - a < 2 * q
          OBVIOUS
        <4>3. QED
          BY <3>3, <3>5, <4>1, <4>2, NumberFacts
      <3>7. s = t
        BY <3>1, <3>3, <3>4, <3>5, <3>6, NumbersDiffer
      <3>8. QED
        BY <3>4, <3>7
    <2>2. ASSUME NEW p \in Entries, entry'[p].stop
          PROVE  entry'[p].serial \in asked
      <3>1. CASE p \in ToStop(Head(list).jobnum) /\ entry[p].state = "printing"
        <4>1. entry'[p].serial = entry[p].serial
          BY <1>5 DEF SvcDispatch, EntryState
        <4>2. QED
          BY <2>1, <3>1, <4>1
      <3>2. CASE ~(p \in ToStop(Head(list).jobnum) /\ entry[p].state = "printing")
        <4>1. entry'[p] = entry[p]
          BY <1>5, <3>2 DEF SvcDispatch
        <4>2. QED
          BY <2>2, <4>1
      <3>3. QED
        BY <3>1, <3>2
    <2>3. asked' = asked
      BY <1>5 DEF SvcDispatch
    <2>4. QED
      BY <2>2, <2>3
  <1>6. ASSUME NEW c \in Entries, ChildReady(c) \/ ChildEnds(c)
        PROVE  StoppedWasAsked'
    <2>1. \E state \in {"printing", "zombie"} :
            entry' = [entry EXCEPT ![c].state = state]
      BY <1>6 DEF ChildReady, ChildEnds
    <2>2. \A p \in Entries : /\ entry'[p].stop = entry[p].stop
                             /\ entry'[p].serial = entry[p].serial
      BY <2>1 DEF EntryState
    <2>3. asked' = asked
      BY <1>6 DEF ChildReady, ChildEnds
    <2>4. QED
      BY <2>2, <2>3
  <1>7. CASE UNCHANGED vars
    BY <1>7 DEF vars
  <1>8. QED
    BY <1>1, <1>2, <1>3, <1>4, <1>5, <1>6, <1>7 DEF Next, SvcStep

\* The invariant holds throughout.
LEMMA ChannelInvariant == Spec => []ChannelInv
  <1>1. ChannelInv /\ [Next]_vars => ChannelInv'
    BY TypeStep, LockStep, WindowStep, NamedStep, RecentStep, StoppedStep
    DEF ChannelInv
  <1>2. QED
    BY <1>1, ChannelInit, PTL DEF Spec

-----------------------------------------------------------------------------
(* What follows.                                                           *)

\* The child that is told to stop prints the very job that was at a printer
\* when a pprm named it, however long the command waits and although job
\* numbers are used again (ppd.c 1292-1306, 759-799).
THEOREM OnlyAskedJobsStopped == Spec => []StoppedWasAsked
  <1>1. ChannelInv => StoppedWasAsked
    BY DEF ChannelInv
  <1>2. QED
    BY <1>1, ChannelInvariant, PTL

\* While the queue child works off its list it holds the lock on .command, and
\* no pprm signals, unless a signal has cut short the wait for that lock
\* (ppd.c 1276-1288, 1310-1322, pprm.c 573-614).
THEOREM DispatchUndisturbed == Spec => UndisturbedUnlessCut
  <1>1. /\ ChannelInv
        /\ svc.pc \in {"dispatch", "drop"} /\ ~svc.cut
        => \A r \in Removers : rm[r].pc # "signal"
    BY ChannelAssumption DEF ChannelInv, LockHolders
  <1>2. ChannelInv /\ [Next]_vars =>
          [svc.pc \in {"dispatch", "drop"} /\ ~svc.cut =>
             \A r \in Removers : ~(rm[r].pc = "signal" /\ rm'[r].pc = "await")]_vars
    BY <1>1
  <1>3. QED
    BY <1>2, ChannelInvariant, PTL DEF Spec, UndisturbedUnlessCut

=============================================================================
