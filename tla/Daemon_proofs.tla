---------------------------- MODULE Daemon_proofs ---------------------------
(***************************************************************************)
(* What holds of the main process of ppd for any number of starts, queues, *)
(* ppr processes, changes of the database and crashes.                     *)
(***************************************************************************)
EXTENDS Daemon, FiniteSetTheorems, TLAPS

MainPcs == {"off", "dead", "writepid", "readdb", "cleanse", "open", "waitpending",
            "check", "reset", "read", "topause", "paused"}

Databases == [Keys -> Statuses]

MainState ==
    [pc : MainPcs, db : Databases, asOf : Nat, next : Nat,
     reload : BOOLEAN, missed : BOOLEAN, late : BOOLEAN, behindGap : SUBSET Keys]

ChildState == [pc : {"none", "serving"}, up : BOOLEAN, parent : Pids \cup {0}]

PprState == [pc : {"idle", "notify", "append", "signal"}, key : Keys \cup {0}]

Lines == [key : Keys, told : Nat]

\* The type of the variables.
TypeOK ==
    /\ database \in Databases
    /\ version \in Nat /\ told \in Nat
    /\ editor \in BOOLEAN
    /\ waiting \in SUBSET Keys
    /\ exists \in BOOLEAN
    /\ pending \in Seq(Lines)
    /\ pendingLock \in {Free} \cup Senders \cup Pids
    /\ dpidLock \in {Free} \cup Pids
    /\ dpid \in {0} \cup Pids
    /\ main \in [Pids -> MainState]
    /\ taps \in [Pids -> Nat]
    /\ child \in [Keys -> ChildState]
    /\ \A k \in Keys : child[k].pc = "serving" => child[k].parent \in Pids
    /\ ppr \in [Senders -> PprState]
    /\ \A s \in Senders : ppr[s].pc \in {"notify", "append"} => ppr[s].key \in Keys
    /\ leftBehind \in SUBSET Keys
    /\ jobs \in Nat /\ crashes \in Nat

\* Program counters of a process that has locked .pending, and of one that
\* has the database and its pid in .dpid.
AtPending == {"check", "reset", "read"}
Informed == {"cleanse", "open", "waitpending", "topause", "paused"} \cup AtPending

\* Who reads or writes .pending holds the lock on it, and has not read past
\* its end; no line is there without the file.
PendingHeld ==
    /\ \A i \in Pids :
         main[i].pc \in AtPending
         => /\ pendingLock = i
            /\ main[i].next >= 1 /\ main[i].next <= Len(pending) + 1
    /\ \A s \in Senders : ppr[s].pc = "append" => pendingLock = s /\ exists
    /\ pending # << >> => exists

\* No notice is asleep with the daemon.
NoneStranded ==
    \A i \in Pids :
        main[i].pc \in {"topause", "paused"} /\ pending # << >>
        => main[i].missed \/ \E s \in Senders : ppr[s].pc = "signal"

\* The daemon has read the database since the last hangup, or is to read it
\* before it judges another line, or the hangup was late.
HangupsHeeded ==
    /\ told <= version
    /\ \A n \in 1 .. Len(pending) : pending[n].told <= told
    /\ \A i \in Pids :
         /\ main[i].pc \in Informed
            => \/ main[i].asOf >= told \/ main[i].late
               \/ main[i].reload /\ main[i].pc # "reset"
         /\ main[i].pc \in {"reset", "read"} /\ ~main[i].late
            => \A n \in 1 .. Len(pending) : main[i].asOf >= pending[n].told

\* Every process knows the record of a queue left behind as it is, so does the
\* queue's child, and a queue that is up has its child once the daemon has
\* cleansed it, unless it lay behind a gap then.
CrashHeeded ==
    /\ leftBehind \subseteq waiting
    /\ \A i \in Pids, k \in leftBehind :
         main[i].pc \in Informed => main[i].db[k] = database[k]
    /\ \A k \in leftBehind :
         child[k].pc = "serving" => (child[k].up <=> database[k] = "up")
    /\ \A i \in Pids, k \in leftBehind :
         main[i].pc \in Informed \ {"cleanse"} /\ database[k] = "up"
         => child[k].pc = "serving" \/ k \in main[i].behindGap

DaemonInv ==
    /\ TypeOK /\ OneDaemon /\ PendingHeld /\ NoneStranded /\ HangupsHeeded
    /\ CrashHeeded

-----------------------------------------------------------------------------
(* What a signal does.                                                     *)

\* The owners of the locks are all different, and no pid is 0.
LEMMA OwnerFacts ==
    /\ Free \notin Senders /\ Free \notin Pids
    /\ Senders \cap Pids = {} /\ 0 \notin Pids
    /\ Pids \subseteq Nat
  BY DaemonAssumption DEF Pids

\* The constant states are states.
LEMMA ConstantStates ==
    /\ NotStarted \in MainState
    /\ Dead \in MainState
    /\ NoChild \in ChildState
    /\ IdlePpr \in PprState
  <1>1. [k \in Keys |-> "none"] \in Databases
    BY DEF Databases, Statuses
  <1>2. QED
    BY <1>1 DEF NotStarted, Dead, MainState, MainPcs, NoChild, ChildState, IdlePpr, PprState

\* The record of a process that a signal has reached.
LEMMA HitFields ==
    ASSUME NEW m \in MainState, NEW h \in BOOLEAN
    PROVE  /\ Hit(m, h) \in MainState
           /\ Hit(m, h).pc = IF m.pc = "paused" THEN "open" ELSE m.pc
           /\ Hit(m, h).db = m.db
           /\ Hit(m, h).asOf = m.asOf
           /\ Hit(m, h).next = m.next
           /\ Hit(m, h).reload <=> m.reload \/ h
           /\ Hit(m, h).missed <=> m.missed \/ m.pc = "topause"
           /\ Hit(m, h).late <=> m.late \/ (h /\ m.pc = "reset")
           /\ Hit(m, h).behindGap = m.behindGap
  BY DEF Hit, MainState, MainPcs

\* A signal, a hangup or another, has reached at most the processes that run:
\* each has handled it, or has exited from the wait for the lock on .pending.
Untouched(j) == /\ main'[j] = main[j]
                /\ Running(j) => dpidLock' = dpidLock
Handled(j, h) == /\ Running(j)
                 /\ main'[j] = Hit(main[j], h)
                 /\ dpidLock' = dpidLock
Died(j) == /\ main[j].pc = "waitpending"
           /\ main'[j] = Dead
Heard(h) ==
    /\ main' \in [Pids -> MainState]
    /\ dpidLock' \in {Free, dpidLock}
    /\ \A j \in Pids : Untouched(j) \/ Handled(j, h) \/ Died(j)

\* A signal to the daemon is heard by it and by no other.
LEMMA SignalHeard ==
    ASSUME TypeOK, OneDaemon, NEW i \in Pids, NEW h \in BOOLEAN,
           Running(i), Signal(i, h)
    PROVE  Heard(h) /\ (Handled(i, h) \/ Died(i))
  <1> USE DEF TypeOK
  <1>1. PICK m \in AfterSignal(i, h) :
           /\ main' = [main EXCEPT ![i] = m]
           /\ dpidLock' = IF m.pc = "dead" THEN Free ELSE dpidLock
    BY DEF Signal
  <1>2. main[i] \in MainState /\ main[i].pc # "dead"
    BY DEF Running
  <1>3. \A j \in Pids : j # i => main'[j] = main[j] /\ ~Running(j)
    BY <1>1 DEF OneDaemon
  <1>4. CASE m = Hit(main[i], h)
    <2>1. m \in MainState /\ m.pc # "dead"
      BY <1>2, <1>4, HitFields
    <2>2. Handled(i, h) /\ dpidLock' = dpidLock
      BY <1>1, <1>4, <2>1 DEF Handled
    <2>3. \A j \in Pids : j # i => Untouched(j)
      BY <1>3 DEF Untouched
    <2>4. QED
      BY <1>1, <2>1, <2>2, <2>3 DEF Heard
  <1>5. CASE main[i].pc = "waitpending" /\ m = Dead
    <2>1. m \in MainState /\ m.pc = "dead"
      BY <1>5, ConstantStates DEF Dead, NotStarted
    <2>2. Died(i) /\ dpidLock' = Free
      BY <1>1, <1>5, <2>1 DEF Died
    <2>3. \A j \in Pids : j # i => Untouched(j)
      BY <1>3 DEF Untouched
    <2>4. QED
      BY <1>1, <2>1, <2>2, <2>3 DEF Heard
  <1>6. QED
    BY <1>4, <1>5 DEF AfterSignal

\* Nobody hears a signal that is not sent.
LEMMA NothingHeard ==
    ASSUME TypeOK, NEW h \in BOOLEAN, UNCHANGED <<main, dpidLock>>
    PROVE  Heard(h)
  BY DEF Heard, Untouched, TypeOK

\* The end of a child is heard by its parent, if that is the daemon still.
LEMMA ParentHears ==
    ASSUME TypeOK, OneDaemon, NEW i \in Pids, TellParent(i)
    PROVE  Heard(FALSE)
  BY SignalHeard, NothingHeard DEF TellParent

\* A notifier reaches the daemon, once its pid is in .dpid, and no other.
LEMMA DaemonHears ==
    ASSUME TypeOK, OneDaemon, NEW h \in BOOLEAN, SignalDaemon(h)
    PROVE  /\ Heard(h)
           /\ \A i \in Pids : Running(i) /\ main[i].pc # "writepid"
                              => Handled(i, h) \/ Died(i)
  <1>1. CASE dpidLock # Free /\ dpid \in Pids /\ Running(dpid)
    <2>1. Signal(dpid, h)
      BY <1>1 DEF SignalDaemon
    <2>2. \A i \in Pids : Running(i) => i = dpid
      BY <1>1 DEF OneDaemon
    <2>3. QED
      BY <1>1, <2>1, <2>2, SignalHeard
  <1>2. CASE ~(dpidLock # Free /\ dpid \in Pids /\ Running(dpid))
    <2>1. UNCHANGED <<main, dpidLock>>
      BY <1>2 DEF SignalDaemon
    <2>2. \A i \in Pids : ~(Running(i) /\ main[i].pc # "writepid")
      BY <1>2, OwnerFacts DEF OneDaemon
    <2>3. QED
      BY <2>1, <2>2, NothingHeard
  <1>3. QED
    BY <1>1, <1>2

\* What hearing a signal leaves of a process.
LEMMA HeardFields ==
    ASSUME TypeOK, NEW h \in BOOLEAN, Heard(h), NEW j \in Pids
    PROVE  /\ \/ main'[j].pc = main[j].pc
              \/ main[j].pc = "paused" /\ main'[j].pc = "open"
              \/ main[j].pc = "waitpending" /\ main'[j].pc = "dead"
           /\ main'[j].pc # "dead" =>
                /\ main'[j].db = main[j].db
                /\ main'[j].asOf = main[j].asOf
                /\ main'[j].next = main[j].next
                /\ main[j].reload => main'[j].reload
                /\ main[j].missed => main'[j].missed
                /\ main[j].late => main'[j].late
                /\ main'[j].behindGap = main[j].behindGap
  <1>1. main[j] \in MainState
    BY DEF TypeOK
  <1>2. CASE Untouched(j)
    BY <1>2 DEF Untouched
  <1>3. CASE Handled(j, h)
    BY <1>1, <1>3, HitFields DEF Handled
  <1>4. CASE Died(j)
    BY <1>1, <1>4 DEF Died, Dead, NotStarted
  <1>5. QED
    BY <1>2, <1>3, <1>4 DEF Heard

-----------------------------------------------------------------------------
(* Types.                                                                  *)

\* A process may go anywhere, from any place in .pending, with the flag reset.
LEMMA MovedTypes ==
    ASSUME NEW m \in MainState, NEW pc \in MainPcs, NEW n \in Nat
    PROVE  /\ [m EXCEPT !.pc = pc] \in MainState
           /\ [m EXCEPT !.pc = pc, !.next = n] \in MainState
           /\ [m EXCEPT !.pc = pc, !.reload = FALSE] \in MainState
  <1> HIDE DEF MainPcs
  <1>1. QED
    BY DEF MainState

\* Forking gives the queues children that had none, and changes no other.
LEMMA ForkTypes ==
    ASSUME TypeOK, NEW i \in Pids, NEW K \in SUBSET Keys, Forked(i, K)
    PROVE  /\ child' \in [Keys -> ChildState]
           /\ \A k \in Keys : child'[k].pc = "serving" => child'[k].parent \in Pids
           /\ taps' \in [Pids -> Nat]
           /\ \A k \in Keys :
                \/ child'[k] = child[k]
                \/ /\ k \in K
                   /\ child'[k] = [pc |-> "serving", up |-> main[i].db[k] = "up",
                                   parent |-> i]
           /\ \A k \in K : child'[k].pc = "serving"
  <1> DEFINE new(k) == [pc |-> "serving", up |-> main[i].db[k] = "up", parent |-> i]
  <1>1. \A k \in Keys : child'[k] = IF k \in K /\ child[k].pc = "none"
                                      THEN new(k) ELSE child[k]
    BY DEF Forked
  <1>2. \A k \in Keys : new(k) \in ChildState /\ new(k).pc = "serving" /\ new(k).parent = i
    BY DEF ChildState
  <1>3. \A k \in Keys : child[k] \in ChildState /\ child[k].pc \in {"none", "serving"}
    BY DEF TypeOK, ChildState
  <1>4. DOMAIN child' = Keys /\ child' = [k \in Keys |-> child'[k]]
    BY DEF Forked
  <1>5. child' \in [Keys -> ChildState]
    <2> HIDE DEF new
    <2>1. \A k \in Keys : child'[k] \in ChildState
      BY <1>1, <1>2, <1>3
    <2>2. QED
      BY <1>4, <2>1
  <1>6. taps' \in [Pids -> Nat]
    <2>1. IsFiniteSet(Keys)
      BY DaemonAssumption
    <2>2. Cardinality({k \in K : child[k].pc # "none"}) \in Nat
      <3>1. IsFiniteSet({k \in K : child[k].pc # "none"})
        BY <2>1, FS_Subset
      <3>2. QED
        BY <3>1, FS_CardinalityType
    <2>3. taps' = [taps EXCEPT ![i] = @ + Cardinality({k \in K : child[k].pc # "none"})]
      BY DEF Forked
    <2>4. QED
      BY <2>2, <2>3 DEF TypeOK
  <1>7. \A k \in Keys : child'[k].pc = "serving" => child'[k].parent \in Pids
    <2> HIDE DEF new
    <2>1. QED
      BY <1>1, <1>2 DEF TypeOK
  <1>8. \A k \in K : child'[k].pc = "serving"
    <2> HIDE DEF new
    <2>1. QED
      BY <1>1, <1>2, <1>3
  <1>9. QED
    BY <1>1, <1>5, <1>6, <1>7, <1>8

\* The types hold when nothing has started.
LEMMA TypeInit == Init => TypeOK
  <1> SUFFICES ASSUME Init
               PROVE  TypeOK
    OBVIOUS
  <1>1. database \in Databases
    BY DaemonAssumption DEF Init, Databases
  <1>2. \A k \in Keys : child[k].pc # "serving"
    BY DEF Init, NoChild
  <1>3. \A s \in Senders : ppr[s].pc = "idle"
    BY DEF Init, IdlePpr
  <1>4. /\ main \in [Pids -> MainState] /\ child \in [Keys -> ChildState]
        /\ ppr \in [Senders -> PprState] /\ taps \in [Pids -> Nat]
    BY ConstantStates DEF Init
  <1>5. editor \in BOOLEAN /\ exists \in BOOLEAN
    BY DEF Init
  <1>6. /\ version \in Nat /\ told \in Nat /\ jobs \in Nat /\ crashes \in Nat
    BY DEF Init
  <1>7. /\ pending \in Seq(Lines) /\ waiting \in SUBSET Keys
        /\ leftBehind \in SUBSET Keys
        /\ dpid \in {0} \cup Pids
        /\ pendingLock \in {Free} \cup Senders \cup Pids
        /\ dpidLock \in {Free} \cup Pids
    BY DEF Init
  <1>8. QED
    BY <1>1, <1>2, <1>3, <1>4, <1>5, <1>6, <1>7 DEF TypeOK

\* The steps of the main process keep the types.
LEMMA MainTypes ==
    ASSUME TypeOK, PendingHeld, NEW i \in Pids, Start(i) \/ MainStep(i)
    PROVE  TypeOK'
  <1> USE DEF TypeOK
  <1>0. main[i] \in MainState
    OBVIOUS
  <1>1. CASE Start(i)
    <2>1. \E pc \in MainPcs : main' = [main EXCEPT ![i] = [main[i] EXCEPT !.pc = pc]]
      BY <1>1 DEF Start, MainPcs
    <2>2. main' \in [Pids -> MainState]
      BY <1>0, <2>1, MovedTypes
    <2>3. QED
      BY <1>1, <2>2 DEF Start, files, world, bounds
  <1>3. CASE WritePid(i)
    BY <1>3 DEF WritePid, MainState, MainPcs, locks, world, bounds
  <1>4. CASE FirstRead(i)
    <2>1. [ReadDatabase(main[i]) EXCEPT !.pc = "cleanse"] \in MainState
      BY <1>0 DEF ReadDatabase, MainState, MainPcs
    <2>2. QED
      BY <1>4, <2>1 DEF FirstRead, files, locks, world, bounds
  <1>5. CASE CleanseQueues(i)
    <2>1. Cleansed(main[i].db) \in SUBSET Keys
      BY DEF Cleansed
    <2>2. /\ Forked(i, Cleansed(main[i].db))
          /\ main' = [main EXCEPT ![i] = [main[i] EXCEPT !.pc = "open",
                                              !.behindGap = BehindGap(main[i].db)]]
      BY <1>5 DEF CleanseQueues
    <2>3. main' \in [Pids -> MainState]
      <3>1. BehindGap(main[i].db) \in SUBSET Keys
        BY DEF BehindGap
      <3>2. [main[i] EXCEPT !.pc = "open", !.behindGap = BehindGap(main[i].db)]
               \in MainState
        BY <1>0, <3>1 DEF MainState, MainPcs
      <3>3. QED
        BY <2>2, <3>2
    <2>4. QED
      BY <1>5, <2>1, <2>2, <2>3, ForkTypes DEF CleanseQueues, files, locks, world, bounds
  <1>6. CASE OpenPending(i)
    <2>1. \A pc \in {"waitpending", "topause"} :
            [main[i] EXCEPT !.pc = pc, !.missed = FALSE] \in MainState
      BY <1>0 DEF MainState, MainPcs
    <2>2. \E pc \in {"waitpending", "topause"} :
            main' = [main EXCEPT ![i] = [main[i] EXCEPT !.pc = pc, !.missed = FALSE]]
      BY <1>6 DEF OpenPending
    <2>3. main' \in [Pids -> MainState]
      BY <2>1, <2>2
    <2>4. QED
      BY <1>6, <2>3 DEF OpenPending, files, locks, world, bounds
  <1>7. CASE LockPending(i)
    <2>1. main' = [main EXCEPT ![i] = [main[i] EXCEPT !.pc = "check", !.next = 1]]
      BY <1>7 DEF LockPending
    <2>2. main' \in [Pids -> MainState]
      BY <1>0, <2>1, MovedTypes DEF MainPcs
    <2>3. QED
      BY <1>7, <2>2 DEF LockPending, files, world, bounds
  <1>8. CASE CheckReload(i)
    <2>1. /\ [ReadDatabase(main[i]) EXCEPT !.pc = "reset", !.late = FALSE] \in MainState
          /\ [main[i] EXCEPT !.pc = "read"] \in MainState
      BY <1>0 DEF ReadDatabase, MainState, MainPcs
    <2>2. QED
      BY <1>8, <2>1 DEF CheckReload, files, locks, world, bounds
  <1>9. CASE ResetReload(i)
    <2>1. main' = [main EXCEPT ![i] = [main[i] EXCEPT !.pc = "read", !.reload = FALSE]]
      BY <1>9 DEF ResetReload
    <2>2. main' \in [Pids -> MainState]
      BY <1>0, <2>1, MovedTypes DEF MainPcs
    <2>3. QED
      BY <1>9, <2>2 DEF ResetReload, files, locks, world, bounds
  <1>10. CASE ReadLine(i)
    <2> DEFINE k == pending[main[i].next].key
               K == {l \in {k} : main[i].db[l] = "up"}
    <2>1. Forked(i, K) /\ main' = [main EXCEPT ![i].next = @ + 1]
      BY <1>10 DEF ReadLine
    <2>2. k \in Keys
      <3>1. main[i].next \in Nat /\ main[i].next <= Len(pending)
        BY <1>0, <1>10 DEF ReadLine, MainState
      <3>2. main[i].next >= 1
        BY <1>10 DEF ReadLine, PendingHeld, AtPending
      <3>3. pending[main[i].next] \in Lines
        BY <3>1, <3>2
      <3>4. QED
        BY <3>3 DEF Lines
    <2>3. main' \in [Pids -> MainState]
      <3>1. main[i].next + 1 \in Nat
        BY <1>0 DEF MainState
      <3>2. [main[i] EXCEPT !.next = main[i].next + 1] \in MainState
        BY <1>0, <3>1 DEF MainState
      <3>3. main' = [main EXCEPT ![i] = [main[i] EXCEPT !.next = main[i].next + 1]]
        BY <2>1
      <3>4. QED
        BY <3>2, <3>3
    <2> HIDE DEF k
    <2>5. K \in SUBSET Keys
      BY <2>2
    <2> HIDE DEF K
    <2>6. QED
      BY <1>10, <2>1, <2>3, <2>5, ForkTypes DEF ReadLine, files, locks, world, bounds
  <1>11. CASE TruncatePending(i)
    <2>1. main' \in [Pids -> MainState]
      <3>1. main' = [main EXCEPT ![i] = [main[i] EXCEPT !.pc = "topause", !.next = 1]]
        BY <1>11 DEF TruncatePending
      <3>2. QED
        BY <1>0, <3>1, MovedTypes DEF MainPcs
    <2>2. pending' \in Seq(Lines)
      BY <1>11 DEF TruncatePending
    <2>3. QED
      BY <1>11, <2>1, <2>2 DEF TruncatePending, LockAfterClose, world, bounds
  <1>12. CASE Pause(i)
    BY <1>12 DEF Pause, MainState, MainPcs, files, locks, world, bounds
  <1>13. QED
    BY <1>1, <1>3, <1>4, <1>5, <1>6, <1>7, <1>8, <1>9, <1>10, <1>11, <1>12
    DEF MainStep

\* The other steps keep them too.
LEMMA TypeStep ==
    TypeOK /\ OneDaemon /\ PendingHeld /\ [Next]_vars => TypeOK'
  <1> SUFFICES ASSUME TypeOK, OneDaemon, PendingHeld, [Next]_vars
               PROVE  TypeOK'
    OBVIOUS
  <1> USE DEF TypeOK, files, locks, world, bounds
  <1>1. ASSUME NEW i \in Pids, Start(i) \/ MainStep(i)
        PROVE  TypeOK'
    BY <1>1, MainTypes
  <1>2. ASSUME NEW i \in Pids, TapEnds(i)
        PROVE  TypeOK'
    <2>1. Heard(FALSE)
      BY <1>2, ParentHears DEF TapEnds
    <2>2. taps' \in [Pids -> Nat]
      <3>1. taps[i] - 1 \in Nat /\ taps' = [taps EXCEPT ![i] = taps[i] - 1]
        BY <1>2 DEF TapEnds
      <3>2. QED
        BY <3>1
    <2>3. QED
      BY <1>2, <2>1, <2>2 DEF TapEnds, Heard
  <1>3. ASSUME NEW k \in Keys, ChildPrints(k)
        PROVE  TypeOK'
    BY <1>3 DEF ChildPrints
  <1>4. ASSUME NEW k \in Keys, ChildEnds(k)
        PROVE  TypeOK'
    <2>1. Heard(FALSE)
      BY <1>4, ParentHears DEF ChildEnds
    <2>2. /\ child' \in [Keys -> ChildState]
          /\ \A l \in Keys : child'[l].pc = "serving" => child'[l].parent \in Pids
      BY <1>4, ConstantStates DEF ChildEnds, NoChild
    <2>3. QED
      BY <1>4, <2>1, <2>2 DEF ChildEnds, Heard
  <1>5. ASSUME NEW s \in Senders, Submit(s)
        PROVE  TypeOK'
    <2>1. PICK k \in Keys :
             /\ waiting' = waiting \cup {k}
             /\ ppr' = [ppr EXCEPT ![s] = [pc |-> "notify", key |-> k]]
      BY <1>5 DEF Submit
    <2>2. [pc |-> "notify", key |-> k] \in PprState
      BY DEF PprState
    <2>3. QED
      BY <1>5, <2>1, <2>2 DEF Submit
  <1>6. ASSUME NEW s \in Senders, NotifyLock(s)
        PROVE  TypeOK'
    BY <1>6 DEF NotifyLock, PprState
  <1>7. ASSUME NEW s \in Senders, NotifyLockBusy(s)
        PROVE  TypeOK'
    BY <1>7, ConstantStates DEF NotifyLockBusy, IdlePpr
  <1>8. ASSUME NEW s \in Senders, NotifyAppend(s)
        PROVE  TypeOK'
    <2>1. [key |-> ppr[s].key, told |-> told] \in Lines
      BY <1>8 DEF NotifyAppend, Lines
    <2>2. pending' \in Seq(Lines)
      BY <1>8, <2>1 DEF NotifyAppend
    <2>3. /\ ppr' \in [Senders -> PprState]
          /\ \A q \in Senders : ppr'[q].pc \in {"notify", "append"} => ppr'[q].key \in Keys
      <3>1. [IdlePpr EXCEPT !.pc = "signal"] \in PprState
        BY DEF IdlePpr, PprState
      <3>2. [IdlePpr EXCEPT !.pc = "signal"].pc = "signal"
        BY DEF IdlePpr
      <3>3. QED
        BY <1>8, <3>1, <3>2 DEF NotifyAppend
    <2>4. QED
      BY <1>8, <2>2, <2>3 DEF NotifyAppend, LockAfterClose
  <1>9. ASSUME NEW s \in Senders, NotifySignal(s)
        PROVE  TypeOK'
    <2>1. Heard(FALSE)
      BY <1>9, DaemonHears DEF NotifySignal
    <2>2. /\ ppr' \in [Senders -> PprState]
          /\ \A q \in Senders : ppr'[q].pc \in {"notify", "append"} => ppr'[q].key \in Keys
      BY <1>9, ConstantStates DEF NotifySignal, IdlePpr
    <2>3. QED
      BY <1>9, <2>1, <2>2 DEF NotifySignal, Heard
  <1>10. CASE EditDatabase
    <2>1. database' \in Databases
      BY <1>10 DEF EditDatabase, Databases
    <2>2. editor' \in BOOLEAN
      BY <1>10 DEF EditDatabase
    <2>3. QED
      BY <1>10, <2>1, <2>2 DEF EditDatabase
  <1>11. CASE HangUp
    <2>1. Heard(TRUE)
      BY <1>11, DaemonHears DEF HangUp
    <2>2. /\ child' \in [Keys -> ChildState]
          /\ \A k \in Keys : /\ child'[k].pc = child[k].pc
                             /\ child'[k].parent = child[k].parent
      BY <1>11 DEF HangUp, ChildState
    <2>3. editor' \in BOOLEAN
      BY <1>11 DEF HangUp
    <2>4. QED
      BY <1>11, <2>1, <2>2, <2>3 DEF HangUp, Heard
  <1>12. CASE Crash
    <2>1. main' \in [Pids -> MainState]
      BY <1>12, ConstantStates DEF Crash
    <2>2. /\ child' \in [Keys -> ChildState]
          /\ \A k \in Keys : child'[k].pc # "serving"
      BY <1>12, ConstantStates DEF Crash, NoChild
    <2>3. /\ ppr' \in [Senders -> PprState]
          /\ \A s \in Senders : ppr'[s].pc = "idle"
      BY <1>12, ConstantStates DEF Crash, IdlePpr
    <2>4. taps' \in [Pids -> Nat] /\ crashes' \in Nat
      BY <1>12 DEF Crash
    <2>5. /\ UNCHANGED <<database, version, told, editor, waiting, exists, pending,
                          dpid, jobs>>
          /\ pendingLock' = Free /\ dpidLock' = Free /\ leftBehind' = waiting
      BY <1>12 DEF Crash
    <2>6. QED
      BY <2>1, <2>2, <2>3, <2>4, <2>5
  <1>13. CASE UNCHANGED vars
    BY <1>13 DEF vars
  <1>14. QED
    BY <1>1, <1>2, <1>3, <1>4, <1>5, <1>6, <1>7, <1>8, <1>9, <1>10, <1>11, <1>12, <1>13
    DEF Next, PprStep

-----------------------------------------------------------------------------
(* The invariant, part by part.                                            *)

\* Everything holds when nothing has started.
LEMMA DaemonInit == Init => DaemonInv
  <1> SUFFICES ASSUME Init
               PROVE  DaemonInv
    OBVIOUS
  <1>1. TypeOK
    BY TypeInit
  <1>2. /\ \A i \in Pids : main[i].pc = "off"
        /\ \A s \in Senders : ppr[s].pc = "idle"
        /\ \A k \in Keys : child[k].pc = "none"
        /\ pending = << >> /\ leftBehind = {} /\ told = 0 /\ version = 0
    BY DEF Init, NotStarted, IdlePpr, NoChild
  <1>3. OneDaemon
    BY <1>2 DEF OneDaemon, Running
  <1>4. PendingHeld /\ NoneStranded
    BY <1>2 DEF PendingHeld, NoneStranded, AtPending
  <1>5. HangupsHeeded
    BY <1>2 DEF HangupsHeeded, Informed, AtPending
  <1>6. CrashHeeded
    BY <1>2 DEF CrashHeeded
  <1>7. QED
    BY <1>1, <1>3, <1>4, <1>5, <1>6 DEF DaemonInv

\* Steps of a daemon that has its pid in .dpid.
Works(i) ==
    \/ FirstRead(i) \/ CleanseQueues(i) \/ OpenPending(i) \/ LockPending(i)
    \/ CheckReload(i) \/ ResetReload(i) \/ ReadLine(i) \/ TruncatePending(i)
    \/ Pause(i)

\* Such a step goes from one program counter to another and touches nothing
\* of another process.
LEMMA WorkMoves ==
    ASSUME TypeOK, NEW i \in Pids, Works(i)
    PROVE  /\ main[i].pc \notin {"off", "dead", "writepid"}
           /\ main'[i].pc \notin {"off", "dead", "writepid"}
           /\ \A j \in Pids : j # i => main'[j] = main[j]
           /\ UNCHANGED <<dpidLock, dpid, ppr, told, version, database, exists,
                          waiting, leftBehind>>
  <1> USE DEF TypeOK, MainState, files, locks, world
  <1>1. CASE FirstRead(i) \/ Pause(i)
    BY <1>1, ZenonT(40) DEF FirstRead, Pause, ReadDatabase
  <1>6. CASE CleanseQueues(i)
    BY <1>6 DEF CleanseQueues
  <1>2. CASE OpenPending(i) \/ LockPending(i)
    BY <1>2 DEF OpenPending, LockPending
  <1>3. CASE CheckReload(i)
    <2>1. \E m \in {[ReadDatabase(main[i]) EXCEPT !.pc = "reset", !.late = FALSE],
                    [main[i] EXCEPT !.pc = "read"]} :
            m.pc \in {"reset", "read"} /\ main' = [main EXCEPT ![i] = m]
      BY <1>3 DEF CheckReload, ReadDatabase
    <2>2. QED
      BY <1>3, <2>1 DEF CheckReload
  <1>4. CASE ResetReload(i)
    BY <1>4 DEF ResetReload
  <1>5. CASE ReadLine(i) \/ TruncatePending(i)
    BY <1>5 DEF ReadLine, TruncatePending
  <1>7. QED
    BY <1>1, <1>2, <1>3, <1>4, <1>5, <1>6 DEF Works

\* The lock on .dpid and the pid in it are those of the process that works.
LEMMA OneDaemonStep == TypeOK /\ OneDaemon /\ [Next]_vars => OneDaemon'
  <1> SUFFICES ASSUME TypeOK, OneDaemon, [Next]_vars
               PROVE  OneDaemon'
    OBVIOUS
  <1> USE DEF files, locks
  <1> DEFINE Owns(i) == Running(i) => /\ dpidLock = i
                                      /\ main[i].pc # "writepid" => dpid = i
  <1>1. ASSUME \A i \in Pids : Owns(i)'
        PROVE  OneDaemon'
    BY <1>1 DEF OneDaemon
  <1>2. \A i \in Pids : Owns(i)
    BY DEF OneDaemon
  <1>3. ASSUME NEW h \in BOOLEAN, Heard(h), dpid' = dpid
        PROVE  OneDaemon'
    <2>1. ASSUME NEW i \in Pids, Running(i)'
          PROVE  /\ Running(i) /\ dpidLock' = dpidLock
                 /\ main'[i].pc # "writepid" => main[i].pc # "writepid"
      <3>1. CASE Untouched(i)
        BY <2>1, <3>1 DEF Untouched, Running
      <3>2. CASE Handled(i, h)
        BY <1>3, <3>2, HeardFields DEF Handled
      <3>3. CASE Died(i)
        <4>1. main'[i].pc = "dead"
          BY <3>3 DEF Died, Dead, NotStarted
        <4>2. QED
          BY <2>1, <4>1 DEF Running
      <3>4. QED
        BY <1>3, <3>1, <3>2, <3>3 DEF Heard
    <2>2. QED
      BY <1>1, <1>2, <1>3, <2>1
  <1>4. ASSUME NEW i \in Pids, Works(i)
        PROVE  OneDaemon'
    <2>1. Running(i) /\ main[i].pc # "writepid"
      BY <1>4, WorkMoves DEF Running
    <2>2. QED
      BY <1>1, <1>2, <1>4, <2>1, WorkMoves DEF Running
  <1>6. ASSUME NEW i \in Pids, Start(i)
        PROVE  OneDaemon'
    <2>1. /\ dpid' = dpid
          /\ \A j \in Pids : j # i => main'[j] = main[j]
          /\ \/ dpidLock = Free /\ dpidLock' = i /\ main'[i].pc = "writepid"
             \/ dpidLock # Free /\ dpidLock' = dpidLock /\ main'[i].pc = "dead"
      BY <1>6 DEF Start, DpidLockFree, TypeOK, MainState
    <2>2. CASE dpidLock = Free
      <3>1. \A j \in Pids : ~Running(j)
        BY <1>2, <2>2, OwnerFacts
      <3>2. QED
        BY <1>1, <2>1, <2>2, <3>1 DEF Running
    <2>3. CASE dpidLock # Free
      BY <1>1, <1>2, <2>1, <2>3 DEF Running
    <2>4. QED
      BY <2>2, <2>3
  <1>7. ASSUME NEW i \in Pids, WritePid(i)
        PROVE  OneDaemon'
    <2>1. /\ dpid' = i /\ dpidLock' = dpidLock /\ Running(i)
          /\ \A j \in Pids : j # i => main'[j] = main[j]
          /\ main'[i].pc = "readdb"
      BY <1>7 DEF WritePid, TypeOK, MainState, Running
    <2>2. dpidLock = i /\ \A j \in Pids : j # i => ~Running(j)
      BY <1>2, <2>1
    <2>3. QED
      BY <1>1, <2>1, <2>2 DEF Running
  <1>8. ASSUME NEW i \in Pids, TapEnds(i)
        PROVE  OneDaemon'
    BY <1>3, <1>8, ParentHears DEF TapEnds
  <1>9. ASSUME NEW k \in Keys, ChildEnds(k)
        PROVE  OneDaemon'
    <2>1. child[k].parent \in Pids /\ TellParent(child[k].parent) /\ dpid' = dpid
      BY <1>9 DEF ChildEnds, TypeOK
    <2>2. QED
      BY <1>3, <2>1, ParentHears
  <1>10. ASSUME NEW s \in Senders, NotifySignal(s)
         PROVE  OneDaemon'
    BY <1>3, <1>10, DaemonHears DEF NotifySignal
  <1>11. CASE HangUp
    BY <1>3, <1>11, DaemonHears DEF HangUp
  <1>12. CASE Crash
    <2>1. \A i \in Pids : main'[i].pc \in {"off", "dead"}
      BY <1>12 DEF Crash, Dead, NotStarted
    <2>2. QED
      BY <1>1, <2>1 DEF Running
  <1>13. ASSUME UNCHANGED <<main, dpid, dpidLock>>
         PROVE  OneDaemon'
    BY <1>13 DEF OneDaemon, Running
  <1>14. CASE UNCHANGED vars \/ EditDatabase \/ \E k \in Keys : ChildPrints(k)
    BY <1>13, <1>14 DEF vars, EditDatabase, ChildPrints
  <1>15. ASSUME NEW s \in Senders,
                Submit(s) \/ NotifyLock(s) \/ NotifyLockBusy(s) \/ NotifyAppend(s)
         PROVE  OneDaemon'
    BY <1>13, <1>15 DEF Submit, NotifyLock, NotifyLockBusy, NotifyAppend
  <1>16. QED
    BY <1>4, <1>6, <1>7, <1>8, <1>9, <1>10, <1>11, <1>12, <1>14, <1>15
    DEF Next, MainStep, PprStep, Works

\* With the flag set the database is read again before .pending is read.
LEMMA CheckFields ==
    ASSUME TypeOK, NEW i \in Pids, CheckReload(i)
    PROVE  /\ main[i].pc = "check" /\ main'[i].next = main[i].next
           /\ \/ /\ main'[i].pc = "reset" /\ main'[i].db = database
                 /\ main'[i].asOf = version
              \/ /\ main'[i].pc = "read" /\ ~main[i].reload
                 /\ main'[i].db = main[i].db /\ main'[i].asOf = main[i].asOf
                 /\ main'[i].late = main[i].late
           /\ main'[i].behindGap = main[i].behindGap
           /\ UNCHANGED <<pending, pendingLock, child>>
  <1>1. main[i] \in MainState
    BY DEF TypeOK
  <1>2. main[i].pc = "check" /\ UNCHANGED <<pending, pendingLock, child>>
    BY DEF CheckReload, files, locks
  <1>3. CASE main[i].reload
    <2>1. main' = [main EXCEPT ![i] =
                     [ReadDatabase(main[i]) EXCEPT !.pc = "reset", !.late = FALSE]]
      BY <1>3 DEF CheckReload, MustReload
    <2>2. QED
      BY <1>1, <1>2, <2>1 DEF TypeOK, ReadDatabase, MainState
  <1>4. CASE ~main[i].reload
    <2>1. main' = [main EXCEPT ![i] = [main[i] EXCEPT !.pc = "read"]]
      BY <1>4 DEF CheckReload, MustReload
    <2>2. QED
      BY <1>1, <1>2, <1>4, <2>1 DEF TypeOK, MainState
  <1>5. QED
    BY <1>3, <1>4

\* Whoever reads or writes .pending keeps the lock on it until it is done.
LEMMA PendingStep ==
    TypeOK /\ OneDaemon /\ PendingHeld /\ [Next]_vars => PendingHeld'
  <1> SUFFICES ASSUME TypeOK, OneDaemon, PendingHeld, [Next]_vars
               PROVE  PendingHeld'
    OBVIOUS
  <1> USE DEF TypeOK, files, locks
  <1>1. ASSUME UNCHANGED <<pending, exists, pendingLock>>,
               \A j \in Pids : main'[j].pc \in AtPending
                               => main[j].pc \in AtPending /\ main'[j].next = main[j].next,
               \A s \in Senders : ppr'[s].pc = "append" => ppr[s].pc = "append"
        PROVE  PendingHeld'
    BY <1>1 DEF PendingHeld
  <1>2. ASSUME NEW h \in BOOLEAN, Heard(h), UNCHANGED <<pending, exists, pendingLock>>,
               \A s \in Senders : ppr'[s].pc = "append" => ppr[s].pc = "append"
        PROVE  PendingHeld'
    <2>1. \A j \in Pids : main'[j].pc \in AtPending
                          => main[j].pc \in AtPending /\ main'[j].next = main[j].next
      BY <1>2, HeardFields DEF AtPending
    <2>2. QED
      BY <1>1, <1>2, <2>1
  <1>3. ASSUME NEW i \in Pids,
               \/ Start(i) \/ WritePid(i) \/ FirstRead(i)
               \/ CleanseQueues(i) \/ OpenPending(i) \/ Pause(i)
        PROVE  PendingHeld'
    <2>1. UNCHANGED <<pending, exists, pendingLock, ppr>>
      BY <1>3 DEF Start, WritePid, FirstRead, CleanseQueues, OpenPending, Pause
    <2>2. \A j \in Pids : j # i => main'[j] = main[j]
      BY <1>3 DEF Start, WritePid, FirstRead, CleanseQueues, OpenPending, Pause
    <2>3. main'[i].pc \notin AtPending
      <3>1. CASE FirstRead(i)
        BY <3>1 DEF FirstRead, ReadDatabase, AtPending, MainState
      <3>2. CASE ~FirstRead(i)
        BY <1>3, <3>2 DEF Start, WritePid, CleanseQueues, OpenPending,
           Pause, AtPending, MainState
      <3>3. QED
        BY <3>1, <3>2
    <2>4. QED
      BY <1>1, <2>1, <2>2, <2>3
  <1>4. ASSUME NEW i \in Pids, LockPending(i)
        PROVE  PendingHeld'
    <2>1. /\ pendingLock = Free /\ pendingLock' = i /\ UNCHANGED <<pending, exists, ppr>>
          /\ main'[i].next = 1
          /\ \A j \in Pids : j # i => main'[j] = main[j]
      BY <1>4 DEF LockPending, MainState
    <2>2. /\ \A j \in Pids : main[j].pc \notin AtPending
          /\ \A s \in Senders : ppr[s].pc # "append"
      BY <2>1, OwnerFacts DEF PendingHeld
    <2>3. 1 <= Len(pending) + 1
      OBVIOUS
    <2>4. QED
      BY <2>1, <2>2, <2>3 DEF PendingHeld
  <1>5. ASSUME NEW i \in Pids, CheckReload(i) \/ ResetReload(i)
        PROVE  PendingHeld'
    <2>1. main[i].pc \in AtPending /\ main'[i].next = main[i].next
      <3>1. CASE CheckReload(i)
        BY <3>1, CheckFields DEF AtPending
      <3>2. CASE ResetReload(i)
        BY <3>2 DEF ResetReload, AtPending, MainState
      <3>3. QED
        BY <1>5, <3>1, <3>2
    <2>2. /\ UNCHANGED <<pending, exists, pendingLock, ppr>>
          /\ \A j \in Pids : j # i => main'[j] = main[j]
      BY <1>5 DEF CheckReload, ResetReload
    <2>3. QED
      BY <1>1, <2>1, <2>2
  <1>6. ASSUME NEW i \in Pids, ReadLine(i)
        PROVE  PendingHeld'
    <2>1. /\ UNCHANGED <<pending, exists, pendingLock, ppr>>
          /\ main[i].pc = "read" /\ main[i].next <= Len(pending)
          /\ main'[i].next = main[i].next + 1
          /\ \A j \in Pids : j # i => main'[j] = main[j]
      BY <1>6 DEF ReadLine, MainState
    <2>2. main[i].next \in Nat /\ Len(pending) \in Nat
      BY DEF MainState
    <2>3. main'[i].next >= 1 /\ main'[i].next <= Len(pending) + 1 /\ pendingLock = i
      BY <2>1, <2>2 DEF PendingHeld, AtPending
    <2>4. QED
      BY <2>1, <2>3 DEF PendingHeld
  <1>7. ASSUME NEW i \in Pids, TruncatePending(i)
        PROVE  PendingHeld'
    <2>1. /\ pending' = << >> /\ UNCHANGED <<exists, ppr>>
          /\ main[i].pc = "read" /\ main'[i].pc = "topause"
          /\ \A j \in Pids : j # i => main'[j] = main[j]
      BY <1>7 DEF TruncatePending, MainState
    <2>2. /\ pendingLock = i
          /\ \A j \in Pids : j # i => main[j].pc \notin AtPending
          /\ \A s \in Senders : ppr[s].pc # "append"
      BY <2>1, OwnerFacts DEF PendingHeld, AtPending
    <2>3. QED
      BY <2>1, <2>2 DEF PendingHeld, AtPending
  <1>8. ASSUME NEW i \in Pids, TapEnds(i)
        PROVE  PendingHeld'
    BY <1>2, <1>8, ParentHears DEF TapEnds
  <1>9. ASSUME NEW k \in Keys, ChildEnds(k)
        PROVE  PendingHeld'
    <2>1. Heard(FALSE)
      BY <1>9, ParentHears DEF ChildEnds
    <2>2. QED
      BY <1>2, <1>9, <2>1 DEF ChildEnds
  <1>10. ASSUME NEW s \in Senders, NotifySignal(s)
         PROVE  PendingHeld'
    <2>1. \A q \in Senders : ppr'[q].pc = "append" => ppr[q].pc = "append"
      BY <1>10 DEF NotifySignal, IdlePpr
    <2>2. QED
      BY <1>2, <1>10, <2>1, DaemonHears DEF NotifySignal
  <1>11. CASE HangUp
    BY <1>2, <1>11, DaemonHears DEF HangUp
  <1>12. ASSUME NEW s \in Senders, Submit(s)
         PROVE  PendingHeld'
    <2>1. \A q \in Senders : ppr'[q].pc = "append" => ppr[q].pc = "append"
      BY <1>12 DEF Submit
    <2>2. QED
      BY <1>1, <1>12, <2>1 DEF Submit
  <1>13. ASSUME NEW s \in Senders, NotifyLock(s)
         PROVE  PendingHeld'
    <2>1. /\ exists' /\ pendingLock = Free /\ pendingLock' = s
          /\ UNCHANGED <<pending, main>>
          /\ \A q \in Senders : q # s => ppr'[q] = ppr[q]
      BY <1>13 DEF NotifyLock
    <2>2. /\ \A j \in Pids : main[j].pc \notin AtPending
          /\ \A q \in Senders : ppr[q].pc # "append"
      BY <2>1, OwnerFacts DEF PendingHeld
    <2>3. QED
      BY <2>1, <2>2 DEF PendingHeld
  <1>14. ASSUME NEW s \in Senders, NotifyLockBusy(s)
         PROVE  PendingHeld'
    <2>1. /\ exists' /\ UNCHANGED <<pending, pendingLock, main>>
          /\ \A q \in Senders : ppr'[q].pc = "append" => ppr[q].pc = "append"
      BY <1>14 DEF NotifyLockBusy, IdlePpr
    <2>2. QED
      BY <2>1 DEF PendingHeld
  <1>15. ASSUME NEW s \in Senders, NotifyAppend(s)
         PROVE  PendingHeld'
    <2>1. /\ exists' = exists /\ main' = main /\ ppr[s].pc = "append"
          /\ ppr'[s].pc = "signal"
          /\ \A q \in Senders : q # s => ppr'[q] = ppr[q]
      BY <1>15 DEF NotifyAppend, PprState
    <2>2. /\ pendingLock = s /\ exists
          /\ \A j \in Pids : main[j].pc \notin AtPending
          /\ \A q \in Senders : q # s => ppr[q].pc # "append"
      BY <2>1, OwnerFacts DEF PendingHeld
    <2>3. QED
      BY <2>1, <2>2 DEF PendingHeld
  <1>16. CASE Crash
    <2>1. /\ \A i \in Pids : main'[i].pc \in {"off", "dead"}
          /\ \A s \in Senders : ppr'[s].pc = "idle"
          /\ UNCHANGED <<pending, exists>>
      BY <1>16 DEF Crash, Dead, NotStarted, IdlePpr
    <2>2. QED
      BY <2>1 DEF PendingHeld, AtPending
  <1>17. CASE UNCHANGED vars \/ EditDatabase \/ \E k \in Keys : ChildPrints(k)
    BY <1>1, <1>17 DEF vars, EditDatabase, ChildPrints
  <1>18. QED
    BY <1>3, <1>4, <1>5, <1>6, <1>7, <1>8, <1>9, <1>10, <1>11, <1>12, <1>13, <1>14,
       <1>15, <1>16, <1>17
    DEF Next, MainStep, PprStep

\* A notice that comes while the daemon goes to sleep wakes it, or a signal
\* has been missed.
LEMMA StrandedStep ==
    TypeOK /\ OneDaemon /\ PendingHeld /\ NoneStranded /\ [Next]_vars
    => NoneStranded'
  <1> SUFFICES ASSUME TypeOK, OneDaemon, PendingHeld, NoneStranded, [Next]_vars
               PROVE  NoneStranded'
    OBVIOUS
  <1> USE DEF TypeOK, files
  <1> DEFINE Asleep(j) == main[j].pc \in {"topause", "paused"}
  <1>1. ASSUME pending' = pending,
               \A j \in Pids : Asleep(j)' => /\ Asleep(j)
                                             /\ main[j].missed => main'[j].missed,
               \A s \in Senders : ppr[s].pc = "signal" => ppr'[s].pc = "signal"
        PROVE  NoneStranded'
    BY <1>1 DEF NoneStranded
  <1>2. ASSUME NEW h \in BOOLEAN, Heard(h), pending' = pending,
               \A s \in Senders : ppr[s].pc = "signal" => ppr'[s].pc = "signal"
        PROVE  NoneStranded'
    <2>1. \A j \in Pids : Asleep(j)' => /\ Asleep(j)
                                        /\ main[j].missed => main'[j].missed
      BY <1>2, HeardFields
    <2>2. QED
      BY <1>1, <1>2, <2>1
  <1>3. ASSUME NEW i \in Pids,
               \/ Start(i) \/ WritePid(i) \/ CleanseQueues(i)
               \/ LockPending(i) \/ ResetReload(i) \/ ReadLine(i)
        PROVE  NoneStranded'
    <2>1. /\ UNCHANGED <<pending, ppr>> /\ main'[i].pc \notin {"topause", "paused"}
          /\ \A j \in Pids : j # i => main'[j] = main[j]
      <3>1. CASE Start(i) \/ WritePid(i) \/ CleanseQueues(i)
        BY <3>1 DEF Start, WritePid, CleanseQueues, MainState
      <3>2. CASE LockPending(i) \/ ResetReload(i) \/ ReadLine(i)
        BY <3>2 DEF LockPending, ResetReload, ReadLine, MainState
      <3>3. QED
        BY <1>3, <3>1, <3>2
    <2>2. QED
      BY <1>1, <2>1
  <1>4. ASSUME NEW i \in Pids, FirstRead(i)
        PROVE  NoneStranded'
    <2>1. /\ UNCHANGED <<pending, ppr>> /\ main'[i].pc = "cleanse"
          /\ \A j \in Pids : j # i => main'[j] = main[j]
      BY <1>4 DEF FirstRead, ReadDatabase, MainState
    <2>2. QED
      BY <1>1, <2>1
  <1>5. ASSUME NEW i \in Pids, CheckReload(i)
        PROVE  NoneStranded'
    <2>1. Works(i)
      BY <1>5 DEF Works
    <2>2. QED
      BY <1>1, <1>5, <2>1, CheckFields, WorkMoves
  <1>6. ASSUME NEW i \in Pids, OpenPending(i)
        PROVE  NoneStranded'
    <2>1. /\ UNCHANGED <<pending, ppr>>
          /\ exists => main'[i].pc = "waitpending"
          /\ \A j \in Pids : j # i => main'[j] = main[j]
      BY <1>6 DEF OpenPending, MainState
    <2>2. CASE exists
      BY <1>1, <2>1, <2>2
    <2>3. CASE ~exists
      <3>1. pending' = << >>
        BY <2>1, <2>3 DEF PendingHeld
      <3>2. QED
        BY <3>1 DEF NoneStranded
    <2>4. QED
      BY <2>2, <2>3
  <1>7. ASSUME NEW i \in Pids, TruncatePending(i)
        PROVE  NoneStranded'
    <2>1. pending' = << >>
      BY <1>7 DEF TruncatePending
    <2>2. QED
      BY <2>1 DEF NoneStranded
  <1>8. ASSUME NEW i \in Pids, Pause(i)
        PROVE  NoneStranded'
    <2>1. /\ UNCHANGED <<pending, ppr>>
          /\ main[i].pc = "topause" /\ main'[i].missed = main[i].missed
          /\ \A j \in Pids : j # i => main'[j] = main[j]
      BY <1>8 DEF Pause, MainState
    <2>2. QED
      BY <1>1, <2>1
  <1>9. ASSUME NEW i \in Pids, TapEnds(i)
        PROVE  NoneStranded'
    BY <1>2, <1>9, ParentHears DEF TapEnds
  <1>10. ASSUME NEW k \in Keys, ChildEnds(k)
         PROVE  NoneStranded'
    <2>1. Heard(FALSE)
      BY <1>10, ParentHears DEF ChildEnds
    <2>2. QED
      BY <1>2, <1>10, <2>1 DEF ChildEnds
  <1>11. ASSUME NEW s \in Senders, NotifySignal(s)
         PROVE  NoneStranded'
    <2>1. /\ Heard(FALSE)
          /\ \A j \in Pids : Running(j) /\ main[j].pc # "writepid"
                             => Handled(j, FALSE) \/ Died(j)
      BY <1>11, DaemonHears DEF NotifySignal
    <2>2. ASSUME NEW j \in Pids, Asleep(j)'
          PROVE  main'[j].missed
      <3>1. Asleep(j) /\ main'[j].pc = main[j].pc
        BY <2>1, <2>2, HeardFields
      <3>2. Handled(j, FALSE)
        BY <2>1, <3>1 DEF Running, Died
      <3>3. main'[j] = Hit(main[j], FALSE)
        BY <3>2 DEF Handled
      <3>4. /\ Hit(main[j], FALSE).pc = IF main[j].pc = "paused" THEN "open" ELSE main[j].pc
            /\ main[j].pc = "topause" => Hit(main[j], FALSE).missed
        BY HitFields
      <3>5. QED
        BY <3>1, <3>3, <3>4
    <2>3. QED
      BY <2>2 DEF NoneStranded
  <1>12. CASE HangUp
    BY <1>2, <1>12, DaemonHears DEF HangUp
  <1>13. ASSUME NEW s \in Senders, Submit(s) \/ NotifyLock(s) \/ NotifyLockBusy(s)
         PROVE  NoneStranded'
    <2>1. /\ UNCHANGED <<pending, main>> /\ ppr[s].pc # "signal"
          /\ \A q \in Senders : q # s => ppr'[q] = ppr[q]
      BY <1>13 DEF Submit, NotifyLock, NotifyLockBusy
    <2>2. QED
      BY <1>1, <2>1
  <1>14. ASSUME NEW s \in Senders, NotifyAppend(s)
         PROVE  NoneStranded'
    <2>1. ppr'[s].pc = "signal"
      BY <1>14 DEF NotifyAppend, PprState
    <2>2. QED
      BY <2>1 DEF NoneStranded
  <1>15. CASE Crash
    <2>1. \A i \in Pids : main'[i].pc \in {"off", "dead"}
      BY <1>15 DEF Crash, Dead, NotStarted
    <2>2. QED
      BY <2>1 DEF NoneStranded
  <1>16. CASE UNCHANGED vars \/ EditDatabase \/ \E k \in Keys : ChildPrints(k)
    BY <1>1, <1>16 DEF vars, EditDatabase, ChildPrints
  <1>17. QED
    BY <1>3, <1>4, <1>5, <1>6, <1>7, <1>8, <1>9, <1>10, <1>11, <1>12, <1>13, <1>14,
       <1>15, <1>16
    DEF Next, MainStep, PprStep

\* The steps of the main process keep the hangups in mind.
LEMMA HangupsMain ==
    ASSUME TypeOK, HangupsHeeded, NEW i \in Pids, Start(i) \/ MainStep(i)
    PROVE  HangupsHeeded'
  <1> USE DEF TypeOK, files, world
  <1>1. UNCHANGED <<told, version>> /\ told <= version
    BY DEF HangupsHeeded, Start, MainStep, WritePid, FirstRead,
       CleanseQueues, OpenPending, LockPending, CheckReload, ResetReload, ReadLine,
       TruncatePending, Pause
  <1>2. \A j \in Pids : j # i => main'[j] = main[j]
    BY DEF Start, MainStep, WritePid, FirstRead,
       CleanseQueues, OpenPending, LockPending, CheckReload, ResetReload, ReadLine,
       TruncatePending, Pause
  <1>3. ASSUME pending' = pending,
               main'[i].pc \in Informed
               => \/ main'[i].asOf >= told \/ main'[i].late
                  \/ main'[i].reload /\ main'[i].pc # "reset",
               main'[i].pc \in {"reset", "read"} /\ ~main'[i].late
               => \A n \in 1 .. Len(pending) : main'[i].asOf >= pending[n].told
        PROVE  HangupsHeeded'
    BY <1>1, <1>2, <1>3 DEF HangupsHeeded
  <1>4. CASE Start(i) \/ WritePid(i)
    <2>1. /\ pending' = pending /\ main'[i].pc \notin Informed
          /\ main'[i].pc \notin {"reset", "read"}
      BY <1>4 DEF Start, WritePid, MainState, Informed, AtPending
    <2>2. QED
      BY <1>3, <2>1
  <1>5. CASE FirstRead(i)
    <2>1. /\ pending' = pending /\ main'[i].asOf = version /\ main'[i].pc = "cleanse"
      BY <1>5 DEF FirstRead, ReadDatabase, MainState
    <2>2. QED
      BY <1>1, <1>3, <2>1
  <1>6. CASE CleanseQueues(i) \/ OpenPending(i) \/ LockPending(i) \/ Pause(i)
    <2>1. /\ pending' = pending /\ main[i].pc \in Informed \ {"reset"}
          /\ main'[i].pc \notin {"reset", "read"}
          /\ main'[i].asOf = main[i].asOf /\ main'[i].late = main[i].late
          /\ main'[i].reload = main[i].reload
      BY <1>6 DEF CleanseQueues, OpenPending, LockPending, Pause, MainState,
         Informed, AtPending
    <2>2. QED
      BY <1>3, <2>1 DEF HangupsHeeded
  <1>7. CASE CheckReload(i)
    <2>1. CASE main'[i].pc = "reset" /\ main'[i].asOf = version
      <3>1. \A n \in 1 .. Len(pending) : version >= pending[n].told
        <4>1. ASSUME NEW n \in 1 .. Len(pending)
              PROVE  version >= pending[n].told
          <5>1. pending[n] \in Lines
            OBVIOUS
          <5>2. pending[n].told \in Nat /\ pending[n].told <= told
            BY <5>1 DEF HangupsHeeded, Lines
          <5>3. QED
            BY <1>1, <5>2
        <4>2. QED
          BY <4>1
      <3>2. QED
        BY <1>1, <1>3, <1>7, <2>1, <3>1, CheckFields
    <2>2. CASE /\ main'[i].pc = "read" /\ ~main[i].reload
               /\ main'[i].asOf = main[i].asOf /\ main'[i].late = main[i].late
      <3>1. main[i].asOf >= told \/ main[i].late
        BY <1>7, <2>2, CheckFields DEF HangupsHeeded, Informed, AtPending
      <3>2. ASSUME NEW n \in 1 .. Len(pending), main[i].asOf >= told
            PROVE  main[i].asOf >= pending[n].told
        <4>1. pending[n] \in Lines /\ main[i] \in MainState
          OBVIOUS
        <4>2. /\ pending[n].told \in Nat /\ pending[n].told <= told
              /\ main[i].asOf \in Nat
          BY <4>1 DEF HangupsHeeded, Lines, MainState
        <4>3. QED
          BY <3>2, <4>2
      <3>3. QED
        BY <1>3, <1>7, <2>2, <3>1, <3>2, CheckFields
    <2>3. QED
      BY <1>7, <2>1, <2>2, CheckFields
  <1>8. CASE ResetReload(i)
    <2>1. /\ pending' = pending /\ main[i].pc = "reset" /\ main'[i].pc = "read"
          /\ main'[i].asOf = main[i].asOf /\ main'[i].late = main[i].late
      BY <1>8 DEF ResetReload, MainState
    <2>2. main[i].asOf >= told \/ main[i].late
      BY <2>1 DEF HangupsHeeded, Informed, AtPending
    <2>3. QED
      BY <1>3, <2>1, <2>2 DEF HangupsHeeded
  <1>9. CASE ReadLine(i)
    <2>1. /\ pending' = pending /\ main[i].pc = "read" /\ main'[i].pc = "read"
          /\ main'[i].asOf = main[i].asOf /\ main'[i].late = main[i].late
          /\ main'[i].reload = main[i].reload
      BY <1>9 DEF ReadLine, MainState
    <2>2. QED
      BY <1>3, <2>1 DEF HangupsHeeded, Informed, AtPending
  <1>10. CASE TruncatePending(i)
    <2>1. /\ pending' = << >> /\ main[i].pc = "read" /\ main'[i].pc = "topause"
          /\ main'[i].asOf = main[i].asOf /\ main'[i].late = main[i].late
          /\ main'[i].reload = main[i].reload
      BY <1>10 DEF TruncatePending, MainState
    <2>2. Len(pending') = 0
      BY <2>1
    <2>3. main'[i].asOf >= told \/ main'[i].late \/ main'[i].reload
      BY <2>1 DEF HangupsHeeded, Informed, AtPending
    <2>4. QED
      BY <1>1, <1>2, <2>1, <2>2, <2>3 DEF HangupsHeeded
  <1>11. QED
    BY <1>4, <1>5, <1>6, <1>7, <1>8, <1>9, <1>10 DEF MainStep

\* A hangup is heeded before the next line is judged, or it was late.
LEMMA HangupsStep ==
    TypeOK /\ OneDaemon /\ PendingHeld /\ HangupsHeeded /\ [Next]_vars
    => HangupsHeeded'
  <1> SUFFICES ASSUME TypeOK, OneDaemon, PendingHeld, HangupsHeeded, [Next]_vars
               PROVE  HangupsHeeded'
    OBVIOUS
  <1> USE DEF TypeOK, files, world
  <1>1. ASSUME UNCHANGED <<told, pending, main>>, version <= version', version' \in Nat
        PROVE  HangupsHeeded'
    <2>1. told <= version'
      BY <1>1 DEF HangupsHeeded
    <2>2. QED
      BY <1>1, <2>1 DEF HangupsHeeded
  <1>2. ASSUME NEW h \in BOOLEAN, Heard(h), UNCHANGED <<told, pending, version>>
        PROVE  HangupsHeeded'
    <2>1. ASSUME NEW j \in Pids
          PROVE  /\ main'[j].pc \in Informed => main[j].pc \in Informed
                 /\ main'[j].pc = "reset" <=> main[j].pc = "reset"
                 /\ main'[j].pc \in {"reset", "read"} => main[j].pc \in {"reset", "read"}
                 /\ main'[j].pc \in Informed
                    => /\ main'[j].asOf = main[j].asOf
                       /\ main[j].reload => main'[j].reload
                       /\ main[j].late => main'[j].late
      BY <1>2, HeardFields DEF Informed, AtPending
    <2>2. {"reset", "read"} \subseteq Informed
      BY DEF Informed, AtPending
    <2>3. QED
      BY <1>2, <2>1, <2>2 DEF HangupsHeeded
  <1>3. ASSUME NEW i \in Pids, Start(i) \/ MainStep(i)
        PROVE  HangupsHeeded'
    BY <1>3, HangupsMain
  <1>4. ASSUME NEW i \in Pids, TapEnds(i)
        PROVE  HangupsHeeded'
    BY <1>2, <1>4, ParentHears DEF TapEnds
  <1>5. ASSUME NEW k \in Keys, ChildEnds(k)
        PROVE  HangupsHeeded'
    <2>1. Heard(FALSE)
      BY <1>5, ParentHears DEF ChildEnds
    <2>2. QED
      BY <1>2, <1>5, <2>1 DEF ChildEnds
  <1>6. ASSUME NEW s \in Senders, NotifySignal(s)
        PROVE  HangupsHeeded'
    BY <1>2, <1>6, DaemonHears DEF NotifySignal
  <1>7. CASE HangUp
    <2>1. /\ Heard(TRUE)
          /\ \A j \in Pids : Running(j) /\ main[j].pc # "writepid"
                             => Handled(j, TRUE) \/ Died(j)
      BY <1>7, DaemonHears DEF HangUp
    <2>2. told' = version /\ version' = version /\ pending' = pending
      BY <1>7 DEF HangUp
    <2>3. \A n \in 1 .. Len(pending) : pending[n].told <= version
      <3>1. ASSUME NEW n \in 1 .. Len(pending)
            PROVE  pending[n].told <= version
        <4>1. pending[n] \in Lines
          OBVIOUS
        <4>2. pending[n].told \in Nat /\ pending[n].told <= told /\ told <= version
          BY <4>1 DEF HangupsHeeded, Lines
        <4>3. QED
          BY <4>2
      <3>2. QED
        BY <3>1
    <2>4. ASSUME NEW j \in Pids, main'[j].pc \in Informed
          PROVE  main'[j].late \/ (main'[j].reload /\ main'[j].pc # "reset")
      <3>1. main[j].pc \in Informed
        BY <2>1, <2>4, HeardFields DEF Informed, AtPending
      <3>2. Handled(j, TRUE) \/ Died(j)
        BY <2>1, <3>1 DEF Informed, AtPending, Running
      <3>3. ~Died(j)
        BY <2>4 DEF Died, Dead, NotStarted, Informed, AtPending
      <3>4. main'[j] = Hit(main[j], TRUE)
        BY <3>2, <3>3 DEF Handled
      <3>5. /\ Hit(main[j], TRUE).reload
            /\ main[j].pc = "reset" => Hit(main[j], TRUE).late
            /\ Hit(main[j], TRUE).pc = IF main[j].pc = "paused" THEN "open" ELSE main[j].pc
        BY HitFields
      <3>6. CASE main[j].pc = "reset"
        <4>1. main'[j].late
          BY <3>4, <3>5, <3>6
        <4>2. QED
          BY <4>1
      <3>7. CASE main[j].pc # "reset"
        <4>1. main'[j].reload
          BY <3>4, <3>5
        <4>2. main'[j].pc # "reset"
          BY <3>4, <3>5, <3>7
        <4>3. QED
          BY <4>1, <4>2
      <3>8. QED
        BY <3>6, <3>7
    <2>5. ASSUME NEW j \in Pids, main'[j].pc \in {"reset", "read"}, ~main'[j].late,
                 NEW n \in 1 .. Len(pending)
          PROVE  main'[j].asOf >= pending[n].told
      <3>1. /\ main[j].pc \in {"reset", "read"} /\ ~main[j].late
            /\ main'[j].asOf = main[j].asOf
        BY <2>1, <2>5, HeardFields
      <3>2. QED
        BY <3>1 DEF HangupsHeeded
    <2>6. QED
      BY <2>2, <2>3, <2>4, <2>5 DEF HangupsHeeded
  <1>8. ASSUME NEW s \in Senders, NotifyAppend(s)
        PROVE  HangupsHeeded'
    <2> DEFINE line == [key |-> ppr[s].key, told |-> told]
    <2>1. /\ pending' = Append(pending, line) /\ UNCHANGED <<told, version, main>>
          /\ ppr[s].pc = "append"
      BY <1>8 DEF NotifyAppend
    <2>2. \A j \in Pids : main[j].pc \notin {"reset", "read"}
      BY <2>1, OwnerFacts DEF PendingHeld, AtPending
    <2>3. \A n \in 1 .. Len(pending') : pending'[n].told <= told
      <3>1. ASSUME NEW n \in 1 .. Len(pending')
            PROVE  pending'[n].told <= told
        <4>1. Len(pending') = Len(pending) + 1 /\ Len(pending) \in Nat
          BY <2>1
        <4>2. CASE n = Len(pending) + 1
          <5>1. pending'[n] = line
            BY <2>1, <4>2
          <5>2. line.told = told
            OBVIOUS
          <5>3. QED
            BY <5>1, <5>2
        <4>3. CASE n # Len(pending) + 1
          <5>1. n \in 1 .. Len(pending)
            BY <4>1, <4>3
          <5>2. pending'[n] = pending[n]
            BY <2>1, <5>1
          <5>3. QED
            BY <5>1, <5>2 DEF HangupsHeeded
        <4>4. QED
          BY <4>2, <4>3
      <3>2. QED
        BY <3>1
    <2>4. QED
      BY <2>1, <2>2, <2>3 DEF HangupsHeeded
  <1>9. ASSUME NEW s \in Senders, Submit(s) \/ NotifyLock(s) \/ NotifyLockBusy(s)
        PROVE  HangupsHeeded'
    BY <1>1, <1>9 DEF Submit, NotifyLock, NotifyLockBusy
  <1>10. CASE EditDatabase
    BY <1>1, <1>10 DEF EditDatabase
  <1>11. CASE Crash
    <2>1. /\ \A i \in Pids : main'[i].pc \in {"off", "dead"}
          /\ UNCHANGED <<told, version, pending>>
      BY <1>11 DEF Crash, Dead, NotStarted
    <2>2. QED
      BY <2>1 DEF HangupsHeeded, Informed, AtPending
  <1>12. CASE UNCHANGED vars \/ \E k \in Keys : ChildPrints(k)
    BY <1>1, <1>12 DEF vars, ChildPrints
  <1>13. QED
    BY <1>3, <1>4, <1>5, <1>6, <1>7, <1>8, <1>9, <1>10, <1>11, <1>12
    DEF Next, PprStep

\* A child just forked goes by the status its parent knows.
LEMMA NewChild ==
    ASSUME NEW i \in Pids, NEW k \in Keys,
           child'[k] = [pc |-> "serving", up |-> main[i].db[k] = "up", parent |-> i]
    PROVE  child'[k].pc = "serving" /\ (child'[k].up <=> main[i].db[k] = "up")
  <1>1. CASE main[i].db[k] = "up"
    <2>1. child'[k] = [pc |-> "serving", up |-> TRUE, parent |-> i]
      BY <1>1
    <2>2. QED
      BY <1>1, <2>1
  <1>2. CASE main[i].db[k] # "up"
    <2>1. child'[k] = [pc |-> "serving", up |-> FALSE, parent |-> i]
      BY <1>2
    <2>2. QED
      BY <1>2, <2>1
  <1>3. QED
    BY <1>1, <1>2

\* The steps of the main process look after what a crash has left behind.
LEMMA CrashMain ==
    ASSUME TypeOK, PendingHeld, CrashHeeded, NEW i \in Pids, Start(i) \/ MainStep(i)
    PROVE  CrashHeeded'
  <1> USE DEF TypeOK, files, world
  <1>1. UNCHANGED <<waiting, leftBehind, database>> /\ leftBehind \subseteq waiting
    BY DEF CrashHeeded, Start, MainStep, WritePid, FirstRead,
       CleanseQueues, OpenPending, LockPending, CheckReload, ResetReload, ReadLine,
       TruncatePending, Pause
  <1>2. \A j \in Pids : j # i => main'[j] = main[j]
    BY DEF Start, MainStep, WritePid, FirstRead,
       CleanseQueues, OpenPending, LockPending, CheckReload, ResetReload, ReadLine,
       TruncatePending, Pause
  \* It is enough that i knows the records of the queues left behind, and has
  \* them served after cleansing, or behind the gap; that a new child has the
  \* status of its queue; and that no child has gone.
  <1>3. ASSUME main'[i].pc \in Informed
               => \A k \in leftBehind : main'[i].db[k] = database[k],
               main'[i].pc \in Informed \ {"cleanse"}
               => \A k \in leftBehind : database[k] = "up"
                    => child'[k].pc = "serving" \/ k \in main'[i].behindGap,
               \A k \in leftBehind :
                    \/ child'[k] = child[k]
                    \/ /\ child'[k].pc = "serving"
                       /\ child'[k].up <=> database[k] = "up"
        PROVE  CrashHeeded'
    <2>1. \A k \in leftBehind : child[k].pc = "serving" => child'[k].pc = "serving"
      BY <1>3
    <2>2. \A j \in Pids, k \in leftBehind :
            main'[j].pc \in Informed => main'[j].db[k] = database[k]
      BY <1>2, <1>3 DEF CrashHeeded
    <2>3. \A k \in leftBehind :
            child'[k].pc = "serving" => (child'[k].up <=> database[k] = "up")
      BY <1>3 DEF CrashHeeded
    <2>4. \A j \in Pids, k \in leftBehind :
            main'[j].pc \in Informed \ {"cleanse"} /\ database[k] = "up"
            => child'[k].pc = "serving" \/ k \in main'[j].behindGap
      <3>1. ASSUME NEW j \in Pids, NEW k \in leftBehind, j # i,
                   main'[j].pc \in Informed \ {"cleanse"}, database[k] = "up"
            PROVE  child'[k].pc = "serving" \/ k \in main'[j].behindGap
        BY <1>2, <2>1, <3>1 DEF CrashHeeded
      <3>2. QED
        BY <1>3, <3>1
    <2>5. QED
      BY <1>1, <2>2, <2>3, <2>4 DEF CrashHeeded
  <1>4. CASE Start(i) \/ WritePid(i)
    <2>1. child' = child /\ main'[i].pc \notin Informed
      BY <1>4 DEF Start, WritePid, MainState, Informed, AtPending
    <2>2. QED
      BY <1>3, <2>1
  <1>5. CASE FirstRead(i)
    <2>1. child' = child /\ main'[i].pc = "cleanse" /\ main'[i].db = database
      BY <1>5 DEF FirstRead, ReadDatabase, MainState
    <2>2. QED
      BY <1>3, <2>1
  <1>6. CASE OpenPending(i) \/ LockPending(i) \/ ResetReload(i) \/ TruncatePending(i)
             \/ Pause(i)
    <2>1. /\ child' = child /\ main[i].pc \in Informed \ {"cleanse"}
          /\ main'[i].db = main[i].db /\ main'[i].behindGap = main[i].behindGap
      BY <1>6 DEF OpenPending, LockPending, ResetReload, TruncatePending, Pause,
         MainState, Informed, AtPending
    <2>2. QED
      BY <1>3, <2>1 DEF CrashHeeded
  <1>7. CASE CheckReload(i)
    <2>1. main[i].pc \in Informed \ {"cleanse"}
      BY <1>7, CheckFields DEF Informed, AtPending
    <2>2. \A k \in leftBehind : main[i].db[k] = database[k]
      BY <2>1 DEF CrashHeeded
    <2>3. /\ child' = child /\ (main'[i].db = database \/ main'[i].db = main[i].db)
          /\ main'[i].behindGap = main[i].behindGap
      BY <1>7, CheckFields
    <2>4. QED
      BY <1>3, <2>1, <2>2, <2>3 DEF CrashHeeded
  <1>8. CASE CleanseQueues(i)
    <2> DEFINE K == Cleansed(main[i].db)
    <2>1. /\ Forked(i, K) /\ main[i].pc = "cleanse"
          /\ main'[i].pc = "open" /\ main'[i].db = main[i].db
          /\ main'[i].behindGap = BehindGap(main[i].db)
      BY <1>8 DEF CleanseQueues, MainState
    <2>2. \A k \in leftBehind : k \in Keys /\ main[i].db[k] = database[k]
      BY <2>1 DEF CrashHeeded, Informed
    <2>3. K \in SUBSET Keys
      BY DEF Cleansed
    <2>4. ASSUME NEW k \in leftBehind, database[k] = "up", k \notin BehindGap(main[i].db)
          PROVE  k \in K
      <3>1. k \in Keys /\ k \in Nat /\ 0 .. k \subseteq Keys /\ Keys \subseteq Nat
        BY <2>2, DaemonAssumption
      <3>2. main[i].db[k] = "up"
        BY <2>2, <2>4
      <3>3. ASSUME NEW l \in 0 .. k
            PROVE  l \in Keys /\ main[i].db[l] # "none"
        <4>1. l \in Keys /\ (l < k \/ l = k)
          BY <3>1
        <4>2. QED
          BY <2>4, <3>1, <3>2, <4>1 DEF BehindGap
      <3>4. QED
        BY <3>1, <3>3 DEF Cleansed
    <2> HIDE DEF K
    <2>5. /\ \A k \in K : child'[k].pc = "serving"
          /\ \A k \in leftBehind :
               \/ child'[k] = child[k]
               \/ child'[k].pc = "serving" /\ (child'[k].up <=> database[k] = "up")
      <3>1. ASSUME NEW k \in leftBehind,
                   child'[k] = [pc |-> "serving", up |-> main[i].db[k] = "up", parent |-> i]
            PROVE  child'[k].pc = "serving" /\ (child'[k].up <=> database[k] = "up")
        <4>1. child'[k].pc = "serving" /\ (child'[k].up <=> main[i].db[k] = "up")
          BY <2>2, <3>1, NewChild
        <4>2. QED
          BY <2>2, <4>1
      <3>2. \A k \in leftBehind :
              \/ child'[k] = child[k]
              \/ child'[k] = [pc |-> "serving", up |-> main[i].db[k] = "up", parent |-> i]
        BY <2>1, <2>2, <2>3, ForkTypes
      <3>3. \A k \in K : child'[k].pc = "serving"
        BY <2>1, <2>3, ForkTypes
      <3>4. QED
        BY <3>1, <3>2, <3>3
    <2>6. QED
      BY <1>3, <2>1, <2>2, <2>3, <2>4, <2>5
  <1>9. CASE ReadLine(i)
    <2> DEFINE K == {l \in {pending[main[i].next].key} : main[i].db[l] = "up"}
    <2>1. /\ Forked(i, K) /\ main[i].pc = "read" /\ main[i].next <= Len(pending)
          /\ main'[i].pc = "read" /\ main'[i].db = main[i].db
          /\ main'[i].behindGap = main[i].behindGap
      BY <1>9 DEF ReadLine, MainState
    <2>2. \A k \in leftBehind : k \in Keys /\ main[i].db[k] = database[k]
      BY <2>1 DEF CrashHeeded, Informed, AtPending
    <2>3. K \in SUBSET Keys
      <3>1. main[i].next \in Nat /\ main[i].next >= 1
        BY <2>1 DEF MainState, PendingHeld, AtPending
      <3>2. pending[main[i].next] \in Lines
        BY <2>1, <3>1
      <3>3. QED
        BY <3>2 DEF Lines
    <2> HIDE DEF K
    <2>4. \A k \in leftBehind :
            \/ child'[k] = child[k]
            \/ child'[k].pc = "serving" /\ (child'[k].up <=> database[k] = "up")
      <3>1. ASSUME NEW k \in leftBehind,
                   child'[k] = [pc |-> "serving", up |-> main[i].db[k] = "up", parent |-> i]
            PROVE  child'[k].pc = "serving" /\ (child'[k].up <=> database[k] = "up")
        <4>1. child'[k].pc = "serving" /\ (child'[k].up <=> main[i].db[k] = "up")
          BY <2>2, <3>1, NewChild
        <4>2. QED
          BY <2>2, <4>1
      <3>2. \A k \in leftBehind :
              \/ child'[k] = child[k]
              \/ child'[k] = [pc |-> "serving", up |-> main[i].db[k] = "up", parent |-> i]
        BY <2>1, <2>2, <2>3, ForkTypes
      <3>3. QED
        BY <3>1, <3>2
    <2>5. \A k \in leftBehind : database[k] = "up"
                                => child[k].pc = "serving" \/ k \in main[i].behindGap
      BY <2>1 DEF CrashHeeded, Informed, AtPending
    <2>6. QED
      BY <1>3, <2>1, <2>2, <2>4, <2>5
  <1>10. QED
    BY <1>4, <1>5, <1>6, <1>7, <1>8, <1>9 DEF MainStep


\* Nor does any other step lose what a crash has left behind.
LEMMA CrashStep ==
    TypeOK /\ OneDaemon /\ PendingHeld /\ CrashHeeded /\ [Next]_vars => CrashHeeded'
  <1> SUFFICES ASSUME TypeOK, OneDaemon, PendingHeld, CrashHeeded, [Next]_vars
               PROVE  CrashHeeded'
    OBVIOUS
  <1> USE DEF TypeOK, files, world
  \* What is enough of a step that leaves the database alone, and the queues
  \* left behind or printed.
  <1> DEFINE Known(j) ==
        /\ main'[j].pc \in Informed
           => /\ main[j].pc \in Informed /\ main'[j].db = main[j].db
              /\ main'[j].behindGap = main[j].behindGap
        /\ main'[j].pc \in Informed \ {"cleanse"} => main[j].pc \in Informed \ {"cleanse"}
  <1> DEFINE Served(k) ==
        /\ child'[k].pc = "serving"
           => (child'[k].up <=> database[k] = "up")
              \/ (child[k].pc = "serving" /\ (child'[k].up <=> child[k].up))
        /\ child[k].pc = "serving" /\ k \in leftBehind' /\ database[k] = "up"
           => child'[k].pc = "serving"
  <1>1. ASSUME database' = database,
               leftBehind' \subseteq leftBehind, leftBehind' \subseteq waiting',
               \A j \in Pids : Known(j), \A k \in Keys : Served(k)
        PROVE  CrashHeeded'
    <2>1. \A j \in Pids, k \in leftBehind' :
            main'[j].pc \in Informed => main'[j].db[k] = database[k]
      BY <1>1 DEF CrashHeeded
    <2>2. \A k \in leftBehind' : k \in leftBehind /\ k \in Keys
      BY <1>1
    <2>3. \A k \in leftBehind' :
            child'[k].pc = "serving" => (child'[k].up <=> database[k] = "up")
      BY <1>1, <2>2 DEF CrashHeeded
    <2>4. \A j \in Pids, k \in leftBehind' :
            main'[j].pc \in Informed \ {"cleanse"} /\ database[k] = "up"
            => child'[k].pc = "serving" \/ k \in main'[j].behindGap
      <3>1. ASSUME NEW j \in Pids, NEW k \in leftBehind', database[k] = "up",
                   main'[j].pc \in Informed \ {"cleanse"}
            PROVE  child'[k].pc = "serving" \/ k \in main'[j].behindGap
        <4>1. /\ main[j].pc \in Informed \ {"cleanse"}
              /\ main'[j].behindGap = main[j].behindGap
          BY <1>1, <3>1
        <4>2. child[k].pc = "serving" \/ k \in main[j].behindGap
          BY <2>2, <3>1, <4>1 DEF CrashHeeded
        <4>3. QED
          BY <1>1, <2>2, <3>1, <4>1, <4>2
      <3>2. QED
        BY <3>1
    <2>5. QED
      BY <1>1, <2>1, <2>3, <2>4 DEF CrashHeeded
  <1>2. leftBehind \subseteq waiting
    BY DEF CrashHeeded
  <1>3. ASSUME NEW h \in BOOLEAN, Heard(h), NEW j \in Pids
        PROVE  Known(j)
    BY <1>3, HeardFields DEF Informed, AtPending
  <1>4. ASSUME NEW i \in Pids, Start(i) \/ MainStep(i)
        PROVE  CrashHeeded'
    BY <1>4, CrashMain
  <1>5. ASSUME NEW i \in Pids, TapEnds(i)
        PROVE  CrashHeeded'
    <2>1. Heard(FALSE) /\ UNCHANGED <<database, leftBehind, waiting, child>>
      BY <1>5, ParentHears DEF TapEnds
    <2>2. QED
      BY <1>1, <1>2, <1>3, <2>1
  <1>6. ASSUME NEW k \in Keys, ChildPrints(k)
        PROVE  CrashHeeded'
    BY <1>1, <1>2, <1>6 DEF ChildPrints
  <1>7. ASSUME NEW k \in Keys, ChildEnds(k)
        PROVE  CrashHeeded'
    <2>1. Heard(FALSE) /\ UNCHANGED <<database, leftBehind, waiting>>
      BY <1>7, ParentHears DEF ChildEnds
    <2>2. ~(k \in leftBehind /\ database[k] = "up")
      BY <1>2, <1>7 DEF ChildEnds, CrashHeeded
    <2>3. /\ child'[k].pc = "none"
          /\ \A l \in Keys : l # k => child'[l] = child[l]
      BY <1>7 DEF ChildEnds, NoChild
    <2>4. QED
      BY <1>1, <1>2, <1>3, <2>1, <2>2, <2>3
  <1>8. ASSUME NEW s \in Senders, NotifySignal(s)
        PROVE  CrashHeeded'
    <2>1. Heard(FALSE) /\ UNCHANGED <<database, leftBehind, waiting, child>>
      BY <1>8, DaemonHears DEF NotifySignal
    <2>2. QED
      BY <1>1, <1>2, <1>3, <2>1
  <1>9. ASSUME NEW s \in Senders, Submit(s)
        PROVE  CrashHeeded'
    BY <1>1, <1>2, <1>9 DEF Submit
  <1>10. CASE EditDatabase
    <2>1. UNCHANGED <<main, child, waiting>> /\ leftBehind' \subseteq leftBehind
      BY <1>10 DEF EditDatabase
    <2>2. CASE AtWork
      <3>1. PICK l \in Keys, new \in Statuses :
               /\ database' = [database EXCEPT ![l] = new]
               /\ leftBehind' = leftBehind \ {l}
        BY <1>10, <2>2 DEF EditDatabase
      <3>2. \A k \in leftBehind' : k \in leftBehind /\ database'[k] = database[k]
        BY <3>1
      <3>3. QED
        BY <1>2, <2>1, <3>2 DEF CrashHeeded
    <2>3. CASE ~AtWork
      <3>1. /\ \A i \in Pids : main[i].pc \notin Informed
            /\ \A k \in Keys : child[k].pc # "serving"
        BY <2>3 DEF AtWork, Running, Informed, AtPending
      <3>2. QED
        BY <1>2, <2>1, <3>1 DEF CrashHeeded
    <2>4. QED
      BY <2>2, <2>3
  <1>11. CASE HangUp
    <2>1. Heard(TRUE) /\ UNCHANGED <<database, leftBehind, waiting>>
      BY <1>11, DaemonHears DEF HangUp
    <2>2. ASSUME NEW k \in Keys
          PROVE  /\ child'[k].pc = child[k].pc
                 /\ child[k].pc = "serving" => (child'[k].up <=> database[k] = "up")
      <3>1. child[k] \in ChildState
        OBVIOUS
      <3>2. child'[k] = [child[k] EXCEPT !.up = (child[k].pc = "serving" /\ database[k] = "up")]
        BY <1>11 DEF HangUp
      <3>3. CASE child[k].pc = "serving" /\ database[k] = "up"
        <4>1. child'[k] = [child[k] EXCEPT !.up = TRUE]
          BY <3>2, <3>3
        <4>2. QED
          BY <3>1, <3>3, <4>1 DEF ChildState
      <3>4. CASE ~(child[k].pc = "serving" /\ database[k] = "up")
        <4>1. child'[k] = [child[k] EXCEPT !.up = FALSE]
          BY <3>2, <3>4
        <4>2. QED
          BY <3>1, <3>4, <4>1 DEF ChildState
      <3>5. QED
        BY <3>3, <3>4
    <2>3. QED
      BY <1>1, <1>2, <1>3, <2>1, <2>2
  <1>12. CASE Crash
    <2>1. /\ \A i \in Pids : main'[i].pc \in {"off", "dead"}
          /\ \A k \in Keys : child'[k].pc = "none"
          /\ leftBehind' = waiting /\ waiting' = waiting
      BY <1>12 DEF Crash, Dead, NotStarted, NoChild
    <2>2. QED
      BY <2>1 DEF CrashHeeded, Informed, AtPending
  <1>13. ASSUME NEW s \in Senders, NotifyLock(s) \/ NotifyLockBusy(s) \/ NotifyAppend(s)
         PROVE  CrashHeeded'
    BY <1>1, <1>2, <1>13 DEF NotifyLock, NotifyLockBusy, NotifyAppend
  <1>14. CASE UNCHANGED vars
    BY <1>14 DEF vars, CrashHeeded
  <1>15. QED
    BY <1>4, <1>5, <1>6, <1>7, <1>8, <1>9, <1>10, <1>11, <1>12, <1>13, <1>14
    DEF Next, PprStep

-----------------------------------------------------------------------------
(* The theorems.                                                           *)

\* The invariant holds in every behaviour of the specification.
LEMMA DaemonInvariant == Spec => []DaemonInv
  <1>1. Init => DaemonInv
    BY DaemonInit
  <1>2. DaemonInv /\ [Next]_vars => DaemonInv'
    <2> SUFFICES ASSUME TypeOK, OneDaemon, PendingHeld, NoneStranded, HangupsHeeded,
                        CrashHeeded, [Next]_vars
                 PROVE  DaemonInv'
      BY DEF DaemonInv
    <2>1. TypeOK' /\ OneDaemon' /\ PendingHeld'
      BY TypeStep, OneDaemonStep, PendingStep
    <2>2. NoneStranded'
      BY StrandedStep
    <2>3. HangupsHeeded'
      BY HangupsStep
    <2>4. CrashHeeded'
      BY CrashStep
    <2>5. QED
      BY <2>1, <2>2, <2>3, <2>4 DEF DaemonInv
  <1>3. QED
    BY <1>1, <1>2, PTL DEF Spec

\* However often ppd is started, and whatever signals, hangups and crashes
\* there are, one process at most does the daemon's work, and it is the one
\* whose pid is in .dpid (ppd.c 129-134, 185-246).
THEOREM OnlyOneDaemon == Spec => []OneDaemon
  <1>1. DaemonInv => OneDaemon
    BY DEF DaemonInv
  <1>2. QED
    BY <1>1, DaemonInvariant, PTL

\* The daemon never sleeps on an unread line of .pending whose ppr has
\* signalled, but for a signal handled just before pause() (ppd.c 335-457,
\* notify.c 212-260).
THEOREM NoticesHeard == Spec => []StrandedOnlyByMissedSignal
  <1>1. DaemonInv => StrandedOnlyByMissedSignal
    BY DEF DaemonInv, NoneStranded, StrandedOnlyByMissedSignal
  <1>2. QED
    BY <1>1, DaemonInvariant, PTL

\* A line written after a hangup is judged by a database read after the
\* change, but for a hangup that comes between read_database and reload = 0
\* (ppd.c 359-363, 388-389).
THEOREM LinesJudgedByNewDatabase == Spec => []StaleOnlyByLateHangup
  <1>1. DaemonInv => StaleOnlyByLateHangup
    <2> SUFFICES ASSUME DaemonInv, NEW i \in Pids,
                        main[i].pc = "read", main[i].next <= Len(pending), ~main[i].late
                 PROVE  main[i].asOf >= pending[main[i].next].told
      BY DEF StaleOnlyByLateHangup
    <2>1. main[i].next \in 1 .. Len(pending)
      <3>1. main[i].next \in Nat /\ main[i].next >= 1 /\ Len(pending) \in Nat
        BY DEF DaemonInv, TypeOK, MainState, PendingHeld, AtPending
      <3>2. QED
        BY <3>1
    <2>2. QED
      BY <2>1 DEF DaemonInv, HangupsHeeded
  <1>2. QED
    BY <1>1, DaemonInvariant, PTL

\* When ppd is up after a crash, what the crash left in a queue that is up is
\* printed or has a child at work on it, but for the queues with a free key
\* below them and those whose own record changed under a daemon: the first are
\* exactly the queues cleanse_queues does not come to (ppd.c 274-320).
THEOREM CrashedJobsTakenUp == Spec => []LeftBehindOnlyByGap
  <1>1. DaemonInv => LeftBehindOnlyByGap
    BY DEF DaemonInv, CrashHeeded, LeftBehindOnlyByGap, Informed
  <1>2. QED
    BY <1>1, DaemonInvariant, PTL

\* .pending is only ever cut short by the process that holds its lock and has
\* been through all of its lines (ppd.c 366-439, notify.c 187-213).
THEOREM NoLineCutOff == Spec => LinesReadBeforeTruncation
  <1> DEFINE Read == Len(pending') < Len(pending) =>
               \E i \in Pids : /\ main[i].pc = "read" /\ pendingLock = i
                               /\ main[i].next = Len(pending) + 1
  <1>1. DaemonInv /\ [Next]_vars => Read
    <2> SUFFICES ASSUME DaemonInv, [Next]_vars, Len(pending') < Len(pending)
                 PROVE  \E i \in Pids : /\ main[i].pc = "read" /\ pendingLock = i
                                        /\ main[i].next = Len(pending) + 1
      OBVIOUS
    <2>1. Len(pending) \in Nat /\ pending' # pending
      BY DEF DaemonInv, TypeOK
    <2>2. ASSUME NEW s \in Senders, NotifyAppend(s)
          PROVE  FALSE
      <3>1. Len(pending') = Len(pending) + 1
        BY <2>2 DEF NotifyAppend, DaemonInv, TypeOK
      <3>2. QED
        BY <2>1, <3>1
    <2>3. \E i \in Pids : TruncatePending(i)
      BY <2>1, <2>2 DEF Next, MainStep, PprStep, vars, files, world,
         Start, WritePid, FirstRead, CleanseQueues, OpenPending,
         LockPending, CheckReload, ResetReload, ReadLine, Pause, TapEnds,
         ChildPrints, ChildEnds, Submit, NotifyLock, NotifyLockBusy,
         NotifySignal, EditDatabase, HangUp, Crash
    <2>4. PICK i \in Pids : TruncatePending(i)
      BY <2>3
    <2>5. main[i].pc = "read" /\ main[i].next > Len(pending)
      BY <2>4 DEF TruncatePending, AllLinesRead
    <2>6. /\ pendingLock = i /\ main[i].next \in Nat
          /\ main[i].next <= Len(pending) + 1
      BY <2>5 DEF DaemonInv, PendingHeld, TypeOK, MainState, AtPending
    <2>7. main[i].next = Len(pending) + 1
      BY <2>1, <2>5, <2>6
    <2>8. QED
      BY <2>5, <2>6, <2>7
  <1>2. QED
    BY <1>1, DaemonInvariant, PTL DEF Spec, LinesReadBeforeTruncation
=============================================================================
