------------------------------- MODULE Daemon -------------------------------
(***************************************************************************)
(* The main process of ppd, and what reaches it: the lines that ppr        *)
(* appends to .pending, the signals that follow them, the hangups that the *)
(* web pages send after a change to the database, and the ends of the      *)
(* children it forks.                                                      *)
(*                                                                         *)
(* ppd may be started several times; a start is known by its pid.  A queue *)
(* child is reduced to what the main process sees of it: it prints what    *)
(* waits in its queue, and ends (SpoolQueue is the whole of it).  Of the   *)
(* database only the queues' existence and status count.                   *)
(***************************************************************************)
EXTENDS Naturals, Sequences, FiniteSets

CONSTANTS
    Keys,           \* keys of the queues' records, and of their directories
    Senders,        \* ppr processes; each runs again and again
    StartDatabase,  \* the databases ppd may find
    MaxStarts,      \* bound: times ppd is started
    MaxJobs,        \* bound: jobs submitted
    MaxEdits,       \* bound: changes to the database
    MaxCrashes,     \* bound: crashes of the machine
    Free            \* owner of a lock nobody holds

Statuses == {"none", "up", "down"}

ASSUME DaemonAssumption ==
    /\ IsFiniteSet(Keys)
    /\ \A k \in Keys : k \in Nat /\ 0 .. k \subseteq Keys
    /\ StartDatabase \subseteq [Keys -> Statuses]
    /\ {MaxStarts, MaxJobs, MaxEdits, MaxCrashes} \subseteq Nat
    /\ Free \notin Senders \cup 1 .. MaxStarts
    /\ Senders \cap 1 .. MaxStarts = {}

Pids == 1 .. MaxStarts

VARIABLES
    database,       \* status of each queue in the mSQL database
    version,        \* changes made to it so far
    told,           \* the version the last finished hangup spoke of
    editor,         \* a web page has made its change and not yet notified
    waiting,        \* queues with jobs in their directories
    exists,         \* there is a .pending file
    pending,        \* its lines
    pendingLock,    \* owner of the lock on it
    dpidLock,       \* owner of the lock on .dpid
    dpid,           \* the pid written in .dpid, 0 before the first
    main,           \* the local state of each main process
    taps,           \* children, by parent, that found their queue served
    child,          \* the queue child of each queue
    ppr,            \* the local state of each ppr
    leftBehind,     \* queues whose jobs a crash has left behind, if their own
                    \* records have not changed under a daemon since
    jobs, crashes

files == <<exists, pending, dpid>>
locks == <<pendingLock, dpidLock>>
world == <<database, version, told, editor>>
bounds == <<jobs, crashes>>
vars == <<files, locks, world, waiting, main, taps, child, ppr, leftBehind, bounds>>

\* The read position, the flags, and the copy of the database.
NotStarted ==
    [pc |-> "off", db |-> [k \in Keys |-> "none"], asOf |-> 0, next |-> 1,
     reload |-> FALSE, missed |-> FALSE, late |-> FALSE, behindGap |-> {}]
Dead == [NotStarted EXCEPT !.pc = "dead"]
NoChild == [pc |-> "none", up |-> FALSE, parent |-> 0]
IdlePpr == [pc |-> "idle", key |-> 0]

\* The queues that existed at the last start and their jobs are still there.
Init ==
    /\ database \in StartDatabase
    /\ version = 0
    /\ told = 0
    /\ editor = FALSE
    /\ waiting = {}
    /\ exists = FALSE
    /\ pending = << >>
    /\ pendingLock = Free
    /\ dpidLock = Free
    /\ dpid = 0
    /\ main = [i \in Pids |-> NotStarted]
    /\ taps = [i \in Pids |-> 0]
    /\ child = [k \in Keys |-> NoChild]
    /\ ppr = [s \in Senders |-> IdlePpr]
    /\ leftBehind = {}
    /\ jobs = 0
    /\ crashes = 0

-----------------------------------------------------------------------------
(* Signals to the main process.  One wakes it from pause(); one that comes *)
(* while it is blocked on the lock of .pending makes wait_lock_file fail,  *)
(* and the process exits; at any other moment only the handler's flag      *)
(* remains.  missed, late and behindGap remember, for the properties, that *)
(* a signal came just before pause(), that a hangup came between the       *)
(* reading of the database and the reset of the flag, and which keys had a *)
(* free one below them when the process forked its first children.         *)
Running(i) == main[i].pc \notin {"off", "dead"}

\* A faulty variant: the signal does not end pause().
HitAsleep(m, hangup) == [m EXCEPT !.reload = @ \/ hangup]

Hit(m, hangup) ==
    [m EXCEPT !.pc = IF @ = "paused" THEN "open" ELSE @,
              !.reload = @ \/ hangup,
              !.missed = @ \/ m.pc = "topause",
              !.late = @ \/ (hangup /\ m.pc = "reset")]

AfterSignal(i, hangup) ==
    {Hit(main[i], hangup)} \cup
    (IF main[i].pc = "waitpending" /\ pendingLock # Free
        THEN {Dead} ELSE {})

Signal(i, hangup) ==
    \E m \in AfterSignal(i, hangup) :
        /\ main' = [main EXCEPT ![i] = m]
        /\ dpidLock' = IF m.pc = "dead" THEN Free ELSE dpidLock

\* A notifier tests the lock on .dpid and signals the pid it reads there,
\* which may be that of an earlier daemon.
SignalDaemon(hangup) ==
    IF dpidLock # Free /\ dpid \in Pids /\ Running(dpid)
        THEN Signal(dpid, hangup)
        ELSE UNCHANGED <<main, dpidLock>>

\* Closing .pending gives up the lock on it.
LockAfterClose == Free

-----------------------------------------------------------------------------
(* Starting: main, lock_dpid, read_database, cleanse_queues.               *)

\* A faulty variant: the lock on .dpid is not tried.
AlwaysLocks == TRUE

\* lock_file on .dpid succeeds.
DpidLockFree == dpidLock = Free

\* Nothing a process does before it tries the lock is seen by another.
Start(i) ==
    /\ main[i].pc = "off"
    /\ \A j \in Pids : j < i => main[j].pc # "off"
    /\ dpidLock' = IF DpidLockFree THEN i ELSE dpidLock
    /\ main' = [main EXCEPT ![i].pc = IF DpidLockFree THEN "writepid" ELSE "dead"]
    /\ UNCHANGED <<files, pendingLock, world, waiting, taps, child, ppr, leftBehind, bounds>>

\* The handlers are in place before the pid can be read.
WritePid(i) ==
    /\ main[i].pc = "writepid"
    /\ dpid' = i
    /\ main' = [main EXCEPT ![i].pc = "readdb"]
    /\ UNCHANGED <<exists, pending, locks, world, waiting, taps, child, ppr, leftBehind, bounds>>

ReadDatabase(m) == [m EXCEPT !.db = database, !.asOf = version]

FirstRead(i) ==
    /\ main[i].pc = "readdb"
    /\ main' = [main EXCEPT ![i] = [ReadDatabase(@) EXCEPT !.pc = "cleanse"]]
    /\ UNCHANGED <<files, locks, world, waiting, taps, child, ppr, leftBehind, bounds>>

\* A forked child takes the queue over, or finds it served, taps the child
\* that serves it, and ends.
Forked(i, K) ==
    /\ child' = [k \in Keys |->
           IF k \in K /\ child[k].pc = "none"
               THEN [pc |-> "serving", up |-> main[i].db[k] = "up", parent |-> i]
               ELSE child[k]]
    /\ taps' = [taps EXCEPT ![i] =
           @ + Cardinality({k \in K : child[k].pc # "none"})]

\* A faulty variant: the first queue is forgotten.
CleansedButFirst(db) == {k \in Keys : k > 0 /\ \A l \in 0 .. k : l \in Keys /\ db[l] # "none"}

\* The queues that cleanse_queues comes to: it stops at the first free key.
Cleansed(db) == {k \in Keys : \A l \in 0 .. k : l \in Keys /\ db[l] # "none"}

\* The keys with a free one below them.
BehindGap(db) == {k \in Keys : \E l \in Keys : l < k /\ db[l] = "none"}

CleanseQueues(i) ==
    /\ main[i].pc = "cleanse"
    /\ Forked(i, Cleansed(main[i].db))
    /\ main' = [main EXCEPT ![i].pc = "open", ![i].behindGap = BehindGap(main[i].db)]
    /\ UNCHANGED <<files, locks, world, waiting, ppr, leftBehind, bounds>>

-----------------------------------------------------------------------------
(* The endless loop: handle_incoming_jobs.                                 *)

OpenPending(i) ==
    /\ main[i].pc = "open"
    /\ main' = [main EXCEPT ![i].pc = IF exists THEN "waitpending" ELSE "topause",
                            ![i].missed = FALSE]
    /\ UNCHANGED <<files, locks, world, waiting, taps, child, ppr, leftBehind, bounds>>

LockPending(i) ==
    /\ main[i].pc = "waitpending"
    /\ pendingLock = Free
    /\ pendingLock' = i
    /\ main' = [main EXCEPT ![i].pc = "check", ![i].next = 1]
    /\ UNCHANGED <<files, dpidLock, world, waiting, taps, child, ppr, leftBehind, bounds>>

\* A faulty variant: the flag is not looked at.
ReloadForgotten(i) == FALSE

MustReload(i) == main[i].reload

CheckReload(i) ==
    /\ main[i].pc = "check"
    /\ main' = [main EXCEPT ![i] =
           IF MustReload(i) THEN [ReadDatabase(@) EXCEPT !.pc = "reset", !.late = FALSE]
                            ELSE [@ EXCEPT !.pc = "read"]]
    /\ UNCHANGED <<files, locks, world, waiting, taps, child, ppr, leftBehind, bounds>>

ResetReload(i) ==
    /\ main[i].pc = "reset"
    /\ main' = [main EXCEPT ![i].pc = "read", ![i].reload = FALSE]
    /\ UNCHANGED <<files, locks, world, waiting, taps, child, ppr, leftBehind, bounds>>

\* A line names a queue: fork a child for it if the queue is up, as far as
\* this process knows.
ReadLine(i) ==
    /\ main[i].pc = "read"
    /\ main[i].next <= Len(pending)
    /\ LET k == pending[main[i].next].key
       IN  Forked(i, {l \in {k} : main[i].db[l] = "up"})
    /\ main' = [main EXCEPT ![i].next = @ + 1]
    /\ UNCHANGED <<files, locks, world, waiting, ppr, leftBehind, bounds>>

\* A faulty variant: reading stops after the first line.
OneLineRead(i) == main[i].next > 1 \/ pending = << >>

AllLinesRead(i) == main[i].next > Len(pending)

\* The read position goes with the stream.
TruncatePending(i) ==
    /\ main[i].pc = "read"
    /\ AllLinesRead(i)
    /\ pending' = << >>
    /\ pendingLock' = LockAfterClose
    /\ main' = [main EXCEPT ![i].pc = "topause", ![i].next = 1]
    /\ UNCHANGED <<exists, dpid, dpidLock, world, waiting, taps, child, ppr, leftBehind, bounds>>

Pause(i) ==
    /\ main[i].pc = "topause"
    /\ main' = [main EXCEPT ![i].pc = "paused"]
    /\ UNCHANGED <<files, locks, world, waiting, taps, child, ppr, leftBehind, bounds>>

MainStep(i) ==
    \/ WritePid(i) \/ FirstRead(i) \/ CleanseQueues(i)
    \/ OpenPending(i) \/ LockPending(i) \/ CheckReload(i) \/ ResetReload(i)
    \/ ReadLine(i) \/ TruncatePending(i) \/ Pause(i)

-----------------------------------------------------------------------------
(* Its children.                                                           *)

\* SIGCHLD goes to the parent, if that is still there.
TellParent(i) ==
    IF Running(i) THEN Signal(i, FALSE) ELSE UNCHANGED <<main, dpidLock>>

ChildPrints(k) ==
    /\ child[k].pc = "serving"
    /\ child[k].up
    /\ k \in waiting
    /\ waiting' = waiting \ {k}
    /\ leftBehind' = leftBehind \ {k}
    /\ UNCHANGED <<files, locks, world, main, taps, child, ppr, bounds>>

ChildEnds(k) ==
    /\ child[k].pc = "serving"
    /\ child[k].up => k \notin waiting
    /\ child' = [child EXCEPT ![k] = NoChild]
    /\ TellParent(child[k].parent)
    /\ UNCHANGED <<files, pendingLock, world, waiting, taps, ppr, leftBehind, bounds>>

TapEnds(i) ==
    /\ taps[i] > 0
    /\ taps' = [taps EXCEPT ![i] = @ - 1]
    /\ TellParent(i)
    /\ UNCHANGED <<files, pendingLock, world, waiting, child, ppr, leftBehind, bounds>>

-----------------------------------------------------------------------------
(* ppr: notify_parent_job_queued, after a job has been put into the queue. *)

Submit(s) ==
    /\ ppr[s].pc = "idle"
    /\ jobs < MaxJobs
    /\ jobs' = jobs + 1
    /\ \E k \in Keys :
         /\ database[k] = "up"
         /\ waiting' = waiting \cup {k}
         /\ ppr' = [ppr EXCEPT ![s] = [pc |-> "notify", key |-> k]]
    /\ UNCHANGED <<files, locks, world, main, taps, child, leftBehind, crashes>>

\* open(O_CREAT) and lock_file; both ways the file is there afterwards.
NotifyLock(s) ==
    /\ ppr[s].pc = "notify"
    /\ exists' = TRUE
    /\ pendingLock = Free
    /\ pendingLock' = s
    /\ ppr' = [ppr EXCEPT ![s].pc = "append"]
    /\ UNCHANGED <<pending, dpid, dpidLock, world, waiting, main, taps, child, leftBehind, bounds>>

\* lock_file does not wait: with the lock taken the notice is dropped.
NotifyLockBusy(s) ==
    /\ ppr[s].pc = "notify"
    /\ exists' = TRUE
    /\ pendingLock # Free
    /\ ppr' = [ppr EXCEPT ![s] = IdlePpr]
    /\ UNCHANGED <<pending, dpid, locks, world, waiting, main, taps, child, leftBehind, bounds>>

NotifyAppend(s) ==
    /\ ppr[s].pc = "append"
    /\ pending' = Append(pending, [key |-> ppr[s].key, told |-> told])
    /\ pendingLock' = LockAfterClose
    /\ ppr' = [ppr EXCEPT ![s] = [IdlePpr EXCEPT !.pc = "signal"]]
    /\ UNCHANGED <<exists, dpid, dpidLock, world, waiting, main, taps, child, leftBehind, bounds>>

NotifySignal(s) ==
    /\ ppr[s].pc = "signal"
    /\ SignalDaemon(FALSE)
    /\ ppr' = [ppr EXCEPT ![s] = IdlePpr]
    /\ UNCHANGED <<files, pendingLock, world, waiting, taps, child, leftBehind, bounds>>

PprStep(s) == NotifyLock(s) \/ NotifyLockBusy(s) \/ NotifyAppend(s) \/ NotifySignal(s)

-----------------------------------------------------------------------------
(* The web pages: change a queue's record, then notify.                    *)

\* A daemon or a queue child has read the database, or is about to.
AtWork ==
    \/ \E i \in Pids : Running(i)
    \/ \E k \in Keys : child[k].pc # "none"

EditDatabase ==
    /\ ~editor
    /\ version < MaxEdits
    /\ \E k \in Keys, new \in Statuses :
         /\ new # database[k]
         /\ database' = [database EXCEPT ![k] = new]
         /\ leftBehind' = IF AtWork THEN leftBehind \ {k} ELSE leftBehind
    /\ version' = version + 1
    /\ editor' = TRUE
    /\ UNCHANGED <<files, locks, told, waiting, main, taps, child, ppr, bounds>>

\* notify_parent_reload_database and notify_queue_reload_database.
HangUp ==
    /\ editor
    /\ editor' = FALSE
    /\ told' = version
    /\ SignalDaemon(TRUE)
    /\ child' = [k \in Keys |-> [child[k] EXCEPT !.up =
           child[k].pc = "serving" /\ database[k] = "up"]]
    /\ UNCHANGED <<files, pendingLock, database, version, waiting, taps, ppr, leftBehind, bounds>>

-----------------------------------------------------------------------------
\* Files and database survive; locks and processes do not.
Crash ==
    /\ crashes < MaxCrashes
    /\ crashes' = crashes + 1
    /\ pendingLock' = Free
    /\ dpidLock' = Free
    /\ main' = [i \in Pids |-> IF main[i].pc = "off" THEN main[i] ELSE Dead]
    /\ taps' = [i \in Pids |-> 0]
    /\ child' = [k \in Keys |-> NoChild]
    /\ ppr' = [s \in Senders |-> IdlePpr]
    /\ leftBehind' = waiting
    /\ UNCHANGED <<files, world, waiting, jobs>>

Next ==
    \/ \E i \in Pids : Start(i) \/ MainStep(i) \/ TapEnds(i)
    \/ \E k \in Keys : ChildPrints(k) \/ ChildEnds(k)
    \/ \E s \in Senders : Submit(s) \/ PprStep(s)
    \/ EditDatabase \/ HangUp \/ Crash

Spec == Init /\ [][Next]_vars

\* Processes run; nobody must start ppd, submit a job or change a queue.
Fairness ==
    /\ \A i \in Pids : WF_vars(MainStep(i)) /\ WF_vars(TapEnds(i))
    /\ \A k \in Keys : WF_vars(ChildPrints(k) \/ ChildEnds(k))
    /\ \A s \in Senders : WF_vars(PprStep(s))
    /\ WF_vars(HangUp)

FairSpec == Spec /\ Fairness

-----------------------------------------------------------------------------
(* What must hold.                                                         *)

\* However often ppd is started, one process at most does the daemon's work,
\* and no other ever has its pid in .dpid while that one can be signalled
\* (ppd.c 129-134, 185-246).
OneDaemon ==
    /\ \A i, j \in Pids : Running(i) /\ Running(j) => i = j
    /\ \A i \in Pids : Running(i) => /\ dpidLock = i
                                     /\ main[i].pc # "writepid" => dpid = i

\* When the daemon sleeps, a line in .pending has a ppr behind it that has
\* not signalled yet -- unless a signal was handled just before pause().  In
\* particular a signal to the pid of an earlier daemon, a daemon not there
\* at the time, and a crash strand no notice (ppd.c 335-457, notify.c 212-260).
StrandedOnlyByMissedSignal ==
    \A i \in Pids :
        main[i].pc = "paused" /\ pending # << >>
        => main[i].missed \/ \E s \in Senders : ppr[s].pc = "signal"

\* A line written after a web page has notified the daemon of a change is
\* judged by a database read after that change -- unless the hangup came
\* between read_database and reload = 0 (ppd.c 359-363, 388-389).
StaleOnlyByLateHangup ==
    \A i \in Pids :
        main[i].pc = "read" /\ main[i].next <= Len(pending)
        => main[i].late \/ main[i].asOf >= pending[main[i].next].told

\* No line goes unread: .pending is truncated only by a process that has
\* been through all of it (ppd.c 366-439, notify.c 187-213).
LinesReadBeforeTruncation ==
    [][Len(pending') < Len(pending) =>
         \E i \in Pids : /\ main[i].pc = "read" /\ pendingLock = i
                         /\ main[i].next = Len(pending) + 1]_vars

\* When ppd is up after a crash, every job the crash left in a queue that is
\* up has been printed or has the queue's child at work on it, but in two
\* cases.  The first breaks the promise of ppd.8, "it will immediately print
\* out any jobs which were left behind in its spool directories after a
\* crash": cleanse_queues stops at the first free key, and a queue with a free
\* key below it is not looked at (ppd.c 282).  The second is a queue whose own
\* record was changed while a daemon or a queue child was at work: that process
\* may have judged it by the old record.
LeftBehindOnlyByGap ==
    \A i \in Pids, k \in Keys :
        /\ main[i].pc = "paused"
        /\ database[k] = "up" /\ k \in leftBehind
        => child[k].pc = "serving" \/ k \in main[i].behindGap

\* The queues that .pending names.
Noticed == {pending[n].key : n \in DOMAIN pending}

\* A line in .pending is read in the end, if the daemon neither misses a
\* signal nor exits nor crashes.
NoticeRead ==
    \A k \in Keys :
        ((\E i \in Pids : main[i].pc = "paused") /\ k \in Noticed)
        ~> (k \notin Noticed \/ \A i \in Pids : Running(i) => main[i].missed)

=============================================================================
