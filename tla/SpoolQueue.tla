----------------------------- MODULE SpoolQueue -----------------------------
(***************************************************************************)
(* One print queue: its spool directory, the ppr processes that put jobs   *)
(* into it, the pprm processes that take them out, the queue child of ppd  *)
(* that serves it (service_queue) and the printing children it forks.      *)
(*                                                                         *)
(* A job is known by the inode of its inf file, so that a file name that   *)
(* has been given to another job can be told from the file a process still *)
(* has open.  Locks are fcntl locks: they belong to a process, fall when   *)
(* the process exits or closes the file, and are not inherited by a fork.  *)
(*                                                                         *)
(* The printers attached to the queue are fixed here, and a signal to the  *)
(* daemon's main process is never lost: Daemon models those parts.         *)
(***************************************************************************)
EXTENDS SpoolIndex, FiniteSets

CONSTANTS
    Clients,        \* ppr processes; each runs again and again
    Removers,       \* pprm processes; likewise
    Printers,       \* printers attached to the queue
    StartCounts,    \* what the last queue child may have left in .count
    MaxJobs,        \* bound: jobs ever submitted
    UnknownUsers,   \* clients that name an unknown user with -u
    AdminMoves,     \* bound: times the queue is downed or upped
    MaxCrashes,     \* bound: times the machine crashes
    Free, Service   \* lock owners: nobody, the queue child

ASSUME SpoolAssumption ==
    /\ MaxJobs \in Nat /\ AdminMoves \in Nat /\ MaxCrashes \in Nat
    /\ UnknownUsers \subseteq Clients
    /\ StartCounts \subseteq Slots
    /\ IsFiniteSet(Printers) /\ Printers # {}
    /\ Free \notin Clients \cup Removers \cup {Service}
    /\ Service \notin Clients \cup Removers
    /\ Clients \cap Removers = {}

Jobs == 1 .. MaxJobs
NoJob == 0
Owners == Clients \cup Removers \cup {Service, Free}

VARIABLES
    inf,        \* inf[s]: the job whose inf file is named inf<s>, or NoJob
    dat,        \* dat[s]: the job whose data is in dat<s>, or NoJob
    written,    \* jobs whose inf file has been filled in
    count,      \* the number in the .count file, 0 when there is none
    lock,       \* owner of the lock on .lock
    infLock,    \* infLock[j]: owner of the lock on job j's inf file
    dpidBy,     \* the pprm that holds the lock on the queue's .dpid, or Free
    ppr, rm,    \* the local state of each client and each remover
    notice,     \* .pending names this queue and the daemon has been told
    svc,        \* the local state of the queue child
    entry,      \* its eligible_printers table, one entry for each printer
    orphans,    \* jobs still being printed by children of a dead queue child
    prints,     \* prints[j]: times job j has come out of a printer
    done,       \* jobs a printing child has finished with, printed or refused
    lastJob,    \* the last job submitted
    dbUp,       \* the queue's status in the database is UP
    moves, crashes

spool == <<inf, dat, written, count>>
locks == <<lock, infLock, dpidBy>>
history == <<prints, done, lastJob>>
bounds == <<dbUp, moves, crashes>>
vars == <<spool, locks, ppr, rm, notice, svc, entry, orphans, history, bounds>>

Files == {s \in Slots : inf[s] # NoJob}
Busy == {p \in Printers : entry[p].state # "idle"}

\* A faulty variant of the head scan: the largest number.
LargestNumber(S) == CHOOSE h \in S : \A v \in S : v <= h

\* What the directory scans return in a directory that is not empty.
CalculateHead(S) == CHOOSE h \in S : \A v \in S : ~NewerThan(v, h)
CalculateTail(S) == CHOOSE t \in S : \A v \in S : ~OlderThan(v, t)

IdleClient == [pc |-> "idle", slot |-> 0, job |-> NoJob]
IdleEntry == [state |-> "idle", jobnum |-> 0, inf |-> NoJob, dat |-> NoJob]
NoService ==
    [pc |-> "none", head |-> 0, tail |-> 0, jobSent |-> FALSE,
     opened |-> NoJob, reaping |-> 0, numChildren |-> 0,
     childExited |-> FALSE, reload |-> FALSE, up |-> FALSE]
NewService(up) == [NoService EXCEPT !.pc = "init", !.up = up]

Init ==
    /\ inf = [s \in Slots |-> NoJob]
    /\ dat = [s \in Slots |-> NoJob]
    /\ written = {}
    /\ count \in StartCounts
    /\ lock = Free
    /\ infLock = [j \in Jobs |-> Free]
    /\ dpidBy = Free
    /\ ppr = [c \in Clients |-> IdleClient]
    /\ rm = [r \in Removers |-> IdleClient]
    /\ notice = FALSE
    /\ svc = NoService
    /\ entry = [p \in Printers |-> IdleEntry]
    /\ orphans = {}
    /\ prints = [j \in Jobs |-> 0]
    /\ done = {}
    /\ lastJob = 0
    /\ dbUp = TRUE
    /\ moves = 0
    /\ crashes = 0

-----------------------------------------------------------------------------
\* A faulty variant: the result of lock_file is not looked at.
LockIgnored == TRUE

\* An fcntl lock on .lock can be had when no process has it.
LockAvailable == lock = Free

\* A faulty variant: .lock is kept through the loop.
LockKept == lock

\* unlock_file at the top of the loop, when .lock is the queue child's.
LockAfterUnlock == IF lock = Service THEN Free ELSE lock

-----------------------------------------------------------------------------
(* Signals to the queue child.  A signal ends the pause() it sleeps in and *)
(* interrupts the F_SETLKW it is blocked in: the wait at the end of the    *)
(* loop goes on without the lock, the one in get_head_tail exits.  At any  *)
(* other moment it leaves no trace but the flags its handler sets.         *)
AfterSignal(s) ==
    IF s.pc = "paused" THEN {[s EXCEPT !.pc = "awake"]}
    ELSE {s} \cup
         (IF s.pc = "relock" /\ lock # Free
             THEN {[s EXCEPT !.pc = "recalc"]} ELSE {}) \cup
         (IF s.pc = "init" /\ lock # Free THEN {NoService} ELSE {})

-----------------------------------------------------------------------------
(* ppr: submitting a job.                                                  *)

\* The processes that may yet submit a job.
Submitting == {c \in Clients : ppr[c].pc \in {"lock", "head", "tail", "dat"}}

\* The arguments are good, the queue exists and is up.  MaxJobs leaves no ppr
\* stuck half-way.
PprStart(c) ==
    /\ ppr[c].pc = "idle"
    /\ dbUp
    /\ lastJob + Cardinality(Submitting) < MaxJobs
    /\ ppr' = [ppr EXCEPT ![c].pc = "lock"]
    /\ UNCHANGED <<spool, locks, rm, notice, svc, entry, orphans, history, bounds>>

PprLock(c) ==
    /\ ppr[c].pc = "lock"
    /\ LockAvailable
    /\ lock' = c
    /\ ppr' = [ppr EXCEPT ![c].pc = "head"]
    /\ UNCHANGED <<spool, infLock, dpidBy, rm, notice, svc, entry, orphans, history, bounds>>

\* lock_file does not wait: with the lock taken ppr reports an error and quits.
PprLockBusy(c) ==
    /\ ppr[c].pc = "lock"
    /\ ~LockAvailable
    /\ ppr' = [ppr EXCEPT ![c] = IdleClient]
    /\ UNCHANGED <<spool, locks, rm, notice, svc, entry, orphans, history, bounds>>

NewSlot == IF Files = {} THEN count ELSE NextIndex(CalculateHead(Files))

\* calculate_head, in ppr's version: the number for the new job.
PprCalculateHead(c) ==
    /\ ppr[c].pc = "head"
    /\ ppr' = [ppr EXCEPT ![c].pc = "tail", ![c].slot = NewSlot]
    /\ UNCHANGED <<spool, locks, rm, notice, svc, entry, orphans, history, bounds>>

\* calculate_tail, and the test on the two results.  The queue child may have
\* removed files since the head was calculated.
QueueIsFull(c) == Files # {} /\ QueueFull(ppr[c].slot, CalculateTail(Files))

PprCalculateTail(c) ==
    /\ ppr[c].pc = "tail"
    /\ ~QueueIsFull(c)
    /\ ppr' = [ppr EXCEPT ![c].pc = "dat"]
    /\ UNCHANGED <<spool, locks, rm, notice, svc, entry, orphans, history, bounds>>

PprFull(c) ==
    /\ ppr[c].pc = "tail"
    /\ QueueIsFull(c)
    /\ lock' = Free
    /\ ppr' = [ppr EXCEPT ![c] = IdleClient]
    /\ UNCHANGED <<spool, infLock, dpidBy, rm, notice, svc, entry, orphans, history, bounds>>

\* Copy the file into dat<slot>, whatever was there before.
PprCreateDat(c) ==
    /\ ppr[c].pc = "dat"
    /\ lastJob < MaxJobs
    /\ lastJob' = lastJob + 1
    /\ dat' = [dat EXCEPT ![ppr[c].slot] = lastJob + 1]
    /\ ppr' = [ppr EXCEPT ![c].pc = "inf", ![c].job = lastJob + 1]
    /\ UNCHANGED <<inf, written, count, locks, rm, notice, svc, entry, orphans, prints, done, bounds>>

\* fopen(..., "w"): the inf file is there, and empty.
PprOpenInf(c) ==
    /\ ppr[c].pc = "inf"
    /\ inf' = [inf EXCEPT ![ppr[c].slot] = ppr[c].job]
    /\ ppr' = [ppr EXCEPT ![c].pc = "write"]
    /\ UNCHANGED <<dat, written, count, locks, rm, notice, svc, entry, orphans, history, bounds>>

\* Fill the inf file in, and close .lock.
PprWriteInf(c) ==
    /\ ppr[c].pc = "write"
    /\ c \notin UnknownUsers
    /\ written' = written \cup {ppr[c].job}
    /\ lock' = Free
    /\ ppr' = [ppr EXCEPT ![c].pc = "notify"]
    /\ UNCHANGED <<inf, dat, count, infLock, dpidBy, rm, notice, svc, entry, orphans, history, bounds>>

\* getpwnam fails: the data is removed, the empty inf file stays, and nobody
\* is told.
PprUnknownUser(c) ==
    /\ ppr[c].pc = "write"
    /\ c \in UnknownUsers
    /\ dat' = [dat EXCEPT ![ppr[c].slot] = NoJob]
    /\ lock' = Free
    /\ ppr' = [ppr EXCEPT ![c] = IdleClient]
    /\ UNCHANGED <<inf, written, count, infLock, dpidBy, rm, notice, svc, entry, orphans, history, bounds>>

PprNotify(c) ==
    /\ ppr[c].pc = "notify"
    /\ notice' = TRUE
    /\ ppr' = [ppr EXCEPT ![c] = IdleClient]
    /\ UNCHANGED <<spool, locks, rm, svc, entry, orphans, history, bounds>>

PprStep(c) ==
    \/ PprLock(c) \/ PprLockBusy(c) \/ PprCalculateHead(c)
    \/ PprCalculateTail(c) \/ PprFull(c)
    \/ PprCreateDat(c) \/ PprOpenInf(c) \/ PprWriteInf(c)
    \/ PprUnknownUser(c) \/ PprNotify(c)

-----------------------------------------------------------------------------
(* pprm: remove_jobnum for one job number.                                 *)

RmStart(r) ==
    /\ rm[r].pc = "idle"
    /\ \E s \in Slots : rm' = [rm EXCEPT ![r].pc = "lock", ![r].slot = s]
    /\ UNCHANGED <<spool, locks, ppr, notice, svc, entry, orphans, history, bounds>>

RmLock(r) ==
    /\ rm[r].pc = "lock"
    /\ LockAvailable
    /\ lock' = r
    /\ rm' = [rm EXCEPT ![r].pc = "access"]
    /\ UNCHANGED <<spool, infLock, dpidBy, ppr, notice, svc, entry, orphans, history, bounds>>

\* check_access reads the owner from the inf file.
RmMayRemove(r) ==
    /\ rm[r].pc = "access"
    /\ inf[rm[r].slot] \in written
    /\ rm' = [rm EXCEPT ![r].pc = "open"]
    /\ UNCHANGED <<spool, locks, ppr, notice, svc, entry, orphans, history, bounds>>

\* No such job, an unfilled inf file, or a job of another user's: exit.
RmMayNotRemove(r) ==
    /\ rm[r].pc = "access"
    /\ lock' = Free
    /\ rm' = [rm EXCEPT ![r] = IdleClient]
    /\ UNCHANGED <<spool, infLock, dpidBy, ppr, notice, svc, entry, orphans, history, bounds>>

\* The inf file may have gone since: the lock attempt on -1 then fails too.
RmOpenInf(r) ==
    /\ rm[r].pc = "open"
    /\ rm' = [rm EXCEPT ![r].pc = "lockinf", ![r].job = inf[rm[r].slot]]
    /\ UNCHANGED <<spool, locks, ppr, notice, svc, entry, orphans, history, bounds>>

RmLockInf(r) ==
    /\ rm[r].pc = "lockinf"
    /\ rm[r].job # NoJob
    /\ infLock[rm[r].job] = Free
    /\ infLock' = [infLock EXCEPT ![rm[r].job] = r]
    /\ rm' = [rm EXCEPT ![r].pc = "unlinkinf"]
    /\ UNCHANGED <<spool, lock, dpidBy, ppr, notice, svc, entry, orphans, history, bounds>>

\* The job is being printed: tell the queue child to stop it, and wait for
\* the answer with .lock locked.  signal_ppd finds out whether there is a
\* queue child by locking .dpid, and keeps the lock when there is none.
RmInfBusy(r) ==
    /\ rm[r].pc = "lockinf"
    /\ rm[r].job # NoJob => infLock[rm[r].job] # Free
    /\ svc' \in AfterSignal(svc)
    /\ dpidBy' = IF svc.pc = "none" /\ dpidBy = Free THEN r ELSE dpidBy
    /\ rm' = [rm EXCEPT ![r].pc = "ack"]
    /\ UNCHANGED <<spool, lock, infLock, ppr, notice, entry, orphans, history, bounds>>

\* Every way out of remove_jobnum gives its locks up.
RmLeaves(r) ==
    /\ lock' = Free
    /\ dpidBy' = IF dpidBy = r THEN Free ELSE dpidBy
    /\ infLock' = [j \in Jobs |-> IF infLock[j] = r THEN Free ELSE infLock[j]]
    /\ rm' = [rm EXCEPT ![r] = IdleClient]

RmAcknowledged(r) ==
    /\ rm[r].pc = "ack"
    /\ RmLeaves(r)
    /\ UNCHANGED <<spool, ppr, notice, svc, entry, orphans, history, bounds>>

RmUnlinkInf(r) ==
    /\ rm[r].pc = "unlinkinf"
    /\ inf[rm[r].slot] # NoJob
    /\ inf' = [inf EXCEPT ![rm[r].slot] = NoJob]
    /\ rm' = [rm EXCEPT ![r].pc = "unlinkdat"]
    /\ UNCHANGED <<dat, written, count, locks, ppr, notice, svc, entry, orphans, history, bounds>>

\* The queue child has unlinked the name first: exit.
RmInfGone(r) ==
    /\ rm[r].pc = "unlinkinf"
    /\ inf[rm[r].slot] = NoJob
    /\ RmLeaves(r)
    /\ UNCHANGED <<spool, ppr, notice, svc, entry, orphans, history, bounds>>

\* The data goes, if it is still there, and with it the locks.
RmUnlinkDat(r) ==
    /\ rm[r].pc = "unlinkdat"
    /\ dat' = [dat EXCEPT ![rm[r].slot] = NoJob]
    /\ RmLeaves(r)
    /\ UNCHANGED <<inf, written, count, ppr, notice, svc, entry, orphans, history, bounds>>

RmStep(r) ==
    \/ RmLock(r) \/ RmMayRemove(r) \/ RmMayNotRemove(r) \/ RmOpenInf(r)
    \/ RmLockInf(r) \/ RmInfBusy(r) \/ RmAcknowledged(r) \/ RmUnlinkInf(r)
    \/ RmInfGone(r) \/ RmUnlinkDat(r)

-----------------------------------------------------------------------------
(* The daemon's main process and the administrator.                        *)

\* handle_incoming_jobs: for each notice fork a child; the child serves the
\* queue if it gets the .dpid lock, and taps the one that has it otherwise.
\* The pid a pprm that holds the lock has left there is nobody's.
DaemonServe ==
    /\ notice
    /\ notice' = FALSE
    /\ svc' \in CASE ~dbUp -> {svc}
              [] dbUp /\ svc.pc # "none" -> AfterSignal(svc)
              [] dbUp /\ svc.pc = "none" /\ dpidBy = Free -> {NewService(TRUE)}
              [] dbUp /\ svc.pc = "none" /\ dpidBy # Free -> {svc}
    /\ UNCHANGED <<spool, locks, ppr, rm, entry, orphans, history, bounds>>

\* update_queue: the status changes, and the queue child is told to reload.
AdminSetStatus ==
    /\ moves < AdminMoves
    /\ moves' = moves + 1
    /\ dbUp' = ~dbUp
    /\ svc' \in IF svc.pc = "none" THEN {svc}
              ELSE AfterSignal([svc EXCEPT !.reload = TRUE])
    /\ UNCHANGED <<spool, locks, ppr, rm, notice, entry, orphans, history, crashes>>

\* The machine crashes and comes up again: ppd forks a child for every queue,
\* whatever its status (cleanse_queues).  The spool directory survives as it
\* was, .pending included.
CrashAndRestart ==
    /\ crashes < MaxCrashes
    /\ crashes' = crashes + 1
    /\ lock' = Free
    /\ infLock' = [j \in Jobs |-> Free]
    /\ dpidBy' = Free
    /\ ppr' = [c \in Clients |-> IdleClient]
    /\ rm' = [r \in Removers |-> IdleClient]
    /\ svc' = NewService(dbUp)
    /\ entry' = [p \in Printers |-> IdleEntry]
    /\ orphans' = {}
    /\ UNCHANGED <<spool, notice, history, dbUp, moves>>

-----------------------------------------------------------------------------
(* The queue child: service_queue.                                         *)

\* Any exit of the queue child closes its files.  The children it leaves
\* behind go on printing; one that has not read its inf file yet may or may
\* not come to print.
ServiceExits ==
    /\ svc' = NoService
    /\ lock' = IF lock = Service THEN Free ELSE lock
    /\ infLock' = [j \in Jobs |-> IF infLock[j] = Service THEN Free ELSE infLock[j]]
    /\ \E S \in SUBSET {p \in Printers : entry[p].state = "starting"} :
         orphans' = orphans \cup {entry[p].dat : p \in
                        S \cup {q \in Printers : entry[q].state = "printing"}}
    /\ entry' = [p \in Printers |-> IdleEntry]

\* get_head_tail, with .lock held when it returns.
SvcGetHeadTail ==
    /\ svc.pc = "init"
    /\ LockAvailable
    /\ Files # {}
    /\ lock' = Service
    /\ svc' = [svc EXCEPT !.pc = "loop", !.head = CalculateHead(Files),
                          !.tail = CalculateTail(Files)]
    /\ UNCHANGED <<spool, infLock, dpidBy, ppr, rm, notice, entry, orphans, history, bounds>>

SvcNothingQueued ==
    /\ svc.pc = "init"
    /\ LockAvailable
    /\ Files = {}
    /\ svc' = NoService
    /\ UNCHANGED <<spool, locks, ppr, rm, notice, entry, orphans, history, bounds>>

CanSend == JobsLeft(svc.head, svc.tail) /\ Busy # Printers

\* The top of the loop: give .lock up, and send a job if there is one left
\* and an idle printer for it.
SvcSend ==
    /\ svc.pc = "loop"
    /\ CanSend
    /\ lock' = LockAfterUnlock
    /\ svc' = [svc EXCEPT !.pc = "openinf", !.jobSent = TRUE]
    /\ UNCHANGED <<spool, infLock, dpidBy, ppr, rm, notice, entry, orphans, history, bounds>>

SvcSendNothing ==
    /\ svc.pc = "loop"
    /\ ~CanSend
    /\ lock' = LockAfterUnlock
    /\ svc' = [svc EXCEPT !.pc = "topause", !.jobSent = FALSE]
    /\ UNCHANGED <<spool, infLock, dpidBy, ppr, rm, notice, entry, orphans, history, bounds>>

\* pause(): a signal handled before this step does not end it.
SvcPause ==
    /\ svc.pc = "topause"
    /\ svc' = [svc EXCEPT !.pc = "paused"]
    /\ UNCHANGED <<spool, locks, ppr, rm, notice, entry, orphans, history, bounds>>

\* open(inf<tail>); a missing file is skipped.
SvcOpenInf ==
    /\ svc.pc = "openinf"
    /\ svc' = IF inf[svc.tail] = NoJob
                 THEN [svc EXCEPT !.pc = "awake"]
                 ELSE [svc EXCEPT !.pc = "lockinf", !.opened = inf[svc.tail]]
    /\ UNCHANGED <<spool, locks, ppr, rm, notice, entry, orphans, history, bounds>>

\* A lock of its own does not keep a process out, only another's does.
SvcLockInf ==
    /\ svc.pc = "lockinf"
    /\ infLock[svc.opened] \in {Free, Service}
    /\ infLock' = [infLock EXCEPT ![svc.opened] = Service]
    /\ svc' = [svc EXCEPT !.pc = "opendat"]
    /\ UNCHANGED <<spool, lock, dpidBy, ppr, rm, notice, entry, orphans, history, bounds>>

SvcInfLocked ==
    /\ svc.pc = "lockinf"
    /\ infLock[svc.opened] \notin {Free, Service}
    /\ svc' = [svc EXCEPT !.pc = "awake", !.opened = NoJob]
    /\ UNCHANGED <<spool, locks, ppr, rm, notice, entry, orphans, history, bounds>>

\* The data is there: print_job forks a child for an idle printer.
SvcPrintJob ==
    /\ svc.pc = "opendat"
    /\ dat[svc.tail] # NoJob
    /\ \E p \in Printers \ Busy :
         entry' = [entry EXCEPT ![p] =
             [state |-> "starting", jobnum |-> svc.tail,
              inf |-> svc.opened, dat |-> dat[svc.tail]]]
    /\ svc' = [svc EXCEPT !.pc = "awake", !.opened = NoJob, !.numChildren = @ + 1]
    /\ UNCHANGED <<spool, locks, ppr, rm, notice, orphans, history, bounds>>

\* A faulty variant: print_job's result is not looked at.
SvcForkFailsCounted ==
    /\ svc.pc = "opendat"
    /\ dat[svc.tail] # NoJob
    /\ Busy # Printers
    /\ svc' = [svc EXCEPT !.pc = "awake", !.opened = NoJob, !.numChildren = @ + 1]
    /\ UNCHANGED <<spool, locks, ppr, rm, notice, entry, orphans, history, bounds>>

\* The fork fails: the printer stays idle and no child is counted.  The job is
\* passed over, and its inf file stays open and locked in the queue child.
SvcForkFails ==
    /\ svc.pc = "opendat"
    /\ dat[svc.tail] # NoJob
    /\ Busy # Printers
    /\ svc' = [svc EXCEPT !.pc = "awake", !.opened = NoJob]
    /\ UNCHANGED <<spool, locks, ppr, rm, notice, entry, orphans, history, bounds>>

\* There is no data: the inf file is removed, and its lock with it.
SvcDropInf ==
    /\ svc.pc = "opendat"
    /\ dat[svc.tail] = NoJob
    /\ inf[svc.tail] # NoJob
    /\ inf' = [inf EXCEPT ![svc.tail] = NoJob]
    /\ infLock' = [infLock EXCEPT ![svc.opened] = Free]
    /\ svc' = [svc EXCEPT !.pc = "awake", !.opened = NoJob]
    /\ UNCHANGED <<dat, written, count, lock, dpidBy, ppr, rm, notice, entry, orphans, history, bounds>>

\* Neither data nor inf file: the queue child gives up, whatever else it has
\* printing.
SvcDropFails ==
    /\ svc.pc = "opendat"
    /\ dat[svc.tail] = NoJob
    /\ inf[svc.tail] = NoJob
    /\ ServiceExits
    /\ UNCHANGED <<spool, dpidBy, ppr, rm, notice, history, bounds>>

\* After the send or the pause: if a child has exited, collect the zombies.
SvcTestChildExited ==
    /\ svc.pc = "awake"
    /\ svc' = IF svc.childExited
                 THEN [svc EXCEPT !.pc = "harvest", !.childExited = FALSE]
                 ELSE [svc EXCEPT !.pc = "advance"]
    /\ UNCHANGED <<spool, locks, ppr, rm, notice, entry, orphans, history, bounds>>

\* zombie_harvester, one child: its printer is idle again, its files are
\* closed, which unlocks the inf file, and next they are unlinked by name.
SvcHarvest ==
    /\ svc.pc = "harvest"
    /\ \E p \in Printers :
         /\ entry[p].state = "zombie"
         /\ entry' = [entry EXCEPT ![p] = IdleEntry]
         /\ infLock' = [infLock EXCEPT ![entry[p].inf] = Free]
         /\ svc' = [svc EXCEPT !.pc = "unlinkdat", !.reaping = entry[p].jobnum,
                               !.numChildren = @ - 1]
    /\ UNCHANGED <<spool, lock, dpidBy, ppr, rm, notice, orphans, history, bounds>>

SvcHarvestEnds ==
    /\ svc.pc = "harvest"
    /\ \A p \in Printers : entry[p].state # "zombie"
    /\ svc' = [svc EXCEPT !.pc = "advance"]
    /\ UNCHANGED <<spool, locks, ppr, rm, notice, entry, orphans, history, bounds>>

SvcUnlinkDat ==
    /\ svc.pc = "unlinkdat"
    /\ dat[svc.reaping] # NoJob
    /\ dat' = [dat EXCEPT ![svc.reaping] = NoJob]
    /\ svc' = [svc EXCEPT !.pc = "unlinkinf"]
    /\ UNCHANGED <<inf, written, count, locks, ppr, rm, notice, entry, orphans, history, bounds>>

SvcUnlinkInf ==
    /\ svc.pc = "unlinkinf"
    /\ inf[svc.reaping] # NoJob
    /\ inf' = [inf EXCEPT ![svc.reaping] = NoJob]
    /\ svc' = [svc EXCEPT !.pc = "harvest", !.reaping = 0]
    /\ UNCHANGED <<dat, written, count, locks, ppr, rm, notice, entry, orphans, history, bounds>>

\* A file that is gone already ends the queue child: exit(PPS_ERROR).
SvcUnlinkFails ==
    /\ \/ svc.pc = "unlinkdat" /\ dat[svc.reaping] = NoJob
       \/ svc.pc = "unlinkinf" /\ inf[svc.reaping] = NoJob
    /\ ServiceExits
    /\ UNCHANGED <<spool, dpidBy, ppr, rm, notice, history, bounds>>

\* A faulty variant: the step past the job just sent is forgotten.
TailStays == svc.tail

TailAfterSend == IF svc.jobSent THEN NextIndex(svc.tail) ELSE svc.tail

\* Reload the database if told to, then step past the job just sent.
SvcAdvance ==
    /\ svc.pc = "advance"
    /\ svc' = [svc EXCEPT
           !.pc = "relock",
           !.reload = FALSE,
           !.up = IF svc.reload THEN dbUp ELSE @,
           !.tail = TailAfterSend]
    /\ UNCHANGED <<spool, locks, ppr, rm, notice, entry, orphans, history, bounds>>

SvcRelock ==
    /\ svc.pc = "relock"
    /\ LockAvailable
    /\ lock' = Service
    /\ svc' = [svc EXCEPT !.pc = "recalc"]
    /\ UNCHANGED <<spool, infLock, dpidBy, ppr, rm, notice, entry, orphans, history, bounds>>

\* A faulty variant: the children still printing are not waited for.
GoOnForJobs(head) == JobsLeft(head, svc.tail) /\ svc.up

\* The condition of the loop.
GoOn(head) == (JobsLeft(head, svc.tail) /\ svc.up) \/ svc.numChildren > 0

\* Read the head again, and decide whether to go round the loop.
SvcRecalculate ==
    LET head == IF Files = {} THEN svc.head ELSE CalculateHead(Files)
    IN  /\ svc.pc = "recalc"
        /\ svc' = [svc EXCEPT !.head = head,
                              !.pc = IF GoOn(head) THEN "loop" ELSE "exiting"]
        /\ UNCHANGED <<spool, locks, ppr, rm, notice, entry, orphans, history, bounds>>

\* rewrite_count_file, and exit.
SvcExit ==
    /\ svc.pc = "exiting"
    /\ count' = svc.tail
    /\ ServiceExits
    /\ UNCHANGED <<inf, dat, written, dpidBy, ppr, rm, notice, history, bounds>>

SvcStep ==
    \/ SvcGetHeadTail \/ SvcNothingQueued \/ SvcSend \/ SvcSendNothing
    \/ SvcPause \/ SvcOpenInf \/ SvcLockInf \/ SvcInfLocked \/ SvcPrintJob
    \/ SvcForkFails \/ SvcDropInf \/ SvcDropFails \/ SvcTestChildExited \/ SvcHarvest
    \/ SvcHarvestEnds \/ SvcUnlinkDat \/ SvcUnlinkInf \/ SvcUnlinkFails \/ SvcAdvance
    \/ SvcRelock \/ SvcRecalculate \/ SvcExit

-----------------------------------------------------------------------------
(* The printing children: print_job after the fork.                        *)

\* A printing child becomes a zombie and SIGCHLD reaches the queue child.
ChildExits(p) ==
    /\ entry' = [entry EXCEPT ![p].state = "zombie"]
    /\ svc' \in AfterSignal([svc EXCEPT !.childExited = TRUE])

\* The inf file is read, and the owner's balance suffices.
ChildBegin(p) ==
    /\ entry[p].state = "starting"
    /\ entry[p].inf \in written
    /\ entry' = [entry EXCEPT ![p].state = "printing"]
    /\ UNCHANGED <<spool, locks, ppr, rm, notice, svc, orphans, history, bounds>>

\* The inf file is still empty, or the balance is too low: nothing is printed.
ChildRefuse(p) ==
    /\ entry[p].state = "starting"
    /\ done' = done \cup {entry[p].inf}
    /\ ChildExits(p)
    /\ UNCHANGED <<spool, locks, ppr, rm, notice, orphans, prints, lastJob, bounds>>

ChildFinish(p) ==
    /\ entry[p].state = "printing"
    /\ prints' = [prints EXCEPT ![entry[p].dat] = @ + 1]
    /\ done' = done \cup {entry[p].inf}
    /\ ChildExits(p)
    /\ UNCHANGED <<spool, locks, ppr, rm, notice, orphans, lastJob, bounds>>

OrphanFinish(j) ==
    /\ j \in orphans
    /\ prints' = [prints EXCEPT ![j] = @ + 1]
    /\ done' = done \cup {j}
    /\ orphans' = orphans \ {j}
    /\ UNCHANGED <<spool, locks, ppr, rm, notice, svc, entry, lastJob, bounds>>

ChildStep(p) == ChildBegin(p) \/ ChildRefuse(p) \/ ChildFinish(p)

-----------------------------------------------------------------------------
Next ==
    \/ \E c \in Clients : PprStart(c) \/ PprStep(c)
    \/ \E r \in Removers : RmStart(r) \/ RmStep(r)
    \/ DaemonServe
    \/ AdminSetStatus
    \/ CrashAndRestart
    \/ SvcStep
    \/ \E p \in Printers : ChildStep(p)
    \/ \E j \in Jobs : OrphanFinish(j)

Spec == Init /\ [][Next]_vars

\* Every process that can take a step takes one in the end.  Users need not
\* run ppr or pprm, nor the administrator act, nor the machine crash.
Fairness ==
    /\ \A c \in Clients : WF_vars(PprStep(c))
    /\ \A r \in Removers : WF_vars(RmStep(r))
    /\ WF_vars(DaemonServe)
    /\ WF_vars(SvcStep)
    /\ \A p \in Printers : WF_vars(ChildStep(p))

FairSpec == Spec /\ Fairness

-----------------------------------------------------------------------------
(* What must hold.                                                         *)

ClientPcs == {"idle", "lock", "head", "tail", "dat", "inf", "write", "notify"}
RemoverPcs == {"idle", "lock", "access", "open", "lockinf", "ack",
               "unlinkinf", "unlinkdat"}
ServicePcs == {"none", "init", "loop", "topause", "paused", "openinf",
               "lockinf", "opendat", "awake", "harvest", "unlinkdat", "unlinkinf", "advance",
               "relock", "recalc", "exiting"}
EntryStates == {"idle", "starting", "printing", "zombie"}

ClientState == [pc : ClientPcs, slot : Slots, job : Jobs \cup {NoJob}]
RemoverState == [pc : RemoverPcs, slot : Slots, job : Jobs \cup {NoJob}]
ServiceState ==
    [pc : ServicePcs, head : Slots, tail : Slots, jobSent : BOOLEAN,
     opened : Jobs \cup {NoJob}, reaping : Slots, numChildren : Int,
     childExited : BOOLEAN, reload : BOOLEAN, up : BOOLEAN]
EntryState == [state : EntryStates, jobnum : Slots,
               inf : Jobs \cup {NoJob}, dat : Jobs \cup {NoJob}]

SpoolType ==
    /\ inf \in [Slots -> Jobs \cup {NoJob}]
    /\ dat \in [Slots -> Jobs \cup {NoJob}]
    /\ written \subseteq Jobs \cup {NoJob}
    /\ count \in Slots

LockType ==
    /\ lock \in Owners
    /\ infLock \in [Jobs -> Owners]
    /\ dpidBy \in Owners

HistoryType ==
    /\ prints \in [Jobs -> Nat]
    /\ done \subseteq Jobs \cup {NoJob}
    /\ lastJob \in 0 .. MaxJobs

BoundsType ==
    /\ dbUp \in BOOLEAN
    /\ moves \in 0 .. AdminMoves
    /\ crashes \in 0 .. MaxCrashes

TypeOK ==
    /\ SpoolType
    /\ LockType
    /\ ppr \in [Clients -> ClientState]
    /\ rm \in [Removers -> RemoverState]
    /\ notice \in BOOLEAN
    /\ svc \in ServiceState
    /\ entry \in [Printers -> EntryState]
    /\ orphans \subseteq Jobs \cup {NoJob}
    /\ HistoryType
    /\ BoundsType

ClientCritical(c) == ppr[c].pc \in {"head", "tail", "dat", "inf", "write"}
RemoverCritical(r) == rm[r].pc \notin {"idle", "lock"}

\* ppr and pprm work in the spool directory one at a time, whatever signals,
\* crashes and exits do to the owners of .lock (ppr.c 114, pprm.c 270).
LockExclusion ==
    /\ \A c \in Clients : ClientCritical(c) => lock = c
    /\ \A r \in Removers : RemoverCritical(r) => lock = r

\* The inf files always fit in one window of QUEUE_LENGTH numbers, although
\* jobs leave from any place in it and the numbering restarts from .count
\* when the directory runs empty.  The scans of all four programs depend on
\* this (ppr.c 133-137, ppd.c 623-626).
InfFilesWindowed == Windowed(Files)

\* ppr never takes a number in use: the inf file it is about to create does
\* not exist, so that no queued job is overwritten (ppr.c 130-153).
NumberIsFree ==
    \A c \in Clients : ppr[c].pc \in {"dat", "inf"} => inf[ppr[c].slot] = NoJob

\* The queue child's count of its children is the number of entries in use,
\* whether or not print_job's fork succeeds, which is what keeps it from
\* exiting while one prints (ppd.c 703, 763, 821).
ChildrenCounted ==
    /\ svc.numChildren = Cardinality(Busy)
    /\ svc.pc \in {"none", "exiting"} => Busy = {}

\* A job comes out of the printers once; only a crash can make the daemon
\* print it again (ppd.c 703, 803-806, 1053-1066).
PrintedOnce == \A j \in Jobs : prints[j] <= 1 + crashes

\* While a job is at a printer its two files are in place under its number,
\* and they are the files the printing child has open (ppd.c 655-672).
PrintingFilesInPlace ==
    \A p \in Busy : /\ inf[entry[p].jobnum] = entry[p].inf
                    /\ dat[entry[p].jobnum] = entry[p].dat

\* A printing child charges the owner named in the inf file of the very job
\* whose data it prints (ppd.c 655-668, 1193-1238).
ChargedToOwner == \A p \in Busy : entry[p].inf = entry[p].dat

\* The queue child never dies with children still printing.
NothingAbandoned == orphans = {}

\* A submitted job keeps its inf file until a printing child has finished
\* with that very job, or pprm removes it: whatever number it has, no other
\* job's end and no other job's submission takes its place (ppd.c 1053-1066,
\* ppd.c 711, ppr.c 153).
QueuedJobStays ==
    [][\A s \in Slots :
         /\ inf[s] \in written
         /\ inf'[s] # inf[s]
         => \/ inf[s] \in done
            \/ \E r \in Removers : lock = r /\ rm[r].slot = s]_vars

\* The lock on .lock is never held for ever: every holder is on its way out.
LockComesFree == \A o \in Owners \ {Free} : lock = o ~> lock # o

\* A job is sent to a printer only when ppr has finished with its files
\* (ppd.c 809: "lock .lock file while reading the head value again, so lpr
\* can't interfere").
WholeJobsSent == \A p \in Busy : entry[p].inf \in written
=============================================================================
