------------------------------ MODULE JobWalk -------------------------------
(***************************************************************************)
(* The programs that go through a spool directory from its oldest job to   *)
(* its newest: ppq, ppq -b ("lpq") and pprm -.  They scan the directory    *)
(* twice, for tail and head, without .lock, while ppr adds jobs and the    *)
(* queue child prints and removes them, and then visit every number from   *)
(* tail to head.  ppq first notes which job is at which printer.           *)
(*                                                                         *)
(* One program runs once here; the directory and the queue child around it *)
(* are those of SpoolQueue, reduced to what the program can see.  Options  *)
(* that narrow the listing to one user or printer are left out.            *)
(***************************************************************************)
EXTENDS SpoolIndex, FiniteSets

CONSTANTS
    NumPrinters,    \* printers attached to the queue, numbered from 0
    Programs,       \* those that may run, of "ppq", "lpq" and "pprm"
    PpqModulus,     \* where the walk of ppq wraps: 1000 in the code
    OldestJobs,     \* bound: numbers of the oldest job at the start
    Garbage,        \* bound: what an uninitialised variable may hold
    MaxArrivals     \* bound: jobs submitted

ASSUME JobWalkAssumption ==
    /\ NumPrinters \in Nat /\ MaxArrivals \in Nat
    /\ Programs \subseteq {"ppq", "lpq", "pprm"}
    /\ OldestJobs \subseteq Slots /\ Garbage \subseteq Nat
    /\ PpqModulus \in Nat /\ PpqModulus >= IndexSpace

Printers == 0 .. (NumPrinters - 1)

VARIABLES
    inf,        \* inf[s]: no file, one not filled in yet, or a whole one
    dat,        \* numbers whose data file is there
    status,     \* status[p]: the job number in printer p's file, -1 if empty
    locked,     \* printers whose status file the queue child has locked
    leaving,    \* the job whose files the queue child is removing, or -1
    added,      \* bound: jobs submitted so far
    prog, pc,   \* the program and where it is
    printing,   \* its array printing_jobs
    x, num,     \* the printer it looks at, and the job it found there
    unread,     \* files there since opendir, which readdir must still return
    fresh,      \* files made since, which it may return
    head, tail, jobnum,
    known,      \* printing_jobs has been filled in
    steady,     \* whole jobs that have been there since the program started,
                \* and for pprm have not been at a printer since
    shown,      \* the steady jobs the program has shown at a printer
    listed,     \* the steady jobs it has listed as waiting
    arrivals    \* jobs submitted during the two scans

spool == <<inf, dat, status, locked, leaving, added>>
report == <<shown, listed>>
history == <<steady, arrivals>>
directory == <<unread, fresh>>
local == <<prog, printing, x, num, head, tail, jobnum, known>>
vars == <<spool, report, history, directory, local, pc>>

Files == {s \in Slots : inf[s] # "none"}
AtPrinter == {status[p] : p \in locked}
Waiting == Files \ (AtPrinter \cup {leaving})
Oldest(S) == CHOOSE t \in S : \A v \in S : ~OlderThan(v, t)
Newest(S) == CHOOSE h \in S : \A v \in S : ~NewerThan(v, h)

Scans == {"tailscan", "headscan"}
Removing == {"rmlock", "rminf", "rmdat"}    \* pprm has .lock
Ends == {"done", "error", "stopped", "denied"}

\* As many jobs as the queue holds wait when the queue child starts.
Init ==
    /\ \E oldest \in OldestJobs :
         LET queued == {(oldest + i) % IndexSpace : i \in 0 .. (QUEUE_LENGTH - 1)}
         IN  /\ inf = [s \in Slots |-> IF s \in queued THEN "whole" ELSE "none"]
             /\ dat = queued
    /\ status = [p \in Printers |-> -1]
    /\ locked = {}
    /\ leaving = -1
    /\ added = 0
    /\ prog \in Programs
    /\ pc = "idle"
    /\ printing = [p \in Printers |-> -1]
    /\ x = 0 /\ num = -1
    /\ unread = {} /\ fresh = {}
    /\ head = -1 /\ tail = -1 /\ jobnum = -1
    /\ known = FALSE
    /\ steady = {} /\ arrivals = 0
    /\ shown = {} /\ listed = {}

-----------------------------------------------------------------------------
(* The queue around the program.                                           *)

\* ppr, under .lock: the data, then an empty inf file for the next number;
\* in an empty directory the number follows .count, which may be any.
PprCreate(s) ==
    /\ added < MaxArrivals
    /\ pc \notin Removing
    /\ Files # {} => /\ s = NextIndex(Newest(Files))
                     /\ ~QueueFull(s, Oldest(Files))
    /\ added' = added + 1
    /\ inf' = [inf EXCEPT ![s] = "empty"]
    /\ dat' = dat \cup {s}
    /\ fresh' = IF pc \in Scans THEN fresh \cup {s} ELSE fresh
    /\ arrivals' = IF pc \in Scans THEN arrivals + 1 ELSE arrivals
    /\ UNCHANGED <<status, locked, leaving, steady, unread,
                   report, local, pc>>

PprWrite(s) ==
    /\ inf[s] = "empty"
    /\ inf' = [inf EXCEPT ![s] = "whole"]
    /\ UNCHANGED <<dat, status, locked, leaving, added, report, history,
                   directory, local, pc>>

\* The queue child sends its oldest job to a free printer, whose status file
\* it empties, fills in and locks; pprm may have the lock on the inf file.
SvcTruncateStatus(p) ==
    /\ p \notin locked /\ leaving = -1 /\ Waiting # {}
    /\ status[p] # -1
    /\ status' = [status EXCEPT ![p] = -1]
    /\ UNCHANGED <<inf, dat, locked, leaving, added, report, history,
                   directory, local, pc>>

SvcSend(p) ==
    LET s == Oldest(Waiting)
    IN  /\ p \notin locked /\ leaving = -1 /\ Waiting # {}
        /\ ~(pc = "rminf" /\ jobnum = s)
        /\ s \in dat
        /\ status' = [status EXCEPT ![p] = s]
        /\ locked' = locked \cup {p}
        /\ steady' = IF prog = "pprm" THEN steady \ {s} ELSE steady
        /\ UNCHANGED <<inf, dat, leaving, added, arrivals, report, directory,
                       local, pc>>

\* Job s is not there any more.
Forget(s) ==
    /\ steady' = steady \ {s}
    /\ shown' = shown \ {s}
    /\ listed' = listed \ {s}

\* zombie_harvester closes the files, and with them the locks, and unlinks
\* the data and then the inf file.
SvcHarvest(p) ==
    /\ p \in locked /\ leaving = -1
    /\ leaving' = status[p]
    /\ locked' = locked \ {p}
    /\ status' = IF pc = "readstatus" /\ x = p
                 THEN status
                 ELSE [status EXCEPT ![p] = -1]     \* nobody will read it
    /\ UNCHANGED <<inf, dat, added, report, history, directory, local, pc>>

SvcUnlinkDat ==
    /\ leaving \in dat
    /\ dat' = dat \ {leaving}
    /\ Forget(leaving)
    /\ UNCHANGED <<inf, status, locked, leaving, added, arrivals, directory,
                   local, pc>>

SvcUnlinkInf ==
    /\ leaving # -1 /\ leaving \notin dat
    /\ leaving' = -1
    /\ inf' = [inf EXCEPT ![leaving] = "none"]
    /\ unread' = unread \ {leaving}
    /\ fresh' = fresh \ {leaving}
    /\ UNCHANGED <<dat, status, locked, added, history, report, local, pc>>

\* Another pprm, under .lock, removes a job nobody has locked.
OtherRemoves(s) ==
    /\ pc \notin Removing
    /\ s \in Waiting
    /\ inf' = [inf EXCEPT ![s] = "none"]
    /\ dat' = dat \ {s}
    /\ Forget(s)
    /\ unread' = unread \ {s}
    /\ fresh' = fresh \ {s}
    /\ UNCHANGED <<status, locked, leaving, added, arrivals, local, pc>>

Queue ==
    /\ pc \notin Ends
    /\ \/ \E s \in Slots : PprCreate(s) \/ PprWrite(s) \/ OtherRemoves(s)
       \/ \E p \in Printers : SvcTruncateStatus(p) \/ SvcSend(p) \/ SvcHarvest(p)
       \/ SvcUnlinkDat \/ SvcUnlinkInf

-----------------------------------------------------------------------------
(* What is at the printers.                                                *)

Start ==
    /\ pc = "idle"
    /\ pc' = CASE prog = "ppq" -> "queue"
               [] prog = "lpq" -> "printers"
               [] prog = "pprm" -> "opentail"
    /\ steady' = {s \in dat : inf[s] = "whole" /\ (prog = "pprm" => s \in Waiting)}
    /\ known' = (prog = "lpq")
    /\ UNCHANGED <<spool, report, arrivals, directory, prog, printing, x, num,
                   head, tail, jobnum>>

\* ppq looks at the printers when the queue is active or -v was given, and
\* goes through the jobs in either case: printing_jobs is not initialised.
ShowQueueStatus(active) ==
    /\ pc = "queue"
    /\ known' = active
    /\ IF active
       THEN pc' = "printers" /\ printing' = printing
       ELSE pc' = "opentail" /\ printing' \in [Printers -> Garbage]
    /\ UNCHANGED <<spool, report, history, directory, prog, x, num, head, tail,
                   jobnum>>

NextPrinter == x' = x + 1 /\ pc' = "printers"

PrintersShown ==
    /\ pc = "printers" /\ x = NumPrinters
    /\ pc' = "opentail"
    /\ x' = 0
    /\ UNCHANGED <<spool, report, history, directory, prog, printing, num, head,
                   tail, jobnum, known>>

\* The lock on its status file tells that a printer is at work.
TestStatusFile ==
    /\ pc = "printers" /\ x < NumPrinters
    /\ IF x \in locked
       THEN pc' = "readstatus" /\ UNCHANGED <<x, printing>>
       ELSE NextPrinter /\ printing' = [printing EXCEPT ![x] = -1]
    /\ UNCHANGED <<spool, report, history, directory, prog, num, head, tail,
                   jobnum, known>>

\* ppq gives up when the file is empty; lpq leaves the array element as is.
ReadStatus ==
    /\ pc = "readstatus"
    /\ num' = status[x]
    /\ CASE status[x] # -1 ->
              /\ pc' = "readinf"
              /\ printing' = IF prog = "lpq"
                             THEN [printing EXCEPT ![x] = status[x]]
                             ELSE printing
              /\ UNCHANGED <<x, known>>
         [] status[x] = -1 /\ prog = "ppq" ->
              /\ pc' = "error"
              /\ UNCHANGED <<x, printing, known>>
         [] status[x] = -1 /\ prog = "lpq" ->
              /\ NextPrinter
              /\ known' = FALSE
              /\ \E garbage \in Garbage :
                   printing' = [printing EXCEPT ![x] = garbage]
    /\ UNCHANGED <<spool, report, history, directory, prog, head, tail, jobnum>>

\* The job's inf file, opened by the number in the status file.
ShowPrinter ==
    /\ pc = "readinf"
    /\ LET whole == inf[num] = "whole"
           show == whole /\ (prog = "lpq" => num \in dat)
       IN  /\ shown' = IF show THEN shown \cup ({num} \cap steady) ELSE shown
           /\ IF prog = "ppq" /\ ~whole
              THEN pc' = "error" /\ UNCHANGED <<x, printing>>
              ELSE NextPrinter /\ printing' = [printing EXCEPT ![x] = num]
    /\ num' = -1
    /\ UNCHANGED <<spool, listed, history, directory, prog, head, tail, jobnum,
                   known>>

-----------------------------------------------------------------------------
(* get_head_tail.  Of a directory that changes, readdir returns every file *)
(* that is there from opendir to the end; of the others it may return any. *)
(* That it fetches entries in blocks makes no difference: what the program *)
(* does with a block it could do at the moment of the fetch.               *)

\* The tests of the scans, on this program's copies of head and tail.
Scan == INSTANCE DirScan WITH unread <- unread, seen <- fresh

OpenDirectory ==
    /\ \/ pc = "opentail" /\ pc' = "tailscan"
       \/ pc = "openhead" /\ pc' = "headscan"
    /\ unread' = Files
    /\ fresh' = {}
    /\ UNCHANGED <<spool, report, history, local>>

ReadEntry(val) ==
    /\ pc \in Scans /\ val \in unread \cup fresh
    /\ unread' = unread \ {val}
    /\ fresh' = fresh \ {val}
    /\ IF pc = "tailscan"
       THEN tail' = Scan!ScanTail(val) /\ head' = head
       ELSE head' = Scan!ScanHead(val) /\ tail' = tail
    /\ UNCHANGED <<spool, report, history, prog, printing, x, num, jobnum,
                   known, pc>>

CloseTail ==
    /\ pc = "tailscan" /\ unread = {}
    /\ pc' = CASE tail # -1 -> "openhead"
               [] tail = -1 /\ prog = "pprm" -> "stopped"   \* no job -1
               [] OTHER -> "done"
    /\ fresh' = {}
    /\ UNCHANGED <<spool, report, history, unread, local>>

CloseHead ==
    /\ pc = "headscan" /\ unread = {}
    /\ jobnum' = tail
    /\ pc' = CASE head = -1 -> "error"
               [] head # -1 /\ prog = "pprm" -> "rm"
               [] OTHER -> "show"
    /\ fresh' = {}
    /\ UNCHANGED <<spool, report, history, unread, prog, printing, x,
                   num, head, tail, known>>

-----------------------------------------------------------------------------
(* The walk of ppq and lpq.                                                *)

Done == -2

\* Faulty variant: the last printer is not looked at.
PastPrintingButLast(j) ==
    LET past[y \in 0 .. NumPrinters] ==
          IF y = 0 THEN j
          ELSE IF y # NumPrinters /\ past[y - 1] = printing[y - 1]
               THEN IF past[y - 1] = head THEN Done ELSE (past[y - 1] + 1) % PpqModulus
               ELSE past[y - 1]
    IN  past[NumPrinters]

\* The inner loop over the printers.  Its "continue" goes on with the next
\* printer and not, as the comment has it, with the next job: the number it
\* moves to is not compared with the printers before this one.
PastPrinting(j) ==
    LET past[y \in 0 .. NumPrinters] ==     \* past the first y printers
          IF y = 0 THEN j
          ELSE IF past[y - 1] = printing[y - 1]
               THEN IF past[y - 1] = head THEN Done ELSE (past[y - 1] + 1) % PpqModulus
               ELSE past[y - 1]
    IN  past[NumPrinters]

IsWhole(j) == j \in Slots /\ inf[j] = "whole"

\* On to the next number, unless this was the head.
GoOn(j) == IF j = head THEN Done ELSE (j + 1) % PpqModulus

\* One turn of the outer loop.  A missing file is passed over; one that is
\* not filled in ends ppq, and lpq passes over a job without data as well.
ShowWaitingJob ==
    /\ pc = "show"
    /\ LET j == PastPrinting(jobnum)
           broken == prog = "ppq" /\ j \in Files /\ ~IsWhole(j)
           last == j = Done \/ GoOn(j) = Done
       IN  /\ listed' = IF IsWhole(j) /\ (prog = "lpq" => j \in dat)
                        THEN listed \cup ({j} \cap steady) ELSE listed
           /\ pc' = CASE broken -> "error"
                      [] ~broken /\ last -> "done"
                      [] OTHER -> "show"
           /\ jobnum' = IF broken \/ last THEN jobnum ELSE GoOn(j)
    /\ UNCHANGED <<spool, shown, history, directory, prog, printing, x, num,
                   head, tail, known>>

-----------------------------------------------------------------------------
(* The walk of pprm: remove_jobnum for each number, under .lock.           *)

\* check_access: a missing or empty inf file, or a job of another user, ends
\* the program and not just this removal.
RmCheckAccess ==
    /\ pc = "rm"
    /\ \/ IsWhole(jobnum) /\ pc' \in {"rmlock", "denied"}
       \/ ~IsWhole(jobnum) /\ pc' = "stopped"
    /\ UNCHANGED <<spool, report, history, directory, local>>

\* Faulty variant: the wrap at QUEUE_LENGTH.
RmNextShort == (jobnum + 1) % QUEUE_LENGTH

RmNext == (jobnum + 1) % IndexSpace

RmGoOn ==
    IF jobnum = head
    THEN pc' = "done" /\ jobnum' = jobnum
    ELSE pc' = "rm" /\ jobnum' = RmNext

\* A job the queue child has locked is left to it; so is one just gone.
RmLockInf ==
    /\ pc = "rmlock"
    /\ IF jobnum \in Files \ AtPrinter
       THEN pc' = "rminf" /\ jobnum' = jobnum
       ELSE RmGoOn
    /\ UNCHANGED <<spool, report, history, directory, prog, printing, x, num,
                   head, tail, known>>

\* Unlinking a file that is gone ends the program.
RmUnlinkInf ==
    /\ pc = "rminf"
    /\ pc' = IF jobnum \in Files THEN "rmdat" ELSE "stopped"
    /\ inf' = [inf EXCEPT ![jobnum] = "none"]
    /\ Forget(jobnum)
    /\ UNCHANGED <<dat, status, locked, leaving, added, arrivals, directory,
                   local>>

RmUnlinkDat ==
    /\ pc = "rmdat"
    /\ IF jobnum \in dat
       THEN RmGoOn
       ELSE pc' = "stopped" /\ jobnum' = jobnum
    /\ dat' = dat \ {jobnum}
    /\ UNCHANGED <<inf, status, locked, leaving, added, report, history,
                   directory, prog, printing, x, num, head, tail, known>>

Program ==
    \/ Start
    \/ \E active \in BOOLEAN : ShowQueueStatus(active)
    \/ PrintersShown \/ TestStatusFile \/ ReadStatus \/ ShowPrinter
    \/ OpenDirectory \/ CloseTail \/ CloseHead
    \/ \E val \in unread \cup fresh : ReadEntry(val)
    \/ ShowWaitingJob
    \/ RmCheckAccess \/ RmLockInf \/ RmUnlinkInf \/ RmUnlinkDat

Next == Queue \/ Program

Spec == Init /\ [][Next]_vars

-----------------------------------------------------------------------------
\* The numbers from a on to b, in the order of the walk.
Steps(a, b, modulus) == IF b >= a THEN b - a ELSE b - a + modulus

\* A complete list: at the end of ppq and of lpq every job that has been in
\* the directory since the program started has been shown, at a printer or as
\* waiting, though the two scans ran without .lock.  Two things can break it
\* and are excluded here: printing_jobs was not filled in, and more than one
\* job came while the directory was scanned, which can make it look to the
\* scans as if the numbers had wrapped.
EveryJobShown ==
    pc = "done" /\ prog # "pprm" /\ known /\ arrivals <= 1
        => steady \subseteq shown \cup listed

\* "this job is currently printing, so we don't report it again": a job shown
\* at a printer is reported again as waiting in one case only, when the job
\* before it is at a printer further on in the list.
ReportedAgainBehindLater ==
    pc = "done" => \A s \in shown \cap listed :
        \E p, q \in Printers :
            p < q /\ printing[p] = s /\ (printing[q] + 1) % PpqModulus = s

\* pprm - leaves no job behind it: those that have waited since it started
\* lie ahead of it on the walk, and when it ends at the head there are none.
RemovedUpToHere ==
    prog = "pprm" /\ arrivals <= 1 /\ jobnum # -1
        => \A s \in steady :
             pc # "done" /\ Steps(tail, s, IndexSpace) >= Steps(tail, jobnum, IndexSpace)

=============================================================================
