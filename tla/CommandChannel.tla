--------------------------- MODULE CommandChannel ---------------------------
(***************************************************************************)
(* How pprm has a job stopped that is already at a printer: it writes a    *)
(* command to the queue's .command file, signals the queue child, and      *)
(* waits for the answer.  The signal handler reads the file, answers and   *)
(* puts the command on command_list; the child's loop takes commands off   *)
(* that list and signals the printing children.                            *)
(*                                                                         *)
(* A signal is handled between any two steps of the queue child, before    *)
(* the process that sent it goes on.  The printers are fixed, a job is     *)
(* known by a serial number besides the number in its files' names, and    *)
(* only requests for jobs that are at a printer are followed (SpoolQueue   *)
(* has the others).  Service is the queue child as an owner of locks; its  *)
(* own use of .lock plays no part here.                                    *)
(***************************************************************************)
EXTENDS Naturals, Sequences, FiniteSets

CONSTANTS
    QUEUE_LENGTH,
    Removers,       \* pprm processes
    NumPrinters,    \* entries of the child's eligible_printers table
    Garbage,        \* what an entry's jobnum may hold before its first job
    MaxJobs,        \* bound: jobs submitted
    MaxRequests,    \* bound: job numbers one pprm is given
    Free, Service

Numbers == 0 .. 2 * QUEUE_LENGTH - 1
Entries == 1 .. NumPrinters

ASSUME ChannelAssumption ==
    /\ QUEUE_LENGTH \in Nat \ {0}
    /\ NumPrinters \in Nat \ {0}
    /\ MaxJobs \in Nat /\ MaxRequests \in Nat
    /\ Garbage \subseteq Numbers
    /\ Free # Service /\ {Free, Service} \cap Removers = {}

VARIABLES
    lock,           \* the pprm that holds .lock
    commandLock,    \* owner of the lock on .command
    command,        \* contents of .command
    rm,             \* the local state of each pprm
    svc,            \* the queue child's loop
    list,           \* its command_list
    entry,          \* its eligible_printers table
    asked,          \* jobs that were at a printer when pprm named their numbers
    sent,           \* jobs sent to printers
    submitted       \* jobs submitted, numbered one after the other

vars == <<lock, commandLock, command, rm, svc, list, entry, asked, sent, submitted>>

Idle == [pc |-> "idle", jobnum |-> 0, left |-> 0]
NoCommand == [from |-> Free, jobnum |-> 0]
Busy == {p \in Entries : entry[p].state # "idle"}

Init ==
    /\ lock = Free
    /\ commandLock = Free
    /\ command = NoCommand
    /\ rm = [r \in Removers |-> Idle]
    /\ svc = [pc |-> "loop", next |-> 1, pending |-> FALSE,
              childExited |-> FALSE, cut |-> FALSE, temp |-> << >>]
    /\ list = << >>
    /\ entry \in [Entries -> [state : {"idle"}, jobnum : Garbage,
                              serial : {0}, stop : {FALSE}]]
    /\ asked = {}
    /\ sent = 0
    /\ submitted = 0

-----------------------------------------------------------------------------
(* A signal ends pause(), the read from the pipe to a child just forked,   *)
(* and the wait for the lock on .command; the results of the last two are  *)
(* not looked at.  cut remembers, for the properties, that the wait for    *)
(* the lock was cut short.                                                 *)
AfterSignal(s) ==
    IF s.pc = "paused" THEN {[s EXCEPT !.pc = "awake"]}
    ELSE {s} \cup
         (IF s.pc = "forked" THEN {[s EXCEPT !.pc = "awake"]} ELSE {}) \cup
         (IF s.pc = "lockcommand" /\ commandLock # Free
             THEN {[s EXCEPT !.pc = "dispatch", !.cut = TRUE]} ELSE {})

\* command_handler puts a command at the end of the list.  With one command
\* in it the end is reached through an uninitialized pointer: the command is
\* lost, or is where it should be, or the process is gone.  With more, the
\* last one is replaced.
ListAfter(c) ==
    CASE Len(list) = 0 -> {<<c>>}
      [] Len(list) = 1 -> {list, Append(list, c)}
      [] Len(list) > 1 -> {Append(SubSeq(list, 1, Len(list) - 1), c)}

CommandArrives(c) ==
    \/ /\ svc' \in AfterSignal([svc EXCEPT !.pending = TRUE])
       /\ list' \in ListAfter(c)
    \/ /\ Len(list) = 1
       /\ svc' = [svc EXCEPT !.pc = "dead"]
       /\ list' = list

-----------------------------------------------------------------------------
(* pprm: remove_jobnum and notify_ppd_delete_job.                          *)

\* pprm is given some job numbers.
RmStart(r) ==
    /\ rm[r].pc = "idle"
    /\ \E n \in 1 .. MaxRequests :
         rm' = [rm EXCEPT ![r] = [Idle EXCEPT !.pc = "lock", !.left = n]]
    /\ UNCHANGED <<lock, commandLock, command, svc, list, entry, asked, sent, submitted>>

\* The lock on .lock, and then a job whose inf file cannot be locked.
RmLock(r) ==
    /\ rm[r].pc = "lock"
    /\ lock = Free
    /\ lock' = r
    /\ \E p \in Busy :
         /\ rm' = [rm EXCEPT ![r].pc = "lockcommand",
                             ![r].jobnum = entry[p].jobnum]
         /\ asked' = asked \cup {entry[p].serial}
    /\ UNCHANGED <<commandLock, command, svc, list, entry, sent, submitted>>

\* A faulty variant: the lock on .command is not waited for.
NotWaitedFor(r) == TRUE

\* Its own lock, kept from an earlier command, does not keep a process out.
CommandLockAvailable(r) == commandLock \in {Free, r}

\* Lock, truncate and write .command.
RmWriteCommand(r) ==
    /\ rm[r].pc = "lockcommand"
    /\ CommandLockAvailable(r)
    /\ commandLock' = r
    /\ command' = [from |-> r, jobnum |-> rm[r].jobnum]
    /\ rm' = [rm EXCEPT ![r].pc = "signal"]
    /\ UNCHANGED <<lock, svc, list, entry, asked, sent, submitted>>

\* The child handles the signal: it reads the file and answers, which only
\* shortens the wait.
RmSignal(r) ==
    /\ rm[r].pc = "signal"
    /\ svc.pc # "dead"
    /\ CommandArrives(command)
    /\ rm' = [rm EXCEPT ![r].pc = "await"]
    /\ UNCHANGED <<lock, commandLock, command, entry, asked, sent, submitted>>

\* No queue child: signal_ppd gets the lock on .dpid, and returns no value.
RmNoChild(r) ==
    /\ rm[r].pc = "signal"
    /\ svc.pc = "dead"
    /\ rm' = [rm EXCEPT ![r].pc = "await"]
    /\ UNCHANGED <<lock, commandLock, command, svc, list, entry, asked, sent, submitted>>

\* A faulty variant: .lock is not closed between two jobs.
LockStays(r) == lock

\* close(fd) at the end of remove_jobnum.
LockAfterJob(r) == IF lock = r THEN Free ELSE lock

\* Answered, or ten seconds are over.  .lock is closed; .command is not, and
\* stays locked until the process ends.
RmJobOver(r) ==
    /\ rm[r].pc = "await"
    /\ lock' = LockAfterJob(r)
    /\ IF rm[r].left > 1
          THEN /\ rm' = [rm EXCEPT ![r].pc = "lock", ![r].left = @ - 1]
               /\ commandLock' = commandLock
          ELSE /\ rm' = [rm EXCEPT ![r] = Idle]
               /\ commandLock' = IF commandLock = r THEN Free ELSE commandLock
    /\ UNCHANGED <<command, svc, list, entry, asked, sent, submitted>>

\* r waits for a lock of q's, and q for one of r's.
WaitsInCircle(r, q) ==
    \/ /\ rm[r].pc = "lock" /\ lock = q
       /\ rm[q].pc = "lockcommand" /\ commandLock = r
    \/ /\ rm[r].pc = "lockcommand" /\ commandLock = q
       /\ rm[q].pc = "lock" /\ lock = r

\* fcntl refuses to wait (EDEADLK), and pprm exits.
RmRefused(r) ==
    /\ \E q \in Removers : WaitsInCircle(r, q)
    /\ rm' = [rm EXCEPT ![r] = Idle]
    /\ lock' = IF lock = r THEN Free ELSE lock
    /\ commandLock' = IF commandLock = r THEN Free ELSE commandLock
    /\ UNCHANGED <<command, svc, list, entry, asked, sent, submitted>>

\* The job is no longer at a printer, or it never was: SpoolQueue's concern.
RmOtherwise(r) ==
    /\ rm[r].pc = "lock"
    /\ lock = Free
    /\ rm' = [rm EXCEPT ![r] = Idle]
    /\ commandLock' = IF commandLock = r THEN Free ELSE commandLock
    /\ UNCHANGED <<lock, command, svc, list, entry, asked, sent, submitted>>

RmStep(r) ==
    \/ RmLock(r) \/ RmWriteCommand(r) \/ RmSignal(r) \/ RmNoChild(r)
    \/ RmJobOver(r) \/ RmRefused(r) \/ RmOtherwise(r)

-----------------------------------------------------------------------------
(* The queue child's loop, as far as jobs at printers and commands go.     *)

\* The search for an idle printer begins at next_eligible.
NextEligible ==
    LET after(p) == (p + NumPrinters - svc.next) % NumPrinters
    IN  CHOOSE p \in Entries \ Busy :
            \A q \in Entries \ Busy : after(p) <= after(q)

\* The tail: jobs are sent in the order of their numbers.
TailNumber == sent % (2 * QUEUE_LENGTH)

CanSend == sent < submitted /\ Busy # Entries

SvcSend ==
    /\ svc.pc = "loop"
    /\ CanSend
    /\ sent' = sent + 1
    /\ entry' = [entry EXCEPT ![NextEligible] =
           [state |-> "starting", jobnum |-> TailNumber,
            serial |-> sent + 1, stop |-> FALSE]]
    /\ svc' = [svc EXCEPT !.pc = "forked", !.next = NextEligible]
    /\ UNCHANGED <<lock, commandLock, command, rm, list, asked, submitted>>

\* The byte from the pipe: the new child has its handler.
SvcForked ==
    /\ svc.pc = "forked"
    /\ \A p \in Entries : entry[p].state # "starting"
    /\ svc' = [svc EXCEPT !.pc = "awake"]
    /\ UNCHANGED <<lock, commandLock, command, rm, list, entry, asked, sent, submitted>>

SvcSendNothing ==
    /\ svc.pc = "loop"
    /\ ~CanSend
    /\ svc' = [svc EXCEPT !.pc = "topause"]
    /\ UNCHANGED <<lock, commandLock, command, rm, list, entry, asked, sent, submitted>>

SvcPause ==
    /\ svc.pc = "topause"
    /\ svc' = [svc EXCEPT !.pc = "paused"]
    /\ UNCHANGED <<lock, commandLock, command, rm, list, entry, asked, sent, submitted>>

\* zombie_harvester sets the status only: the entry keeps its job's number.
Harvested(e) == [e EXCEPT !.state = "idle", !.serial = 0, !.stop = FALSE]

SvcHarvest ==
    /\ svc.pc = "awake"
    /\ entry' = [p \in Entries |->
           IF svc.childExited /\ entry[p].state = "zombie"
               THEN Harvested(entry[p]) ELSE entry[p]]
    /\ svc' = [svc EXCEPT !.childExited = FALSE,
                          !.pc = IF svc.pending THEN "lockcommand" ELSE "loop"]
    /\ UNCHANGED <<lock, commandLock, command, rm, list, asked, sent, submitted>>

SvcLockCommand ==
    /\ svc.pc = "lockcommand"
    /\ commandLock = Free
    /\ commandLock' = Service
    /\ svc' = [svc EXCEPT !.pc = "dispatch"]
    /\ UNCHANGED <<lock, command, rm, list, entry, asked, sent, submitted>>

\* A faulty variant: any printing child is stopped.
AnyPrinter(n) == Busy

\* The first entry with the job's number, if it is not idle.
ToStop(n) ==
    {p \in Busy : /\ entry[p].jobnum = n
                  /\ \A q \in 1 .. p - 1 : entry[q].jobnum # n}

\* dispatch_command, one command: signal the child.  One that has not set its
\* handler yet still has its parent's, and only answers pprm once more.
SvcDispatch ==
    /\ svc.pc = "dispatch"
    /\ list # << >>
    /\ entry' = [p \in Entries |->
           IF p \in ToStop(Head(list).jobnum) /\ entry[p].state = "printing"
               THEN [entry[p] EXCEPT !.stop = TRUE] ELSE entry[p]]
    /\ svc' = [svc EXCEPT !.pc = "drop", !.temp = Tail(list)]
    /\ UNCHANGED <<lock, commandLock, command, rm, list, asked, sent, submitted>>

\* command_list = temp, whatever a handler has done to the list meanwhile.
SvcDrop ==
    /\ svc.pc = "drop"
    /\ list' = svc.temp
    /\ svc' = [svc EXCEPT !.pc = "dispatch", !.temp = << >>]
    /\ UNCHANGED <<lock, commandLock, command, rm, entry, asked, sent, submitted>>

\* pending_command is never reset.
SvcDispatched ==
    /\ svc.pc = "dispatch"
    /\ list = << >>
    /\ commandLock' = IF commandLock = Service THEN Free ELSE commandLock
    /\ svc' = [svc EXCEPT !.pc = "loop", !.cut = FALSE]
    /\ UNCHANGED <<lock, command, rm, list, entry, asked, sent, submitted>>

SvcStep ==
    \/ SvcSend \/ SvcForked \/ SvcSendNothing \/ SvcPause \/ SvcHarvest
    \/ SvcLockCommand \/ SvcDispatch \/ SvcDrop \/ SvcDispatched

-----------------------------------------------------------------------------
(* The printing children.                                                  *)

ChildReady(p) ==
    /\ entry[p].state = "starting"
    /\ entry' = [entry EXCEPT ![p].state = "printing"]
    /\ UNCHANGED <<lock, commandLock, command, rm, svc, list, asked, sent, submitted>>

\* The job is printed, or stopped.
ChildEnds(p) ==
    /\ entry[p].state = "printing"
    /\ entry' = [entry EXCEPT ![p].state = "zombie"]
    /\ IF svc.pc = "dead" THEN svc' = svc
                          ELSE svc' \in AfterSignal([svc EXCEPT !.childExited = TRUE])
    /\ UNCHANGED <<lock, commandLock, command, rm, list, asked, sent, submitted>>

-----------------------------------------------------------------------------
\* The files of jobs at printers and of jobs waiting are in one window.
Room ==
    \A n \in {entry[p].serial : p \in Busy} \cup (sent + 1) .. submitted :
        submitted + 1 - n < QUEUE_LENGTH

\* A ppr submits a job, with .lock locked while it is at it.
Submit ==
    /\ lock = Free
    /\ submitted < MaxJobs
    /\ Room
    /\ submitted' = submitted + 1
    /\ svc' \in IF svc.pc = "dead" THEN {svc} ELSE AfterSignal(svc)
    /\ UNCHANGED <<lock, commandLock, command, rm, list, entry, asked, sent>>

Next ==
    \/ Submit
    \/ \E r \in Removers : RmStart(r) \/ RmStep(r)
    \/ SvcStep
    \/ \E p \in Entries : ChildReady(p) \/ ChildEnds(p)

Spec == Init /\ [][Next]_vars

-----------------------------------------------------------------------------
(* What must hold.                                                         *)

\* A printing child is told to stop only if its very job was at a printer
\* when a pprm named it: the command may wait, job numbers are used again,
\* but no command reaches a later job with the same number (ppd.c 1292-1306,
\* 759-799).
StoppedWasAsked == \A p \in Entries : entry[p].stop => entry[p].serial \in asked

\* While the queue child works off its list no further command comes in, from
\* whatever pprm -- unless a signal has cut short its wait for the lock on
\* .command (ppd.c 1276-1288, 1310-1322, pprm.c 573-614).
UndisturbedUnlessCut ==
    [][svc.pc \in {"dispatch", "drop"} /\ ~svc.cut =>
         \A r \in Removers : ~(rm[r].pc = "signal" /\ rm'[r].pc = "await")]_vars

\* pprm may hold one of two locks while it waits for the other and for an
\* answer; still, as long as one is not done, some pprm or the queue child can
\* go on (pprm.c 270, 574, 612-625, ppd.c 1288).
NobodyStuck ==
    (\E r \in Removers : rm[r].pc # "idle")
    => ENABLED SvcStep \/ \E r \in Removers : ENABLED RmStep(r)
=============================================================================
