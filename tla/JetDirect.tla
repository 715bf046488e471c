------------------------------ MODULE JetDirect ------------------------------
(***************************************************************************)
(* The driver for HP printers behind a JetDirect (pjl_jetdirect.c): one    *)
(* job, from the first attempt to connect to the reset of the printer's    *)
(* display, against a printer that sends its status messages when it       *)
(* pleases, whose buttons are pressed, that is switched off, and whose     *)
(* connection ends.                                                        *)
(*                                                                         *)
(* A message is read as a whole.  Time is what can run out: a read that    *)
(* finds nothing may have waited its thirty seconds, and MaxTries          *)
(* attempts make the time that is given to connecting.  The data of the    *)
(* job is a number of characters.                                          *)
(***************************************************************************)
EXTENDS Integers, Sequences, SequencesExt

CONSTANTS
    MaxChars,       \* characters of the job
    MaxTries,       \* attempts to connect within the time limit
    MaxPages,       \* bound: pages that come out of the printer
    MaxCount,       \* bound: messages read again at the end of the stream
    MaxLine,        \* bound: messages on their way
    MaxEvents       \* bound: buttons, failures, embedded jobs

ASSUME JetDirectAssumption ==
    /\ MaxChars \in Nat /\ MaxTries \in Nat \ {0}
    /\ MaxPages \in Nat /\ MaxCount \in Nat
    /\ MaxLine \in Nat \ {0} /\ MaxEvents \in Nat

VARIABLES
    drv,            \* the driver's variables
    conn,           \* the connection, as a system call of the driver finds it
    line,           \* messages on their way to the driver
    printer,        \* the printer (external)
    resetter,       \* the process that resets the display
    events          \* buttons, failures and embedded jobs so far

vars == <<drv, conn, line, printer, resetter, events>>

Message(kind) == [kind |-> kind, code |-> "ready", own |-> TRUE, pages |-> 0]

Device(code) == [Message("device") EXCEPT !.code = code]
Start(own) == [Message("start") EXCEPT !.own = own]
End(own, n) == [Message("end") EXCEPT !.own = own, !.pages = n]

\* initialize_variables.
Init ==
    /\ drv = [pc |-> "connect", tries |-> 0, left |-> MaxChars, code |-> "ready",
              single |-> 0, total |-> 0, last |-> "none", timedOut |-> FALSE,
              cancelRequested |-> FALSE, jobCancelled |-> FALSE,
              result |-> "ok", pages |-> 0]
    /\ conn = "none"
    /\ line = <<>>
    /\ printer = [on |-> TRUE, asked |-> "nothing", code |-> "ready", job |-> "none",
                  fed |-> FALSE, eoj |-> FALSE, inner |-> FALSE, since |-> 0, out |-> 0]
    /\ resetter = [pc |-> "none", tries |-> 0, busy |-> FALSE]
    /\ events = 0

-----------------------------------------------------------------------------
(* The way to a connection.                                                *)

TimeIsUp(tries) == tries >= MaxTries

\* What a stage of the way waits for; anything else is skipped.
Awaited == [synch |-> "echo", prepare |-> "echo", status |-> "info"]

\* After a failed attempt; the process does not go on once the time is up.
TriesAgain ==
    drv' = IF TimeIsUp(drv.tries + 1)
              THEN [drv EXCEPT !.pc = "done", !.tries = @ + 1, !.result = "connect_timeout"]
              ELSE [drv EXCEPT !.pc = "connect", !.tries = @ + 1]

DrvRefused ==
    /\ drv.pc = "connect"
    /\ TriesAgain
    /\ UNCHANGED <<conn, line, printer, resetter, events>>

\* Connected: RESET, TIMED and ECHO are sent.
DrvConnects ==
    /\ drv.pc = "connect"
    /\ printer.on
    /\ drv' = [drv EXCEPT !.pc = "synch"]
    /\ conn' = "open"
    /\ line' = <<>>
    /\ printer' = [printer EXCEPT !.asked = "echo", !.job = "none", !.code = "ready"]
    /\ UNCHANGED <<resetter, events>>

\* The connection after something has been written to it: a printer that has
\* closed its end answers with a reset.
AfterWrite == IF conn = "eof" THEN "broken" ELSE conn

CanHear == ~drv.timedOut /\ conn # "broken"

\* prepare_for_job, then get_printer_status, then the job itself.
DrvAnswered ==
    /\ drv.pc \in DOMAIN Awaited
    /\ CanHear /\ line # <<>>
    /\ line' = Tail(line)
    /\ LET m == Head(line)
           answered == m.kind = Awaited[drv.pc]
       IN  CASE answered /\ drv.pc = "synch" ->
                  /\ drv' = [drv EXCEPT !.pc = "prepare"]
                  /\ conn' = AfterWrite
                  /\ printer' = [printer EXCEPT !.asked = "echo", !.job = "open"]
             [] answered /\ drv.pc = "prepare" ->
                  /\ drv' = [drv EXCEPT !.pc = "status"]
                  /\ conn' = AfterWrite
                  /\ printer' = [printer EXCEPT !.asked = "info"]
             [] answered /\ drv.pc = "status" ->
                  /\ drv' = [drv EXCEPT !.pc = "send", !.code = m.code]
                  /\ UNCHANGED <<conn, printer>>
             [] OTHER -> UNCHANGED <<drv, conn, printer>>
    /\ UNCHANGED <<resetter, events>>

\* A read fails or has waited too long.  When the status is not answered the
\* socket stays open and the time is not looked at.
DrvUnanswered ==
    /\ drv.pc \in DOMAIN Awaited
    /\ ~CanHear \/ (line = <<>> /\ conn = "open")
    /\ IF drv.pc = "status" THEN drv' = [drv EXCEPT !.pc = "connect"] ELSE TriesAgain
    /\ conn' = "none"
    /\ line' = <<>>
    /\ UNCHANGED <<printer, resetter, events>>

\* At the end of the stream readline returns 0 with nothing read, and these
\* three loops read again: the driver has no step.

-----------------------------------------------------------------------------
(* accept_unsolicited_message.                                             *)

\* A faulty variant: the pages of a reset printer are counted.
EveryPage(code) == TRUE

\* A reset printer reports pages that do not come out.
CountsPage(code) == code # "reset"

\* A faulty variant: the last job's pages.
LastJobsPages(total, n) == n

PagesSoFar(total, n) == total + n

DeviceResult(code) ==
    CASE code = "reset"  -> "reset"
      [] code = "cancel" -> "cancel_requested"
      [] code = "ready"  -> "ok"

Result(m) ==
    CASE m.kind = "device"         -> DeviceResult(m.code)
      [] m.kind = "end" /\ m.own   -> "printed"
      [] m.kind = "canceled"       -> "cancelled"
      [] OTHER                     -> "ok"

CountPage == IF CountsPage(drv.code) THEN drv.single + 1 ELSE drv.single

Accept(m) ==
    [drv EXCEPT
        !.code   = IF m.kind = "device" THEN m.code ELSE @,
        !.single = IF m.kind = "page" THEN CountPage ELSE @,
        !.total  = IF m.kind = "end" THEN PagesSoFar(@, m.pages) ELSE @,
        !.last   = IF m.kind \in {"device", "page"} THEN m.kind ELSE "none"]

Outcome(d, returns, l) == [drv |-> d, returns |-> returns, line |-> l]

\* At the end of the stream nothing is put into the buffer, and what is in it
\* is taken for the message: rubbish, or the first line of the one before.
AtEndOfStream ==
    {Outcome(drv, "ok", line)}
    \cup IF drv.last = "device" THEN {Outcome(drv, DeviceResult(drv.code), line)} ELSE {}
    \cup IF drv.last = "page" /\ drv.single < MaxCount
            THEN {Outcome([drv EXCEPT !.single = CountPage], "ok", line)} ELSE {}

\* What reading a message can do; nothing when there is nothing to read.
Incoming ==
    CASE ~CanHear                       -> {Outcome(drv, "timeout", line)}
      [] CanHear /\ line # <<>>         -> {Outcome(Accept(Head(line)), Result(Head(line)), Tail(line))}
      [] CanHear /\ line = <<>> /\ conn = "eof" -> AtEndOfStream
      [] OTHER                          -> {}

-----------------------------------------------------------------------------
(* The job.                                                                *)

\* send_job_to_printer returns: what it returns is forgotten, but for a
\* request to cancel.
FromSend(d, returns) ==
    [d EXCEPT !.pc = "finish", !.cancelRequested = returns = "cancel_requested"]

\* One character; the data is complete when there is none left to write.
DrvSendChar ==
    /\ drv.pc = "send"
    /\ CASE drv.left = 0 ->
              /\ drv' = FromSend(drv, "ok")
              /\ UNCHANGED <<conn, printer>>
         [] drv.left > 0 /\ conn = "broken" ->
              /\ drv' = [FromSend(drv, "timeout") EXCEPT !.timedOut = TRUE]
              /\ UNCHANGED <<conn, printer>>
         [] OTHER ->
              /\ drv' = [drv EXCEPT !.left = @ - 1]
              /\ conn' = AfterWrite
              /\ printer' = [printer EXCEPT !.fed = TRUE]
    /\ UNCHANGED <<line, resetter, events>>

DrvSendRead ==
    /\ drv.pc = "send"
    /\ \E o \in Incoming :
         /\ drv' = IF o.returns = "ok" THEN o.drv ELSE FromSend(o.drv, o.returns)
         /\ line' = o.line
    /\ UNCHANGED <<conn, printer, resetter, events>>

\* Nothing is heard for too long; the alarm of the last write, which nothing
\* has cancelled, may have gone off.
DrvSendSilent ==
    /\ drv.pc = "send"
    /\ line = <<>> /\ conn = "open"
    /\ \E alarm \in BOOLEAN :
         drv' = [FromSend(drv, "timeout") EXCEPT !.timedOut = drv.timedOut \/ alarm]
    /\ UNCHANGED <<conn, line, printer, resetter, events>>

\* How the job went, and the pages its owner is to pay for.
Final(d, returns) ==
    LET result == IF d.cancelRequested /\ returns \notin {"timeout", "reset"}
                     THEN "cancelled" ELSE returns
        pages == CASE result \in {"printed", "cancelled"} -> d.total
                   [] result \in {"reset", "timeout"}     -> d.single
                   [] OTHER                               -> 0
    IN  [d EXCEPT !.pc = "done", !.result = result, !.pages = pages]

\* The process that resets the display is forked at the end.
Forked == resetter' = [resetter EXCEPT !.pc = "try"]

\* Part of a turn of finish_job_to_printer's loop: a message is read.
FinishReads(written) ==
    \E o \in Incoming :
        /\ line' = o.line
        /\ IF o.returns # "ok"
              THEN drv' = Final(o.drv, o.returns) /\ Forked
              ELSE /\ drv' = IF written THEN [o.drv EXCEPT !.pc = "monitor"] ELSE o.drv
                   /\ UNCHANGED resetter

\* The end of the job is marked, and a message may be read in the same turn.
DrvFinishWrite ==
    /\ drv.pc = "finish"
    /\ conn # "broken"
    /\ conn' = AfterWrite
    /\ printer' = [printer EXCEPT !.eoj = TRUE]
    /\ \/ /\ drv' = [drv EXCEPT !.pc = "monitor"]
          /\ UNCHANGED <<line, resetter>>
       \/ FinishReads(TRUE)
    /\ UNCHANGED events

DrvFinishRead ==
    /\ drv.pc = "finish"
    /\ FinishReads(FALSE)
    /\ UNCHANGED <<conn, printer, events>>

\* The mark cannot be written, or nothing is heard for too long.
DrvFinishFails ==
    /\ drv.pc = "finish"
    /\ conn = "broken" \/ (line = <<>> /\ conn = "open")
    /\ drv' = [Final(drv, "timeout") EXCEPT !.timedOut = @ \/ conn = "broken"]
    /\ Forked
    /\ UNCHANGED <<conn, line, printer, events>>

\* A faulty variant: the time is not limited.
WaitsOn == FALSE

SilentTooLong == line = <<>> /\ conn = "open"

\* monitor_printer_to_finish.
DrvMonitor ==
    /\ drv.pc = "monitor"
    /\ \E o \in Incoming :
         /\ line' = o.line
         /\ CASE o.returns = "printed" ->
                   /\ drv' = Final(o.drv, IF drv.jobCancelled THEN "cancelled" ELSE "printed")
                   /\ Forked
              [] o.returns \in {"timeout", "reset"} ->
                   /\ drv' = Final(o.drv, o.returns)
                   /\ Forked
              [] o.returns \in {"cancel_requested", "cancelled"} ->
                   /\ drv' = [o.drv EXCEPT !.jobCancelled = TRUE]
                   /\ UNCHANGED resetter
              [] OTHER -> drv' = o.drv /\ UNCHANGED resetter
    /\ UNCHANGED <<conn, printer, events>>

DrvMonitorSilent ==
    /\ drv.pc = "monitor"
    /\ SilentTooLong
    /\ drv' = Final(drv, "timeout")
    /\ Forked
    /\ UNCHANGED <<conn, line, printer, events>>

DrvStep ==
    \/ DrvRefused \/ DrvConnects \/ DrvAnswered \/ DrvUnanswered
    \/ DrvSendChar \/ DrvSendRead \/ DrvSendSilent
    \/ DrvFinishWrite \/ DrvFinishRead \/ DrvFinishFails
    \/ DrvMonitor \/ DrvMonitorSilent

-----------------------------------------------------------------------------
(* reset_printer_display, in a process of its own.                         *)

ResetterConnects ==
    /\ resetter.pc = "try"
    /\ \/ printer.on /\ resetter' = [resetter EXCEPT !.pc = "done"]
       \/ resetter' = [resetter EXCEPT !.pc = "sleep"]
    /\ UNCHANGED <<drv, conn, line, printer, events>>

\* It gives up when the printer is at work again, or the time is up.
ResetterWakes ==
    /\ resetter.pc = "sleep"
    /\ resetter' = IF resetter.busy \/ TimeIsUp(resetter.tries + 1)
                      THEN [resetter EXCEPT !.pc = "done"]
                      ELSE [resetter EXCEPT !.pc = "try", !.tries = @ + 1]
    /\ UNCHANGED <<drv, conn, line, printer, events>>

\* The queue child has locked the printer for its next job.
NextJob ==
    /\ drv.pc = "done" /\ resetter.pc \in {"try", "sleep"}
    /\ ~resetter.busy
    /\ resetter' = [resetter EXCEPT !.busy = TRUE]
    /\ UNCHANGED <<drv, conn, line, printer, events>>

ResetterStep == ResetterConnects \/ ResetterWakes

-----------------------------------------------------------------------------
(* The printer.  It is what the driver's comments and its reading of the   *)
(* messages make of it.                                                    *)

Says(m) == line' = Append(line, m)

Talks ==
    /\ printer.on /\ conn = "open" /\ drv.pc # "done"
    /\ Len(line) < MaxLine
    /\ UNCHANGED <<drv, conn, resetter>>

Event == events < MaxEvents /\ events' = events + 1

PrinterAnswers ==
    /\ Talks
    /\ printer.asked # "nothing"
    /\ Says([Message(printer.asked) EXCEPT !.code = printer.code])
    /\ printer' = [printer EXCEPT !.asked = "nothing"]
    /\ UNCHANGED events

\* USTATUS TIMED, and DEVICE.
PrinterStatus ==
    /\ Talks
    /\ Says(Device(printer.code))
    /\ UNCHANGED <<printer, events>>

PrinterStartsJob ==
    /\ Talks
    /\ printer.job = "open" /\ printer.fed
    /\ Says(Start(TRUE))
    /\ printer' = [printer EXCEPT !.job = "started"]
    /\ UNCHANGED events

PageOut ==
    /\ Talks
    /\ printer.job = "started"
    /\ printer.out < MaxPages
    /\ Says(Message("page"))
    /\ printer' = [printer EXCEPT !.out = @ + 1, !.since = @ + 1]
    /\ UNCHANGED events

\* The job's data holds the marks of a job of its own.
InnerJob ==
    /\ Talks
    /\ printer.job = "started"
    /\ IF printer.inner
          THEN Says(End(FALSE, printer.since)) /\ events' = events
          ELSE Says(Start(FALSE)) /\ Event
    /\ printer' = [printer EXCEPT !.inner = ~@, !.since = IF printer.inner THEN 0 ELSE @]

\* The job's end, which is that of a cancelled job as well.
PrinterEndsJob ==
    /\ Talks
    /\ \/ printer.job = "started" /\ printer.eoj /\ ~printer.inner
       \/ printer.job = "cancelled"
    /\ Says(End(TRUE, printer.since))
    /\ printer' = [printer EXCEPT !.job = "ended", !.code = "ready", !.since = 0]
    /\ UNCHANGED events

\* The cancel button, and then the message that the job is cancelled.
PressCancel ==
    /\ Talks
    /\ printer.job = "started" /\ printer.code = "ready"
    /\ Event
    /\ Says(Device("cancel"))
    /\ printer' = [printer EXCEPT !.code = "cancel"]

PrinterCancels ==
    /\ Talks
    /\ printer.job = "started" /\ printer.code = "cancel"
    /\ Says(Message("canceled"))
    /\ printer' = [printer EXCEPT !.job = "cancelled"]
    /\ UNCHANGED events

\* A reset at the panel: the job is lost, its pages are reported but do not
\* come out, and the printer is ready again.
PressReset ==
    /\ Talks
    /\ printer.job = "started"
    /\ Event
    /\ Says(Device("reset"))
    /\ printer' = [printer EXCEPT !.code = "reset", !.job = "lost"]

Flood ==
    /\ Talks
    /\ printer.code = "reset"
    /\ Says(Message("page"))
    /\ UNCHANGED <<printer, events>>

PrinterReady ==
    /\ Talks
    /\ printer.code = "reset"
    /\ Says(Device("ready"))
    /\ printer' = [printer EXCEPT !.code = "ready"]
    /\ UNCHANGED events

\* The power is cut: nobody is told.
SwitchOff ==
    /\ printer.on
    /\ Event
    /\ printer' = [printer EXCEPT !.on = FALSE]
    /\ UNCHANGED <<drv, conn, line, resetter>>

\* The connection is closed in good order, or reset.
EndConnection ==
    /\ printer.on /\ conn = "open" /\ drv.pc # "done"
    /\ Event
    /\ \/ conn' = "eof" /\ line' = line
       \/ conn' = "broken" /\ line' = <<>>
    /\ UNCHANGED <<drv, printer, resetter>>

PrinterStep ==
    \/ PrinterAnswers \/ PrinterStatus \/ PrinterStartsJob \/ PageOut \/ InnerJob
    \/ PrinterEndsJob \/ PressCancel \/ PrinterCancels \/ PressReset \/ Flood
    \/ PrinterReady \/ SwitchOff \/ EndConnection

Next == DrvStep \/ ResetterStep \/ NextJob \/ PrinterStep

Spec == Init /\ [][Next]_vars /\ WF_vars(DrvStep) /\ WF_vars(ResetterStep)

-----------------------------------------------------------------------------
(* What must hold.                                                         *)

\* The printer has ended the connection during the job.
Hungup == conn \in {"eof", "broken"}

\* Nobody is charged for a page that has not come out, whatever buttons are
\* pressed and however the dialogue ends -- unless the printer has closed the
\* connection, when the last message may be read again (pjl_jetdirect.c
\* 229-262, 1523-1560).
NoPageInvented ==
    drv.pc = "done" /\ ~Hungup => drv.pages <= printer.out

\* Every page that has come out is charged when the job is reported as printed,
\* or the printer as reset: the count of the job's end has those of the jobs
\* inside it, and all pages of before a reset have been counted
\* (pjl_jetdirect.c 229-262, 1305-1325, 1523-1560).
PagesComplete ==
    drv.pc = "done" /\ drv.result \in {"printed", "reset"} /\ ~Hungup
    => drv.pages = printer.out

\* "If on the other hand, we do not have the printer's page count [...] we will
\* have to go on the number of pages which we have counted as the job was
\* progressing" (pjl_jetdirect.c 240-242): without a page count from the
\* printer, the pages counted are those charged.
CountedWithoutEnd ==
    drv.pc = "done" /\ drv.total = 0 => drv.pages = drv.single

EndIsComing == \E m \in Range(line) : m.kind = "end" /\ m.own

\* The driver ends when the printer has been switched off, at whatever point,
\* and so does the process that resets the display; and it ends when the
\* printer has sent the end of the job to a driver that waits for it
\* (pjl_jetdirect.c 162-196, 620-913, 1565-1669).  A driver that the printer has
\* hung up on is not promised an end.
DriverEnds ==
    /\ (~printer.on /\ ~Hungup)
       ~> (drv.pc = "done" /\ resetter.pc \in {"none", "done"})
    /\ (drv.pc = "monitor" /\ EndIsComing /\ CanHear) ~> (drv.pc = "done")
=============================================================================
