# PPS in TLA+

PPS is a print spooler: `ppr` submits a job, `pprm` removes one, `ppq` shows the
queues, the daemon `ppd` prints, and CGI programs administer the database of
queues, printers and users. There are no threads. The programs are separate
processes that meet in the file system: job files named after circular numbers,
`fcntl` locks on dot files, pids left in files, and signals.

## The parts, and how they interact

| part | source | state | operations | meets |
|---|---|---|---|---|
| job numbers | `ppr.c`, `ppd.c`, `pprm.c`, `ppq.c` (four copies) | none: head and tail are recomputed from a listing | `calculate_head`, `calculate_tail`, `read_count` | everything below |
| submission | `ppr.c`, `notify.c` | `inf<n>`, `dat<n>`, `.count`, `.lock` | lock, scan, create the two files, notify | queue child, pprm |
| removal | `pprm.c` | the same files, `.command` | lock, lock the inf file, unlink both or ask the child | ppr, queue child |
| main process | `ppd.c` 112-500, `notify.c` | `.pending`, `.dpid`, the database in memory | start up, `handle_incoming_jobs`, reload | ppr, the web pages, queue children |
| queue child, one per busy queue | `ppd.c` 508-834, 935-1072 | head, tail, table of printers, flags set by handlers | `service_queue`, `zombie_harvester` | all of the above, its children |
| printing child | `ppd.c` 1101-1253 | the open inf and dat files | check the balance, print, charge | queue child, accounting, a driver |
| printer table | `ppd.c` 838-931 | `eligible_printers` | follow the database | web pages |
| command channel | `pprm.c` 552-720, `ppd.c` 1270-1405 | `.command`, `command_list` | send, acknowledge, dispatch | pprm, queue child |
| accounting | `ppd.c` 1923-2174, `web/update_user.c` | balances, `.dbaccess` | check, charge, edit | printing children, web pages |
| JetDirect driver | `printer/pjl_jetdirect.c` | a socket, the printer's reports | connect, send, wait for the end of the job | printer, pprm's abort |
| database | `web/*.c`, `hooks/*.c` | tables `queues`, `printers`, `pjl_jetdirect`, spool directories | insert, update, delete, reload signals; `read_database` | main process, queue children |
| logs | `logging.c` | four files and their locks | append, trim | every process |
| status, walks | `ppq.c`, `pprm.c` 178-201 | none | scan, walk from the oldest job to the newest | read the directory and the status files without a lock |

What is hard here: `fcntl` locks fall with the first close and do not survive a
fork; a signal may interrupt a wait for a lock, or come just before `pause()`;
files are unlinked by name after the lock on them is gone; numbers are used
again; a crash can come between any two files; nothing but the directory says
which jobs there are.

What makes each part correct:

* numbers: the scans find the two ends in any order of the listing, and a new
  number never collides;
* submission and removal: one of them in the directory at a time; a queued job
  is never overwritten nor removed by anyone but pprm or the end of its printing;
* queue child: a job is at one printer, is printed once, with its own data and
  for its own owner; the count of children is right; nobody is left waiting;
* main process: a notice, once given, starts a child or wakes one;
* printer table: a printer is in it once, its entry outlives whatever happens to
  the printer while a job is at it, and the list follows the database;
* command channel: what is stopped is the job that was named, and nobody waits
  for ever;
* accounting: the balance is what was paid in less what was printed, and jobs
  printed at the same time overdraw it by no more than one charge each;
* driver: the pages charged are those that came out, and the dialogue ends;
* database: keys and names are distinct, a row has the directory or the other
  row that was made for it, and what failed pages leave behind is never taken for
  something new; the daemon finds the rows it expects;
* logs: what is kept after a trim is the newest whole lines, the size is bounded,
  and a writer comes to an end;
* status and walks: every job that waits is shown, or removed, though the directory
  changes under the walk.

## The plan

1. *(done)* Numbering and scans, the queue with its processes, what it promises
   (`SpoolIndex`, `DirScan`, `SpoolQueue`, `PrintSpool`), and the proofs that
   ppr never overwrites a job.
2. *(done)* The main process, the command channel and the printer table
   (`Daemon`, `CommandChannel`, `PrinterTable`), each a module of its own with
   the queue child reduced to what that part sees of it.
3. *(done)* `Accounting`: the balance that `check_print_balance` reads, the charge
   made after printing, the `.dbaccess` lock, and the pages that edit a user.
4. *(done)* `JetDirect`: the PJL dialogue: connection, job, status messages in any
   order, time limits, buttons on the printer.
5. *(done)* `JobWalk`: what `ppq`, `ppq -b` and `pprm -` make of a directory in which
   jobs come and go. `LogTrim`: the log files. `Admin`: the pages' statements one by
   one, keys, spool directories, half-done deletions, and the daemon's reading. Crashes
   in the refinement of `PrintSpool`; restarts and notices of `Daemon` in one instance.
6. *(done)* The queue's promises and its refinement of `PrintSpool` step by step; the main
   process, the command channel, the printer table and the ledger of the accounts.
7. *(done)* The rows of the database, the pages of the JetDirect driver, the newest lines
   of a log, and the walks of `ppq` and `pprm -`.
8. Left: the promises of the queue with pprm at work, in the form they have then: a job
   is printed for its owner unless its inf file was replaced under the child.

## The modules

| module | models | proofs |
|---|---|---|
| `SpoolIndex` | the circular arithmetic: `NextIndex` (ppr.c 623-640, `read_count`), `QueueFull` (ppr.c 137), `NewerThan`, `OlderThan` (ppd.c 1585, 1639), `JobsLeft` (ppd.c 627) | `SpoolQueue_proofs` |
| `DirScan` | `calculate_head` and `calculate_tail`, one step per directory entry, in any order of the listing | `SpoolQueue_proofs` |
| `SpoolQueue` | one queue: `ppr`, `pprm`, `service_queue`, `zombie_harvester`, `print_job` up to the printer, crashes | `SpoolQueue_proofs` |
| `PrintSpool` | what a queue promises, without files, locks or processes | `SpoolQueue_proofs` |
| `SpoolQueueRefinement` | the mapping under which `SpoolQueue` implements `PrintSpool` | `SpoolQueue_proofs` |
| `Daemon` | `ppd`'s main process, `.pending`, `.dpid`, signals, hangups, start-up | `Daemon_proofs` |
| `CommandChannel` | `remove_jobnum`'s command to the queue child, `command_handler`, `dispatch_command` | `CommandChannel_proofs` |
| `PrinterTable` | `update_eligible_printer_list`, the search for a free printer, the pages that change printers | `Printers_proofs` |
| `Accounting` | the balance check and the charge of `print_job`, `.dbaccess`, the pages `show_user`, `update_user`, `continue_add_user` | `Accounting_proofs` |
| `JetDirect` | `print_to_jetdirect` and everything it calls; the printer as an external process | `Printers_proofs` |
| `JobWalk` | `ppq.c` 105-157, 853-1777, and `remove_all_jobs` and `remove_jobnum` of `pprm.c`, on a directory that ppr and the queue child change; the tests of the scans are `DirScan`'s | `JobWalk_proofs` |
| `LogTrim` | `logging.c`: the four kinds of log and `check_log_size` | `LogTrim_proofs` |
| `Admin` | `continue_add_queue`, `update_queue`, `continue_add_pjl_jetdirect`, `update_pjl_jetdirect`, and `read_database` as their reader | `Admin_proofs` |
| `MC*` | symmetry and initial databases for TLC | |

**SpoolQueue.** A job is the inode of its inf file, so that a name that has been
given to another job can be told from the file a process has open: `inf[s]` and
`dat[s]` say which job's files have number `s`. `ppr[c]`, `rm[r]` and `svc` are the
processes, with a `pc` that stands between two system calls whose order matters:
`PprLock`, `PprCalculateHead`, `PprCalculateTail`, `PprCreateDat`, `PprOpenInf`,
`PprWriteInf`, `PprNotify` are the calls of ppr's `main` in their order; the `Svc`
actions are those of `service_queue` from `get_head_tail` round the loop to the
exit, with `zombie_harvester` in three steps because it closes the files (which
drops the lock) before it unlinks them. `SvcForkFails` is `print_job` without a child: the
printer stays idle, nothing is counted, and the job is passed over. `AfterSignal` is what any signal does to the
queue child: it ends `pause()`, and it ends the wait in `wait_lock_file` without
the lock. `entry` is `eligible_printers`. A crash takes processes and locks away and
leaves files; a restart is `cleanse_queues`. The variables `prints`, `done`,
`lastJob` only remember, for the properties.

**Daemon.** `main[i]` is the i-th start of `ppd`. `Hit` is a signal handler's effect
at each point of the loop; `AfterSignal` adds the interrupted wait for `.pending`,
after which the code exits. ppr's notice is three steps (lock, append, signal), a
page's hangup is one step after its change. `leftBehind` are the queues
in which a crash left jobs that the next start is to find; a queue is taken out of it when
its own record changes while a daemon or a child is at work, because a queue that is set up
under a running daemon is not looked at before its next job (see below). `behindGap` are the
keys that had a free one below them when the process forked its first children.

**CommandChannel.** Numbers repeat (`TailNumber`), so a job also has a serial number
that no process sees. `ListAfter` is the insertion with an uninitialized pointer:
lost, right, or the end of the process. `SvcDispatch` and `SvcDrop` are separate
because the handler can run between `temp = ...->next` and `command_list = temp`.

**PrinterTable.** `slot` is the whole array and the place behind it, `num` its count;
`Marked`, `Goes`, `Removed`, `Appended` are the four stages of the update. An update
that would not end, or would write behind the array, ends in the states "hung" and
"overrun", and the model stops there. What has been in the array stays in it behind the count,
and a job can be sent to it (`SvcSend`, ppd.c 641); `stray` remembers the printers to which
that has happened. `zombie_harvester` looks for a child among the listed entries only, and
makes the first one behind them idle when it finds none (ppd.c 953-956, 999); the model makes the
child's own entry idle there too, which is the same one when that is the first behind the list.

**JobWalk.** One program runs once; `pc` is the function it is in, and `head`, `tail`,
`jobnum`, `printing` are its variables of those names. `unread` and `fresh` are what a
directory stream promises: a file that is there from `opendir` to the end is returned,
one that comes or goes meanwhile may be. Around the program, ppr, another pprm and the
queue child act as in `SpoolQueue`, but a removal by the child is its three system
calls: closing (which drops the locks), the data, the inf file. `steady` are the jobs
that have waited since the program started; what it promises, it promises of those.

**LogTrim.** The file is a sequence of cells (the text of an entry, its newline, the
note of a trim) and sizes count cells. The text and its newline are two writes in the error and the debug log,
and the second is made also when the first has failed. The steps of `check_log_size` stand between the
calls that can fail: the disk and size tests, the seek, the search for a newline, the
copy aside with the truncation, the copy back cell by cell, the note. `book` remembers
everything ever written.

**Admin.** `page[g]` is a CGI program between two SQL statements or `system` calls, with
the request it serves, the name on its form, and the key it works on; a form keeps
the key it was shown with, however long it lies in a browser. `Stop` is any failure, of mSQL
or of the page's own checks. A row and a directory carry the request that made them, so
that a key used again can be told from its first use. `queueRace` and `printerRace`
record that a change fell between another page's first look and last change;
the properties hold as long as that has not happened. `strayForm` records that a form changed a
printer of another queue than the one it was shown for, after which only the names are not promised.
`StartQueues` are the numbers of queues, with a printer each, that may be there from the start. `reader` is `read_database` with
its SELECT for each printer.

**Accounting.** `child[c]` is a printing child from `check_print_balance` to its exit:
check, print, `calculate_charge`, then the three parts of `charge_account`: the wait for
`.dbaccess`, the SELECT, the UPDATE. The database does one statement at a time, so
those are the steps between which others come in. The pages lock nothing: `form[p]` is the
balance a page was shown with, and `UpdateUser` writes it back with what the
administrator has added. `Garbage` is what `charge` may hold when
`calculate_charge` has failed, since print_job does not look at its result. `ledger` is what the
balances should be: a charge that the database refuses is waived and given back to it.
`disturbed` names the users to whom something has happened
that the code does not guard against: a page has overwritten a newer balance, or has come between a
child's SELECT and UPDATE, or has changed the user's status in the middle of a job; `calculate_charge`
has failed; a signal has ended a child's wait for `.dbaccess`; the user has been deleted. Nothing is
promised of such a user until a new account is made. `Due` is what each child has printed and not yet
charged, a function, so that its sums can be reasoned about.

**JetDirect.** `drv.pc` is the function the driver is in: `connect` and `synch` are
`establish_connection`, then `prepare`, `status`, `send`, `finish`, `monitor`. `Accept`
and `Result` are `accept_unsolicited_message` for one whole message; `Incoming` is
everything a read can do, with the lost connection, the silence, and the
end of the stream, at which readline returns 0 and leaves the buffer as it was. The printer is external: it sends
what the driver's comments say printers send, its pages come out when it pleases, its
buttons are pressed, embedded jobs start and end, and a reset printer reports pages
that do not come out. What `send_job_to_printer` returns is forgotten except for a
request to cancel, as in the code, and `connection.timed_out` is never taken back.

## The runs

All runs check small instances and finish in at most two minutes. In `SpoolQueue` `QUEUE_LENGTH` is 2, which
makes four numbers: with two or three jobs and `.count` at 3 the numbering wraps
at once, a queue can be full, and a number is used again within a run. Two of each
kind of process are enough for every pairwise race; three would add only order
among equals. The bounds on jobs, edits, starts and crashes are named constants.

Passing runs:

| run | instance | shows |
|---|---|---|
| `spool_print` | 2 ppr, 2 printers, 3 jobs, one change of status, one crash | everything that is promised when nobody removes jobs: no job lost, overwritten or charged to another, printed twice only by the crash; and the processes implement `PrintSpool`, crashes included |
| `spool_remove` | fair; 2 ppr, one for an unknown user, 1 pprm, 2 printers, 2 jobs | locks, numbering and bookkeeping hold with removals and with jobs that are only half there; `.lock` always comes free |
| `daemon` | fair; 2 keys, the first of which is free until a page gives it out, 2 ppr, 2 starts, 2 jobs, 1 edit, 1 crash | one daemon; stale pids strand nothing; what a crash left is printed but in a queue behind a free key; a line is stranded or judged by an old database only through the two windows named below; no line is truncated unread; a line is read in the end, unless the daemon missed a signal or exited |
| `command_channel` | 2 pprm with two job numbers each, 1 printer, 5 jobs | a late command never stops a later job with the same number; no command comes in during a dispatch, unless the wait for the lock was cut short; nobody is stuck between the two locks |
| `table_update` | 3 printers, a table of 2, 3 edits | the list has each printer once and follows the child's copy of the database whenever the update ends; a printer is given two jobs only by way of an entry behind the list |
| `accounting` | 1 user, 2 printing children, 1 page, 3 jobs of up to 2 pages, 2 edits, 1 failure | no charge is lost to another, the account holds what it should, and an overdraft is less than one charge for each child, all of it for a user who is not `disturbed` |
| `jetdirect` | fair; 2 characters, 2 pages, 2 attempts, 2 buttons or failures | no page is charged that did not come out; all are when the job is printed or the printer reset; the driver and the process that resets the display end |
| `job_walk` | 3 jobs in a queue of 3 with the numbers 4, 5, 0 (the wrap is in the middle), 2 printers, 2 more jobs, each of the three programs | no waiting job is missed; a job is shown at a printer and as waiting only in the case named; `pprm -` leaves none of the jobs that waited behind |
| `log_trim` | fair; 2 writers, 5 entries, 5 pairs of watermarks, 1 kill | what is kept are the newest whole lines; the size is bounded; a writer comes to an end, but for the loop that finds no newline |
| `admin_pages` | 2 pages, 2 names each for queues and printers, at most 2 queues and 2 printers to a queue; an empty database and 5 forms, or 2 queues with a printer each and 3 forms | rows are distinct and whole though statements fail anywhere, and the daemon misses a row only for a printer deleted under it |

The properties that name an exception (`StrandedOnlyByMissedSignal`,
`StaleOnlyByLateHangup`, `UndisturbedUnlessCut`, `NoticeRead`, `ReportedAgainBehindLater`,
`EntryEnds`, `ReadFailsOnlyOnDeleted`, `LeftBehindOnlyByGap`, and `NoPrinterTwice` with `stray`) say
that the window they name is the only one; the list below says what happens in it. So do those of
`Accounting` with `disturbed` and those of `Admin` with the two races and `strayForm`.

In `job_walk` the queue is full from the start, so that one more job is as many as the
window of numbers can take; one arrival during the scans is the most for which they are
right (see below), and the second comes before or after. In `daemon` the first
key is free at the start, so that the second queue lies behind a gap, and a page may close the gap
at any moment; the children of different queues share nothing but the loop that forks them. In `admin_pages` five forms make
an addition, its failure, an addition in its place and a deletion under both pages
meet, and three on a database with two queues a printer's form that outlives the printer, without
whose exception `RowsDistinct` would be violated there; three pages would only add a second disturbance, after which nothing is promised.

`command_channel` has one printer: a number comes back after four jobs whichever
printer prints it, and with two printers the same properties hold on an instance
of one pprm, too large to be repeated with two. `accounting` has one user: users share
nothing but `.dbaccess`. In `jetdirect` two characters are enough for the data to be cut
short, and two events for a cancel and a failure, or an embedded job and a reset, to
meet.

Runs that show a disagreement between the code and its own comments, each with one
property and a counterexample:

| run | what the counterexample does |
|---|---|
| `spool_half_written` | a signal ends the wait at ppd.c 810, and a job ppr is still writing is sent |
| `jetdirect_cancelled` | the cancel button is pressed; `finish_job_to_printer` returns before the printer's count has come, and a page that came out and was counted is not charged |

Found while modelling, without a run of its own. The models take each of these steps,
and the properties are stated so that they hold in spite of them:

* The inf file is replaced between the queue child's `open` and `lock_file` (ppd.c
  655-660): it prints one job's data for another's owner, and pprm can lock and remove
  the file of a job that is at a printer, though pprm.c 288 says it cannot.
* Entries of `eligible_printers` keep the number of their last job, and the search in
  `dispatch_command` stops at the first (ppd.c 1301): an idle entry can hide the one
  that prints the job, which is then not stopped.
* A `fork` that fails in `print_job` (ppd.c 1122) leaves the printer idle and the count of children as it
  is, but the job is passed over, with its files open and its inf file locked by the queue child:
  it is looked at again only when that child has ended and another one runs.
* When a printer to be removed is not at the front of the table, the loop at ppd.c
  870 never increments `x` and never ends.
* A SIGCHLD or SIGUSR2 between the decision not to send (ppd.c 727) and `pause()`
  (ppd.c 747) wakes nobody: a zombie or a job waits for the next signal. The same
  holds of the main process between the truncation of `.pending` and ppd.c 457.
* ppr calls `lock_file`, which does not wait (ppr.c 114), and gives up on a busy
  `.lock`, though its comment (ppr.c 120) says it blocks; a notice is dropped in the same
  way on a busy `.pending` (notify.c 187).
* A signal during the wait for `.pending` makes the daemon exit (ppd.c 350).
* A hangup between `read_database` and `reload = 0` (ppd.c 361-362) is forgotten.
* `cleanse_queues` stops at the first free key (ppd.c 282): queues behind it are not
  served after a restart, nor is a queue that was down then and is put up later, though
  ppd(8) promises that jobs left behind are printed at once. `LeftBehindOnlyByGap` names just this
  exception.
* `command_handler` appends through a pointer that is not set when the list has
  one command, and replaces the last one when it has more (ppd.c 1382-1390).
* A signal ends the wait for `.command` and the list is worked off without the lock
  (ppd.c 1288), so that a command can come in between two statements of the dispatch.
* pprm returns before its `close(cmd_fd)` (pprm.c 625) and keeps `.command` locked
  while it waits for `.lock`; when another does the reverse the kernel refuses one of
  the waits and that pprm exits.
* `next_eligible` is tested before it is brought into range (ppd.c 641), so a job may be
  sent to what is left behind the end of a shorter list: a printer can then have two jobs, its listed
  entry's and the stray one's. In the list itself it stands once (`NoPrinterTwice`).
* `read_database` does not clear queue and status of a deleted printer (ppd.c 1834),
  which the child goes on using; and printers on their way out together with new ones
  can outgrow the list's array (ppd.c 919).

* The result of `calculate_charge` is not looked at (ppd.c 1233): when it fails the charge is
  uninitialized, and whatever it holds is charged.
* SIGUSR1 (pprm) ends the wait for `.dbaccess`, and the account is charged without the
  lock (ppd.c 1953); `update_user` never takes it, and writes back an old balance.
* `get_printer_status` fails without closing the socket, and the driver tries again without
  looking at the time (pjl_jetdirect.c 174).
* When the printer closes the connection, readline returns 0 for ever: the loops of
  `establish_connection`, `prepare_for_job` and `get_printer_status` spin, and `monitor_printer_to_finish`
  takes what the buffer still holds for a message; if that is a PAGE message, pages
  are counted that never came out.
* What `send_job_to_printer` returns is overwritten: after a silence or a reset the driver
  marks the end of the job as if it had been sent. When the job's END comes while it is
  still sending (a cancelled job), it waits for another one until the printer falls silent.
* ppq shows the waiting jobs also of a queue that is inactive or down, when
  `printing_jobs` has not been filled in (ppq.c 143-152); whatever it holds hides jobs.
* When two jobs come between the scans of a full directory from which others have
  gone, head and tail span more than a window, and ppq and `pprm -` go the wrong way
  round (ppq.c 1475-1491; `EveryJobShown` is stated for one).
* ppq prints a job without data on two lines (ppq.c 1294-1295), and ends at an inf file ppr
  has not filled in yet.
* `pprm -` ends at the first number without an inf file and at the first job
  of another user (pprm.c 390, 361), whatever lies behind it; pprm(1) says the queue
  "will be emptied of all waiting jobs". So does a list of numbers.
* A log whose high watermark equals the low one is trimmed at every entry (logging.c
  425), though Makefile.in 23 says it grows unchecked; with a low watermark of 0 the
  search for a newline begins at the end of the file and does not end, unless the
  uninitialized character happens to be one.
* A write that returns -1 is taken for a success in all of logging.c (196, 269, 278,
  355, 562); the note of a trim has no newline, so the next entry continues its line;
  whether an entry already has a newline is looked up in the wrong string (276, 362).
* With DEBUG defined, a signal handler that writes to the log closes the file, and with it
  drops the lock of the entry it interrupted.
* Two pages that add a queue at once get the same key, and everything after them follows:
  both rows name one directory, the deletion of one deletes both, the next key is looked
  up past a duplicate; at the limit a key of `MAX_QUEUES` is given out, which
  `read_database` uses as an index (ppd.c 1858).
* `delete_printer`'s second DELETE can remove the row of a printer just added with the same
  key (update_pjl_jetdirect.c 372); `read_database` then uses a row that is not there
  (ppd.c 1900), at every reload. A printer deleted between its two SELECTs has the same
  effect, once.
* A printer can be added to a queue that is just being deleted, though update_queue.c
  375 says "A queue with printers still attached cannot be deleted": its page
  looks at the printers only before the DELETE.
* A form shown before a deletion acts on whatever has the key when it is sent. A printer's
  form that lies open while the key is given to a printer of another queue looks its new
  name up in the old queue and changes the printer of the other (update_pjl_jetdirect.c 248, 490),
  where the name may be taken, though no two pages were ever at work together.
* The failed lookup of a name is not an error in continue_add_queue.c (99-107), as it is
  in the pages that change one; a failed INSERT makes the page remove a directory named by
  an integer printed as a string (323); `lock_status` is tested though the test of the lock
  has failed (update_queue.c 307).

Deadlock is not checked, because all these systems may come to rest: the bounds
are reached, the users stop, the processes sleep or exit.

**Fairness.** Every process that can take a step takes one in the end (weak
fairness of each process's own steps: the kernel schedules them, and a signal sent
arrives). No user has to run a program, no administrator to act, no machine to
crash. `JetDirect` is fair to the driver and to the process that resets the
display, not to the printer: nothing is promised of a printer that goes on sending
status messages and never ends the job. `LogTrim` is fair to a writer's own steps, not to
its uninitialized character: `SkipUnread` need never happen. `CommandChannel`, `PrinterTable` and `Accounting`
have no fairness and no liveness property, nor have `JobWalk` and `Admin`; `NobodyStuck` says that some process can
go on, and pprm may stop waiting after its ten seconds at any time.

## What is proved

The theorems hold for every value of the constants: any `QUEUE_LENGTH` of at least
one, any number of ppr, pprm and printers, any number of jobs, crashes and moves. What
the constants must satisfy stands in the ASSUME of each module, which TLC evaluates in
every run. `SpoolQueue_proofs` begins with the lemmas about the circular numbers and also
holds the proofs of the refinement and of the scans. `Printers_proofs` has
two parts, about two specifications that share no variable: the list of a queue's printers
(whose `TableSpec`, `TableInit` and `TableNext` are named so for that) and the
dialogue with one of them.

| theorem | what holds |
|---|---|
| `SpoolQueue_proofs!ScanCorrect`, `PlacementSafe` | the scans find the newest and the oldest number of every listing that lies in one window, whatever its order; when ppr does not find the queue full, the number it takes is free and the listing stays in one window |
| `SpoolQueue_proofs!SpoolTypes`, `LockExcludes`, `DirectoryScannable`, `NoJobOverwritten` | types; ppr and pprm exclude each other; the directory always lies in one window; ppr never takes a number in use |
| `SpoolQueue_proofs!ChildrenAreCounted` | `num_children` is the number of busy entries, through failing forks in `print_job`, signals and crashes |
| `SpoolQueue_proofs!FilesStayWhilePrinting`, `OwnerIsCharged`, `NoChildAbandoned`, `JobPrintedOnce`, `JobStaysQueued` | the promises of the queue about a job, when nobody removes jobs |
| `SpoolQueue_proofs!QueueIsPrintSpool` | the processes and files implement `PrintSpool`, when nobody removes jobs |
| `CommandChannel_proofs!OnlyAskedJobsStopped`, `DispatchUndisturbed` | a command stops the very job it was written for; none comes in during a dispatch but after a cut wait |
| `Daemon_proofs!OnlyOneDaemon`, `NoticesHeard`, `LinesJudgedByNewDatabase`, `CrashedJobsTakenUp`, `NoLineCutOff` | one daemon; no notice, hangup or line of `.pending` is lost but in the windows the properties name; what a crash left in a queue that is up is printed or has a child, unless the queue lies behind a free key or its record has changed under a daemon |
| `Printers_proofs!PrintersOnce`, `ListFollowsCopy`, `BusyEntriesStay` | the list of printers has each once, follows the child's copy of the database, and keeps the busy ones; two jobs are at one printer only when one was sent from behind the list |
| `JobWalk_proofs!EveryJobIsShown`, `ReportedAgainOneWay`, `AllRemovedUpToHere` | no waiting job is missing from ppq's listing, and `pprm -` leaves none behind it, if one job at most came meanwhile; a job at a printer is listed as waiting again only when the number before it is reported at a printer further on |
| `Accounting_proofs!AccountTypes`, `ChargesFresh`, `BooksBalance`, `OverdraftsBounded` | types; and for every user who is not disturbed: no charge overwrites another; the balance is what was paid less what was printed and not waived; the account is overdrawn by less than the largest charge for each child |
| `LogTrim_proofs!LogStaysBounded`, `OldLinesGoFirst` | a log whose high watermark is above its low one never has more than the high watermark and one cell; what it keeps is the newest whole lines of all that was ever written to it |
| `Admin_proofs!AdminTypes`, `RowsStayDistinct`, `RowsStayWhole`, `ReadingFailsOnDeleted` | types; keys and names are distinct and within the limits, a queue has its own directory and a printer its own second row, unless a change fell into another page's window; the daemon misses a row only for a printer deleted under it |
| `Printers_proofs!NobodyPaysForNothing`, `PrintedIsPaid` | no page is counted that did not come out, and when the job is printed or the printer reset all are that did |

**The directory.** Everything is measured by the distance `(b - a) % (2 * QUEUE_LENGTH)`
(`TestsAreDistances` turns the four programs' comparisons into it). A set of
numbers is windowed when one of them has all others less than `QUEUE_LENGTH`
ahead. `PlacementAfterRemovals` is the heart: ppr scans for the head, then for the
tail, then creates its files, and between these steps the queue child removes
files without holding `.lock`; what is left is a subset of what was scanned, and
the number chosen is still free and still in the window. The inductive invariant
is

    SpoolInv == TypeOK /\ LockExclusion /\ InfFilesWindowed /\ ClientsPlaced

`ClientsPlaced` says of a ppr between its scans and its `open` that its number is
one that goes with some superset of the present files. `InfFilesWindowed` is not
inductive without it, `ClientsPlaced` not without `LockExclusion` (a second ppr
would add a file), and `LockExclusion` needs that a signal never hands the
queue child's lock to someone who has not waited for it. `SpoolInvStep` has one step per
action: the actions that add a file (`PprOpenInf`), those that remove one, and the
rest.

**The count of children.** `ChildrenCounted` is about the child at work; `Counted` adds that
between two lives of the queue child, and on its way out, no entry is busy: a child that
starts at zero has left nobody behind.

**The promises of the queue.** They are proved together, from

    QueueInv == SpoolInv /\ Counted /\ TableInv /\ CourseInv

Their hypothesis is `NobodyInterferes == Removers = {} /\ UnknownUsers = {}`, the constants
of the run `spool_print`. It is not for convenience: with pprm at work, or for a user who
is not known, the inf file the child has opened is taken away before it is locked, the
number is given to another job, and the promises are then not kept (the first item of the
list above). With removals the theorems without the hypothesis hold, of the locks, the numbers
and the count of children; `spool_remove` checks them on such an instance, with liveness.

`TableInv` says that no two busy entries, nor an entry and the harvester, are about the same
number; that beside an inf file lies the data of its own job, or none when a crash fell
between the two `unlink` of a job that had been printed; and that a job has come out once
for each crash, and once more when it has been printed since the last (`PrintsBounded`, from
which `PrintedOnce` follows). None of it is inductive without `CourseInv`: what keeps
the child from a job that is already at a printer is not the lock on its inf file, which is
the child's own and is granted again, but that the tail never comes round to it. `TailBehind`
says so: the numbers that have been sent lie behind the number that is looked at next, at a
distance of 1 to `QUEUE_LENGTH`, at every place in `service_queue`.

The refinement has one lemma per group of actions (`...Shown`): each is a step of
`PrintSpool` or leaves it as it is. That the abstract queue has room when ppr creates an
inf file (`RoomForOne`) follows from `SpoolInv`: the present files and the new one lie in one
window, the new number is free, and a window has no more than `QUEUE_LENGTH` numbers.

**Commands.** A command names a number, and numbers come again. `ChannelInv` follows the job
meant: when the command is written it is one of the last `QUEUE_LENGTH` submitted, since it is
at a printer and pprm holds `.lock` (`NamedInWindow`); from there until the list is worked off
the child sends one more job at most (`CommandsRecent`); the job that is stopped is one of
the last `QUEUE_LENGTH` too (`JobsInWindow`); and two jobs with one number are `2 * QUEUE_LENGTH`
apart. So the two are one.

**The main process.** `DaemonInv` has a part for each way in which something can be forgotten.
`PendingHeld`: who reads, truncates or appends to `.pending` holds its lock, and the reader is
not beyond its end. `NoneStranded`: a daemon that sleeps, or is about to, on a line has a
signal coming, or has missed one. `HangupsHeeded`: the database was read after the last
hangup, or is to be read before another line is judged, or the hangup was late.
`CrashHeeded`: as long as jobs left by a crash wait, what the processes know is the database as it is,
and once the queues are cleansed each has a child, unless it is in `behindGap`: a queue is
in `behindGap` or reached by `cleanse_queues`.

**The printer table.** `TableInv` there is `ListMatchesCopy` without its condition: the list
must be right from one update to the next and not only where a printer is looked for, because
in between jobs are sent and printers change, and only the update's own stages put it
right. New printers are appended in the order of their keys, and `Ranks` shows that
this gives each a place of its own behind the entries that stay. For `PrintersOnce`, `OnlyStrayBehind`
says that behind the list only an entry of a printer in `stray` is busy.

**Accounts.** For `ChargesFresh` the invariant is

    AccountInv == TypeOK /\ HolderCharges /\ GoneAreDisturbed /\ ReadIsFresh

`ReadIsFresh` alone is not inductive: another child could be about to write the same
account. `HolderCharges` says that a child between its SELECT and its UPDATE holds
`.dbaccess`, unless its user is disturbed; and `GoneAreDisturbed`, that a deleted user is,
so that a page that adds the user again meets no child that still charges the old
account. `ChildFresh` and `PageFresh` are the two halves of the step. The books need

    LedgerInv == AccountInv /\ ChargesKnown /\ BalanceIsLedger /\ OverdraftRoom

`OverdraftBounded` alone is not inductive, since a child charges long after it was let in.
`OverdraftRoom` counts what the children past the check are committed to: the largest charge
while they print, what is due from then on; less all that, the balance is still above the bound. A child
is let in with a positive balance and adds at most `MaxCharge` to those of the other
children, so that there is room for one more.

These are sums over sets of children. What the library's sum returns is a matter of induction
over finite sets; the induction theorems take an operator and cannot be used, so `SmallestSet`
takes their place: a finite set for which a fact fails has a smallest subset for which it fails
(from the well-founded order of finite sets), and the lemmas `SumTaken`, `SumSame`, `SumSplit`
and `SumBounds` are shown of that.

**Logs.** For `LogStaysBounded` the invariant is `LogInv == LogTypes /\ HolderWorks /\ Room`.
The bound says nothing of the room a trim has made by the time the entry is written; `Room` does,
for each place in `check_log_size` and after it, and `HolderWorks` says that no other
process is at such a place.

For `OldLinesGoFirst` it is `LogInv /\ KeptInv`, where `KeptInv` says in each place what has been
copied: that what is set aside is the end of the log from a line's beginning on (`CutPoint`,
`SetAside`), and that what has been put back, with what is still to come, is that (`Newest`). A
recursive definition takes the notes out of the file (`WithoutNotes`), and what it does to
a file cut in two or lengthened (`NotesConcat`, `NotesAppend`) is a matter of induction over
the length; it is shown from a least counterexample.

**Rows.** `AdminInv == TypeOK /\ QueueInv /\ PrinterInv /\ RequestsOnce /\ CrashedOnDeleted`.
Rows are distinct because a page that is about to insert has found the key and the name
free, which lasts only as long as no other page changes anything. `QueueInv` and `PrinterInv` say
for each place in a page what it has found out, and that it still holds when no change fell
into its window; that no other page is in a window while one changes rows is what the two
race flags record. `RequestsOnce` is what makes `RowsWhole` inductive: a request makes one row
and one directory, so that what a failed deletion left behind has another number than
the row that takes its key. Which key `FreeKey` finds say
`FreeKeyIsFirst` and `FreeKeyIsFree`: none that is taken, and in a table of fewer than the limit
one below it.

**Pages.** The driver reads messages from a stream that ends up some messages behind the printer, so its
counts and the printer's differ by what is on its way. `JetDirectInv` has
`PagesRight(printer, drv, line)`: the counts the driver will have come to after
reading the first `i` messages of the line (`Counts`) agree, for each `i` up to the whole line, with
what the printer had brought out (`CountsAgree`). A page that comes out adds a message at
the line's end (`SaidOne`), one that is read moves the first one over (`ReadOne`), and neither changes
the rest. What is charged is the count where END or the reset's own report was read
(`FinalFacts`).

**Walks.** `WalkInv` has two halves. The scans: the directory changes while it is read, and
what a scan has found may have gone. `NearBase` says that there is a number `o` (the file itself
need not be left) such that all files, and the end found so far, lie less than `QUEUE_LENGTH`
ahead of it, or, after one arrival that would not have fitted in with `o` still there, at 1 to
`QUEUE_LENGTH` ahead. In both cases the comparison of two numbers is still the comparison of their
distances from `o`. `TailBase` and `HeadBase` add that a job that stays is still to be read
or lies on the right side of what has been found; a second arrival breaks `NearBase`, and the
counterexample of the list above with it. So when the scans are over the jobs that
stay lie from `tail` on to `head` (`ScansRight`).

The walk: `PrintingShown` and `ShownPrinting` tie `printing_jobs` to what has been shown. `PastPrinting` is a
recursive function, one step for each printer, and `PastWalk` says that it passes only numbers
that are in `printing_jobs`; so a job passed over has been shown, and what has been neither
shown nor listed lies ahead (`WalkRight`). `Place`, the number of steps of ppq's walk (modulo
99999), grows with the distance modulo `2 * QUEUE_LENGTH`, so that "ahead" is the same for both
(`PlaceOnSlots`). `ListedBehind` is the exception `ReportedAgainBehindLater` names: the loop
over the printers is passed once for each job, and a number escapes its printer only when the
number before it is at a later one, which moves the walk on to it.

**Recursion.** That a function defined by recursion exists (`UpToExists`, `PastExists`) and what
it returns is shown with least counterexamples: a set of naturals that is not empty has a
least member (`Least`).

**Only model-checked.** Liveness, which is out of the prover's reach: `LockComesFree`, `NoticeRead`,
`DriverEnds`, `EntryEnds`. `NobodyStuck`, which is about ENABLED. The two runs with a
counterexample.

## What is left out

* Within a system call nothing is divided: a scan of the directory in `SpoolQueue`
  is one step (its inner order is `DirScan`), `fopen` with its lock is two.
* A signal is handled at once by the process it is sent to. In `SpoolQueue` a signal to the main
  process is never lost; that is `Daemon`'s subject. A printing job that pprm
  stops counts as finished.
* Failing `malloc` and disk are left out, except where a failure
  is an ordinary outcome (`unlink` of a file that has gone, a busy lock), and so are forks of queue children
  that fail in the main process. A fork that fails in `print_job`, failing statements and connections of the
  database in `Accounting` and `Admin`, and the writes of `LogTrim` are modelled.
* `CommandChannel` has one life of a queue child and only requests for jobs at
  printers; `PrinterTable` always has jobs to send, and takes a page's change
  and its hangup as one step; in `Daemon` a notifier's test of `.dpid` and its
  signal are one step, and pids are not used again.
* In `Accounting` money is whole units, a page deposits a fixed amount, and a user is not
  renamed. In `JetDirect` messages arrive whole, the job is a few characters, time
  is the number of attempts, and the alarm that cuts short a blocked write while
  connecting is left out.
* In `JobWalk` the options that narrow a listing to a user or a printer are left out, the
  queue is served by a child that never restarts, and the program's own removals of a job at a
  printer (a command) are `CommandChannel`'s subject. In `LogTrim` an entry is two
  cells whatever its length, and the build is one with `fstatfs` or `fstatvfs` (logging.c 405), without
  which `check_log_size` returns at once and no log is ever trimmed. In `Admin` statuses, charges and addresses are left out, the
  choice of a printer's type (`continue_add_printer`) is taken as made, and no
  queue is served; what the daemon does with the tables is `Daemon`'s and `PrinterTable`'s.
* Not modelled: the pages that only display, the parsing of arguments and
  forms, the msql wrapper, the generic driver (it copies bytes), build files.
