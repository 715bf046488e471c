---------------------------- MODULE PrinterTable ----------------------------
(***************************************************************************)
(* The printers of one queue, as the queue child keeps them: its copy of   *)
(* the database, the table eligible_printers built from that copy, and the *)
(* web pages that add, delete, up and down printers meanwhile.             *)
(*                                                                         *)
(* The table is an array that is not initialized, with a count; places     *)
(* behind the count keep what was left there, and the place behind the     *)
(* array is read too.  There are always jobs to send.  Only adding and     *)
(* deleting a printer, and its status, matter; a page has notified the     *)
(* queue child before the next one makes a change.                         *)
(***************************************************************************)
EXTENDS Integers, FiniteSets

CONSTANTS
    NumKeys,                \* MAX_PRINTERS
    MAX_PRINTERS_PER_QUEUE,
    MaxEdits                \* bound: changes to the database

Keys == 0 .. NumKeys - 1
Places == 0 .. MAX_PRINTERS_PER_QUEUE

ASSUME TableAssumption ==
    /\ NumKeys \in Nat \ {0}
    /\ MAX_PRINTERS_PER_QUEUE \in 1 .. NumKeys
    /\ MaxEdits \in Nat

VARIABLES
    database,   \* printers: "none", "other" (queue), or "up", "down" in this queue
    copy,       \* what the queue child has in memory of them
    slot,       \* eligible_printers, and the place behind it
    num,        \* num_eligible
    next,       \* next_eligible
    reload,     \* the flags set by the child's signal handlers
    childExited,
    pc,
    tested,     \* the printer a page has found free and is going to delete
    edits,
    stray       \* history: printers that were sent a job from behind the list

webSide == <<tested, edits>>
tableVars == <<database, copy, slot, num, next, reload, childExited, pc, webSide, stray>>

Listed == {x \in Places : x < num}
Idle(s, x) == s[x].state = "idle"
Busy(x) == slot[x].state \in {"printing", "zombie"}
Attached == {k \in Keys : database[k] \in {"up", "down"}}

\* A faulty variant: a printer that is busy is taken out as well.
GoesThoughBusy(s, n) == {x \in Places : x < n /\ s[x].delete}

\* What the second stage of update_eligible_printer_list takes out.
Goes(s, n) == {x \in Places : x < n /\ Idle(s, x) /\ s[x].delete}

\* The first stage: mark the printers that are down or not this queue's.
Marked(s, n) ==
    [x \in Places |->
        IF x < n /\ copy'[s[x].key] # "up" THEN [s[x] EXCEPT !.delete = TRUE] ELSE s[x]]

\* The third stage finds them only at the front of the table: x stays 0.
RemovalEnds(gone) == gone = {x \in Places : x < Cardinality(gone)}

Removed(s, n, c) ==
    [x \in Places |->
        IF c = 0 \/ x >= n THEN s[x]
        ELSE IF x + c <= n THEN s[x + c] ELSE s[n]]

\* A faulty variant: no test whether the printer is in the list.
NewKeysUnchecked(s, n) == {k \in Keys : copy'[k] = "up"}

\* The last stage appends, in the order of their keys, what is missing.
NewKeys(s, n) ==
    {k \in Keys : copy'[k] = "up" /\ \A x \in Places : x < n => s[x].key # k}

\* A faulty variant: the mark that was in the place stays.
AppendedMarked(s, n, K) ==
    [x \in Places |->
        LET new == {k \in K : x = n + Cardinality({l \in K : l < k})}
        IN  IF new = {} THEN s[x]
            ELSE [key |-> CHOOSE k \in new : TRUE, state |-> "idle",
                  delete |-> s[x].delete]]

Appended(s, n, K) ==
    [x \in Places |->
        LET new == {k \in K : x = n + Cardinality({l \in K : l < k})}
        IN  IF new = {} THEN s[x]
            ELSE [key |-> CHOOSE k \in new : TRUE, state |-> "idle", delete |-> FALSE]]

\* update_eligible_printer_list; the caller goes on at place "then".  Copy is
\* the child's copy of the database after the caller's own changes to it.
UpdateList(s, then) ==
    LET gone == Goes(Marked(s, num), num)
        left == num - Cardinality(gone)
        s2   == Removed(Marked(s, num), num, Cardinality(gone))
        K    == NewKeys(s2, left)
        n    == left + Cardinality(K)
    IN  IF ~RemovalEnds(gone)
            THEN pc' = "hung" /\ slot' = Marked(s, num) /\ num' = num
        ELSE IF n > MAX_PRINTERS_PER_QUEUE
            THEN pc' = "overrun" /\ slot' = s2 /\ num' = left
        ELSE pc' = then /\ slot' = Appended(s2, left, K) /\ num' = n

-----------------------------------------------------------------------------
\* read_database clears the types only: a printer that has gone keeps its
\* queue and status in memory, which is what the list is made from.
ReadDatabase(old) ==
    [k \in Keys |-> IF database[k] = "none" THEN old[k] ELSE database[k]]

\* A queue child has just been forked, with the copy its parent has read.
TableInit ==
    /\ database \in [Keys -> {"none", "other", "up", "down"}]
    /\ Cardinality(Attached) <= MAX_PRINTERS_PER_QUEUE
    /\ copy = database
    /\ \E junk \in [key : {0}, state : {"idle", "unset"}, delete : BOOLEAN] :
         slot = [x \in Places |-> junk]
    /\ num = 0
    /\ next = 0
    /\ reload = FALSE
    /\ childExited = FALSE
    /\ pc = "start"
    /\ tested = {}
    /\ edits = 0
    /\ stray = {}

\* Build the table; without a printer the child exits.
SvcBuildTable ==
    /\ pc = "start"
    /\ copy' = copy
    /\ UpdateList(slot, IF \E k \in Keys : copy[k] = "up" THEN "loop" ELSE "gone")
    /\ UNCHANGED <<database, next, reload, childExited, webSide, stray>>

-----------------------------------------------------------------------------
(* The loop of service_queue.                                              *)

Free(x) == Idle(slot, x) /\ ~slot[x].delete

\* The search goes round the table from next_eligible, which may be a place
\* behind the end of the list, and stops at the first printer that is free.
Steps(i, n) == IF i = 0 THEN n ELSE (n + i) % num

Searched ==
    LET stops == {i \in 0 .. num : Free(Steps(i, next)) \/ i = num}
    IN  Steps(CHOOSE i \in stops : \A j \in stops : i <= j, next)

SvcSend ==
    /\ pc = "loop"
    /\ Free(Searched)
    /\ next' = Searched
    /\ slot' = [slot EXCEPT ![Searched].state = "printing"]
    /\ stray' = IF Searched < num THEN stray ELSE stray \cup {slot[Searched].key}
    /\ pc' = "awake"
    /\ UNCHANGED <<database, copy, num, reload, childExited, webSide>>

\* No printer is free: pause, until a signal comes.
SvcWait ==
    /\ pc = "loop"
    /\ ~Free(Searched)
    /\ next' = Searched
    /\ pc' = "pause"
    /\ UNCHANGED <<database, copy, slot, num, reload, childExited, webSide, stray>>

SvcWakes ==
    /\ pc = "pause"
    /\ reload \/ childExited
    /\ pc' = "awake"
    /\ UNCHANGED <<database, copy, slot, num, next, reload, childExited, webSide, stray>>

\* zombie_harvester, and the update after it.  (The code finds the entries of
\* the list only; one behind it becomes idle here too.)
SvcHarvest ==
    /\ pc = "awake"
    /\ copy' = copy
    /\ childExited' = FALSE
    /\ IF childExited
          THEN UpdateList([x \in Places |->
                   IF slot[x].state = "zombie" THEN [slot[x] EXCEPT !.state = "idle"]
                                               ELSE slot[x]], "reload")
          ELSE pc' = "reload" /\ UNCHANGED <<slot, num>>
    /\ UNCHANGED <<database, next, reload, webSide, stray>>

\* read_database, and the update after it.
SvcReload ==
    /\ pc = "reload"
    /\ reload' = FALSE
    /\ IF reload
          THEN /\ copy' = ReadDatabase(copy)
               /\ UpdateList(slot, "while")
          ELSE /\ pc' = "while"
               /\ UNCHANGED <<copy, slot, num>>
    /\ UNCHANGED <<database, next, childExited, webSide, stray>>

\* The condition of the loop.
SvcGoOn ==
    /\ pc = "while"
    /\ pc' = IF num > 0 THEN "loop" ELSE "gone"
    /\ UNCHANGED <<database, copy, slot, num, next, reload, childExited, webSide, stray>>

ChildEnds(x) ==
    /\ pc \in {"loop", "pause", "awake", "reload", "while"}
    /\ slot[x].state = "printing"
    /\ slot' = [slot EXCEPT ![x].state = "zombie"]
    /\ childExited' = TRUE
    /\ UNCHANGED <<database, copy, num, next, reload, pc, webSide, stray>>

-----------------------------------------------------------------------------
(* The web pages.                                                          *)

Edit(k, new) ==
    /\ edits < MaxEdits
    /\ edits' = edits + 1
    /\ database' = [database EXCEPT ![k] = new]
    /\ reload' = (reload \/ {database[k], new} \cap {"up", "down"} # {})
    /\ UNCHANGED <<copy, slot, num, next, childExited, pc, stray>>

\* insert_printer: the first free key, if the queue has room.
InsertPrinter(new) ==
    \E k \in Keys :
        /\ database[k] = "none"
        /\ \A l \in Keys : l < k => database[l] # "none"
        /\ new = "up" => Cardinality(Attached) < MAX_PRINTERS_PER_QUEUE
        /\ Edit(k, new)
        /\ UNCHANGED tested

\* delete_printer: first the test of the printer's lock file, and later, when
\* a job may have been sent to it, the deletion.
TestPrinter(k) ==
    /\ tested = {}
    /\ edits < MaxEdits
    /\ database[k] # "none"
    /\ \A x \in Listed : slot[x].key = k => Idle(slot, x)
    /\ tested' = {k}
    /\ UNCHANGED <<database, copy, slot, num, next, reload, childExited, pc, edits, stray>>

DeletePrinter(k) ==
    /\ tested = {k}
    /\ tested' = {}
    /\ Edit(k, "none")

UpdatePrinter(k) ==
    /\ database[k] \in {"up", "down"}
    /\ Edit(k, IF database[k] = "up" THEN "down" ELSE "up")
    /\ UNCHANGED tested

TableNext ==
    \/ SvcBuildTable \/ SvcSend \/ SvcWait \/ SvcWakes
    \/ SvcHarvest \/ SvcReload \/ SvcGoOn
    \/ \E x \in Places : ChildEnds(x)
    \/ \E new \in {"up", "other"} : InsertPrinter(new)
    \/ \E k \in Keys : TestPrinter(k) \/ DeletePrinter(k) \/ UpdatePrinter(k)

TableSpec == TableInit /\ [][TableNext]_tableVars

-----------------------------------------------------------------------------
(* What must hold.                                                         *)

\* No printer is in the list twice, however often it is downed and upped, or
\* deleted and another added under its key, while a job prints on it (ppd.c
\* 898-926).  And no two jobs are at one printer, counting the entries behind
\* the list too, with one exception: a printer that was once sent a job from a
\* place behind the list, where the search for a printer may start (ppd.c 641).
NoPrinterTwice ==
    /\ \A x, y \in Listed : slot[x].key = slot[y].key => x = y
    /\ \A x, y \in Places :
         Busy(x) /\ Busy(y) /\ slot[x].key = slot[y].key => x = y \/ slot[x].key \in stray

\* When the child looks for a printer, its list has every printer that is up
\* and this queue's, as far as its copy of the database goes; what else is in
\* the list is busy, and an idle printer is never passed over for a mark that
\* some other printer left (ppd.c 838-931).
ListMatchesCopy ==
    pc = "loop" => /\ \A k \in Keys : copy[k] = "up" => \E x \in Listed : slot[x].key = k
                   /\ \A x \in Listed : Idle(slot, x) => Free(x) /\ copy[slot[x].key] = "up"

\* The entry of a printing child stays in the list until the child has been
\* collected, whatever happens to the printer in the database: the harvester
\* finds it, with the job's number and files (ppd.c 856-865, 876-886, 953-956).
BusyEntryStays ==
    [][\A x \in Listed :
         slot[x].state = "printing" =>
             \E y \in Places : /\ y < num'
                               /\ slot'[y].key = slot[x].key
                               /\ slot'[y].state \in {"printing", "zombie"}]_tableVars
=============================================================================
