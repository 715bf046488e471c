-------------------------------- MODULE Admin --------------------------------
(***************************************************************************)
(* The web pages that add, change and delete queues and printers, and the  *)
(* daemon that reads what they leave in the database.  A page is a process *)
(* that sends one SQL statement after another; mSQL has no transactions,   *)
(* the tables have no unique index, and the statements of two pages may    *)
(* mix.  Any statement may fail, which ends the page where it is.          *)
(*                                                                         *)
(* A row carries the number of the request that inserted it, as do the     *)
(* spool directories, so that two rows with the same key can be told       *)
(* apart.  Charges, status and addresses are left out.                     *)
(***************************************************************************)
EXTENDS Integers, FiniteSets

CONSTANTS
    Pages,                      \* processes of the web server
    QueueNames, PrinterNames,
    MAX_QUEUES,                 \* pps.h: the most queues
    MAX_PRINTERS_PER_QUEUE,     \* pps.h: the most printers of a queue
    StartQueues,                \* bound: numbers of queues set up at the start
    MaxRequests                 \* bound: forms shown, those of the start included

ASSUME AdminAssumption ==
    /\ {MAX_QUEUES, MAX_PRINTERS_PER_QUEUE} \subseteq Nat \ {0}
    /\ StartQueues \subseteq 0 .. MAX_QUEUES
    /\ MaxRequests \in Nat

VARIABLES
    queues,     \* rows of the table queues
    printers,   \* rows of the table printers
    specific,   \* rows of the table pjl_jetdirect
    dirs,       \* spool directories, by key and the request that made them
    page,       \* the local state of each page
    requests,   \* forms shown so far
    reader,     \* the daemon's read_database
    queueRace, printerRace,     \* a change fell into another page's window
    strayForm   \* a form has changed a printer of another queue than its own

tables == <<queues, printers, specific>>
races == <<queueRace, printerRace, strayForm>>
vars == <<tables, dirs, page, requests, reader, races>>

Idle == [pc |-> "idle", req |-> 0, name |-> "", queue |-> -1, key |-> -1]
NoReader == [pc |-> "none", rows |-> {}]

\* The administrator has set up a number of queues with a printer each; the
\* rows of the first n queues and of their printers carry the numbers below n.
Init ==
    /\ \E n \in StartQueues :
         LET first == 0 .. (n - 1)
         IN  /\ \E names \in [first -> QueueNames] :
                  /\ \A k, l \in first : k # l => names[k] # names[l]
                  /\ queues = {[req |-> k, name |-> names[k], key |-> k] : k \in first}
             /\ \E names \in [first -> PrinterNames] :
                  printers = {[req |-> k, name |-> names[k], queue |-> k, key |-> k]
                                : k \in first}
             /\ dirs = {[key |-> k, req |-> k] : k \in first}
             /\ specific = {[req |-> k, key |-> k] : k \in first}
             /\ requests = n
    /\ page = [g \in Pages |-> Idle]
    /\ reader = NoReader
    /\ queueRace = FALSE /\ printerRace = FALSE /\ strayForm = FALSE

Keys(rows) == {r.key : r \in rows}
WithKey(rows, k) == {r \in rows : r.key = k}
Named(rows, n) == {r \in rows : r.name = n}
Attached(q) == {r \in printers : r.queue = q}

\* Faulty variant: the number of rows.
FreeKeyCount(rows) == Cardinality(rows)

\* The first key not taken, found by going through the keys in order: the
\* search ends at the first one that does not follow the one before.
FreeKey(rows) ==
    LET InPlace(k) == Cardinality({r \in rows : r.key < k}) = k /\ k \in Keys(rows)
    IN  CHOOSE k \in 0 .. Cardinality(rows) :
          /\ ~InPlace(k)
          /\ \A l \in 0 .. (k - 1) : InPlace(l)

Step(g, from, to) ==
    /\ page[g].pc = from
    /\ page' = [page EXCEPT ![g].pc = to]

End(g, from) ==
    /\ page[g].pc = from
    /\ page' = [page EXCEPT ![g] = Idle]

\* A page is told of an error, by mSQL or by its own checks, and stops.
Stop(g) ==
    /\ page[g].pc # "idle"
    /\ page' = [page EXCEPT ![g] = Idle]
    /\ UNCHANGED <<tables, dirs, requests, reader, races>>

\* A form is shown, with the keys of that moment; the page starts when it is
\* sent, which may be long after.
Show(g, pc, name, queue, key) ==
    /\ page[g].pc = "idle" /\ requests < MaxRequests
    /\ requests' = requests + 1
    /\ page' = [page EXCEPT ![g] = [pc |-> pc, req |-> requests + 1,
                                    name |-> name, queue |-> queue, key |-> key]]
    /\ UNCHANGED <<tables, dirs, reader, races>>

ShowForm(g) ==
    \/ \E n \in QueueNames : Show(g, "aq look", n, -1, -1)
    \/ \E n \in QueueNames, k \in Keys(queues) : Show(g, "uq look", n, -1, k)
    \/ \E k \in Keys(queues) : Show(g, "dq printers", "", -1, k)
    \/ \E n \in PrinterNames, q \in Keys(queues) : Show(g, "ap count", n, q, -1)
    \/ \E r \in printers, n \in PrinterNames : Show(g, "up look", n, r.queue, r.key)
    \/ \E k \in Keys(printers) : Show(g, "dp generic", "", -1, k)

\* Pages between their first look at the queues and their last change.
QueuePages == {"aq count", "aq name", "aq key", "aq rm", "aq mkdir",
               "aq insert", "uq update", "dq delete", "dq rm"}
PrinterPages == {"ap name", "ap key", "ap clear", "ap specific", "ap insert",
                 "up update", "dp specific"}
InWindow(g, window) == \E h \in Pages \ {g} : page[h].pc \in window

\* A change by page g falls between the first look and the last change of
\* another: the deletion of a row alone does no harm there.
MeetsQueuePage(g) == queueRace' = (queueRace \/ InWindow(g, QueuePages))
MeetsPrinterPage(g) == printerRace' = (printerRace \/ InWindow(g, PrinterPages))

-----------------------------------------------------------------------------
(* continue_add_queue.c                                                    *)

\* lookup_name makes both checks, and insert_queue makes them again.  The
\* page goes on when the look-up fails, so either outcome may lead there; the
\* ends it can come to instead are those of Stop.
AqLookup(g) ==
    /\ Step(g, "aq look", "aq count")
    /\ UNCHANGED <<tables, dirs, requests, reader, races>>

AqCount(g) ==
    /\ Cardinality(queues) < MAX_QUEUES
    /\ Step(g, "aq count", "aq name")
    /\ UNCHANGED <<tables, dirs, requests, reader, races>>

AqName(g) ==
    /\ Named(queues, page[g].name) = {}
    /\ Step(g, "aq name", "aq key")
    /\ UNCHANGED <<tables, dirs, requests, reader, races>>

AqKey(g) ==
    /\ page[g].pc = "aq key"
    /\ page' = [page EXCEPT ![g].pc = "aq rm", ![g].key = FreeKey(queues)]
    /\ UNCHANGED <<tables, dirs, requests, reader, races>>

\* "delete any existing directory first... although there should not be one"
AqRemoveDir(g) ==
    /\ Step(g, "aq rm", "aq mkdir")
    /\ dirs' = dirs \ WithKey(dirs, page[g].key)
    /\ MeetsQueuePage(g)
    /\ UNCHANGED <<tables, requests, reader, printerRace, strayForm>>

\* mkdir fails when the directory is there.
AqMakeDir(g) ==
    /\ WithKey(dirs, page[g].key) = {}
    /\ Step(g, "aq mkdir", "aq insert")
    /\ dirs' = dirs \cup {[key |-> page[g].key, req |-> page[g].req]}
    /\ UNCHANGED <<tables, requests, reader, races>>

AqInsert(g) ==
    /\ End(g, "aq insert")
    /\ queues' = queues \cup
         {[req |-> page[g].req, name |-> page[g].name, key |-> page[g].key]}
    /\ MeetsQueuePage(g)
    /\ UNCHANGED <<printers, specific, dirs, requests, reader, printerRace, strayForm>>

(* update_queue.c                                                          *)

\* lookup_name: another queue of that name.
UqLookup(g) ==
    /\ Named(queues, page[g].name) \subseteq WithKey(queues, page[g].key)
    /\ Step(g, "uq look", "uq update")
    /\ UNCHANGED <<tables, dirs, requests, reader, races>>

UqUpdate(g) ==
    LET rows == WithKey(queues, page[g].key)
    IN  /\ End(g, "uq update")
        /\ queues' = (queues \ rows) \cup {[r EXCEPT !.name = page[g].name] : r \in rows}
        /\ MeetsQueuePage(g)
        /\ UNCHANGED <<printers, specific, dirs, requests, reader, printerRace, strayForm>>

\* delete_queue, when no child serves the queue.
DqPrinters(g) ==
    /\ Attached(page[g].key) = {}
    /\ Step(g, "dq printers", "dq delete")
    /\ UNCHANGED <<tables, dirs, requests, reader, races>>

DqDelete(g) ==
    /\ Step(g, "dq delete", "dq rm")
    /\ queues' = queues \ WithKey(queues, page[g].key)
    /\ UNCHANGED <<printers, specific, dirs, requests, reader, races>>

DqRemoveDir(g) ==
    /\ End(g, "dq rm")
    /\ dirs' = dirs \ WithKey(dirs, page[g].key)
    /\ MeetsQueuePage(g)
    /\ UNCHANGED <<tables, requests, reader, printerRace, strayForm>>

-----------------------------------------------------------------------------
(* continue_add_pjl_jetdirect.c                                            *)

ApCount(g) ==
    /\ Cardinality(Attached(page[g].queue)) < MAX_PRINTERS_PER_QUEUE
    /\ Step(g, "ap count", "ap name")
    /\ UNCHANGED <<tables, dirs, requests, reader, races>>

ApName(g) ==
    /\ Named(Attached(page[g].queue), page[g].name) = {}
    /\ Step(g, "ap name", "ap key")
    /\ UNCHANGED <<tables, dirs, requests, reader, races>>

ApKey(g) ==
    /\ page[g].pc = "ap key"
    /\ page' = [page EXCEPT ![g].pc = "ap clear", ![g].key = FreeKey(printers)]
    /\ UNCHANGED <<tables, dirs, requests, reader, races>>

\* Faulty variant: what a failed deletion has left in pjl_jetdirect stays.
ApClearNothing(g) ==
    /\ Step(g, "ap clear", "ap specific")
    /\ UNCHANGED <<tables, dirs, requests, reader, races>>

\* A row of pjl_jetdirect that a failed deletion has left goes first.
ApClear(g) ==
    /\ Step(g, "ap clear", "ap specific")
    /\ specific' = specific \ WithKey(specific, page[g].key)
    /\ MeetsPrinterPage(g)
    /\ UNCHANGED <<queues, printers, dirs, requests, reader, queueRace, strayForm>>

ApInsertSpecific(g) ==
    /\ Step(g, "ap specific", "ap insert")
    /\ specific' = specific \cup {[req |-> page[g].req, key |-> page[g].key]}
    /\ MeetsPrinterPage(g)
    /\ UNCHANGED <<queues, printers, dirs, requests, reader, queueRace, strayForm>>

ApInsert(g) ==
    /\ End(g, "ap insert")
    /\ printers' = printers \cup
         {[req |-> page[g].req, name |-> page[g].name, queue |-> page[g].queue,
           key |-> page[g].key]}
    /\ MeetsPrinterPage(g)
    /\ UNCHANGED <<queues, specific, dirs, requests, reader, queueRace, strayForm>>

(* update_pjl_jetdirect.c                                                  *)

UpLookup(g) ==
    /\ Named(Attached(page[g].queue), page[g].name)
         \subseteq WithKey(printers, page[g].key)
    /\ Step(g, "up look", "up update")
    /\ UNCHANGED <<tables, dirs, requests, reader, races>>

\* The address first, which is left out here, and then the generic row.  The
\* name was looked for in the queue of the form; the printer that has the key
\* by now may belong to another.
UpUpdate(g) ==
    LET rows == WithKey(printers, page[g].key)
    IN  /\ End(g, "up update")
        /\ printers' = (printers \ rows) \cup
                         {[r EXCEPT !.name = page[g].name] : r \in rows}
        /\ strayForm' = (strayForm \/ \E r \in rows : r.queue # page[g].queue)
        /\ MeetsPrinterPage(g)
        /\ UNCHANGED <<queues, specific, dirs, requests, reader, queueRace>>

\* Faulty variant: the specific row goes first.
DpSpecificFirst(g) ==
    /\ Step(g, "dp generic", "dp specific")
    /\ specific' = specific \ WithKey(specific, page[g].key)
    /\ UNCHANGED <<queues, printers, dirs, requests, reader, races>>

\* delete_printer, when the printer is not at work: the generic row and then
\* the specific one, so that a failure between them orphans the latter.
DpGeneric(g) ==
    /\ Step(g, "dp generic", "dp specific")
    /\ printers' = printers \ WithKey(printers, page[g].key)
    /\ UNCHANGED <<queues, specific, dirs, requests, reader, races>>

DpSpecific(g) ==
    /\ End(g, "dp specific")
    /\ specific' = specific \ WithKey(specific, page[g].key)
    /\ MeetsPrinterPage(g)
    /\ UNCHANGED <<queues, printers, dirs, requests, reader, queueRace, strayForm>>

-----------------------------------------------------------------------------
(* read_database: the generic rows first, then a SELECT for each of them.  *)

ReadPrinters ==
    /\ reader.pc = "none"
    /\ reader' = [pc |-> "reading", rows |-> printers]
    /\ UNCHANGED <<tables, dirs, page, requests, races>>

ReadSpecific(r) ==
    /\ reader.pc = "reading" /\ r \in reader.rows
    /\ WithKey(specific, r.key) # {}
    /\ reader' = [reader EXCEPT !.rows = @ \ {r}]
    /\ UNCHANGED <<tables, dirs, page, requests, races>>

\* The row that is not there is used without a test.
ReadNothing(r) ==
    /\ reader.pc = "reading" /\ r \in reader.rows
    /\ WithKey(specific, r.key) = {}
    /\ reader' = [pc |-> "crashed", rows |-> {r}]
    /\ UNCHANGED <<tables, dirs, page, requests, races>>

ReadEnds ==
    /\ reader.pc = "reading" /\ reader.rows = {}
    /\ reader' = NoReader
    /\ UNCHANGED <<tables, dirs, page, requests, races>>

Page(g) ==
    \/ ShowForm(g) \/ Stop(g)
    \/ AqLookup(g) \/ AqCount(g) \/ AqName(g) \/ AqKey(g) \/ AqRemoveDir(g)
    \/ AqMakeDir(g) \/ AqInsert(g)
    \/ UqLookup(g) \/ UqUpdate(g)
    \/ DqPrinters(g) \/ DqDelete(g) \/ DqRemoveDir(g)
    \/ ApCount(g) \/ ApName(g) \/ ApKey(g) \/ ApClear(g) \/ ApInsertSpecific(g)
    \/ ApInsert(g)
    \/ UpLookup(g) \/ UpUpdate(g)
    \/ DpGeneric(g) \/ DpSpecific(g)

Read ==
    \/ ReadPrinters \/ ReadEnds
    \/ \E r \in reader.rows : ReadSpecific(r) \/ ReadNothing(r)

Next == (\E g \in Pages : Page(g)) \/ Read

Spec == Init /\ [][Next]_vars

-----------------------------------------------------------------------------
Distinct(rows, F(_)) == \A r, s \in rows : r # s => F(r) # F(s)

\* No two queues, and no two printers, have the same key or are called the
\* same where the other could be meant, keys stay below the size of the arrays
\* that read_database indexes by them, and no queue has too many printers:
\* insert_queue, insert_printer and the two lookup_name promise it, each by
\* looking before it writes, and keep the promise unless a change falls between
\* another page's look and its write, or, for the names of printers, a form
\* outlives its printer.
RowsDistinct ==
    /\ ~queueRace =>
          /\ Distinct(queues, LAMBDA r : r.key)
          /\ Distinct(queues, LAMBDA r : r.name)
          /\ Keys(queues) \subseteq 0 .. (MAX_QUEUES - 1)
    /\ ~printerRace =>
          /\ Distinct(printers, LAMBDA r : r.key)
          /\ ~strayForm => Distinct(printers, LAMBDA r : <<r.queue, r.name>>)
          /\ \A r \in printers :
                Cardinality(Attached(r.queue)) <= MAX_PRINTERS_PER_QUEUE

\* A queue in the table has the spool directory made for it and a printer in
\* the table the one row of pjl_jetdirect inserted with it, wherever pages
\* failed, whatever they left behind, and though keys are used again: what an
\* orphan row or directory belonged to is never taken for the new owner's.
RowsWhole ==
    /\ ~queueRace => \A r \in queues : [key |-> r.key, req |-> r.req] \in dirs
    /\ ~printerRace =>
          \A r \in printers : {s.req : s \in WithKey(specific, r.key)} = {r.req}

\* "orphaned records in the specific database won't harm anything"
\* (update_pjl_jetdirect.c): read_database, which uses the specific row without
\* testing that there is one, misses it only for a printer deleted between its
\* two SELECTs.
ReadFailsOnlyOnDeleted ==
    ~printerRace /\ reader.pc = "crashed" => reader.rows \cap printers = {}
=============================================================================
