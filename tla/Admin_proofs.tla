---------------------------- MODULE Admin_proofs ----------------------------
(***************************************************************************)
(* What the web pages keep true of the tables and the spool directories,   *)
(* for any number of pages, queues, printers and forms, wherever pages     *)
(* fail, as long as no change falls between another page's first look and  *)
(* its last change.                                                        *)
(*                                                                         *)
(* A page looks before it writes, and what it has seen must still hold     *)
(* when it writes.  It does, as long as no race has been recorded: any     *)
(* change that could disturb it is made by another page while this one is  *)
(* in its window, and that is what the races record.  Deletions of rows    *)
(* are not recorded, since what a page relies on survives them.            *)
(***************************************************************************)
EXTENDS Admin, FiniteSetTheorems, FunctionTheorems, WellFoundedInduction, TLAPS

Pcs == {"idle", "aq look", "uq look", "dq printers", "ap count", "up look",
        "dp generic"} \cup QueuePages \cup PrinterPages

Names == QueueNames \cup PrinterNames \cup {""}

QueueRows == [req : Nat, name : Names, key : Nat]
PrinterRows == [req : Nat, name : Names, queue : Int, key : Nat]
PageState == [pc : Pcs, req : Nat, name : Names, queue : Int, key : Int]

\* The types of what pages share; the tables are finite.
TableTypes ==
    /\ queues \in SUBSET QueueRows /\ IsFiniteSet(queues)
    /\ printers \in SUBSET PrinterRows /\ IsFiniteSet(printers)
    /\ specific \in SUBSET [req : Nat, key : Nat]
    /\ dirs \in SUBSET [req : Nat, key : Nat]
    /\ requests \in Nat
    /\ reader \in [pc : {"none", "reading", "crashed"}, rows : SUBSET PrinterRows]
    /\ queueRace \in BOOLEAN /\ printerRace \in BOOLEAN /\ strayForm \in BOOLEAN

\* A page that has looked for a free key has found one.
KeyFound(g) ==
    page[g].pc \in {"aq rm", "aq mkdir", "aq insert", "ap clear", "ap specific", "ap insert"}
    => page[g].key \in Nat

PageTypes == page \in [Pages -> PageState] /\ \A g \in Pages : KeyFound(g)

TypeOK == TableTypes /\ PageTypes

-----------------------------------------------------------------------------
(* Queues.                                                                 *)

\* What a page has seen of the queues still holds when it makes its changes.
AddsQueue(g) ==
    /\ page[g].pc \in {"aq name", "aq key", "aq rm", "aq mkdir", "aq insert"}
       => Cardinality(queues) < MAX_QUEUES
    /\ page[g].pc \in {"aq key", "aq rm", "aq mkdir", "aq insert"}
       => Named(queues, page[g].name) = {}
    /\ page[g].pc \in {"aq rm", "aq mkdir", "aq insert"}
       => page[g].key \in 0 .. (MAX_QUEUES - 1) \ Keys(queues)
    /\ page[g].pc = "aq insert" => [key |-> page[g].key, req |-> page[g].req] \in dirs

ChangesQueue(g) ==
    /\ page[g].pc = "uq update"
       => Named(queues, page[g].name) \subseteq WithKey(queues, page[g].key)
    /\ page[g].pc = "dq rm" => page[g].key \notin Keys(queues)

QueuesSound ==
    /\ Distinct(queues, LAMBDA r : r.key)
    /\ Distinct(queues, LAMBDA r : r.name)
    /\ Keys(queues) \subseteq 0 .. (MAX_QUEUES - 1)
    /\ \A r \in queues : [key |-> r.key, req |-> r.req] \in dirs

QueueInv ==
    ~queueRace => QueuesSound /\ \A g \in Pages : AddsQueue(g) /\ ChangesQueue(g)

-----------------------------------------------------------------------------
(* Printers.                                                               *)

AddsPrinter(g) ==
    /\ page[g].pc \in {"ap name", "ap key", "ap clear", "ap specific", "ap insert"}
       => Cardinality(Attached(page[g].queue)) < MAX_PRINTERS_PER_QUEUE
    /\ page[g].pc \in {"ap key", "ap clear", "ap specific", "ap insert"}
       => Named(Attached(page[g].queue), page[g].name) = {}
    /\ page[g].pc \in {"ap clear", "ap specific", "ap insert"}
       => page[g].key \notin Keys(printers)
    /\ page[g].pc = "ap specific" => WithKey(specific, page[g].key) = {}
    /\ page[g].pc = "ap insert" => {s.req : s \in WithKey(specific, page[g].key)} = {page[g].req}

ChangesPrinter(g) ==
    /\ page[g].pc = "up update"
       => Named(Attached(page[g].queue), page[g].name) \subseteq WithKey(printers, page[g].key)
    /\ page[g].pc = "dp specific" => page[g].key \notin Keys(printers)

PrintersSound ==
    /\ Distinct(printers, LAMBDA r : r.key)
    /\ ~strayForm => Distinct(printers, LAMBDA r : <<r.queue, r.name>>)
    /\ \A r \in printers : Cardinality(Attached(r.queue)) <= MAX_PRINTERS_PER_QUEUE
    /\ \A r \in printers : {s.req : s \in WithKey(specific, r.key)} = {r.req}

PrinterInv ==
    ~printerRace => PrintersSound /\ \A g \in Pages : AddsPrinter(g) /\ ChangesPrinter(g)

-----------------------------------------------------------------------------
(* The daemon's reading.                                                   *)

\* A request inserts one printer, and only once.
RequestsOnce ==
    /\ \A r \in printers \cup reader.rows : r.req <= requests
    /\ \A g \in Pages : /\ page[g].req <= requests
                        /\ page[g].pc # "idle" => page[g].req > 0
    /\ \A g, h \in Pages : g # h /\ page[g].pc # "idle" => page[g].req # page[h].req
    /\ \A g \in Pages, r \in printers \cup reader.rows :
         page[g].pc # "idle" => page[g].req # r.req
    /\ \A r, s \in printers \cup reader.rows : r.req = s.req => r.key = s.key

\* The printer at which the reading failed is not in the table, under any name.
CrashedOnDeleted ==
    ~printerRace /\ reader.pc = "crashed"
    => \A r \in reader.rows, s \in printers : r.req # s.req

AdminInv == TypeOK /\ QueueInv /\ PrinterInv /\ RequestsOnce /\ CrashedOnDeleted

-----------------------------------------------------------------------------
(* The operators.                                                          *)

\* A nonempty set of naturals has a least element.
LEMMA Least ==
    ASSUME NEW T \in SUBSET Nat, T # {}
    PROVE  \E i \in T : \A j \in T : i <= j
  <1>1. PICK i \in T : \A j \in T : <<j, i>> \notin OpToRel(<, Nat)
    BY NatLessThanWellFounded, WFMin
  <1>2. ASSUME NEW j \in T
        PROVE  i <= j
    <2>1. i \in Nat /\ j \in Nat
      OBVIOUS
    <2>2. ~(j < i)
      BY <1>1, <2>1 DEF OpToRel
    <2>3. QED
      BY <2>1, <2>2
  <1>3. QED
    BY <1>2

\* Some key from 0 on is out of place, at the latest the one behind as many
\* as there are rows; the search finds the first such key.
LEMMA FreeKeyIsFirst ==
    ASSUME NEW rows, IsFiniteSet(rows), \A r \in rows : r.key \in Nat
    PROVE  LET InPlace(k) == Cardinality({r \in rows : r.key < k}) = k /\ k \in Keys(rows)
           IN  /\ FreeKey(rows) \in 0 .. Cardinality(rows)
               /\ ~InPlace(FreeKey(rows))
               /\ \A l \in 0 .. (FreeKey(rows) - 1) : InPlace(l)
  <1> DEFINE InPlace(k) == Cardinality({r \in rows : r.key < k}) = k /\ k \in Keys(rows)
             n == Cardinality(rows)
             Out == {k \in 0 .. n : ~InPlace(k)}
  <1>1. n \in Nat
    BY FS_CardinalityType
  <1>2. ~InPlace(n)
    <2>1. SUFFICES ASSUME Cardinality({r \in rows : r.key < n}) = n
                   PROVE  n \notin Keys(rows)
      OBVIOUS
    <2>2. {r \in rows : r.key < n} = rows
      BY <2>1, FS_Subset
    <2>3. \A r \in rows : r.key < n
      BY <2>2
    <2>4. QED
      BY <1>1, <2>3 DEF Keys
  <1> HIDE DEF n, InPlace
  <1>3. n \in Out
    BY <1>1, <1>2
  <1>4. Out \subseteq Nat
    BY <1>1
  <1>5. PICK k \in Out : \A l \in Out : k <= l
    <2> HIDE DEF Out
    <2>1. QED
      BY <1>3, <1>4, Least
  <1>6. /\ k \in 0 .. n
        /\ ~InPlace(k)
        /\ \A l \in 0 .. (k - 1) : InPlace(l)
    <2>1. k \in Nat /\ k <= n
      BY <1>1
    <2>2. ASSUME NEW l \in 0 .. (k - 1)
          PROVE  InPlace(l)
      <3>1. l \in 0 .. n /\ ~(k <= l)
        BY <1>1, <2>1
      <3>2. QED
        BY <1>5, <3>1
    <2>3. QED
      BY <2>2
  <1>7. FreeKey(rows) = CHOOSE i \in 0 .. n :
                          /\ ~InPlace(i)
                          /\ \A l \in 0 .. (i - 1) : InPlace(l)
    BY DEF FreeKey, n, InPlace
  <1>8. /\ FreeKey(rows) \in 0 .. n
        /\ ~InPlace(FreeKey(rows))
        /\ \A l \in 0 .. (FreeKey(rows) - 1) : InPlace(l)
    BY <1>6, <1>7
  <1>9. QED
    BY <1>8 DEF n, InPlace

\* When keys are distinct, the search finds a key that no row has.
LEMMA FreeKeyIsFree ==
    ASSUME NEW rows, IsFiniteSet(rows), \A r \in rows : r.key \in Nat,
           \A r, s \in rows : r # s => r.key # s.key
    PROVE  FreeKey(rows) \in 0 .. Cardinality(rows) /\ FreeKey(rows) \notin Keys(rows)
  <1> DEFINE k == FreeKey(rows)
             before == {r \in rows : r.key < k}
             f == [r \in before |-> r.key]
  <1>1. Cardinality(rows) \in Nat
    BY FS_CardinalityType
  <1>2. /\ k \in 0 .. Cardinality(rows)
        /\ ~(Cardinality(before) = k /\ k \in Keys(rows))
        /\ \A l \in 0 .. (k - 1) : l \in Keys(rows)
    BY FreeKeyIsFirst
  <1> HIDE DEF k
  <1>3. k \in Nat
    BY <1>1, <1>2
  <1>4. IsFiniteSet(before)
    BY FS_Subset
  <1>5. f \in [before -> 0 .. (k - 1)]
    BY <1>3
  <1>6. \A a, b \in before : f[a] = f[b] => a = b
    OBVIOUS
  <1>7. \A t \in 0 .. (k - 1) : \E r \in before : f[r] = t
    BY <1>2, <1>3 DEF Keys
  <1> HIDE DEF f
  <1>8. f \in Bijection(before, 0 .. (k - 1))
    BY <1>5, <1>6, <1>7, Fun_IsBij
  <1>9. Cardinality(before) = Cardinality(0 .. (k - 1))
    BY <1>4, <1>8, FS_Bijection, Fun_ExistsBij
  <1>10. Cardinality(0 .. (k - 1)) = k
    BY <1>3, FS_Interval
  <1>11. QED
    BY <1>2, <1>9, <1>10 DEF k
\* What the rows with a key k become when they are renamed.
Renamed(rows, k, n) ==
    (rows \ WithKey(rows, k)) \cup {[r EXCEPT !.name = n] : r \in WithKey(rows, k)}

\* The rows of a set with one thing done to each of them are not more rows.
LEMMA ImageFacts ==
    ASSUME NEW S, NEW T, NEW f \in [S -> T], IsFiniteSet(S), Cardinality(S) \in Nat,
           \A t \in T : \E x \in S : f[x] = t
    PROVE  IsFiniteSet(T) /\ Cardinality(T) \in Nat /\ Cardinality(T) <= Cardinality(S)
  <1>1. f \in Surjection(S, T)
    BY Fun_IsSurj
  <1>2. QED
    BY <1>1, FS_Surjection, FS_CardinalityType

\* A step of a page changes how far it is, and nothing of the other pages.
LEMMA StepFacts ==
    ASSUME page \in [Pages -> PageState], NEW g \in Pages, NEW from, NEW to \in Pcs,
           Step(g, from, to)
    PROVE  /\ page' \in [Pages -> PageState]
           /\ page[g].pc = from /\ page'[g].pc = to
           /\ page'[g].req = page[g].req /\ page'[g].name = page[g].name
           /\ page'[g].queue = page[g].queue /\ page'[g].key = page[g].key
           /\ \A h \in Pages \ {g} : page'[h] = page[h]
  BY DEF Step, PageState

\* The same, for a step with which the page has ended.
LEMMA EndFacts ==
    ASSUME page \in [Pages -> PageState], NEW g \in Pages, page' = [page EXCEPT ![g] = Idle]
    PROVE  /\ page' \in [Pages -> PageState]
           /\ page'[g] = Idle /\ page'[g].pc = "idle" /\ page'[g].req = 0
           /\ \A h \in Pages \ {g} : page'[h] = page[h]
  <1>1. Idle \in PageState
    <2>1. "idle" \in Pcs /\ "" \in Names /\ 0 \in Nat /\ -1 \in Int
      BY DEF Pcs, Names
    <2>2. QED
      BY <2>1 DEF Idle, PageState
  <1>2. QED
    BY <1>1 DEF Idle

\* The same, for a page that starts with a form.
LEMMA ShowFacts ==
    ASSUME page \in [Pages -> PageState], requests \in Nat, NEW g \in Pages,
           NEW pc \in Pcs, NEW name \in Names, NEW queue \in Int, NEW key \in Int,
           Show(g, pc, name, queue, key)
    PROVE  /\ page' \in [Pages -> PageState]
           /\ page[g].pc = "idle" /\ page'[g].pc = pc
           /\ requests' = requests + 1 /\ page'[g].req = requests + 1
           /\ \A h \in Pages \ {g} : page'[h] = page[h]
           /\ UNCHANGED <<tables, dirs, reader, races>>
  <1>1. [pc |-> pc, req |-> requests + 1, name |-> name, queue |-> queue, key |-> key]
          \in PageState
    BY DEF PageState
  <1>2. QED
    BY <1>1 DEF Show

\* The same, for any form.
LEMMA FormFacts ==
    ASSUME TypeOK, NEW g \in Pages, ShowForm(g)
    PROVE  /\ page' \in [Pages -> PageState]
           /\ page[g].pc = "idle"
           /\ page'[g].pc \in {"aq look", "uq look", "dq printers", "ap count", "up look",
                               "dp generic"}
           /\ requests' = requests + 1 /\ page'[g].req = requests + 1
           /\ \A h \in Pages \ {g} : page'[h] = page[h]
           /\ UNCHANGED <<tables, dirs, reader, races>>
  <1> DEFINE Good(pc) ==
           /\ page' \in [Pages -> PageState]
           /\ page[g].pc = "idle" /\ page'[g].pc = pc
           /\ requests' = requests + 1 /\ page'[g].req = requests + 1
           /\ \A h \in Pages \ {g} : page'[h] = page[h]
           /\ UNCHANGED <<tables, dirs, reader, races>>
  <1>1. page \in [Pages -> PageState] /\ requests \in Nat
    BY DEF TypeOK, TableTypes, PageTypes
  <1>2. /\ \A k \in Keys(queues) : k \in Int
        /\ \A k \in Keys(printers) : k \in Int
        /\ \A r \in printers : r.queue \in Int /\ r.key \in Int
    <2>1. queues \in SUBSET QueueRows /\ printers \in SUBSET PrinterRows
      BY DEF TypeOK, TableTypes
    <2>2. \A r \in queues : r.key \in Int
      BY <2>1 DEF QueueRows
    <2>3. \A r \in printers : r.queue \in Int /\ r.key \in Int
      BY <2>1 DEF PrinterRows
    <2>4. QED
      BY <2>2, <2>3 DEF Keys
  <1>3. "" \in Names /\ -1 \in Int
    BY DEF Names
  <1>4. CASE \E n \in QueueNames : Show(g, "aq look", n, -1, -1)
    <2>1. PICK n \in QueueNames : Show(g, "aq look", n, -1, -1)
      BY <1>4
    <2>2. n \in Names /\ "aq look" \in Pcs
      BY DEF Names, Pcs
    <2>3. Good("aq look")
      BY <1>1, <1>3, <2>1, <2>2, ShowFacts
    <2>4. QED
      BY <2>3
  <1>5. CASE \E n \in QueueNames, k \in Keys(queues) : Show(g, "uq look", n, -1, k)
    <2>1. PICK n \in QueueNames, k \in Keys(queues) : Show(g, "uq look", n, -1, k)
      BY <1>5
    <2>2. n \in Names /\ k \in Int /\ "uq look" \in Pcs
      BY <1>2 DEF Names, Pcs
    <2>3. Good("uq look")
      BY <1>1, <1>3, <2>1, <2>2, ShowFacts
    <2>4. QED
      BY <2>3
  <1>6. CASE \E k \in Keys(queues) : Show(g, "dq printers", "", -1, k)
    <2>1. PICK k \in Keys(queues) : Show(g, "dq printers", "", -1, k)
      BY <1>6
    <2>2. k \in Int /\ "dq printers" \in Pcs
      BY <1>2 DEF Pcs
    <2>3. Good("dq printers")
      BY <1>1, <1>3, <2>1, <2>2, ShowFacts
    <2>4. QED
      BY <2>3
  <1>7. CASE \E n \in PrinterNames, q \in Keys(queues) : Show(g, "ap count", n, q, -1)
    <2>1. PICK n \in PrinterNames, q \in Keys(queues) : Show(g, "ap count", n, q, -1)
      BY <1>7
    <2>2. n \in Names /\ q \in Int /\ "ap count" \in Pcs
      BY <1>2 DEF Names, Pcs
    <2>3. Good("ap count")
      BY <1>1, <1>3, <2>1, <2>2, ShowFacts
    <2>4. QED
      BY <2>3
  <1>8. CASE \E r \in printers, n \in PrinterNames : Show(g, "up look", n, r.queue, r.key)
    <2>1. PICK r \in printers, n \in PrinterNames : Show(g, "up look", n, r.queue, r.key)
      BY <1>8
    <2>2. n \in Names /\ r.queue \in Int /\ r.key \in Int /\ "up look" \in Pcs
      BY <1>2 DEF Names, Pcs
    <2>3. Good("up look")
      BY <1>1, <1>3, <2>1, <2>2, ShowFacts
    <2>4. QED
      BY <2>3
  <1>9. CASE \E k \in Keys(printers) : Show(g, "dp generic", "", -1, k)
    <2>1. PICK k \in Keys(printers) : Show(g, "dp generic", "", -1, k)
      BY <1>9
    <2>2. k \in Int /\ "dp generic" \in Pcs
      BY <1>2 DEF Pcs
    <2>3. Good("dp generic")
      BY <1>1, <1>3, <2>1, <2>2, ShowFacts
    <2>4. QED
      BY <2>3
  <1>10. QED
    BY <1>4, <1>5, <1>6, <1>7, <1>8, <1>9 DEF ShowForm
\* A renaming keeps the keys, the requests and the queues of the rows.
LEMMA RenamedFacts ==
    ASSUME NEW Row, Row = QueueRows \/ Row = PrinterRows,
           NEW rows \in SUBSET Row, IsFiniteSet(rows), NEW k, NEW n \in Names
    PROVE  /\ Renamed(rows, k, n) \in SUBSET Row
           /\ IsFiniteSet(Renamed(rows, k, n))
           /\ Cardinality(Renamed(rows, k, n)) \in Nat
           /\ Cardinality(Renamed(rows, k, n)) <= Cardinality(rows)
           /\ \A t \in Renamed(rows, k, n) : \E r \in rows :
                /\ t.key = r.key /\ t.req = r.req
                /\ Row = PrinterRows => t.queue = r.queue
                /\ r.key = k => t.name = n
                /\ r.key # k => t = r
           /\ \A r \in rows : \E t \in Renamed(rows, k, n) : t.key = r.key /\ t.req = r.req
  <1> DEFINE new(r) == IF r.key = k THEN [r EXCEPT !.name = n] ELSE r
             T == Renamed(rows, k, n)
             f == [r \in rows |-> new(r)]
  <1>1. ASSUME NEW r \in rows
        PROVE  LET t == [r EXCEPT !.name = n]
               IN  /\ t \in Row /\ t.key = r.key /\ t.req = r.req /\ t.name = n
                   /\ Row = PrinterRows => t.queue = r.queue
    <2>1. CASE Row = QueueRows
      <3>1. r \in [req : Nat, name : Names, key : Nat]
        BY <2>1 DEF QueueRows
      <3>2. QueueRows # PrinterRows
        <4>1. [req |-> 0, name |-> n, key |-> 0] \in QueueRows
          BY DEF QueueRows
        <4>2. [req |-> 0, name |-> n, key |-> 0] \notin PrinterRows
          BY DEF PrinterRows
        <4>3. QED
          BY <4>1, <4>2
      <3>3. QED
        BY <2>1, <3>1, <3>2 DEF QueueRows
    <2>2. CASE Row = PrinterRows
      <3>1. r \in [req : Nat, name : Names, queue : Int, key : Nat]
        BY <2>2 DEF PrinterRows
      <3>2. QED
        BY <2>2, <3>1 DEF PrinterRows
    <2>3. QED
      BY <2>1, <2>2
  <1>2. ASSUME NEW r \in rows
        PROVE  new(r) \in T
    BY DEF Renamed, WithKey
  <1>3. ASSUME NEW t \in T
        PROVE  \E r \in rows : t = new(r)
    BY DEF Renamed, WithKey
  <1>4. ASSUME NEW r \in rows
        PROVE  /\ new(r) \in Row /\ new(r).key = r.key /\ new(r).req = r.req
               /\ Row = PrinterRows => new(r).queue = r.queue
               /\ r.key = k => new(r).name = n
               /\ r.key # k => new(r) = r
    BY <1>1
  <1> HIDE DEF new, T
  <1>5. f \in [rows -> T] /\ \A t \in T : \E r \in rows : f[r] = t
    BY <1>2, <1>3
  <1>6. Cardinality(rows) \in Nat
    BY FS_CardinalityType
  <1>7. IsFiniteSet(T) /\ Cardinality(T) \in Nat /\ Cardinality(T) <= Cardinality(rows)
    <2> HIDE DEF f
    <2>1. QED
      BY <1>5, <1>6, ImageFacts
  <1>8. T \in SUBSET Row
    BY <1>3, <1>4
  <1>9. \A t \in T : \E r \in rows :
          /\ t.key = r.key /\ t.req = r.req
          /\ Row = PrinterRows => t.queue = r.queue
          /\ r.key = k => t.name = n
          /\ r.key # k => t = r
    BY <1>3, <1>4
  <1>10. \A r \in rows : \E t \in T : t.key = r.key /\ t.req = r.req
    BY <1>2, <1>4
  <1>11. QED
    BY <1>7, <1>8, <1>9, <1>10 DEF T
-----------------------------------------------------------------------------
(* What pages do to their own state and to the tables.                     *)

\* What the rows are, and how many.
LEMMA TableFacts ==
    ASSUME TypeOK
    PROVE  /\ IsFiniteSet(queues) /\ Cardinality(queues) \in Nat
           /\ \A r \in queues : r.key \in Nat /\ r.req \in Nat /\ r.name \in Names
           /\ IsFiniteSet(printers) /\ Cardinality(printers) \in Nat
           /\ \A r \in printers : /\ r.key \in Nat /\ r.req \in Nat /\ r.name \in Names
                                  /\ r.queue \in Int
           /\ \A q : IsFiniteSet(Attached(q)) /\ Cardinality(Attached(q)) \in Nat
  <1>1. /\ queues \in SUBSET QueueRows /\ IsFiniteSet(queues)
        /\ printers \in SUBSET PrinterRows /\ IsFiniteSet(printers)
    BY DEF TypeOK, TableTypes
  <1>2. \A r \in queues : r.key \in Nat /\ r.req \in Nat /\ r.name \in Names
    BY <1>1 DEF QueueRows
  <1>3. \A r \in printers : /\ r.key \in Nat /\ r.req \in Nat /\ r.name \in Names
                            /\ r.queue \in Int
    BY <1>1 DEF PrinterRows
  <1>4. ASSUME NEW q
        PROVE  IsFiniteSet(Attached(q))
    BY <1>1, FS_Subset DEF Attached
  <1>5. QED
    BY <1>1, <1>2, <1>3, <1>4, FS_CardinalityType

\* A page that takes a step has ended, or goes on with the request it has, or
\* starts with a new one; what the others know is untouched.
Moved(g) ==
    /\ page' \in [Pages -> PageState]
    /\ \A h \in Pages \ {g} : page'[h] = page[h]
    /\ KeyFound(g)'
    /\ \/ page'[g].pc = "idle" /\ page'[g].req = 0 /\ requests' = requests
       \/ page[g].pc # "idle" /\ page'[g].req = page[g].req /\ requests' = requests
       \/ /\ page[g].pc = "idle" /\ page'[g].req = requests + 1
          /\ requests' = requests + 1
          /\ UNCHANGED <<tables, dirs, reader, races>>

LEMMA PageMoves ==
    ASSUME TypeOK, NEW g \in Pages, Page(g)
    PROVE  Moved(g)
  <1>1. page \in [Pages -> PageState] /\ KeyFound(g) /\ requests \in Nat
    BY DEF TypeOK, TableTypes, PageTypes
  <1>2. CASE ShowForm(g)
    BY <1>2, FormFacts DEF Moved, KeyFound
  <1>3. CASE page' = [page EXCEPT ![g] = Idle] /\ requests' = requests
    BY <1>1, <1>3, EndFacts DEF Moved, KeyFound
  <1>4. ASSUME NEW from \in Pcs \ {"idle"}, NEW to \in Pcs, Step(g, from, to),
               requests' = requests,
               to \in {"aq rm", "aq mkdir", "aq insert", "ap clear", "ap specific", "ap insert"}
               => from \in {"aq rm", "aq mkdir", "ap clear", "ap specific"}
        PROVE  Moved(g)
    <2>1. /\ page' \in [Pages -> PageState]
          /\ page[g].pc = from /\ page'[g].pc = to
          /\ page'[g].req = page[g].req /\ page'[g].key = page[g].key
          /\ \A h \in Pages \ {g} : page'[h] = page[h]
      BY <1>1, <1>4, StepFacts
    <2>2. KeyFound(g)'
      BY <1>1, <1>4, <2>1 DEF KeyFound
    <2>3. QED
      BY <1>4, <2>1, <2>2 DEF Moved
  <1>5. ASSUME NEW from \in {"aq key", "ap key"}, NEW to \in Pcs, page[g].pc = from,
               NEW k \in Nat, k \in Int, page' = [page EXCEPT ![g].pc = to, ![g].key = k],
               requests' = requests
        PROVE  Moved(g)
    <2>1. page[g] \in PageState
      BY <1>1
    <2>2. /\ page' = [page EXCEPT ![g] = [page[g] EXCEPT !.pc = to, !.key = k]]
          /\ [page[g] EXCEPT !.pc = to, !.key = k] \in PageState
      BY <1>5, <2>1 DEF PageState
    <2>3. /\ page' \in [Pages -> PageState]
          /\ \A h \in Pages \ {g} : page'[h] = page[h]
          /\ page'[g] = [page[g] EXCEPT !.pc = to, !.key = k]
      BY <1>1, <2>2
    <2>4. page'[g].req = page[g].req /\ page'[g].key = k
      BY <2>1, <2>3 DEF PageState
    <2>5. KeyFound(g)'
      BY <2>4 DEF KeyFound
    <2>6. page[g].pc # "idle"
      BY <1>5
    <2>7. QED
      BY <1>5, <2>3, <2>4, <2>5, <2>6 DEF Moved
  <1>6. CASE Stop(g)
    BY <1>3, <1>6 DEF Stop
  <1>7. CASE AqInsert(g)
    BY <1>3, <1>7 DEF AqInsert, End
  <1>8. CASE UqUpdate(g)
    BY <1>3, <1>8 DEF UqUpdate, End
  <1>9. CASE DqRemoveDir(g)
    BY <1>3, <1>9 DEF DqRemoveDir, End
  <1>10. CASE ApInsert(g)
    BY <1>3, <1>10 DEF ApInsert, End
  <1>11. CASE UpUpdate(g)
    BY <1>3, <1>11 DEF UpUpdate, End
  <1>12. CASE DpSpecific(g)
    BY <1>3, <1>12 DEF DpSpecific, End
  <1>13. CASE AqLookup(g)
    <2>1. Step(g, "aq look", "aq count") /\ requests' = requests
      BY <1>13 DEF AqLookup
    <2>2. "aq look" \in Pcs \ {"idle"} /\ "aq count" \in Pcs
      BY DEF Pcs, QueuePages, PrinterPages
    <2>3. QED
      BY <1>4, <2>1, <2>2
  <1>14. CASE AqCount(g)
    <2>1. Step(g, "aq count", "aq name") /\ requests' = requests
      BY <1>14 DEF AqCount
    <2>2. "aq count" \in Pcs \ {"idle"} /\ "aq name" \in Pcs
      BY DEF Pcs, QueuePages, PrinterPages
    <2>3. QED
      BY <1>4, <2>1, <2>2
  <1>15. CASE AqName(g)
    <2>1. Step(g, "aq name", "aq key") /\ requests' = requests
      BY <1>15 DEF AqName
    <2>2. "aq name" \in Pcs \ {"idle"} /\ "aq key" \in Pcs
      BY DEF Pcs, QueuePages, PrinterPages
    <2>3. QED
      BY <1>4, <2>1, <2>2
  <1>16. CASE AqRemoveDir(g)
    <2>1. Step(g, "aq rm", "aq mkdir") /\ requests' = requests
      BY <1>16 DEF AqRemoveDir
    <2>2. "aq rm" \in Pcs \ {"idle"} /\ "aq mkdir" \in Pcs
      BY DEF Pcs, QueuePages, PrinterPages
    <2>3. QED
      BY <1>4, <2>1, <2>2
  <1>17. CASE AqMakeDir(g)
    <2>1. Step(g, "aq mkdir", "aq insert") /\ requests' = requests
      BY <1>17 DEF AqMakeDir
    <2>2. "aq mkdir" \in Pcs \ {"idle"} /\ "aq insert" \in Pcs
      BY DEF Pcs, QueuePages, PrinterPages
    <2>3. QED
      BY <1>4, <2>1, <2>2
  <1>18. CASE UqLookup(g)
    <2>1. Step(g, "uq look", "uq update") /\ requests' = requests
      BY <1>18 DEF UqLookup
    <2>2. "uq look" \in Pcs \ {"idle"} /\ "uq update" \in Pcs
      BY DEF Pcs, QueuePages, PrinterPages
    <2>3. QED
      BY <1>4, <2>1, <2>2
  <1>19. CASE DqPrinters(g)
    <2>1. Step(g, "dq printers", "dq delete") /\ requests' = requests
      BY <1>19 DEF DqPrinters
    <2>2. "dq printers" \in Pcs \ {"idle"} /\ "dq delete" \in Pcs
      BY DEF Pcs, QueuePages, PrinterPages
    <2>3. QED
      BY <1>4, <2>1, <2>2
  <1>20. CASE DqDelete(g)
    <2>1. Step(g, "dq delete", "dq rm") /\ requests' = requests
      BY <1>20 DEF DqDelete
    <2>2. "dq delete" \in Pcs \ {"idle"} /\ "dq rm" \in Pcs
      BY DEF Pcs, QueuePages, PrinterPages
    <2>3. QED
      BY <1>4, <2>1, <2>2
  <1>21. CASE ApCount(g)
    <2>1. Step(g, "ap count", "ap name") /\ requests' = requests
      BY <1>21 DEF ApCount
    <2>2. "ap count" \in Pcs \ {"idle"} /\ "ap name" \in Pcs
      BY DEF Pcs, QueuePages, PrinterPages
    <2>3. QED
      BY <1>4, <2>1, <2>2
  <1>22. CASE ApName(g)
    <2>1. Step(g, "ap name", "ap key") /\ requests' = requests
      BY <1>22 DEF ApName
    <2>2. "ap name" \in Pcs \ {"idle"} /\ "ap key" \in Pcs
      BY DEF Pcs, QueuePages, PrinterPages
    <2>3. QED
      BY <1>4, <2>1, <2>2
  <1>23. CASE ApClear(g)
    <2>1. Step(g, "ap clear", "ap specific") /\ requests' = requests
      BY <1>23 DEF ApClear
    <2>2. "ap clear" \in Pcs \ {"idle"} /\ "ap specific" \in Pcs
      BY DEF Pcs, QueuePages, PrinterPages
    <2>3. QED
      BY <1>4, <2>1, <2>2
  <1>24. CASE ApInsertSpecific(g)
    <2>1. Step(g, "ap specific", "ap insert") /\ requests' = requests
      BY <1>24 DEF ApInsertSpecific
    <2>2. "ap specific" \in Pcs \ {"idle"} /\ "ap insert" \in Pcs
      BY DEF Pcs, QueuePages, PrinterPages
    <2>3. QED
      BY <1>4, <2>1, <2>2
  <1>25. CASE UpLookup(g)
    <2>1. Step(g, "up look", "up update") /\ requests' = requests
      BY <1>25 DEF UpLookup
    <2>2. "up look" \in Pcs \ {"idle"} /\ "up update" \in Pcs
      BY DEF Pcs, QueuePages, PrinterPages
    <2>3. QED
      BY <1>4, <2>1, <2>2
  <1>26. CASE DpGeneric(g)
    <2>1. Step(g, "dp generic", "dp specific") /\ requests' = requests
      BY <1>26 DEF DpGeneric
    <2>2. "dp generic" \in Pcs \ {"idle"} /\ "dp specific" \in Pcs
      BY DEF Pcs, QueuePages, PrinterPages
    <2>3. QED
      BY <1>4, <2>1, <2>2
  <1>27. CASE AqKey(g)
    <2>1. FreeKey(queues) \in Nat /\ FreeKey(queues) \in Int
      <3>1. IsFiniteSet(queues) /\ Cardinality(queues) \in Nat /\ \A r \in queues : r.key \in Nat
        BY TableFacts
      <3>2. FreeKey(queues) \in 0 .. Cardinality(queues)
        BY <3>1, FreeKeyIsFirst
      <3>3. QED
        BY <3>1, <3>2
    <2>2. "aq rm" \in Pcs
      BY DEF Pcs, QueuePages, PrinterPages
    <2>3. QED
      BY <1>5, <1>27, <2>1, <2>2 DEF AqKey
  <1>28. CASE ApKey(g)
    <2>1. FreeKey(printers) \in Nat /\ FreeKey(printers) \in Int
      <3>1. IsFiniteSet(printers) /\ Cardinality(printers) \in Nat /\ \A r \in printers : r.key \in Nat
        BY TableFacts
      <3>2. FreeKey(printers) \in 0 .. Cardinality(printers)
        BY <3>1, FreeKeyIsFirst
      <3>3. QED
        BY <3>1, <3>2
    <2>2. "ap clear" \in Pcs
      BY DEF Pcs, QueuePages, PrinterPages
    <2>3. QED
      BY <1>5, <1>28, <2>1, <2>2 DEF ApKey
  <1>29. QED
    BY <1>2, <1>6, <1>7, <1>8, <1>9, <1>10, <1>11, <1>12, <1>13, <1>14, <1>15, <1>16, <1>17, <1>18, <1>19, <1>20, <1>21, <1>22, <1>23, <1>24, <1>25, <1>26, <1>27, <1>28 DEF Page
\* No statement puts anything into a table but rows of its kind.
LEMMA TableTypesKept ==
    ASSUME TypeOK, NEW g \in Pages, Page(g)
    PROVE  TableTypes'
  <1>1. TableTypes /\ page[g] \in PageState /\ KeyFound(g)
    BY DEF TypeOK, PageTypes
  <1>2. /\ page[g].req \in Nat /\ page[g].name \in Names
        /\ page[g].queue \in Int /\ page[g].key \in Int
    BY <1>1 DEF PageState
  <1>3. CASE UNCHANGED <<tables, dirs, reader, races>> /\ requests' \in Nat
    BY <1>1, <1>3 DEF TableTypes, tables, races
  <1>4. CASE ShowForm(g)
    <2>1. UNCHANGED <<tables, dirs, reader, races>> /\ requests' = requests + 1
      BY <1>4, FormFacts
    <2>2. requests' \in Nat
      BY <1>1, <2>1 DEF TableTypes
    <2>3. QED
      BY <1>3, <2>1, <2>2
  <1>5. CASE \/ Stop(g) \/ AqLookup(g) \/ AqCount(g) \/ AqName(g) \/ AqKey(g)
             \/ UqLookup(g) \/ DqPrinters(g)
             \/ ApCount(g) \/ ApName(g) \/ ApKey(g) \/ UpLookup(g)
    <2>1. UNCHANGED <<tables, dirs, reader, races>> /\ requests' = requests
      BY <1>5 DEF Stop, AqLookup, AqCount, AqName, AqKey, UqLookup, DqPrinters, ApCount, ApName, ApKey, UpLookup
    <2>2. QED
      BY <1>1, <1>3, <2>1 DEF TableTypes
  <1>6. CASE AqRemoveDir(g)
    BY <1>1, <1>6 DEF AqRemoveDir, MeetsQueuePage, TableTypes, tables, WithKey, InWindow
  <1>7. CASE AqMakeDir(g)
    <2>1. [key |-> page[g].key, req |-> page[g].req] \in [req : Nat, key : Nat]
      BY <1>1, <1>2, <1>7 DEF AqMakeDir, Step, KeyFound
    <2>2. QED
      BY <1>1, <1>7, <2>1 DEF AqMakeDir, TableTypes, tables, races
  <1>8. CASE AqInsert(g)
    <2>1. [req |-> page[g].req, name |-> page[g].name, key |-> page[g].key] \in QueueRows
      BY <1>1, <1>2, <1>8 DEF AqInsert, End, KeyFound, QueueRows
    <2>2. IsFiniteSet(queues) /\ \E r \in queues' : queues' = queues \cup {r}
      BY <1>1, <1>8 DEF AqInsert, TableTypes
    <2>3. IsFiniteSet(queues')
      BY <2>2, FS_AddElement
    <2>4. QED
      BY <1>1, <1>8, <2>1, <2>3 DEF AqInsert, MeetsQueuePage, TableTypes, InWindow
  <1>9. CASE UqUpdate(g)
    <2>1. queues' = Renamed(queues, page[g].key, page[g].name)
      BY <1>9 DEF UqUpdate, Renamed
    <2>2. queues' \in SUBSET QueueRows /\ IsFiniteSet(queues')
      BY <1>1, <1>2, <2>1, RenamedFacts DEF TableTypes
    <2>3. QED
      BY <1>1, <1>9, <2>2 DEF UqUpdate, MeetsQueuePage, TableTypes, InWindow
  <1>10. CASE DqDelete(g)
    <2>1. queues' \in SUBSET queues
      BY <1>10 DEF DqDelete
    <2>2. IsFiniteSet(queues')
      BY <1>1, <2>1, FS_Subset DEF TableTypes
    <2>3. QED
      BY <1>1, <1>10, <2>1, <2>2 DEF DqDelete, TableTypes, races
  <1>11. CASE DqRemoveDir(g)
    BY <1>1, <1>11 DEF DqRemoveDir, MeetsQueuePage, TableTypes, tables, WithKey, InWindow
  <1>12. CASE ApClear(g)
    BY <1>1, <1>12 DEF ApClear, MeetsPrinterPage, TableTypes, WithKey, InWindow
  <1>13. CASE ApInsertSpecific(g)
    <2>1. [req |-> page[g].req, key |-> page[g].key] \in [req : Nat, key : Nat]
      BY <1>1, <1>2, <1>13 DEF ApInsertSpecific, Step, KeyFound
    <2>2. QED
      BY <1>1, <1>13, <2>1 DEF ApInsertSpecific, MeetsPrinterPage, TableTypes, InWindow
  <1>14. CASE ApInsert(g)
    <2>1. [req |-> page[g].req, name |-> page[g].name, queue |-> page[g].queue,
           key |-> page[g].key] \in PrinterRows
      BY <1>1, <1>2, <1>14 DEF ApInsert, End, KeyFound, PrinterRows
    <2>2. IsFiniteSet(printers) /\ \E r \in printers' : printers' = printers \cup {r}
      BY <1>1, <1>14 DEF ApInsert, TableTypes
    <2>3. IsFiniteSet(printers')
      BY <2>2, FS_AddElement
    <2>4. QED
      BY <1>1, <1>14, <2>1, <2>3 DEF ApInsert, MeetsPrinterPage, TableTypes, InWindow
  <1>15. CASE UpUpdate(g)
    <2>1. printers' = Renamed(printers, page[g].key, page[g].name)
      BY <1>15 DEF UpUpdate, Renamed
    <2>2. printers' \in SUBSET PrinterRows /\ IsFiniteSet(printers')
      BY <1>1, <1>2, <2>1, RenamedFacts DEF TableTypes
    <2>3. QED
      BY <1>1, <1>15, <2>2 DEF UpUpdate, MeetsPrinterPage, TableTypes, InWindow
  <1>16. CASE DpGeneric(g)
    <2>1. printers' \in SUBSET printers
      BY <1>16 DEF DpGeneric
    <2>2. IsFiniteSet(printers')
      BY <1>1, <2>1, FS_Subset DEF TableTypes
    <2>3. QED
      BY <1>1, <1>16, <2>1, <2>2 DEF DpGeneric, TableTypes, races
  <1>17. CASE DpSpecific(g)
    BY <1>1, <1>17 DEF DpSpecific, MeetsPrinterPage, TableTypes, WithKey, InWindow
  <1>18. QED
    BY <1>4, <1>5, <1>6, <1>7, <1>8, <1>9, <1>10, <1>11, <1>12, <1>13, <1>14, <1>15, <1>16, <1>17 DEF Page

\* The daemon only reads, and reads rows.
LEMMA TypesKept ==
    ASSUME TypeOK, [Next]_vars
    PROVE  TypeOK'
  <1>1. TableTypes /\ PageTypes
    BY DEF TypeOK
  <1>2. ASSUME NEW g \in Pages, Page(g)
        PROVE  TypeOK'
    <2>1. Moved(g) /\ TableTypes'
      BY <1>2, PageMoves, TableTypesKept
    <2>2. ASSUME NEW h \in Pages \ {g}
          PROVE  KeyFound(h)'
      BY <1>1, <2>1, <2>2 DEF Moved, PageTypes, KeyFound
    <2>3. QED
      BY <2>1, <2>2 DEF TypeOK, PageTypes, Moved
  <1>3. CASE Read
    <2>1. UNCHANGED <<tables, dirs, page, requests, races>>
      BY <1>3 DEF Read, ReadPrinters, ReadEnds, ReadSpecific, ReadNothing
    <2>2. reader \in [pc : {"none", "reading", "crashed"}, rows : SUBSET PrinterRows]
          /\ printers \in SUBSET PrinterRows
      BY <1>1 DEF TableTypes
    <2>3. reader' \in [pc : {"none", "reading", "crashed"}, rows : SUBSET PrinterRows]
      <3>1. CASE ReadPrinters
        BY <2>2, <3>1 DEF ReadPrinters
      <3>2. CASE ReadEnds
        BY <3>2 DEF ReadEnds, NoReader
      <3>3. ASSUME NEW r \in reader.rows, ReadSpecific(r) \/ ReadNothing(r)
            PROVE  reader' \in [pc : {"none", "reading", "crashed"}, rows : SUBSET PrinterRows]
        BY <2>2, <3>3 DEF ReadSpecific, ReadNothing
      <3>4. QED
        BY <1>3, <3>1, <3>2, <3>3 DEF Read
    <2>4. TableTypes'
      BY <1>1, <2>1, <2>3 DEF TableTypes, tables, races
    <2>5. PageTypes'
      BY <1>1, <2>1 DEF PageTypes, KeyFound
    <2>6. QED
      BY <2>4, <2>5 DEF TypeOK
  <1>4. CASE UNCHANGED vars
    BY <1>1, <1>4 DEF TypeOK, TableTypes, PageTypes, KeyFound, vars, tables, races
  <1>5. QED
    BY <1>2, <1>3, <1>4 DEF Next
-----------------------------------------------------------------------------
(* What a page has seen of the queues holds until it has made its changes. *)

\* Whatever a page relies on survives the deletion of queues, and the making
\* of a directory.
LEMMA QueuesDeleted ==
    ASSUME TypeOK, QueueInv, NEW g \in Pages,
           \A h \in Pages \ {g} : page'[h] = page[h],
           queues' \in SUBSET queues, dirs \in SUBSET dirs', queueRace' = queueRace,
           ~queueRace /\ QueuesSound /\ AddsQueue(g) /\ ChangesQueue(g)
             => AddsQueue(g)' /\ ChangesQueue(g)'
    PROVE  QueueInv'
  <1>1. SUFFICES ASSUME ~queueRace
                 PROVE  QueuesSound' /\ \A h \in Pages : AddsQueue(h)' /\ ChangesQueue(h)'
    BY DEF QueueInv
  <1>2. QueuesSound /\ \A h \in Pages : AddsQueue(h) /\ ChangesQueue(h)
    BY <1>1 DEF QueueInv
  <1>3. QueuesSound'
    BY <1>2 DEF QueuesSound, Distinct, Keys
  <1>4. /\ Cardinality(queues) \in Nat /\ Cardinality(queues') \in Nat
        /\ Cardinality(queues') <= Cardinality(queues)
    BY TableFacts, FS_Subset, FS_CardinalityType
  <1>5. ASSUME NEW h \in Pages \ {g}
        PROVE  AddsQueue(h)' /\ ChangesQueue(h)'
    <2>1. page'[h] = page[h] /\ AddsQueue(h) /\ ChangesQueue(h)
      BY <1>2
    <2>2. Cardinality(queues) < MAX_QUEUES => Cardinality(queues') < MAX_QUEUES
      BY <1>4, AdminAssumption
    <2>3. Keys(queues') \subseteq Keys(queues)
      BY DEF Keys
    <2>4. AddsQueue(h)'
      BY <2>1, <2>2, <2>3 DEF AddsQueue, Named
    <2>5. ChangesQueue(h)'
      BY <2>1, <2>3 DEF ChangesQueue, Named, WithKey
    <2>6. QED
      BY <2>4, <2>5
  <1>6. QED
    BY <1>1, <1>2, <1>3, <1>5

\* Any other change disturbs pages in their window only, and is recorded then.
LEMMA QueuesChanged ==
    ASSUME QueueInv, NEW g \in Pages, MeetsQueuePage(g),
           \A h \in Pages \ {g} : page'[h] = page[h],
           ~queueRace /\ QueuesSound /\ AddsQueue(g) /\ ChangesQueue(g)
             => QueuesSound' /\ AddsQueue(g)' /\ ChangesQueue(g)'
    PROVE  QueueInv'
  <1>1. SUFFICES ASSUME ~queueRace'
                 PROVE  QueuesSound' /\ \A h \in Pages : AddsQueue(h)' /\ ChangesQueue(h)'
    BY DEF QueueInv
  <1>2. ~queueRace /\ \A h \in Pages \ {g} : page[h].pc \notin QueuePages
    BY <1>1 DEF MeetsQueuePage, InWindow
  <1>3. QueuesSound' /\ AddsQueue(g)' /\ ChangesQueue(g)'
    BY <1>2 DEF QueueInv
  <1>4. ASSUME NEW h \in Pages \ {g}
        PROVE  AddsQueue(h)' /\ ChangesQueue(h)'
    <2>1. page'[h].pc \notin QueuePages
      BY <1>2
    <2>2. QED
      BY <2>1 DEF AddsQueue, ChangesQueue, QueuePages
  <1>5. QED
    BY <1>3, <1>4

\* A page that is in none of the places where it relies on anything.
LEMMA QueuePageFree ==
    ASSUME NEW g \in Pages, page'[g].pc \notin QueuePages
    PROVE  AddsQueue(g)' /\ ChangesQueue(g)'
  BY DEF AddsQueue, ChangesQueue, QueuePages

\* The statements of a page keep what it and the others have seen.
LEMMA QueueInvKept ==
    ASSUME TypeOK, QueueInv, NEW g \in Pages, Page(g)
    PROVE  QueueInv'
  <1>1. /\ page \in [Pages -> PageState] /\ page' \in [Pages -> PageState]
        /\ \A h \in Pages \ {g} : page'[h] = page[h]
    BY PageMoves DEF Moved, TypeOK, PageTypes
  <1>2. ASSUME UNCHANGED <<queues, dirs, queueRace>>,
               ~queueRace /\ QueuesSound /\ AddsQueue(g) /\ ChangesQueue(g)
                 => AddsQueue(g)' /\ ChangesQueue(g)'
        PROVE  QueueInv'
    BY <1>1, <1>2, QueuesDeleted
  <1>3. ASSUME UNCHANGED <<queues, dirs, queueRace>>, page'[g].pc \notin QueuePages
        PROVE  QueueInv'
    BY <1>2, <1>3, QueuePageFree
  <1>4. CASE ShowForm(g)
    <2>1. /\ page'[g].pc \in {"aq look", "uq look", "dq printers", "ap count", "up look",
                              "dp generic"}
          /\ UNCHANGED <<queues, dirs, queueRace>>
      BY <1>4, FormFacts DEF tables, races
    <2>2. QED
      BY <1>3, <2>1 DEF QueuePages
  <1>5. CASE Stop(g)
    <2>1. page' = [page EXCEPT ![g] = Idle] /\ UNCHANGED <<queues, dirs, queueRace>>
      BY <1>5 DEF Stop, tables, races
    <2>2. page'[g].pc = "idle"
      BY <1>1, <2>1, EndFacts
    <2>3. QED
      BY <1>3, <2>1, <2>2 DEF QueuePages
  <1>6. CASE AqLookup(g)
    <2>1. /\ Step(g, "aq look", "aq count") /\ "aq count" \in Pcs
          /\ UNCHANGED <<queues, dirs, queueRace>>
      BY <1>6 DEF AqLookup, Pcs, QueuePages, PrinterPages, tables, races
    <2>2. /\ page[g].pc = "aq look" /\ page'[g].pc = "aq count"
          /\ page'[g].req = page[g].req /\ page'[g].name = page[g].name
          /\ page'[g].queue = page[g].queue /\ page'[g].key = page[g].key
      BY <1>1, <2>1, StepFacts
    <2>3. QED
      BY <1>2, <2>1, <2>2, <1>6 DEF AqLookup, AddsQueue, ChangesQueue
  <1>7. CASE AqCount(g)
    <2>1. /\ Step(g, "aq count", "aq name") /\ "aq name" \in Pcs
          /\ UNCHANGED <<queues, dirs, queueRace>>
      BY <1>7 DEF AqCount, Pcs, QueuePages, PrinterPages, tables, races
    <2>2. /\ page[g].pc = "aq count" /\ page'[g].pc = "aq name"
          /\ page'[g].req = page[g].req /\ page'[g].name = page[g].name
          /\ page'[g].queue = page[g].queue /\ page'[g].key = page[g].key
      BY <1>1, <2>1, StepFacts
    <2>3. QED
      BY <1>2, <2>1, <2>2, <1>7 DEF AqCount, AddsQueue, ChangesQueue
  <1>8. CASE AqName(g)
    <2>1. /\ Step(g, "aq name", "aq key") /\ "aq key" \in Pcs
          /\ UNCHANGED <<queues, dirs, queueRace>>
      BY <1>8 DEF AqName, Pcs, QueuePages, PrinterPages, tables, races
    <2>2. /\ page[g].pc = "aq name" /\ page'[g].pc = "aq key"
          /\ page'[g].req = page[g].req /\ page'[g].name = page[g].name
          /\ page'[g].queue = page[g].queue /\ page'[g].key = page[g].key
      BY <1>1, <2>1, StepFacts
    <2>3. QED
      BY <1>2, <2>1, <2>2, <1>8 DEF AqName, AddsQueue, ChangesQueue
  <1>9. CASE UqLookup(g)
    <2>1. /\ Step(g, "uq look", "uq update") /\ "uq update" \in Pcs
          /\ UNCHANGED <<queues, dirs, queueRace>>
      BY <1>9 DEF UqLookup, Pcs, QueuePages, PrinterPages, tables, races
    <2>2. /\ page[g].pc = "uq look" /\ page'[g].pc = "uq update"
          /\ page'[g].req = page[g].req /\ page'[g].name = page[g].name
          /\ page'[g].queue = page[g].queue /\ page'[g].key = page[g].key
      BY <1>1, <2>1, StepFacts
    <2>3. QED
      BY <1>2, <2>1, <2>2, <1>9 DEF UqLookup, AddsQueue, ChangesQueue
  <1>10. CASE DqPrinters(g)
    <2>1. /\ Step(g, "dq printers", "dq delete") /\ "dq delete" \in Pcs
          /\ UNCHANGED <<queues, dirs, queueRace>>
      BY <1>10 DEF DqPrinters, Pcs, QueuePages, PrinterPages, tables, races
    <2>2. /\ page[g].pc = "dq printers" /\ page'[g].pc = "dq delete"
          /\ page'[g].req = page[g].req /\ page'[g].name = page[g].name
          /\ page'[g].queue = page[g].queue /\ page'[g].key = page[g].key
      BY <1>1, <2>1, StepFacts
    <2>3. QED
      BY <1>2, <2>1, <2>2, <1>10 DEF DqPrinters, AddsQueue, ChangesQueue
  <1>11. CASE AqKey(g)
    <2>1. UNCHANGED <<queues, dirs, queueRace>>
      BY <1>11 DEF AqKey, tables, races
    <2>2. /\ page[g].pc = "aq key" /\ page'[g].pc = "aq rm"
          /\ page'[g].name = page[g].name /\ page'[g].key = FreeKey(queues)
      BY <1>1, <1>11 DEF AqKey, PageState
    <2>3. ASSUME ~queueRace, QueuesSound, AddsQueue(g)
          PROVE  AddsQueue(g)'
      <3>1. /\ IsFiniteSet(queues) /\ Cardinality(queues) \in Nat
            /\ \A r \in queues : r.key \in Nat
            /\ \A r, s \in queues : r # s => r.key # s.key
        BY <2>3, TableFacts DEF QueuesSound, Distinct
      <3>2. FreeKey(queues) \in 0 .. Cardinality(queues) /\ FreeKey(queues) \notin Keys(queues)
        BY <3>1, FreeKeyIsFree
      <3>3. Cardinality(queues) < MAX_QUEUES /\ Named(queues, page[g].name) = {}
        BY <2>2, <2>3 DEF AddsQueue
      <3>4. FreeKey(queues) \in 0 .. (MAX_QUEUES - 1)
        BY <3>1, <3>2, <3>3, AdminAssumption
      <3>5. QED
        BY <2>1, <2>2, <3>2, <3>3, <3>4 DEF AddsQueue
    <2>4. ChangesQueue(g)'
      BY <2>2 DEF ChangesQueue
    <2>5. QED
      BY <1>2, <2>1, <2>3, <2>4
  <1>12. CASE AqRemoveDir(g)
    <2>1. /\ Step(g, "aq rm", "aq mkdir") /\ "aq mkdir" \in Pcs
          /\ UNCHANGED <<queues>>
      BY <1>12 DEF AqRemoveDir, Pcs, QueuePages, PrinterPages, tables
    <2>2. /\ page[g].pc = "aq rm" /\ page'[g].pc = "aq mkdir"
          /\ page'[g].req = page[g].req /\ page'[g].name = page[g].name
          /\ page'[g].queue = page[g].queue /\ page'[g].key = page[g].key
      BY <1>1, <2>1, StepFacts
    <2>3. dirs' = dirs \ WithKey(dirs, page[g].key) /\ MeetsQueuePage(g)
      BY <1>12 DEF AqRemoveDir
    <2>4. ASSUME QueuesSound, AddsQueue(g)
          PROVE  QueuesSound' /\ AddsQueue(g)'
      <3>1. page[g].key \notin Keys(queues)
        BY <2>2, <2>4 DEF AddsQueue
      <3>2. ASSUME NEW r \in queues
            PROVE  [key |-> r.key, req |-> r.req] \in dirs'
        BY <2>3, <2>4, <3>1 DEF QueuesSound, WithKey, Keys
      <3>3. QueuesSound'
        BY <2>1, <2>4, <3>2 DEF QueuesSound, Distinct
      <3>4. AddsQueue(g)'
        BY <2>1, <2>2, <2>4 DEF AddsQueue
      <3>5. QED
        BY <3>3, <3>4
    <2>5. ChangesQueue(g)'
      BY <2>2 DEF ChangesQueue
    <2>6. QED
      BY <1>1, <2>3, <2>4, <2>5, QueuesChanged
  <1>13. CASE AqMakeDir(g)
    <2>1. /\ Step(g, "aq mkdir", "aq insert") /\ "aq insert" \in Pcs
          /\ UNCHANGED <<queues, queueRace>>
      BY <1>13 DEF AqMakeDir, Pcs, QueuePages, PrinterPages, tables, races
    <2>2. /\ page[g].pc = "aq mkdir" /\ page'[g].pc = "aq insert"
          /\ page'[g].req = page[g].req /\ page'[g].name = page[g].name
          /\ page'[g].queue = page[g].queue /\ page'[g].key = page[g].key
      BY <1>1, <2>1, StepFacts
    <2>3. dirs' = dirs \cup {[key |-> page[g].key, req |-> page[g].req]}
      BY <1>13 DEF AqMakeDir
    <2>4. AddsQueue(g) => AddsQueue(g)'
      BY <2>1, <2>2, <2>3 DEF AddsQueue
    <2>5. ChangesQueue(g)'
      BY <2>2 DEF ChangesQueue
    <2>6. QED
      BY <1>1, <2>1, <2>3, <2>4, <2>5, QueuesDeleted
  <1>14. CASE AqInsert(g)
    <2>1. page' = [page EXCEPT ![g] = Idle] /\ page[g].pc = "aq insert"
      BY <1>14 DEF AqInsert, End
    <2>2. page'[g].pc = "idle"
      BY <1>1, <2>1, EndFacts
    <2>3. AddsQueue(g)' /\ ChangesQueue(g)'
      BY <2>2, QueuePageFree DEF QueuePages
    <2>4. /\ queues' = queues \cup
                {[req |-> page[g].req, name |-> page[g].name, key |-> page[g].key]}
          /\ dirs' = dirs /\ MeetsQueuePage(g)
      BY <1>14 DEF AqInsert
    <2>5. ASSUME QueuesSound, AddsQueue(g)
          PROVE  QueuesSound'
      <3> DEFINE new == [req |-> page[g].req, name |-> page[g].name, key |-> page[g].key]
      <3>1. /\ Named(queues, new.name) = {}
            /\ new.key \in 0 .. (MAX_QUEUES - 1) \ Keys(queues)
            /\ [key |-> new.key, req |-> new.req] \in dirs
        BY <2>1, <2>5 DEF AddsQueue
      <3>2. queues' = queues \cup {new}
        BY <2>4
      <3> HIDE DEF new
      <3>3. \A r \in queues : r.key # new.key /\ r.name # new.name
        BY <3>1 DEF Named, Keys
      <3>4. QED
        BY <2>4, <2>5, <3>1, <3>2, <3>3 DEF QueuesSound, Distinct, Keys
    <2>6. QED
      BY <1>1, <2>3, <2>4, <2>5, QueuesChanged
  <1>15. CASE UqUpdate(g)
    <2>1. page' = [page EXCEPT ![g] = Idle] /\ page[g].pc = "uq update"
      BY <1>15 DEF UqUpdate, End
    <2>2. page'[g].pc = "idle"
      BY <1>1, <2>1, EndFacts
    <2>3. AddsQueue(g)' /\ ChangesQueue(g)'
      BY <2>2, QueuePageFree DEF QueuePages
    <2>4. /\ queues' = Renamed(queues, page[g].key, page[g].name)
          /\ dirs' = dirs /\ MeetsQueuePage(g)
      BY <1>15 DEF UqUpdate, Renamed
    <2>5. page[g].name \in Names /\ queues \in SUBSET QueueRows /\ IsFiniteSet(queues)
      BY <1>1 DEF TypeOK, TableTypes, PageState
    <2>6. \A t \in queues' : \E r \in queues :
            /\ t.key = r.key /\ t.req = r.req
            /\ r.key = page[g].key => t.name = page[g].name
            /\ r.key # page[g].key => t = r
      BY <2>4, <2>5, RenamedFacts
    <2>7. ASSUME QueuesSound, ChangesQueue(g)
          PROVE  QueuesSound'
      <3>1. \A r \in queues : r.name = page[g].name => r.key = page[g].key
        BY <2>1, <2>7 DEF ChangesQueue, Named, WithKey
      <3>2. \A r, s \in queues : r # s => r.key # s.key /\ r.name # s.name
        BY <2>7 DEF QueuesSound, Distinct
      <3>3. ASSUME NEW t \in queues', NEW u \in queues', t.key = u.key
            PROVE  t = u
        <4>1. t \in QueueRows /\ u \in QueueRows
          BY <2>4, <2>5, RenamedFacts
        <4>2. t.name = u.name /\ t.req = u.req
          BY <2>6, <3>2, <3>3
        <4>3. QED
          BY <3>3, <4>1, <4>2 DEF QueueRows
      <3>4. ASSUME NEW t \in queues', NEW u \in queues', t.name = u.name
            PROVE  t.key = u.key
        BY <2>6, <3>1, <3>2, <3>4
      <3>5. Keys(queues') \subseteq 0 .. (MAX_QUEUES - 1)
        BY <2>6, <2>7 DEF QueuesSound, Keys
      <3>6. \A t \in queues' : [key |-> t.key, req |-> t.req] \in dirs'
        BY <2>4, <2>6, <2>7 DEF QueuesSound
      <3>7. QED
        BY <3>3, <3>4, <3>5, <3>6 DEF QueuesSound, Distinct
    <2>8. QED
      BY <1>1, <2>3, <2>4, <2>7, QueuesChanged
  <1>16. CASE DqDelete(g)
    <2>1. /\ Step(g, "dq delete", "dq rm") /\ "dq rm" \in Pcs
          /\ UNCHANGED <<dirs, queueRace>>
      BY <1>16 DEF DqDelete, Pcs, QueuePages, PrinterPages, races
    <2>2. /\ page[g].pc = "dq delete" /\ page'[g].pc = "dq rm"
          /\ page'[g].req = page[g].req /\ page'[g].name = page[g].name
          /\ page'[g].queue = page[g].queue /\ page'[g].key = page[g].key
      BY <1>1, <2>1, StepFacts
    <2>3. queues' = queues \ WithKey(queues, page[g].key)
      BY <1>16 DEF DqDelete
    <2>4. AddsQueue(g)'
      BY <2>2 DEF AddsQueue
    <2>5. ChangesQueue(g)'
      BY <2>2, <2>3 DEF ChangesQueue, Keys, WithKey
    <2>6. QED
      BY <1>1, <2>1, <2>3, <2>4, <2>5, QueuesDeleted
  <1>17. CASE DqRemoveDir(g)
    <2>1. page' = [page EXCEPT ![g] = Idle] /\ page[g].pc = "dq rm"
      BY <1>17 DEF DqRemoveDir, End
    <2>2. page'[g].pc = "idle"
      BY <1>1, <2>1, EndFacts
    <2>3. AddsQueue(g)' /\ ChangesQueue(g)'
      BY <2>2, QueuePageFree DEF QueuePages
    <2>4. /\ dirs' = dirs \ WithKey(dirs, page[g].key)
          /\ queues' = queues /\ MeetsQueuePage(g)
      BY <1>17 DEF DqRemoveDir, tables
    <2>5. ASSUME QueuesSound, ChangesQueue(g)
          PROVE  QueuesSound'
      <3>1. page[g].key \notin Keys(queues)
        BY <2>1, <2>5 DEF ChangesQueue
      <3>2. ASSUME NEW r \in queues
            PROVE  [key |-> r.key, req |-> r.req] \in dirs'
        BY <2>4, <2>5, <3>1 DEF QueuesSound, WithKey, Keys
      <3>3. QED
        BY <2>4, <2>5, <3>2 DEF QueuesSound, Distinct
    <2>6. QED
      BY <1>1, <2>3, <2>4, <2>5, QueuesChanged
  <1>18. CASE ApCount(g)
    <2>1. /\ Step(g, "ap count", "ap name") /\ "ap name" \in Pcs
          /\ UNCHANGED <<queues, dirs, queueRace>>
      BY <1>18 DEF ApCount, Pcs, QueuePages, PrinterPages, tables, races
    <2>2. /\ page[g].pc = "ap count" /\ page'[g].pc = "ap name"
          /\ page'[g].req = page[g].req /\ page'[g].name = page[g].name
          /\ page'[g].queue = page[g].queue /\ page'[g].key = page[g].key
      BY <1>1, <2>1, StepFacts
    <2>3. QED
      BY <1>3, <2>1, <2>2 DEF QueuePages
  <1>19. CASE ApName(g)
    <2>1. /\ Step(g, "ap name", "ap key") /\ "ap key" \in Pcs
          /\ UNCHANGED <<queues, dirs, queueRace>>
      BY <1>19 DEF ApName, Pcs, QueuePages, PrinterPages, tables, races
    <2>2. /\ page[g].pc = "ap name" /\ page'[g].pc = "ap key"
          /\ page'[g].req = page[g].req /\ page'[g].name = page[g].name
          /\ page'[g].queue = page[g].queue /\ page'[g].key = page[g].key
      BY <1>1, <2>1, StepFacts
    <2>3. QED
      BY <1>3, <2>1, <2>2 DEF QueuePages
  <1>20. CASE ApKey(g)
    <2>1. UNCHANGED <<queues, dirs, queueRace>>
      BY <1>20 DEF ApKey, tables, races
    <2>2. page'[g].pc = "ap clear"
      BY <1>1, <1>20 DEF ApKey, PageState
    <2>3. QED
      BY <1>3, <2>1, <2>2 DEF QueuePages
  <1>21. CASE ApClear(g)
    <2>1. /\ Step(g, "ap clear", "ap specific") /\ "ap specific" \in Pcs
          /\ UNCHANGED <<queues, dirs, queueRace>>
      BY <1>21 DEF ApClear, Pcs, QueuePages, PrinterPages, tables, races
    <2>2. /\ page[g].pc = "ap clear" /\ page'[g].pc = "ap specific"
          /\ page'[g].req = page[g].req /\ page'[g].name = page[g].name
          /\ page'[g].queue = page[g].queue /\ page'[g].key = page[g].key
      BY <1>1, <2>1, StepFacts
    <2>3. QED
      BY <1>3, <2>1, <2>2 DEF QueuePages
  <1>22. CASE ApInsertSpecific(g)
    <2>1. /\ Step(g, "ap specific", "ap insert") /\ "ap insert" \in Pcs
          /\ UNCHANGED <<queues, dirs, queueRace>>
      BY <1>22 DEF ApInsertSpecific, Pcs, QueuePages, PrinterPages, tables, races
    <2>2. /\ page[g].pc = "ap specific" /\ page'[g].pc = "ap insert"
          /\ page'[g].req = page[g].req /\ page'[g].name = page[g].name
          /\ page'[g].queue = page[g].queue /\ page'[g].key = page[g].key
      BY <1>1, <2>1, StepFacts
    <2>3. QED
      BY <1>3, <2>1, <2>2 DEF QueuePages
  <1>23. CASE ApInsert(g)
    <2>1. page' = [page EXCEPT ![g] = Idle] /\ UNCHANGED <<queues, dirs, queueRace>>
      BY <1>23 DEF ApInsert, End
    <2>2. page'[g].pc = "idle"
      BY <1>1, <2>1, EndFacts
    <2>3. QED
      BY <1>3, <2>1, <2>2 DEF QueuePages
  <1>24. CASE UpLookup(g)
    <2>1. /\ Step(g, "up look", "up update") /\ "up update" \in Pcs
          /\ UNCHANGED <<queues, dirs, queueRace>>
      BY <1>24 DEF UpLookup, Pcs, QueuePages, PrinterPages, tables, races
    <2>2. /\ page[g].pc = "up look" /\ page'[g].pc = "up update"
          /\ page'[g].req = page[g].req /\ page'[g].name = page[g].name
          /\ page'[g].queue = page[g].queue /\ page'[g].key = page[g].key
      BY <1>1, <2>1, StepFacts
    <2>3. QED
      BY <1>3, <2>1, <2>2 DEF QueuePages
  <1>25. CASE UpUpdate(g)
    <2>1. page' = [page EXCEPT ![g] = Idle] /\ UNCHANGED <<queues, dirs, queueRace>>
      BY <1>25 DEF UpUpdate, End
    <2>2. page'[g].pc = "idle"
      BY <1>1, <2>1, EndFacts
    <2>3. QED
      BY <1>3, <2>1, <2>2 DEF QueuePages
  <1>26. CASE DpGeneric(g)
    <2>1. /\ Step(g, "dp generic", "dp specific") /\ "dp specific" \in Pcs
          /\ UNCHANGED <<queues, dirs, queueRace>>
      BY <1>26 DEF DpGeneric, Pcs, QueuePages, PrinterPages, tables, races
    <2>2. /\ page[g].pc = "dp generic" /\ page'[g].pc = "dp specific"
          /\ page'[g].req = page[g].req /\ page'[g].name = page[g].name
          /\ page'[g].queue = page[g].queue /\ page'[g].key = page[g].key
      BY <1>1, <2>1, StepFacts
    <2>3. QED
      BY <1>3, <2>1, <2>2 DEF QueuePages
  <1>27. CASE DpSpecific(g)
    <2>1. page' = [page EXCEPT ![g] = Idle] /\ UNCHANGED <<queues, dirs, queueRace>>
      BY <1>27 DEF DpSpecific, End
    <2>2. page'[g].pc = "idle"
      BY <1>1, <2>1, EndFacts
    <2>3. QED
      BY <1>3, <2>1, <2>2 DEF QueuePages
  <1>28. QED
    BY <1>4, <1>5, <1>6, <1>7, <1>8, <1>9, <1>10, <1>11, <1>12, <1>13, <1>14, <1>15, <1>16, <1>17, <1>18, <1>19, <1>20, <1>21, <1>22, <1>23, <1>24, <1>25, <1>26, <1>27 DEF Page
-----------------------------------------------------------------------------
(* The same for the printers.                                              *)

\* Whatever a page relies on survives the deletion of printers.
LEMMA PrintersDeleted ==
    ASSUME TypeOK, PrinterInv, NEW g \in Pages,
           \A h \in Pages \ {g} : page'[h] = page[h],
           printers' \in SUBSET printers, specific' = specific,
           printerRace' = printerRace, strayForm' = strayForm,
           ~printerRace /\ PrintersSound /\ AddsPrinter(g) /\ ChangesPrinter(g)
             => AddsPrinter(g)' /\ ChangesPrinter(g)'
    PROVE  PrinterInv'
  <1>1. SUFFICES ASSUME ~printerRace
                 PROVE  /\ PrintersSound'
                        /\ \A h \in Pages : AddsPrinter(h)' /\ ChangesPrinter(h)'
    BY DEF PrinterInv
  <1>2. PrintersSound /\ \A h \in Pages : AddsPrinter(h) /\ ChangesPrinter(h)
    BY <1>1 DEF PrinterInv
  <1>3. ASSUME NEW q
        PROVE  /\ Attached(q)' \subseteq Attached(q)
               /\ Cardinality(Attached(q)) \in Nat /\ Cardinality(Attached(q)') \in Nat
               /\ Cardinality(Attached(q)') <= Cardinality(Attached(q))
    <2>1. Attached(q)' \in SUBSET Attached(q)
      BY DEF Attached
    <2>2. IsFiniteSet(Attached(q)) /\ Cardinality(Attached(q)) \in Nat
      BY TableFacts
    <2>3. QED
      BY <2>1, <2>2, FS_Subset, FS_CardinalityType
  <1>4. PrintersSound'
    <2>1. ASSUME NEW r \in printers'
          PROVE  Cardinality(Attached(r.queue)') <= MAX_PRINTERS_PER_QUEUE
      <3>1. Cardinality(Attached(r.queue)) <= MAX_PRINTERS_PER_QUEUE
        BY <1>2 DEF PrintersSound
      <3>2. QED
        BY <1>3, <3>1, AdminAssumption
    <2>2. \A r \in printers' : Cardinality(Attached(r.queue))' <= MAX_PRINTERS_PER_QUEUE
      BY <2>1 DEF Attached
    <2>3. QED
      BY <1>2, <2>2 DEF PrintersSound, Distinct, Attached
  <1>5. ASSUME NEW h \in Pages \ {g}
        PROVE  AddsPrinter(h)' /\ ChangesPrinter(h)'
    <2>1. page'[h] = page[h] /\ AddsPrinter(h) /\ ChangesPrinter(h)
      BY <1>2
    <2>2. Cardinality(Attached(page[h].queue)) < MAX_PRINTERS_PER_QUEUE
          => Cardinality(Attached(page[h].queue)') < MAX_PRINTERS_PER_QUEUE
      BY <1>3, AdminAssumption
    <2>3. Keys(printers') \subseteq Keys(printers)
      BY DEF Keys
    <2>4. \A n : Named(Attached(page[h].queue)', n) \subseteq Named(Attached(page[h].queue), n)
      BY DEF Named, Attached
    <2>5. AddsPrinter(h)'
      BY <2>1, <2>2, <2>3, <2>4 DEF AddsPrinter, Attached
    <2>6. ChangesPrinter(h)'
      BY <2>1, <2>3, <2>4 DEF ChangesPrinter, Attached, Named, WithKey
    <2>7. QED
      BY <2>5, <2>6
  <1>6. QED
    BY <1>1, <1>2, <1>4, <1>5

\* Any other change disturbs pages in their window only, and is recorded then.
LEMMA PrintersChanged ==
    ASSUME PrinterInv, NEW g \in Pages, MeetsPrinterPage(g),
           \A h \in Pages \ {g} : page'[h] = page[h],
           ~printerRace /\ PrintersSound /\ AddsPrinter(g) /\ ChangesPrinter(g)
             => PrintersSound' /\ AddsPrinter(g)' /\ ChangesPrinter(g)'
    PROVE  PrinterInv'
  <1>1. SUFFICES ASSUME ~printerRace'
                 PROVE  /\ PrintersSound'
                        /\ \A h \in Pages : AddsPrinter(h)' /\ ChangesPrinter(h)'
    BY DEF PrinterInv
  <1>2. ~printerRace /\ \A h \in Pages \ {g} : page[h].pc \notin PrinterPages
    BY <1>1 DEF MeetsPrinterPage, InWindow
  <1>3. PrintersSound' /\ AddsPrinter(g)' /\ ChangesPrinter(g)'
    BY <1>2 DEF PrinterInv
  <1>4. ASSUME NEW h \in Pages \ {g}
        PROVE  AddsPrinter(h)' /\ ChangesPrinter(h)'
    <2>1. page'[h].pc \notin PrinterPages
      BY <1>2
    <2>2. QED
      BY <2>1 DEF AddsPrinter, ChangesPrinter, PrinterPages
  <1>5. QED
    BY <1>3, <1>4

\* A page that is in none of the places where it relies on anything.
LEMMA PrinterPageFree ==
    ASSUME NEW g \in Pages, page'[g].pc \notin PrinterPages
    PROVE  AddsPrinter(g)' /\ ChangesPrinter(g)'
  BY DEF AddsPrinter, ChangesPrinter, PrinterPages

\* Rows of pjl_jetdirect under a key that no printer has may go.
LEMMA SpecificDeleted ==
    ASSUME PrintersSound, NEW k, k \notin Keys(printers),
           specific' = specific \ WithKey(specific, k), printers' = printers,
           strayForm' = strayForm
    PROVE  PrintersSound'
  <1>1. ASSUME NEW r \in printers
        PROVE  WithKey(specific', r.key) = WithKey(specific, r.key)
    <2>1. r.key # k
      BY DEF Keys
    <2>2. QED
      BY <2>1 DEF WithKey
  <1>2. \A r \in printers' : {s.req : s \in WithKey(specific', r.key)} = {r.req}
    BY <1>1 DEF PrintersSound
  <1>3. \A r \in printers' : Cardinality(Attached(r.queue))' <= MAX_PRINTERS_PER_QUEUE
    BY DEF PrintersSound, Attached
  <1>4. QED
    BY <1>2, <1>3 DEF PrintersSound, Distinct

\* The statements of a page keep what it and the others have seen.
LEMMA PrinterInvKept ==
    ASSUME TypeOK, PrinterInv, NEW g \in Pages, Page(g)
    PROVE  PrinterInv'
  <1>1. /\ page \in [Pages -> PageState] /\ page' \in [Pages -> PageState]
        /\ \A h \in Pages \ {g} : page'[h] = page[h]
    BY PageMoves DEF Moved, TypeOK, PageTypes
  <1>2. ASSUME UNCHANGED <<printers, specific, printerRace, strayForm>>,
               ~printerRace /\ PrintersSound /\ AddsPrinter(g) /\ ChangesPrinter(g)
                 => AddsPrinter(g)' /\ ChangesPrinter(g)'
        PROVE  PrinterInv'
    BY <1>1, <1>2, PrintersDeleted
  <1>3. ASSUME UNCHANGED <<printers, specific, printerRace, strayForm>>,
               page'[g].pc \notin PrinterPages
        PROVE  PrinterInv'
    BY <1>2, <1>3, PrinterPageFree
  <1>4. CASE ShowForm(g)
    <2>1. /\ page'[g].pc \in {"aq look", "uq look", "dq printers", "ap count", "up look",
                              "dp generic"}
          /\ UNCHANGED <<printers, specific, printerRace, strayForm>>
      BY <1>4, FormFacts DEF tables, races
    <2>2. QED
      BY <1>3, <2>1 DEF PrinterPages
  <1>5. CASE Stop(g)
    <2>1. /\ page' = [page EXCEPT ![g] = Idle]
          /\ UNCHANGED <<printers, specific, printerRace, strayForm>>
      BY <1>5 DEF Stop, tables, races
    <2>2. page'[g].pc = "idle"
      BY <1>1, <2>1, EndFacts
    <2>3. QED
      BY <1>3, <2>1, <2>2 DEF PrinterPages
  <1>6. CASE AqLookup(g)
    <2>1. /\ Step(g, "aq look", "aq count") /\ "aq count" \in Pcs
          /\ UNCHANGED <<printers, specific, printerRace, strayForm>>
      BY <1>6 DEF AqLookup, Pcs, QueuePages, PrinterPages, tables, races
    <2>2. /\ page[g].pc = "aq look" /\ page'[g].pc = "aq count"
          /\ page'[g].req = page[g].req /\ page'[g].name = page[g].name
          /\ page'[g].queue = page[g].queue /\ page'[g].key = page[g].key
      BY <1>1, <2>1, StepFacts
    <2>3. QED
      BY <1>3, <2>1, <2>2 DEF PrinterPages
  <1>7. CASE AqCount(g)
    <2>1. /\ Step(g, "aq count", "aq name") /\ "aq name" \in Pcs
          /\ UNCHANGED <<printers, specific, printerRace, strayForm>>
      BY <1>7 DEF AqCount, Pcs, QueuePages, PrinterPages, tables, races
    <2>2. /\ page[g].pc = "aq count" /\ page'[g].pc = "aq name"
          /\ page'[g].req = page[g].req /\ page'[g].name = page[g].name
          /\ page'[g].queue = page[g].queue /\ page'[g].key = page[g].key
      BY <1>1, <2>1, StepFacts
    <2>3. QED
      BY <1>3, <2>1, <2>2 DEF PrinterPages
  <1>8. CASE AqName(g)
    <2>1. /\ Step(g, "aq name", "aq key") /\ "aq key" \in Pcs
          /\ UNCHANGED <<printers, specific, printerRace, strayForm>>
      BY <1>8 DEF AqName, Pcs, QueuePages, PrinterPages, tables, races
    <2>2. /\ page[g].pc = "aq name" /\ page'[g].pc = "aq key"
          /\ page'[g].req = page[g].req /\ page'[g].name = page[g].name
          /\ page'[g].queue = page[g].queue /\ page'[g].key = page[g].key
      BY <1>1, <2>1, StepFacts
    <2>3. QED
      BY <1>3, <2>1, <2>2 DEF PrinterPages
  <1>9. CASE AqKey(g)
    <2>1. UNCHANGED <<printers, specific, printerRace, strayForm>>
      BY <1>9 DEF AqKey, tables, races
    <2>2. page'[g].pc = "aq rm"
      BY <1>1, <1>9 DEF AqKey, PageState
    <2>3. QED
      BY <1>3, <2>1, <2>2 DEF PrinterPages
  <1>10. CASE AqRemoveDir(g)
    <2>1. /\ Step(g, "aq rm", "aq mkdir") /\ "aq mkdir" \in Pcs
          /\ UNCHANGED <<printers, specific, printerRace, strayForm>>
      BY <1>10 DEF AqRemoveDir, Pcs, QueuePages, PrinterPages, tables, races
    <2>2. /\ page[g].pc = "aq rm" /\ page'[g].pc = "aq mkdir"
          /\ page'[g].req = page[g].req /\ page'[g].name = page[g].name
          /\ page'[g].queue = page[g].queue /\ page'[g].key = page[g].key
      BY <1>1, <2>1, StepFacts
    <2>3. QED
      BY <1>3, <2>1, <2>2 DEF PrinterPages
  <1>11. CASE AqMakeDir(g)
    <2>1. /\ Step(g, "aq mkdir", "aq insert") /\ "aq insert" \in Pcs
          /\ UNCHANGED <<printers, specific, printerRace, strayForm>>
      BY <1>11 DEF AqMakeDir, Pcs, QueuePages, PrinterPages, tables, races
    <2>2. /\ page[g].pc = "aq mkdir" /\ page'[g].pc = "aq insert"
          /\ page'[g].req = page[g].req /\ page'[g].name = page[g].name
          /\ page'[g].queue = page[g].queue /\ page'[g].key = page[g].key
      BY <1>1, <2>1, StepFacts
    <2>3. QED
      BY <1>3, <2>1, <2>2 DEF PrinterPages
  <1>12. CASE AqInsert(g)
    <2>1. page' = [page EXCEPT ![g] = Idle] /\ UNCHANGED <<printers, specific, printerRace, strayForm>>
      BY <1>12 DEF AqInsert, End, tables
    <2>2. page'[g].pc = "idle"
      BY <1>1, <2>1, EndFacts
    <2>3. QED
      BY <1>3, <2>1, <2>2 DEF PrinterPages
  <1>13. CASE UqLookup(g)
    <2>1. /\ Step(g, "uq look", "uq update") /\ "uq update" \in Pcs
          /\ UNCHANGED <<printers, specific, printerRace, strayForm>>
      BY <1>13 DEF UqLookup, Pcs, QueuePages, PrinterPages, tables, races
    <2>2. /\ page[g].pc = "uq look" /\ page'[g].pc = "uq update"
          /\ page'[g].req = page[g].req /\ page'[g].name = page[g].name
          /\ page'[g].queue = page[g].queue /\ page'[g].key = page[g].key
      BY <1>1, <2>1, StepFacts
    <2>3. QED
      BY <1>3, <2>1, <2>2 DEF PrinterPages
  <1>14. CASE UqUpdate(g)
    <2>1. page' = [page EXCEPT ![g] = Idle] /\ UNCHANGED <<printers, specific, printerRace, strayForm>>
      BY <1>14 DEF UqUpdate, End, tables
    <2>2. page'[g].pc = "idle"
      BY <1>1, <2>1, EndFacts
    <2>3. QED
      BY <1>3, <2>1, <2>2 DEF PrinterPages
  <1>15. CASE DqPrinters(g)
    <2>1. /\ Step(g, "dq printers", "dq delete") /\ "dq delete" \in Pcs
          /\ UNCHANGED <<printers, specific, printerRace, strayForm>>
      BY <1>15 DEF DqPrinters, Pcs, QueuePages, PrinterPages, tables, races
    <2>2. /\ page[g].pc = "dq printers" /\ page'[g].pc = "dq delete"
          /\ page'[g].req = page[g].req /\ page'[g].name = page[g].name
          /\ page'[g].queue = page[g].queue /\ page'[g].key = page[g].key
      BY <1>1, <2>1, StepFacts
    <2>3. QED
      BY <1>3, <2>1, <2>2 DEF PrinterPages
  <1>16. CASE DqDelete(g)
    <2>1. /\ Step(g, "dq delete", "dq rm") /\ "dq rm" \in Pcs
          /\ UNCHANGED <<printers, specific, printerRace, strayForm>>
      BY <1>16 DEF DqDelete, Pcs, QueuePages, PrinterPages, tables, races
    <2>2. /\ page[g].pc = "dq delete" /\ page'[g].pc = "dq rm"
          /\ page'[g].req = page[g].req /\ page'[g].name = page[g].name
          /\ page'[g].queue = page[g].queue /\ page'[g].key = page[g].key
      BY <1>1, <2>1, StepFacts
    <2>3. QED
      BY <1>3, <2>1, <2>2 DEF PrinterPages
  <1>17. CASE DqRemoveDir(g)
    <2>1. page' = [page EXCEPT ![g] = Idle] /\ UNCHANGED <<printers, specific, printerRace, strayForm>>
      BY <1>17 DEF DqRemoveDir, End, tables
    <2>2. page'[g].pc = "idle"
      BY <1>1, <2>1, EndFacts
    <2>3. QED
      BY <1>3, <2>1, <2>2 DEF PrinterPages
  <1>18. CASE ApCount(g)
    <2>1. /\ Step(g, "ap count", "ap name") /\ "ap name" \in Pcs
          /\ UNCHANGED <<printers, specific, printerRace, strayForm>>
      BY <1>18 DEF ApCount, Pcs, QueuePages, PrinterPages, tables, races
    <2>2. /\ page[g].pc = "ap count" /\ page'[g].pc = "ap name"
          /\ page'[g].req = page[g].req /\ page'[g].name = page[g].name
          /\ page'[g].queue = page[g].queue /\ page'[g].key = page[g].key
      BY <1>1, <2>1, StepFacts
    <2>3. QED
      BY <1>2, <2>1, <2>2, <1>18 DEF ApCount, AddsPrinter, ChangesPrinter, Attached
  <1>19. CASE ApName(g)
    <2>1. /\ Step(g, "ap name", "ap key") /\ "ap key" \in Pcs
          /\ UNCHANGED <<printers, specific, printerRace, strayForm>>
      BY <1>19 DEF ApName, Pcs, QueuePages, PrinterPages, tables, races
    <2>2. /\ page[g].pc = "ap name" /\ page'[g].pc = "ap key"
          /\ page'[g].req = page[g].req /\ page'[g].name = page[g].name
          /\ page'[g].queue = page[g].queue /\ page'[g].key = page[g].key
      BY <1>1, <2>1, StepFacts
    <2>3. QED
      BY <1>2, <2>1, <2>2, <1>19 DEF ApName, AddsPrinter, ChangesPrinter, Attached
  <1>20. CASE UpLookup(g)
    <2>1. /\ Step(g, "up look", "up update") /\ "up update" \in Pcs
          /\ UNCHANGED <<printers, specific, printerRace, strayForm>>
      BY <1>20 DEF UpLookup, Pcs, QueuePages, PrinterPages, tables, races
    <2>2. /\ page[g].pc = "up look" /\ page'[g].pc = "up update"
          /\ page'[g].req = page[g].req /\ page'[g].name = page[g].name
          /\ page'[g].queue = page[g].queue /\ page'[g].key = page[g].key
      BY <1>1, <2>1, StepFacts
    <2>3. QED
      BY <1>2, <2>1, <2>2, <1>20 DEF UpLookup, AddsPrinter, ChangesPrinter, Attached
  <1>21. CASE ApKey(g)
    <2>1. UNCHANGED <<printers, specific, printerRace, strayForm>>
      BY <1>21 DEF ApKey, tables, races
    <2>2. /\ page[g].pc = "ap key" /\ page'[g].pc = "ap clear"
          /\ page'[g].name = page[g].name /\ page'[g].queue = page[g].queue
          /\ page'[g].key = FreeKey(printers)
      BY <1>1, <1>21 DEF ApKey, PageState
    <2>3. ASSUME PrintersSound, AddsPrinter(g)
          PROVE  AddsPrinter(g)'
      <3>1. /\ IsFiniteSet(printers)
            /\ \A r \in printers : r.key \in Nat
            /\ \A r, s \in printers : r # s => r.key # s.key
        BY <2>3, TableFacts DEF PrintersSound, Distinct
      <3>2. FreeKey(printers) \notin Keys(printers)
        BY <3>1, FreeKeyIsFree
      <3>3. QED
        BY <2>1, <2>2, <2>3, <3>2 DEF AddsPrinter, Attached
    <2>4. ChangesPrinter(g)'
      BY <2>2 DEF ChangesPrinter
    <2>5. QED
      BY <1>2, <2>1, <2>3, <2>4
  <1>22. CASE ApClear(g)
    <2>1. /\ Step(g, "ap clear", "ap specific") /\ "ap specific" \in Pcs
          /\ UNCHANGED <<printers, strayForm>>
      BY <1>22 DEF ApClear, Pcs, QueuePages, PrinterPages, tables
    <2>2. /\ page[g].pc = "ap clear" /\ page'[g].pc = "ap specific"
          /\ page'[g].req = page[g].req /\ page'[g].name = page[g].name
          /\ page'[g].queue = page[g].queue /\ page'[g].key = page[g].key
      BY <1>1, <2>1, StepFacts
    <2>3. specific' = specific \ WithKey(specific, page[g].key) /\ MeetsPrinterPage(g)
      BY <1>22 DEF ApClear
    <2>4. ASSUME PrintersSound, AddsPrinter(g)
          PROVE  PrintersSound' /\ AddsPrinter(g)'
      <3>1. page[g].key \notin Keys(printers)
        BY <2>2, <2>4 DEF AddsPrinter
      <3>2. PrintersSound'
        BY <2>1, <2>3, <2>4, <3>1, SpecificDeleted
      <3>3. WithKey(specific', page[g].key) = {}
        BY <2>3 DEF WithKey
      <3>4. AddsPrinter(g)'
        BY <2>1, <2>2, <2>4, <3>3 DEF AddsPrinter, Attached
      <3>5. QED
        BY <3>2, <3>4
    <2>5. ChangesPrinter(g)'
      BY <2>2 DEF ChangesPrinter
    <2>6. QED
      BY <1>1, <2>3, <2>4, <2>5, PrintersChanged
  <1>23. CASE ApInsertSpecific(g)
    <2>1. /\ Step(g, "ap specific", "ap insert") /\ "ap insert" \in Pcs
          /\ UNCHANGED <<printers, strayForm>>
      BY <1>23 DEF ApInsertSpecific, Pcs, QueuePages, PrinterPages, tables
    <2>2. /\ page[g].pc = "ap specific" /\ page'[g].pc = "ap insert"
          /\ page'[g].req = page[g].req /\ page'[g].name = page[g].name
          /\ page'[g].queue = page[g].queue /\ page'[g].key = page[g].key
      BY <1>1, <2>1, StepFacts
    <2>3. /\ specific' = specific \cup {[req |-> page[g].req, key |-> page[g].key]}
          /\ MeetsPrinterPage(g)
      BY <1>23 DEF ApInsertSpecific
    <2>4. ASSUME PrintersSound, AddsPrinter(g)
          PROVE  PrintersSound' /\ AddsPrinter(g)'
      <3> DEFINE new == [req |-> page[g].req, key |-> page[g].key]
      <3>1. page[g].key \notin Keys(printers) /\ WithKey(specific, page[g].key) = {}
        BY <2>2, <2>4 DEF AddsPrinter
      <3>2. specific' = specific \cup {new} /\ new.key = page[g].key /\ new.req = page[g].req
        BY <2>3
      <3> HIDE DEF new
      <3>3. ASSUME NEW r \in printers
            PROVE  WithKey(specific', r.key) = WithKey(specific, r.key)
        <4>1. r.key # page[g].key
          BY <3>1 DEF Keys
        <4>2. QED
          BY <3>2, <4>1 DEF WithKey
      <3>4. \A r \in printers' : {s.req : s \in WithKey(specific', r.key)} = {r.req}
        BY <2>1, <2>4, <3>3 DEF PrintersSound
      <3>5. \A r \in printers' : Cardinality(Attached(r.queue))' <= MAX_PRINTERS_PER_QUEUE
        BY <2>1, <2>4 DEF PrintersSound, Attached
      <3>6. PrintersSound'
        BY <2>1, <2>4, <3>4, <3>5 DEF PrintersSound, Distinct
      <3>7. WithKey(specific', page[g].key) = {new}
        BY <3>1, <3>2 DEF WithKey
      <3>8. {s.req : s \in WithKey(specific', page[g].key)} = {page[g].req}
        BY <3>2, <3>7
      <3>9. AddsPrinter(g)'
        BY <2>1, <2>2, <2>4, <3>8 DEF AddsPrinter, Attached
      <3>10. QED
        BY <3>6, <3>9
    <2>5. ChangesPrinter(g)'
      BY <2>2 DEF ChangesPrinter
    <2>6. QED
      BY <1>1, <2>3, <2>4, <2>5, PrintersChanged
  <1>24. CASE ApInsert(g)
    <2>1. page' = [page EXCEPT ![g] = Idle] /\ page[g].pc = "ap insert"
      BY <1>24 DEF ApInsert, End
    <2>2. page'[g].pc = "idle"
      BY <1>1, <2>1, EndFacts
    <2>3. AddsPrinter(g)' /\ ChangesPrinter(g)'
      BY <2>2, PrinterPageFree DEF PrinterPages
    <2>4. /\ printers' = printers \cup
                {[req |-> page[g].req, name |-> page[g].name, queue |-> page[g].queue,
                  key |-> page[g].key]}
          /\ UNCHANGED <<specific, strayForm>> /\ MeetsPrinterPage(g)
      BY <1>24 DEF ApInsert
    <2>5. ASSUME PrintersSound, AddsPrinter(g)
          PROVE  PrintersSound'
      <3>0. PICK new : new = [req |-> page[g].req, name |-> page[g].name,
                              queue |-> page[g].queue, key |-> page[g].key]
        OBVIOUS
      <3>1. /\ Cardinality(Attached(new.queue)) < MAX_PRINTERS_PER_QUEUE
            /\ Named(Attached(new.queue), new.name) = {}
            /\ new.key \notin Keys(printers)
            /\ {s.req : s \in WithKey(specific, new.key)} = {new.req}
        BY <2>1, <2>5, <3>0 DEF AddsPrinter
      <3>2. printers' = printers \cup {new}
        BY <2>4, <3>0
      <3>3. \A r \in printers : /\ r.key # new.key
                                /\ r.queue = new.queue => r.name # new.name
        BY <3>1 DEF Named, Keys, Attached
      <3>4. ASSUME NEW q
            PROVE  /\ q = new.queue => Attached(q)' = Attached(q) \cup {new}
                   /\ q # new.queue => Attached(q)' = Attached(q)
        BY <3>2 DEF Attached
      <3>5. Cardinality(Attached(new.queue)') <= MAX_PRINTERS_PER_QUEUE
        <4>1. IsFiniteSet(Attached(new.queue)) /\ Cardinality(Attached(new.queue)) \in Nat
          BY TableFacts
        <4>2. \/ Cardinality(Attached(new.queue)') = Cardinality(Attached(new.queue))
              \/ Cardinality(Attached(new.queue)') = Cardinality(Attached(new.queue)) + 1
          BY <3>4, <4>1, FS_AddElement
        <4>3. QED
          BY <3>1, <4>1, <4>2, AdminAssumption
      <3>6. ASSUME NEW r \in printers'
            PROVE  Cardinality(Attached(r.queue)') <= MAX_PRINTERS_PER_QUEUE
        BY <2>5, <3>2, <3>4, <3>5 DEF PrintersSound
      <3>7. \A r \in printers' : Cardinality(Attached(r.queue))' <= MAX_PRINTERS_PER_QUEUE
        BY <3>6 DEF Attached
      <3>8. \A r \in printers' : {s.req : s \in WithKey(specific', r.key)} = {r.req}
        BY <2>4, <2>5, <3>1, <3>2 DEF PrintersSound
      <3>9. \A r, s \in printers' : r # s => r.key # s.key
        BY <2>5, <3>2, <3>3 DEF PrintersSound, Distinct
      <3>10. ASSUME ~strayForm
             PROVE  \A r, s \in printers' : r # s => r.queue # s.queue \/ r.name # s.name
        BY <2>5, <3>2, <3>3, <3>10 DEF PrintersSound, Distinct
      <3>11. QED
        BY <2>4, <3>7, <3>8, <3>9, <3>10 DEF PrintersSound, Distinct
    <2>6. QED
      BY <1>1, <2>3, <2>4, <2>5, PrintersChanged
  <1>25. CASE UpUpdate(g)
    <2>1. page' = [page EXCEPT ![g] = Idle] /\ page[g].pc = "up update"
      BY <1>25 DEF UpUpdate, End
    <2>2. page'[g].pc = "idle"
      BY <1>1, <2>1, EndFacts
    <2>3. AddsPrinter(g)' /\ ChangesPrinter(g)'
      BY <2>2, PrinterPageFree DEF PrinterPages
    <2>4. /\ printers' = Renamed(printers, page[g].key, page[g].name)
          /\ \/ strayForm'
             \/ /\ ~strayForm
                /\ \A r \in printers : r.key = page[g].key => r.queue = page[g].queue
          /\ specific' = specific /\ MeetsPrinterPage(g)
      BY <1>25 DEF UpUpdate, Renamed, WithKey
    <2>5. page[g].name \in Names /\ printers \in SUBSET PrinterRows /\ IsFiniteSet(printers)
      BY <1>1 DEF TypeOK, TableTypes, PageState
    <2>6. \A t \in printers' : \E r \in printers :
            /\ t.key = r.key /\ t.req = r.req /\ t.queue = r.queue
            /\ r.key = page[g].key => t.name = page[g].name
            /\ r.key # page[g].key => t = r
      <3> DEFINE T == Renamed(printers, page[g].key, page[g].name)
      <3>1. \A t \in T : \E r \in printers :
              /\ t.key = r.key /\ t.req = r.req /\ t.queue = r.queue
              /\ r.key = page[g].key => t.name = page[g].name
              /\ r.key # page[g].key => t = r
        <4> DEFINE k == page[g].key
                   n == page[g].name
        <4> HIDE DEF k, n
        <4>1. n \in Names /\ (PrinterRows = QueueRows \/ PrinterRows = PrinterRows)
          BY <2>5 DEF n
        <4>2. \A t \in Renamed(printers, k, n) : \E r \in printers :
                /\ t.key = r.key /\ t.req = r.req
                /\ PrinterRows = PrinterRows => t.queue = r.queue
                /\ r.key = k => t.name = n
                /\ r.key # k => t = r
          BY <2>5, <4>1, RenamedFacts, SMTT(30)
        <4>3. QED
          BY <4>2 DEF k, n
      <3> HIDE DEF T
      <3>2. QED
        BY <2>4, <3>1 DEF T
    <2>7. ASSUME PrintersSound, ChangesPrinter(g)
          PROVE  PrintersSound'
      <3>1. \A r \in printers : r.queue = page[g].queue /\ r.name = page[g].name
                                => r.key = page[g].key
        BY <2>1, <2>7 DEF ChangesPrinter, Named, WithKey, Attached
      <3>2. \A r, s \in printers : r # s => r.key # s.key
        BY <2>7 DEF PrintersSound, Distinct
      <3>3. ASSUME NEW t \in printers', NEW u \in printers', t.key = u.key
            PROVE  t = u
        <4>1. t \in PrinterRows /\ u \in PrinterRows
          BY <2>4, <2>5, RenamedFacts
        <4>2. t.name = u.name /\ t.req = u.req /\ t.queue = u.queue
          BY <2>6, <3>2, <3>3
        <4>3. QED
          BY <3>3, <4>1, <4>2 DEF PrinterRows
      <3>4. ASSUME ~strayForm',
                   NEW t \in printers', NEW u \in printers',
                   t.queue = u.queue, t.name = u.name
            PROVE  t.key = u.key
        <4>1. /\ \A r, s \in printers : r # s => r.queue # s.queue \/ r.name # s.name
              /\ \A r \in printers : r.key = page[g].key => r.queue = page[g].queue
          BY <2>4, <2>7, <3>4 DEF PrintersSound, Distinct
        <4>2. QED
          BY <2>6, <3>1, <3>4, <4>1
      <3>5. ASSUME NEW q
            PROVE  Attached(q)' = Renamed(Attached(q), page[g].key, page[g].name)
        <4>1. ASSUME NEW r \in printers
              PROVE  [r EXCEPT !.name = page[g].name].queue = r.queue
          BY <2>5 DEF PrinterRows
        <4>2. QED
          BY <2>4, <4>1 DEF Attached, Renamed, WithKey
      <3>6. ASSUME NEW t \in printers'
            PROVE  Cardinality(Attached(t.queue)') <= MAX_PRINTERS_PER_QUEUE
        <4>1. Cardinality(Attached(t.queue)) <= MAX_PRINTERS_PER_QUEUE
          BY <2>6, <2>7 DEF PrintersSound
        <4>2. /\ Attached(t.queue) \in SUBSET PrinterRows /\ IsFiniteSet(Attached(t.queue))
              /\ Cardinality(Attached(t.queue)) \in Nat
          BY <2>5, TableFacts DEF Attached
        <4>3. /\ Cardinality(Attached(t.queue)') \in Nat
              /\ Cardinality(Attached(t.queue)') <= Cardinality(Attached(t.queue))
          BY <2>5, <3>5, <4>2, RenamedFacts
        <4>4. QED
          BY <4>1, <4>2, <4>3, AdminAssumption
      <3>7. \A t \in printers' : Cardinality(Attached(t.queue))' <= MAX_PRINTERS_PER_QUEUE
        BY <3>6 DEF Attached
      <3>8. \A t \in printers' : {s.req : s \in WithKey(specific', t.key)} = {t.req}
        BY <2>4, <2>6, <2>7 DEF PrintersSound
      <3>9. QED
        BY <3>3, <3>4, <3>7, <3>8 DEF PrintersSound, Distinct
    <2>8. QED
      BY <1>1, <2>3, <2>4, <2>7, PrintersChanged
  <1>26. CASE DpGeneric(g)
    <2>1. /\ Step(g, "dp generic", "dp specific") /\ "dp specific" \in Pcs
          /\ UNCHANGED <<specific, printerRace, strayForm>>
      BY <1>26 DEF DpGeneric, Pcs, QueuePages, PrinterPages, races
    <2>2. /\ page[g].pc = "dp generic" /\ page'[g].pc = "dp specific"
          /\ page'[g].req = page[g].req /\ page'[g].name = page[g].name
          /\ page'[g].queue = page[g].queue /\ page'[g].key = page[g].key
      BY <1>1, <2>1, StepFacts
    <2>3. printers' = printers \ WithKey(printers, page[g].key)
      BY <1>26 DEF DpGeneric
    <2>4. AddsPrinter(g)'
      BY <2>2 DEF AddsPrinter
    <2>5. ChangesPrinter(g)'
      BY <2>2, <2>3 DEF ChangesPrinter, Keys, WithKey
    <2>6. printers' \in SUBSET printers
      BY <2>3
    <2>7. QED
      BY <1>1, <2>1, <2>4, <2>5, <2>6, PrintersDeleted
  <1>27. CASE DpSpecific(g)
    <2>1. page' = [page EXCEPT ![g] = Idle] /\ page[g].pc = "dp specific"
      BY <1>27 DEF DpSpecific, End
    <2>2. page'[g].pc = "idle"
      BY <1>1, <2>1, EndFacts
    <2>3. AddsPrinter(g)' /\ ChangesPrinter(g)'
      BY <2>2, PrinterPageFree DEF PrinterPages
    <2>4. /\ specific' = specific \ WithKey(specific, page[g].key)
          /\ UNCHANGED <<printers, strayForm>> /\ MeetsPrinterPage(g)
      BY <1>27 DEF DpSpecific
    <2>5. ASSUME PrintersSound, ChangesPrinter(g)
          PROVE  PrintersSound'
      <3>1. page[g].key \notin Keys(printers)
        BY <2>1, <2>5 DEF ChangesPrinter
      <3>2. QED
        BY <2>4, <2>5, <3>1, SpecificDeleted
    <2>6. QED
      BY <1>1, <2>3, <2>4, <2>5, PrintersChanged
  <1>28. QED
    BY <1>4, <1>5, <1>6, <1>7, <1>8, <1>9, <1>10, <1>11, <1>12, <1>13, <1>14, <1>15, <1>16, <1>17, <1>18, <1>19, <1>20, <1>21, <1>22, <1>23, <1>24, <1>25, <1>26, <1>27 DEF Page
-----------------------------------------------------------------------------
(* What the daemon reads.                                                  *)

\* A row was there under its request and key, or is the one a page puts in.
LEMMA PrintersFrom ==
    ASSUME TypeOK, NEW g \in Pages, Page(g)
    PROVE  /\ reader' = reader
           /\ printerRace => printerRace'
           /\ \/ \A t \in printers' : \E r \in printers : t.req = r.req /\ t.key = r.key
              \/ /\ page[g].pc # "idle" /\ page'[g].pc = "idle" /\ requests' = requests
                 /\ page'[g].req = 0
                 /\ \A t \in printers' : \/ t \in printers
                                         \/ t.req = page[g].req /\ t.key = page[g].key
  <1>1. /\ page \in [Pages -> PageState] /\ page[g].name \in Names
        /\ printers \in SUBSET PrinterRows /\ IsFiniteSet(printers)
    BY DEF TypeOK, TableTypes, PageTypes, PageState
  <1>2. CASE ApInsert(g)
    <2>1. /\ page[g].pc = "ap insert" /\ page' = [page EXCEPT ![g] = Idle]
          /\ requests' = requests /\ reader' = reader
          /\ printers' = printers \cup
                {[req |-> page[g].req, name |-> page[g].name, queue |-> page[g].queue,
                  key |-> page[g].key]}
          /\ printerRace => printerRace'
      BY <1>2 DEF ApInsert, End, MeetsPrinterPage
    <2>2. page'[g].pc = "idle" /\ page'[g].req = 0 /\ page[g].pc # "idle"
      BY <1>1, <2>1, EndFacts
    <2>3. ASSUME NEW t \in printers', t \notin printers
          PROVE  t.req = page[g].req /\ t.key = page[g].key
      <3>1. t = [req |-> page[g].req, name |-> page[g].name, queue |-> page[g].queue,
                 key |-> page[g].key]
        BY <2>1, <2>3
      <3>2. QED
        BY ONLY <3>1
    <2>4. QED
      BY <2>1, <2>2, <2>3
  <1>3. CASE UpUpdate(g)
    <2>1. /\ printers' = Renamed(printers, page[g].key, page[g].name) /\ reader' = reader
          /\ printerRace => printerRace'
      BY <1>3 DEF UpUpdate, Renamed, MeetsPrinterPage
    <2>2. \A t \in printers' : \E r \in printers : t.req = r.req /\ t.key = r.key
      BY <1>1, <2>1, RenamedFacts
    <2>3. QED
      BY <2>1, <2>2
  <1>4. CASE ShowForm(g)
    BY <1>4, FormFacts DEF tables, races
  <1>5. ASSUME printers' \subseteq printers, reader' = reader, printerRace => printerRace'
        PROVE  /\ reader' = reader
               /\ printerRace => printerRace'
               /\ \A t \in printers' : \E r \in printers : t.req = r.req /\ t.key = r.key
    BY <1>5
  <1>6. CASE \/ Stop(g) \/ AqLookup(g) \/ AqCount(g) \/ AqName(g) \/ AqKey(g)
             \/ AqRemoveDir(g) \/ AqMakeDir(g) \/ AqInsert(g) \/ UqLookup(g) \/ UqUpdate(g)
             \/ DqPrinters(g) \/ DqDelete(g) \/ DqRemoveDir(g)
    BY <1>5, <1>6
       DEF Stop, AqLookup, AqCount, AqName, AqKey, AqRemoveDir, AqMakeDir, AqInsert,
           UqLookup, UqUpdate, DqPrinters, DqDelete, DqRemoveDir, tables, races
  <1>7. CASE \/ ApCount(g) \/ ApName(g) \/ ApKey(g) \/ ApClear(g) \/ ApInsertSpecific(g)
             \/ UpLookup(g) \/ DpGeneric(g) \/ DpSpecific(g)
    BY <1>5, <1>7
       DEF ApCount, ApName, ApKey, ApClear, ApInsertSpecific, UpLookup, DpGeneric,
           DpSpecific, MeetsPrinterPage, tables, races
  <1>8. QED
    BY <1>2, <1>3, <1>4, <1>6, <1>7 DEF Page

\* No two pages and no two printers have the same request.
LEMMA RequestsKept ==
    ASSUME TypeOK, RequestsOnce, NEW g \in Pages, Page(g)
    PROVE  RequestsOnce'
  <1> DEFINE rows == printers \cup reader.rows
  <1>1. /\ page \in [Pages -> PageState] /\ requests \in Nat
        /\ \A r \in rows : r.req \in Nat
    <2>1. rows \in SUBSET PrinterRows
      BY DEF TypeOK, TableTypes
    <2>2. \A r \in rows : r.req \in Nat
      BY <2>1 DEF PrinterRows
    <2>3. QED
      BY <2>2 DEF TypeOK, TableTypes, PageTypes
  <1>2. \A h \in Pages : page[h].req \in Nat
    BY <1>1 DEF PageState
  <1>3. Moved(g)
    BY PageMoves
  <1> DEFINE Kept == \A t \in rows' : \E r \in rows : t.req = r.req /\ t.key = r.key
             Added == /\ page[g].pc # "idle" /\ page'[g].pc = "idle"
                      /\ requests' = requests /\ page'[g].req = 0
                      /\ \A t \in rows' : \/ t \in rows
                                          \/ t.req = page[g].req /\ t.key = page[g].key
  <1>4. Kept \/ Added
    BY PrintersFrom
  <1>5. /\ \A r \in rows : r.req <= requests
        /\ \A h \in Pages : /\ page[h].req <= requests
                            /\ page[h].pc # "idle" => page[h].req > 0
        /\ \A h, i \in Pages : h # i /\ page[h].pc # "idle" => page[h].req # page[i].req
        /\ \A h \in Pages, r \in rows : page[h].pc # "idle" => page[h].req # r.req
        /\ \A r, s \in rows : r.req = s.req => r.key = s.key
    BY DEF RequestsOnce
  <1> HIDE DEF rows
  <1>6. \/ page'[g].pc = "idle" /\ page'[g].req = 0 /\ requests' = requests
        \/ page[g].pc # "idle" /\ page'[g].req = page[g].req /\ requests' = requests
        \/ page'[g].req = requests + 1 /\ requests' = requests + 1
    BY <1>3 DEF Moved
  <1>7. \A h \in Pages \ {g} : page'[h] = page[h]
    BY <1>3 DEF Moved
  <1>8. /\ requests' \in Nat /\ requests <= requests'
        /\ \A r \in rows' : r.req <= requests'
    BY <1>1, <1>2, <1>4, <1>5, <1>6
  <1>9. ASSUME NEW h \in Pages
        PROVE  page'[h].req <= requests' /\ (page'[h].pc # "idle" => page'[h].req > 0)
    <2>1. CASE h = g
      BY <1>1, <1>2, <1>5, <1>6, <2>1
    <2>2. CASE h # g
      <3>1. page'[h] = page[h] /\ page[h].req <= requests /\ page[h].req \in Nat
        BY <1>2, <1>5, <1>7, <2>2
      <3>2. QED
        BY <1>1, <1>5, <1>8, <3>1
    <2>3. QED
      BY <2>1, <2>2
  <1>10. ASSUME NEW h \in Pages, NEW i \in Pages, h # i, page'[h].pc # "idle"
         PROVE  page'[h].req # page'[i].req
    <2>1. CASE h # g /\ i # g
      BY <1>5, <1>7, <1>10, <2>1
    <2>2. CASE h = g
      <3>1. page'[i] = page[i] /\ page[i].req <= requests /\ page[i].req \in Nat
        BY <1>2, <1>5, <1>7, <1>10, <2>2
      <3>2. QED
        BY <1>1, <1>5, <1>6, <1>10, <2>2, <3>1
    <2>3. CASE i = g
      <3>1. /\ page'[h] = page[h] /\ page[h].req <= requests /\ page[h].req \in Nat
            /\ page[h].req > 0
        BY <1>2, <1>5, <1>7, <1>10, <2>3
      <3>2. QED
        BY <1>1, <1>5, <1>6, <1>10, <2>3, <3>1
    <2>4. QED
      BY <2>1, <2>2, <2>3
  <1>11. ASSUME NEW h \in Pages, NEW t \in rows', page'[h].pc # "idle"
         PROVE  page'[h].req # t.req
    <2>1. \/ \E r \in rows : t.req = r.req
          \/ t.req = page[g].req /\ page[g].pc # "idle" /\ page'[g].pc = "idle"
      BY <1>4
    <2>2. CASE h = g
      <3>1. PICK r \in rows : t.req = r.req
        BY <1>11, <2>1, <2>2
      <3>2. r.req <= requests /\ r.req \in Nat
        BY <1>1, <1>5
      <3>3. QED
        BY <1>1, <1>5, <1>6, <1>11, <2>2, <3>1, <3>2
    <2>3. CASE h # g
      BY <1>5, <1>7, <1>11, <2>1, <2>3
    <2>4. QED
      BY <2>2, <2>3
  <1>12. ASSUME NEW t \in rows', NEW u \in rows', t.req = u.req
         PROVE  t.key = u.key
    <2>1. CASE Kept
      BY <1>5, <1>12, <2>1
    <2>2. CASE Added
      BY <1>5, <1>12, <2>2
    <2>3. QED
      BY <1>4, <2>1, <2>2
  <1>13. QED
    BY <1>8, <1>9, <1>10, <1>11, <1>12 DEF RequestsOnce, rows

\* The daemon stops at a printer that was deleted, and that does not come back.
LEMMA CrashKept ==
    ASSUME TypeOK, RequestsOnce, CrashedOnDeleted, NEW g \in Pages, Page(g)
    PROVE  CrashedOnDeleted'
  <1>1. SUFFICES ASSUME ~printerRace', reader'.pc = "crashed",
                        NEW r \in reader'.rows, NEW t \in printers', r.req = t.req
                 PROVE  FALSE
    BY DEF CrashedOnDeleted
  <1>2. reader' = reader /\ ~printerRace
    BY <1>1, PrintersFrom
  <1>3. \A s \in printers : r.req # s.req
    BY <1>1, <1>2 DEF CrashedOnDeleted
  <1>4. \/ \E s \in printers : t.req = s.req
        \/ page[g].pc # "idle" /\ t.req = page[g].req
    BY <1>1, PrintersFrom
  <1>5. QED
    BY <1>1, <1>2, <1>3, <1>4 DEF RequestsOnce

\* Reading keeps all of it: what is read was in the table, and a printer in
\* the table still has its row of pjl_jetdirect.
LEMMA ReadingKept ==
    ASSUME AdminInv, Read
    PROVE  QueueInv' /\ PrinterInv' /\ RequestsOnce' /\ CrashedOnDeleted'
  <1>1. UNCHANGED <<tables, dirs, page, requests, races>>
    BY DEF Read, ReadPrinters, ReadEnds, ReadSpecific, ReadNothing
  <1>2. reader'.rows \subseteq printers \cup reader.rows
    BY DEF Read, ReadPrinters, ReadEnds, ReadSpecific, ReadNothing, NoReader, AdminInv,
           TypeOK, TableTypes
  <1>3. QueueInv'
    <2>1. QueueInv /\ UNCHANGED <<queues, dirs, page, queueRace>>
      BY <1>1 DEF AdminInv, tables, races
    <2>2. QueuesSound => QueuesSound'
      BY <2>1 DEF QueuesSound, Distinct
    <2>3. \A g \in Pages : AddsQueue(g) /\ ChangesQueue(g) => AddsQueue(g)' /\ ChangesQueue(g)'
      BY <2>1 DEF AddsQueue, ChangesQueue
    <2>4. QED
      BY <2>1, <2>2, <2>3 DEF QueueInv
  <1>4. PrinterInv'
    <2>1. PrinterInv /\ UNCHANGED <<printers, specific, page, printerRace, strayForm>>
      BY <1>1 DEF AdminInv, tables, races
    <2>2. PrintersSound => PrintersSound'
      BY <2>1 DEF PrintersSound, Distinct, Attached
    <2>3. \A g \in Pages : AddsPrinter(g) /\ ChangesPrinter(g)
                           => AddsPrinter(g)' /\ ChangesPrinter(g)'
      BY <2>1 DEF AddsPrinter, ChangesPrinter, Attached
    <2>4. QED
      BY <2>1, <2>2, <2>3 DEF PrinterInv
  <1>5. RequestsOnce'
    BY <1>1, <1>2 DEF AdminInv, RequestsOnce, tables
  <1>6. CrashedOnDeleted'
    <2>1. SUFFICES ASSUME ~printerRace, reader'.pc = "crashed",
                          NEW r \in reader'.rows, NEW t \in printers, r.req = t.req
                   PROVE  FALSE
      BY <1>1 DEF CrashedOnDeleted, tables, races
    <2>2. CASE \E s \in reader.rows : ReadNothing(s)
      <3>1. PICK s \in reader.rows : ReadNothing(s)
        BY <2>2
      <3>2. r = s /\ WithKey(specific, r.key) = {} /\ r \in reader.rows
        BY <2>1, <3>1 DEF ReadNothing
      <3>3. t.key = r.key
        BY <2>1, <3>2 DEF AdminInv, RequestsOnce
      <3>4. {u.req : u \in WithKey(specific, t.key)} = {t.req}
        BY <2>1 DEF AdminInv, PrinterInv, PrintersSound
      <3>5. QED
        BY <3>2, <3>3, <3>4
    <2>3. CASE ReadPrinters
      BY <2>1, <2>3 DEF ReadPrinters
    <2>4. CASE ReadEnds
      BY <2>1, <2>4 DEF ReadEnds, NoReader
    <2>5. CASE \E s \in reader.rows : ReadSpecific(s)
      <3>1. PICK s \in reader.rows : ReadSpecific(s)
        BY <2>5
      <3>2. reader'.pc = "reading"
        BY <3>1 DEF ReadSpecific, AdminInv, TypeOK, TableTypes
      <3>3. QED
        BY <2>1, <3>2
    <2>6. QED
      BY <2>2, <2>3, <2>4, <2>5 DEF Read
  <1>7. QED
    BY <1>3, <1>4, <1>5, <1>6
-----------------------------------------------------------------------------
(* The theorems.                                                           *)

\* It holds at the start, for any number of queues set up.
LEMMA InitAdmin == Init => AdminInv
  <1>1. SUFFICES ASSUME Init
                 PROVE  AdminInv
    OBVIOUS
  <1>2. PICK n \in StartQueues :
          LET first == 0 .. (n - 1)
          IN  /\ \E names \in [first -> QueueNames] :
                   /\ \A k, l \in first : k # l => names[k] # names[l]
                   /\ queues = {[req |-> k, name |-> names[k], key |-> k] : k \in first}
              /\ \E names \in [first -> PrinterNames] :
                   printers = {[req |-> k, name |-> names[k], queue |-> k, key |-> k]
                                 : k \in first}
              /\ dirs = {[key |-> k, req |-> k] : k \in first}
              /\ specific = {[req |-> k, key |-> k] : k \in first}
              /\ requests = n
    BY <1>1 DEF Init
  <1> DEFINE first == 0 .. (n - 1)
  <1>3. PICK qn \in [first -> QueueNames] :
          /\ \A k, l \in first : k # l => qn[k] # qn[l]
          /\ queues = {[req |-> k, name |-> qn[k], key |-> k] : k \in first}
    BY <1>2
  <1>4. PICK pn \in [first -> PrinterNames] :
          printers = {[req |-> k, name |-> pn[k], queue |-> k, key |-> k] : k \in first}
    BY <1>2
  <1>5. /\ dirs = {[key |-> k, req |-> k] : k \in first}
        /\ specific = {[req |-> k, key |-> k] : k \in first}
        /\ requests = n
    BY <1>2
  <1>6. /\ page = [g \in Pages |-> Idle] /\ reader = NoReader
        /\ queueRace = FALSE /\ printerRace = FALSE /\ strayForm = FALSE
    BY <1>1 DEF Init
  <1>7. n \in Nat /\ n <= MAX_QUEUES /\ MAX_QUEUES \in Nat
    BY AdminAssumption
  <1>8. /\ IsFiniteSet(first) /\ Cardinality(first) \in Nat
        /\ \A k \in first : k \in Nat /\ k < n
    BY <1>7, FS_Interval, FS_CardinalityType
  <1>9. \A k \in first : qn[k] \in Names /\ pn[k] \in Names
    BY DEF Names
  <1> HIDE DEF first
  <1>10. queues \in SUBSET QueueRows /\ IsFiniteSet(queues)
    <2> DEFINE f == [k \in first |-> [req |-> k, name |-> qn[k], key |-> k]]
    <2>1. f \in [first -> queues] /\ \A r \in queues : \E k \in first : f[k] = r
      BY <1>3
    <2>2. \A k \in first : f[k] \in QueueRows
      BY <1>8, <1>9 DEF QueueRows
    <2> HIDE DEF f
    <2>3. QED
      BY <1>8, <2>1, <2>2, ImageFacts
  <1>11. printers \in SUBSET PrinterRows /\ IsFiniteSet(printers)
    <2> DEFINE f == [k \in first |-> [req |-> k, name |-> pn[k], queue |-> k, key |-> k]]
    <2>1. f \in [first -> printers] /\ \A r \in printers : \E k \in first : f[k] = r
      BY <1>4
    <2>2. ASSUME NEW k \in first
          PROVE  f[k] \in PrinterRows
      <3>1. k \in Int /\ k \in Nat
        BY <1>7, <1>8
      <3>2. QED
        BY <1>9, <3>1 DEF PrinterRows
    <2> HIDE DEF f
    <2>3. QED
      BY <1>8, <2>1, <2>2, ImageFacts
  <1>12. page \in [Pages -> PageState] /\ \A g \in Pages : page[g] = Idle
    <2>1. "idle" \in Pcs /\ "" \in Names /\ 0 \in Nat /\ -1 \in Int
      BY DEF Pcs, Names
    <2>2. Idle \in PageState
      BY <2>1 DEF Idle, PageState
    <2>3. QED
      BY <1>6, <2>2
  <1>13. \A g \in Pages : page[g].pc = "idle" /\ page[g].req = 0
    <2>1. Idle.pc = "idle" /\ Idle.req = 0
      BY DEF Idle
    <2>2. QED
      BY <1>12, <2>1
  <1>14. TypeOK
    <2>1. \A k \in first : k \in Nat
      BY <1>7, <1>8
    <2>2. specific \in SUBSET [req : Nat, key : Nat] /\ dirs \in SUBSET [req : Nat, key : Nat]
      BY <1>5, <2>1
    <2>3. reader \in [pc : {"none", "reading", "crashed"}, rows : SUBSET PrinterRows]
      BY <1>6 DEF NoReader
    <2>4. requests \in Nat
      BY <1>5, <1>7
    <2>5. TableTypes
      BY <1>6, <1>10, <1>11, <2>2, <2>3, <2>4 DEF TableTypes
    <2>6. PageTypes
      BY <1>12, <1>13 DEF PageTypes, KeyFound
    <2>7. QED
      BY <2>5, <2>6 DEF TypeOK
  <1>15. QueueInv
    <2>1. \A r \in queues : /\ r.key \in first /\ r.req = r.key /\ r.name = qn[r.key]
                            /\ r = [req |-> r.key, name |-> qn[r.key], key |-> r.key]
      BY <1>3
    <2>2. \A r, s \in queues : r # s => r.key # s.key
      BY <2>1
    <2>3. \A r, s \in queues : r # s => r.name # s.name
      BY <1>3, <2>1, <2>2
    <2>4. Keys(queues) \subseteq 0 .. (MAX_QUEUES - 1)
      BY <1>7, <1>8, <2>1 DEF Keys
    <2>5. \A r \in queues : [key |-> r.key, req |-> r.req] \in dirs
      BY <1>5, <2>1
    <2>6. \A g \in Pages : AddsQueue(g) /\ ChangesQueue(g)
      BY <1>13 DEF AddsQueue, ChangesQueue
    <2>7. QED
      BY <2>2, <2>3, <2>4, <2>5, <2>6 DEF QueueInv, QueuesSound, Distinct
  <1>16. \A r \in printers :
           /\ r.key \in first /\ r.req = r.key /\ r.queue = r.key
           /\ r = [req |-> r.key, name |-> pn[r.key], queue |-> r.key, key |-> r.key]
    BY <1>4
  <1>17. PrinterInv
    <2>1. \A r, s \in printers : r # s => r.key # s.key /\ r.queue # s.queue
      BY <1>16
    <2>2. ASSUME NEW r \in printers
          PROVE  Cardinality(Attached(r.queue)) <= MAX_PRINTERS_PER_QUEUE
      <3>1. Attached(r.queue) = {r}
        BY <2>1 DEF Attached
      <3>2. Cardinality(Attached(r.queue)) = 1
        BY <3>1, FS_Singleton
      <3>3. QED
        BY <3>2, AdminAssumption
    <2>3. ASSUME NEW r \in printers
          PROVE  {s.req : s \in WithKey(specific, r.key)} = {r.req}
      <3>1. WithKey(specific, r.key) = {[req |-> r.key, key |-> r.key]}
        BY <1>5, <1>16 DEF WithKey
      <3>2. QED
        BY <1>16, <3>1
    <2>4. \A g \in Pages : AddsPrinter(g) /\ ChangesPrinter(g)
      BY <1>13 DEF AddsPrinter, ChangesPrinter
    <2>5. QED
      BY <2>1, <2>2, <2>3, <2>4 DEF PrinterInv, PrintersSound, Distinct
  <1>18. RequestsOnce
    <2>1. reader.rows = {}
      BY <1>6 DEF NoReader
    <2>2. \A r \in printers : r.req <= requests
      BY <1>5, <1>7, <1>8, <1>16
    <2>3. \A r, s \in printers : r.req = s.req => r.key = s.key
      BY <1>7, <1>8, <1>16
    <2>4. \A g \in Pages : page[g].req <= requests
      BY <1>5, <1>7, <1>13
    <2>5. QED
      BY <1>13, <2>1, <2>2, <2>3, <2>4 DEF RequestsOnce
  <1>19. CrashedOnDeleted
    BY <1>6 DEF CrashedOnDeleted, NoReader
  <1>20. QED
    BY <1>14, <1>15, <1>17, <1>18, <1>19 DEF AdminInv

\* Every step keeps it.
LEMMA AdminInvKept == AdminInv /\ [Next]_vars => AdminInv'
  <1>1. SUFFICES ASSUME AdminInv, [Next]_vars
                 PROVE  AdminInv'
    OBVIOUS
  <1>2. TypeOK /\ QueueInv /\ PrinterInv /\ RequestsOnce /\ CrashedOnDeleted
    BY <1>1 DEF AdminInv
  <1>3. TypeOK'
    BY <1>1, <1>2, TypesKept
  <1>4. ASSUME NEW g \in Pages, Page(g)
        PROVE  QueueInv' /\ PrinterInv' /\ RequestsOnce' /\ CrashedOnDeleted'
    BY <1>2, <1>4, QueueInvKept, PrinterInvKept, RequestsKept, CrashKept
  <1>5. CASE Read
    <2>1. QueueInv' /\ PrinterInv' /\ RequestsOnce' /\ CrashedOnDeleted'
      BY <1>1, <1>5, ReadingKept
    <2>2. QED
      BY <1>3, <2>1 DEF AdminInv
  <1>6. CASE UNCHANGED vars
    <2>1. UNCHANGED <<queues, printers, specific, dirs, page, requests, reader, queueRace,
                      printerRace, strayForm>>
      BY <1>6 DEF vars, tables, races
    <2>2. QueuesSound = QueuesSound' /\ PrintersSound = PrintersSound'
      BY <2>1 DEF QueuesSound, PrintersSound, Distinct, Attached
    <2>3. \A g \in Pages : /\ AddsQueue(g) = AddsQueue(g)' /\ ChangesQueue(g) = ChangesQueue(g)'
                           /\ AddsPrinter(g) = AddsPrinter(g)'
                           /\ ChangesPrinter(g) = ChangesPrinter(g)'
      BY <2>1 DEF AddsQueue, ChangesQueue, AddsPrinter, ChangesPrinter, Attached
    <2>4. QueueInv' /\ PrinterInv'
      BY <1>2, <2>1, <2>2, <2>3 DEF QueueInv, PrinterInv
    <2>5. RequestsOnce' /\ CrashedOnDeleted'
      BY <1>2, <2>1 DEF RequestsOnce, CrashedOnDeleted
    <2>6. QED
      BY <1>3, <2>4, <2>5 DEF AdminInv
  <1>7. QED
    BY <1>1, <1>3, <1>4, <1>5, <1>6 DEF AdminInv, Next

\* The inductive invariant holds throughout.
LEMMA AdminInvariant == Spec => []AdminInv
  BY InitAdmin, AdminInvKept, PTL DEF Spec

\* The variables keep their types and the tables stay finite.
THEOREM AdminTypes == Spec => []TypeOK
  <1>1. AdminInv => TypeOK
    BY DEF AdminInv
  <1>2. QED
    BY <1>1, AdminInvariant, PTL

\* However many pages add, rename and delete queues and printers, keys and
\* names stay distinct, keys stay in the range of the arrays they index, and no
\* queue has too many printers, unless pages have met or a form has outlived
\* its printer.
THEOREM RowsStayDistinct == Spec => []RowsDistinct
  <1>1. AdminInv => RowsDistinct
    BY DEF AdminInv, QueueInv, QueuesSound, PrinterInv, PrintersSound, RowsDistinct
  <1>2. QED
    BY <1>1, AdminInvariant, PTL

\* Wherever pages fail and whatever they leave behind, every queue has its own
\* directory and every printer its own row of pjl_jetdirect.
THEOREM RowsStayWhole == Spec => []RowsWhole
  <1>1. AdminInv => RowsWhole
    BY DEF AdminInv, QueueInv, QueuesSound, PrinterInv, PrintersSound, RowsWhole
  <1>2. QED
    BY <1>1, AdminInvariant, PTL

\* The daemon's reading fails only at a printer that is in the table no more.
THEOREM ReadingFailsOnDeleted == Spec => []ReadFailsOnlyOnDeleted
  <1>1. AdminInv => ReadFailsOnlyOnDeleted
    BY DEF AdminInv, CrashedOnDeleted, ReadFailsOnlyOnDeleted
  <1>2. QED
    BY <1>1, AdminInvariant, PTL
=============================================================================
