--------------------------- MODULE Printers_proofs --------------------------
(***************************************************************************)
(* The printers of a queue: the list that the queue child keeps of them    *)
(* (PrinterTable), and the dialogue that its own child has with one of     *)
(* them (JetDirect).  The two specifications share nothing; the first      *)
(* part of the module is about the one, the second about the other.        *)
(*                                                                         *)
(* The list has each printer once and agrees with the child's copy of the  *)
(* database, for any number of printers, table sizes and changes to the    *)
(* database.                                                               *)
(*                                                                         *)
(* The driver charges the right pages, for any number of characters,       *)
(* pages, messages on their way, attempts and events, and wherever the     *)
(* dialogue is cut off.  It counts pages from messages that reach it late. *)
(* What holds at every moment is about the counts it will have come to     *)
(* when it has read the messages that are on their way: they agree with    *)
(* the pages that have come out of the printer.                            *)
(***************************************************************************)
EXTENDS PrinterTable, JetDirect, FiniteSetTheorems, WellFoundedInduction, TLAPS

-----------------------------------------------------------------------------
(* The list of printers.                                                   *)

EntryState == [key : Keys, state : {"idle", "unset", "printing", "zombie"}, delete : BOOLEAN]
Slots == [Places -> EntryState]
Statuses == {"none", "other", "up", "down"}
Sizes == 0 .. MAX_PRINTERS_PER_QUEUE

TableTypes ==
    /\ database \in [Keys -> Statuses] /\ copy \in [Keys -> Statuses]
    /\ slot \in Slots /\ num \in Sizes /\ next \in Places
    /\ reload \in BOOLEAN /\ childExited \in BOOLEAN
    /\ pc \in {"start", "loop", "pause", "awake", "reload", "while", "gone", "hung", "overrun"}

\* Every printer that is up is in the list, and what is idle there is up.
ListRight ==
    /\ \A k \in Keys : copy[k] = "up" => \E x \in Listed : slot[x].key = k
    /\ \A x \in Listed : Idle(slot, x) => Free(x) /\ copy[slot[x].key] = "up"

\* No printer is in the list twice.
ListedOnce == \A x, y \in Listed : slot[x].key = slot[y].key => x = y

\* A busy entry behind the list belongs to a printer that was sent a job there.
OnlyStrayBehind == \A x \in Places : ~(x < num) /\ Busy(x) => slot[x].key \in stray

\* The list is right not only when a printer is looked for, but from the end
\* of one update to the next.
TableInv ==
    /\ TableTypes /\ ListedOnce /\ OnlyStrayBehind
    /\ pc = "start" => num = 0
    /\ pc \notin {"start", "hung", "overrun"} => ListRight

-----------------------------------------------------------------------------
(* The stages of the update.                                               *)

\* How many of K come before k.
Rank(k, K) == Cardinality({l \in K : l < k})

\* The keys of K have the ranks from 0 on, each its own.
LEMMA Ranks ==
    ASSUME NEW K \in SUBSET Keys
    PROVE  /\ Cardinality(K) \in Nat
           /\ \A k \in K : Rank(k, K) \in 0 .. Cardinality(K) - 1
           /\ \A k, m \in K : Rank(k, K) = Rank(m, K) => k = m
           /\ \A i \in 0 .. Cardinality(K) - 1 : \E k \in K : Rank(k, K) = i
  <1> DEFINE below(k) == {l \in K : l < k}
             n == Cardinality(K)
             f == [k \in K |-> Rank(k, K)]
  <1>1. IsFiniteSet(K)
    <2>1. NumKeys - 1 \in Int /\ 0 \in Int
      BY TableAssumption
    <2>2. IsFiniteSet(Keys)
      BY <2>1, FS_Interval DEF Keys
    <2>3. QED
      BY <2>2, FS_Subset
  <1>2. K \subseteq Int
    BY TableAssumption DEF Keys
  <1>3. n \in Nat
    BY <1>1, FS_CardinalityType
  <1>4. ASSUME NEW k \in K
        PROVE  Rank(k, K) \in Nat /\ Rank(k, K) < n
    <2>1. below(k) \in SUBSET K /\ k \notin below(k)
      BY <1>2
    <2>2. IsFiniteSet(below(k)) /\ Cardinality(below(k)) <= n
      BY <1>1, <2>1, FS_Subset
    <2>3. Cardinality(below(k)) # n
      BY <1>1, <2>1, FS_Subset
    <2>4. Cardinality(below(k)) \in Nat
      BY <2>2, FS_CardinalityType
    <2>5. QED
      BY <1>3, <2>2, <2>3, <2>4 DEF Rank
  <1>5. ASSUME NEW k \in K, NEW m \in K, k < m
        PROVE  Rank(k, K) # Rank(m, K)
    <2>0. k \in Int /\ m \in Int /\ \A l \in K : l \in Int
      BY <1>2
    <2>1. below(k) \in SUBSET below(m) /\ k \in below(m) /\ k \notin below(k)
      <3>1. \A l \in K : l < k => l < m
        BY <2>0, <1>5
      <3>2. ~(k < k)
        BY <2>0
      <3>3. QED
        BY <1>5, <3>1, <3>2
    <2>2. IsFiniteSet(below(m))
      BY <1>1, FS_Subset
    <2>3. Cardinality(below(m)) # Cardinality(below(k))
      BY <2>1, <2>2, FS_Subset
    <2>4. QED
      BY <2>3 DEF Rank
  <1>6. \A k, m \in K : Rank(k, K) = Rank(m, K) => k = m
    <2>1. ASSUME NEW k \in K, NEW m \in K, k # m
          PROVE  Rank(k, K) # Rank(m, K)
      <3>1. k < m \/ m < k
        BY <1>2, <2>1
      <3>2. QED
        BY <1>5, <3>1
    <2>2. QED
      BY <2>1
  <1> HIDE DEF n
  <1>7. \A k \in K : Rank(k, K) \in 0 .. n - 1
    BY <1>3, <1>4
  <1>8. f \in Injection(K, 0 .. n - 1)
    BY <1>6, <1>7 DEF Injection, IsInjective
  <1>9. IsFiniteSet(0 .. n - 1) /\ Cardinality(0 .. n - 1) = n
    BY <1>3, FS_Interval
  <1>10. f \in Surjection(K, 0 .. n - 1)
    <2> HIDE DEF f
    <2>1. QED
      BY <1>8, <1>9, FS_Injection DEF n
  <1>11. \A i \in 0 .. n - 1 : \E k \in K : f[k] = i
    BY <1>10 DEF Surjection
  <1>12. QED
    BY <1>3, <1>6, <1>7, <1>11 DEF n

\* The first stage changes marks only, and marks what is not up.
LEMMA MarkedFacts ==
    ASSUME NEW s \in Slots, NEW n \in Sizes
    PROVE  /\ Marked(s, n) \in Slots
           /\ \A x \in Places : /\ Marked(s, n)[x].key = s[x].key
                                /\ Marked(s, n)[x].state = s[x].state
                                /\ x < n /\ ~Marked(s, n)[x].delete => copy'[s[x].key] = "up"
  <1>1. Marked(s, n) \in Slots
    BY DEF Marked, Slots, EntryState
  <1>2. ASSUME NEW x \in Places
        PROVE  /\ Marked(s, n)[x].key = s[x].key
               /\ Marked(s, n)[x].state = s[x].state
               /\ x < n /\ ~Marked(s, n)[x].delete => copy'[s[x].key] = "up"
    BY DEF Marked, Slots, EntryState
  <1>3. QED
    BY <1>1, <1>2

\* The third stage moves the entries behind those at the front to the front.
LEMMA RemovedFacts ==
    ASSUME NEW s \in Slots, NEW n \in Sizes, NEW c \in 0 .. n
    PROVE  /\ Removed(s, n, c) \in Slots
           /\ \A x \in Places : x < n - c => x + c \in Places /\ Removed(s, n, c)[x] = s[x + c]
           /\ \A x \in Places :
                ~(x < n - c) => \E y \in Places : ~(y < n) /\ Removed(s, n, c)[x] = s[y]
  <1>1. MAX_PRINTERS_PER_QUEUE \in Nat
    BY TableAssumption
  <1>2. ASSUME NEW x \in Places
        PROVE  /\ Removed(s, n, c)[x] \in EntryState
               /\ x < n - c => x + c \in Places /\ Removed(s, n, c)[x] = s[x + c]
    BY <1>1 DEF Removed, Slots, Places, Sizes
  <1>3. Removed(s, n, c) \in Slots
    BY <1>2 DEF Removed, Slots
  <1>4. ASSUME NEW x \in Places, ~(x < n - c)
        PROVE  \E y \in Places : ~(y < n) /\ Removed(s, n, c)[x] = s[y]
    <2>1. n \in Places /\ ~(n < n)
      BY <1>1 DEF Places, Sizes
    <2>2. Removed(s, n, c)[x] = s[n] \/ (~(x < n) /\ Removed(s, n, c)[x] = s[x])
      BY <1>1, <1>4 DEF Removed, Places, Sizes
    <2>3. QED
      BY <2>1, <2>2
  <1>5. QED
    BY <1>2, <1>3, <1>4

\* The last stage puts the keys of K behind the list, each at its rank.
LEMMA AppendedFacts ==
    ASSUME NEW s \in Slots, NEW n \in Sizes, NEW K \in SUBSET Keys,
           n + Cardinality(K) <= MAX_PRINTERS_PER_QUEUE
    PROVE  /\ Appended(s, n, K) \in Slots
           /\ \A x \in Places : x < n \/ ~(x < n + Cardinality(K)) => Appended(s, n, K)[x] = s[x]
           /\ \A x \in Places :
                n <= x /\ x < n + Cardinality(K)
                => /\ Appended(s, n, K)[x].key \in K
                   /\ x = n + Rank(Appended(s, n, K)[x].key, K)
                   /\ Appended(s, n, K)[x].state = "idle" /\ ~Appended(s, n, K)[x].delete
           /\ \A k \in K : /\ n + Rank(k, K) \in Places
                           /\ n + Rank(k, K) < n + Cardinality(K)
                           /\ Appended(s, n, K)[n + Rank(k, K)].key = k
  <1> DEFINE t == Appended(s, n, K)
             new(x) == {k \in K : x = n + Rank(k, K)}
             N == Cardinality(K)
  <1>1. /\ N \in Nat
        /\ \A k \in K : Rank(k, K) \in 0 .. N - 1
        /\ \A k, m \in K : Rank(k, K) = Rank(m, K) => k = m
        /\ \A i \in 0 .. N - 1 : \E k \in K : Rank(k, K) = i
    BY Ranks
  <1>2. t = [x \in Places |->
               IF new(x) = {} THEN s[x]
               ELSE [key |-> CHOOSE k \in new(x) : TRUE, state |-> "idle", delete |-> FALSE]]
    BY DEF Appended, Rank
  <1>3. MAX_PRINTERS_PER_QUEUE \in Nat /\ n \in Nat /\ n + N <= MAX_PRINTERS_PER_QUEUE
    BY TableAssumption DEF Sizes
  <1> HIDE DEF t, N
  <1>4. ASSUME NEW x \in Places, new(x) = {}
        PROVE  t[x] = s[x]
    BY <1>2, <1>4
  <1>5. ASSUME NEW x \in Places, new(x) # {}
        PROVE  /\ t[x].key \in K /\ x = n + Rank(t[x].key, K)
               /\ t[x].state = "idle" /\ t[x].delete = FALSE
               /\ t[x] = [key |-> t[x].key, state |-> "idle", delete |-> FALSE]
    <2> DEFINE k == CHOOSE k \in new(x) : TRUE
    <2>1. k \in new(x)
      BY <1>5
    <2> HIDE DEF k
    <2>2. t[x] = [key |-> k, state |-> "idle", delete |-> FALSE]
      BY <1>2, <1>5 DEF k
    <2>3. QED
      BY <2>1, <2>2
  <1>6. ASSUME NEW x \in Places
        PROVE  t[x] \in EntryState
    <2>1. CASE new(x) = {}
      BY <1>4, <2>1 DEF Slots
    <2>2. CASE new(x) # {}
      <3>1. t[x].key \in Keys
        BY <1>5, <2>2
      <3>2. [key |-> t[x].key, state |-> "idle", delete |-> FALSE] \in EntryState
        BY <3>1 DEF EntryState
      <3>3. QED
        BY <1>5, <2>2, <3>2
    <2>3. QED
      BY <2>1, <2>2
  <1>7. t \in Slots
    <2>1. t = [x \in Places |-> t[x]]
      BY <1>2
    <2>2. QED
      BY <1>6, <2>1 DEF Slots
  <1>8. ASSUME NEW x \in Places, x < n \/ ~(x < n + N)
        PROVE  t[x] = s[x]
    <2>1. new(x) = {}
      BY <1>1, <1>3, <1>8 DEF Places
    <2>2. QED
      BY <1>4, <2>1
  <1>9. ASSUME NEW x \in Places, n <= x, x < n + N
        PROVE  /\ t[x].key \in K /\ x = n + Rank(t[x].key, K)
               /\ t[x].state = "idle" /\ ~t[x].delete
    <2>1. x - n \in 0 .. N - 1
      BY <1>1, <1>3, <1>9 DEF Places
    <2>2. PICK k \in K : Rank(k, K) = x - n
      BY <1>1, <2>1
    <2>3. k \in new(x)
      BY <1>3, <2>2 DEF Places
    <2>4. QED
      BY <1>5, <2>3
  <1>10. ASSUME NEW k \in K
         PROVE  /\ n + Rank(k, K) \in Places
                /\ n + Rank(k, K) < n + N
                /\ t[n + Rank(k, K)].key = k
    <2> DEFINE r == Rank(k, K)
    <2>1. r \in 0 .. N - 1
      BY <1>1
    <2> HIDE DEF r
    <2>2. n + r \in Places /\ n + r < n + N
      BY <1>1, <1>3, <2>1 DEF Places
    <2>3. k \in new(n + r)
      BY DEF r
    <2>4. t[n + r].key \in K /\ n + r = n + Rank(t[n + r].key, K)
      BY <1>5, <2>2, <2>3
    <2>5. Rank(t[n + r].key, K) = r
      BY <1>1, <1>3, <2>1, <2>4
    <2>6. QED
      BY <1>1, <2>2, <2>4, <2>5 DEF r
  <1>11. QED
    BY <1>7, <1>8, <1>9, <1>10 DEF t, N

\* What update_eligible_printer_list makes of a table in which no printer is
\* twice, when it ends and has room: each printer that is up once, and of the
\* others only those that are busy.
LEMMA UpdateKeeps ==
    ASSUME copy' \in [Keys -> Statuses], num \in Sizes, NEW s \in Slots, NEW then,
           \A x, y \in Listed : s[x].key = s[y].key => x = y,
           \A x \in Places : ~(x < num) /\ s[x].state \in {"printing", "zombie"}
                              => s[x].key \in stray,
           UNCHANGED stray, UpdateList(s, then)
    PROVE  /\ slot' \in Slots /\ num' \in Sizes
           /\ pc' \in {"hung", "overrun"} \/ (pc' = then /\ ListRight')
           /\ ListedOnce' /\ OnlyStrayBehind'
           /\ \A x \in Listed : s[x].state # "idle" =>
                 \E y \in Places : y < num' /\ slot'[y].key = s[x].key
                                            /\ slot'[y].state = s[x].state
  <1> DEFINE m    == Marked(s, num)
             gone == Goes(m, num)
             c    == Cardinality(gone)
             left == num - c
             s2   == Removed(m, num, c)
             K    == NewKeys(s2, left)
             n    == left + Cardinality(K)
  <1>1. /\ m \in Slots
        /\ \A x \in Places : /\ m[x].key = s[x].key /\ m[x].state = s[x].state
                             /\ x < num /\ ~m[x].delete => copy'[s[x].key] = "up"
    BY MarkedFacts
  <1>2. MAX_PRINTERS_PER_QUEUE \in Nat /\ num \in Nat
    BY TableAssumption DEF Sizes
  <1>3. \/ ~RemovalEnds(gone) /\ pc' = "hung" /\ slot' = m /\ num' = num
        \/ RemovalEnds(gone) /\ pc' = "overrun" /\ slot' = s2 /\ num' = left
        \/ /\ RemovalEnds(gone) /\ ~(n > MAX_PRINTERS_PER_QUEUE)
           /\ pc' = then /\ slot' = Appended(s2, left, K) /\ num' = n
    <2> HIDE DEF m, c, s2, K
    <2>1. QED
      BY DEF UpdateList, m, gone, c, left, s2, K, n
  <1>4. \A x \in Places : x \in gone <=> x < num /\ m[x].state = "idle" /\ m[x].delete
    BY DEF Goes, Idle
  <1>5. gone \subseteq Places /\ c \in Nat
    <2>1. gone \in SUBSET Places
      BY DEF Goes
    <2>2. IsFiniteSet(Places)
      BY <1>2, FS_Interval DEF Places
    <2>3. IsFiniteSet(gone)
      BY <2>1, <2>2, FS_Subset
    <2> HIDE DEF gone
    <2>4. QED
      BY <2>1, <2>3, FS_CardinalityType
  <1> HIDE DEF m, gone, c
  <1>6. CASE ~RemovalEnds(gone) /\ pc' = "hung" /\ slot' = m /\ num' = num
    <2>1. ListedOnce'
      BY <1>1, <1>6 DEF ListedOnce, Listed
    <2>2. OnlyStrayBehind'
      BY <1>1, <1>6 DEF OnlyStrayBehind, Busy
    <2>3. QED
      BY <1>1, <1>6, <2>1, <2>2 DEF Listed
  <1>7. ASSUME RemovalEnds(gone)
        PROVE  /\ c \in 0 .. num /\ left \in Nat /\ left \in Sizes
               /\ \A x \in Places : x \in gone <=> x < c
    <2>1. \A x \in Places : x \in gone <=> x < c
      BY <1>5, <1>7 DEF RemovalEnds, c
    <2>2. ASSUME c > num
          PROVE  FALSE
      <3>1. num \in Places /\ num < c
        BY <1>2, <1>5, <2>2 DEF Places, Sizes
      <3>2. num \in gone
        BY <2>1, <3>1
      <3>3. num < num
        BY <1>4, <3>1, <3>2
      <3>4. QED
        BY <1>2, <3>3
    <2>3. c \in 0 .. num
      BY <1>2, <1>5, <2>2
    <2>4. QED
      BY <1>2, <2>1, <2>3 DEF Sizes
  <1>8. ASSUME RemovalEnds(gone)
        PROVE  /\ s2 \in Slots
               /\ \A x \in Places : x < left => /\ x + c \in Listed
                                                /\ s2[x] = m[x + c] /\ x + c \notin gone
               /\ \A x, y \in Places : x < left /\ y < left /\ s2[x].key = s2[y].key => x = y
               /\ \A x \in Listed : x \notin gone =>
                    x - c \in Places /\ x - c < left /\ s2[x - c] = m[x]
               /\ \A x \in Places : ~(x < left) /\ s2[x].state \in {"printing", "zombie"}
                                  => s2[x].key \in stray
    <2>1. /\ s2 \in Slots
          /\ \A x \in Places : x < left => x + c \in Places /\ s2[x] = m[x + c]
          /\ \A x \in Places : ~(x < left) => \E y \in Places : ~(y < num) /\ s2[x] = m[y]
      BY <1>1, <1>7, <1>8, RemovedFacts
    <2>2. ASSUME NEW x \in Places, x < left
          PROVE  x + c \in Listed /\ x + c \notin gone
      <3>1. x + c < num /\ ~(x + c < c)
        BY <1>2, <1>7, <1>8, <2>2 DEF Places
      <3>2. QED
        BY <1>7, <1>8, <2>1, <2>2, <3>1 DEF Listed
    <2>3. ASSUME NEW x \in Places, NEW y \in Places, x < left, y < left, s2[x].key = s2[y].key
          PROVE  x = y
      <3>1. s[x + c].key = s[y + c].key
        BY <1>1, <2>1, <2>3
      <3>2. x + c = y + c
        BY <2>2, <2>3, <3>1
      <3>3. QED
        BY <1>2, <1>5, <3>2 DEF Places
    <2>4. ASSUME NEW x \in Listed, x \notin gone
          PROVE  x - c \in Places /\ x - c < left /\ s2[x - c] = m[x]
      <3>1. x \in Places /\ x < num /\ ~(x < c)
        BY <1>7, <1>8, <2>4 DEF Listed
      <3>2. x - c \in Places /\ x - c < left /\ (x - c) + c = x
        BY <1>2, <1>5, <3>1 DEF Places
      <3>3. QED
        BY <2>1, <3>2
    <2>5. ASSUME NEW x \in Places, ~(x < left), s2[x].state \in {"printing", "zombie"}
          PROVE  s2[x].key \in stray
      <3>1. PICK y \in Places : ~(y < num) /\ s2[x] = m[y]
        BY <2>1, <2>5
      <3>2. s[y].state \in {"printing", "zombie"} /\ s2[x].key = s[y].key
        BY <1>1, <2>5, <3>1
      <3>3. QED
        BY <3>1, <3>2
    <2>6. QED
      BY <2>1, <2>2, <2>3, <2>4, <2>5
  <1>9. \A x \in Listed : s[x].state # "idle" => x \notin gone
    BY <1>1, <1>4 DEF Listed
  <1>10. CASE RemovalEnds(gone) /\ pc' = "overrun" /\ slot' = s2 /\ num' = left
    <2>0. OnlyStrayBehind'
      BY <1>8, <1>10 DEF OnlyStrayBehind, Busy
    <2>1. ListedOnce'
      BY <1>8, <1>10 DEF ListedOnce, Listed
    <2>2. ASSUME NEW x \in Listed, s[x].state # "idle"
          PROVE  \E y \in Places : y < num' /\ slot'[y].key = s[x].key
                                            /\ slot'[y].state = s[x].state
      <3>1. x - c \in Places /\ x - c < left /\ s2[x - c] = m[x]
        BY <1>8, <1>9, <1>10, <2>2
      <3>2. m[x].key = s[x].key /\ m[x].state = s[x].state
        BY <1>1 DEF Listed
      <3>3. QED
        BY <1>10, <3>1, <3>2
    <2>3. QED
      BY <1>7, <1>8, <1>10, <2>0, <2>1, <2>2
  <1>11. CASE /\ RemovalEnds(gone) /\ ~(n > MAX_PRINTERS_PER_QUEUE)
              /\ pc' = then /\ slot' = Appended(s2, left, K) /\ num' = n
    <2>1. /\ K \in SUBSET Keys
          /\ \A k \in K : copy'[k] = "up"
          /\ \A k \in K, x \in Places : x < left => s2[x].key # k
          /\ \A k \in Keys : copy'[k] = "up" /\ k \notin K
                => \E x \in Places : x < left /\ s2[x].key = k
      BY DEF NewKeys
    <2> HIDE DEF s2, left, K
    <2>2. s2 \in Slots /\ left \in Sizes /\ left \in Nat
      BY <1>7, <1>8, <1>11
    <2>3. Cardinality(K) \in Nat
      BY <2>1, Ranks
    <2> DEFINE N == Cardinality(K)
    <2>0. left + N <= MAX_PRINTERS_PER_QUEUE
      BY <1>2, <1>11, <2>2, <2>3
    <2>4. /\ slot' \in Slots
          /\ \A x \in Places : x < left \/ ~(x < left + N) => slot'[x] = s2[x]
          /\ \A x \in Places :
               left <= x /\ x < left + N
               => /\ slot'[x].key \in K
                  /\ x = left + Rank(slot'[x].key, K)
                  /\ slot'[x].state = "idle" /\ ~slot'[x].delete
          /\ \A k \in K : /\ left + Rank(k, K) \in Places
                          /\ left + Rank(k, K) < left + N
                          /\ slot'[left + Rank(k, K)].key = k
      BY <1>11, <2>0, <2>1, <2>2, AppendedFacts
    <2>5. num' = left + N /\ num' \in Sizes /\ N \in Nat
      BY <1>2, <1>11, <2>0, <2>2, <2>3 DEF Sizes
    <2> HIDE DEF N
    <2>6. \A x \in Places : x < num' => x < left \/ (left <= x /\ x < left + N)
      BY <1>2, <2>2, <2>5 DEF Places
    <2>7. \A x \in Places : x < left => x < num'
      BY <1>2, <2>2, <2>5 DEF Places
    <2>8. ListedOnce'
      <3>1. ASSUME NEW x \in Places, NEW y \in Places, x < num', y < num',
                   slot'[x].key = slot'[y].key
            PROVE  x = y
        <4>1. CASE x < left /\ y < left
          BY <1>8, <1>11, <2>4, <3>1, <4>1
        <4>2. CASE x < left /\ ~(y < left)
          BY <2>1, <2>4, <2>6, <3>1, <4>2
        <4>3. CASE ~(x < left) /\ y < left
          BY <2>1, <2>4, <2>6, <3>1, <4>3
        <4>4. CASE ~(x < left) /\ ~(y < left)
          BY <2>4, <2>6, <3>1, <4>4
        <4>5. QED
          BY <4>1, <4>2, <4>3, <4>4
      <3>2. QED
        BY <3>1 DEF ListedOnce, Listed
    <2>9. ASSUME NEW k \in Keys, copy'[k] = "up"
          PROVE  \E x \in Places : x < num' /\ slot'[x].key = k
      <3>1. CASE k \in K
        BY <2>4, <2>5, <3>1
      <3>2. CASE k \notin K
        <4>1. PICK x \in Places : x < left /\ s2[x].key = k
          BY <2>1, <2>9, <3>2
        <4>2. QED
          BY <2>4, <2>7, <4>1
      <3>3. QED
        BY <3>1, <3>2
    <2>10. ASSUME NEW x \in Places, x < num', slot'[x].state = "idle"
           PROVE  ~slot'[x].delete /\ copy'[slot'[x].key] = "up"
      <3>1. CASE x < left
        <4>1. /\ slot'[x] = m[x + c] /\ x + c \in Listed /\ x + c \notin gone
          BY <1>8, <1>11, <2>4, <3>1
        <4>2. x + c \in Places /\ x + c < num
          BY <4>1 DEF Listed
        <4>3. ~m[x + c].delete
          BY <1>4, <2>10, <4>1, <4>2
        <4>4. QED
          BY <1>1, <4>1, <4>2, <4>3
      <3>2. CASE left <= x /\ x < left + N
        BY <2>1, <2>4, <3>2
      <3>3. QED
        BY <2>6, <2>10, <3>1, <3>2
    <2>11. ListRight'
      BY <2>9, <2>10 DEF ListRight, Listed, Idle, Free
    <2>12. ASSUME NEW x \in Listed, s[x].state # "idle"
           PROVE  \E y \in Places : y < num' /\ slot'[y].key = s[x].key
                                             /\ slot'[y].state = s[x].state
      <3>1. x - c \in Places /\ x - c < left /\ s2[x - c] = m[x]
        BY <1>8, <1>9, <1>11, <2>12
      <3>2. m[x].key = s[x].key /\ m[x].state = s[x].state
        BY <1>1 DEF Listed
      <3>3. slot'[x - c] = m[x] /\ x - c < num'
        BY <2>4, <2>7, <3>1
      <3>4. QED
        BY <3>1, <3>2, <3>3
    <2>13. OnlyStrayBehind'
      <3>1. ASSUME NEW x \in Places, ~(x < num')
            PROVE  slot'[x] = s2[x] /\ ~(x < left)
        BY <2>4, <2>5, <2>7, <3>1
      <3>2. QED
        BY <1>8, <1>11, <3>1 DEF OnlyStrayBehind, Busy
    <2>14. QED
      BY <1>11, <2>4, <2>5, <2>8, <2>11, <2>12, <2>13
  <1>12. QED
    BY <1>3, <1>6, <1>10, <1>11
-----------------------------------------------------------------------------
(* The search, and the steps.                                              *)

\* A nonempty set of naturals has a least element.
LEMMA Least ==
    ASSUME NEW T \in SUBSET Nat, T # {}
    PROVE  \E i \in T : \A j \in T : i <= j
  <1>1. PICK i \in T : \A j \in T : <<j, i>> \notin OpToRel(<, Nat)
    BY NatLessThanWellFounded, WFMin
  <1>2. ASSUME NEW j \in T
        PROVE  i <= j
    <2>1. i \in Nat /\ j \in Nat
      OBVIOUS
    <2>2. ~(j < i)
      BY <1>1, <2>1 DEF OpToRel
    <2>3. QED
      BY <2>1, <2>2
  <1>3. QED
    BY <1>2

\* The search ends at a place of the table or behind it.
LEMMA SearchEnds ==
    ASSUME TableTypes
    PROVE  Searched \in Places
  <1> DEFINE stops == {i \in 0 .. num : Free(Steps(i, next)) \/ i = num}
             i == CHOOSE i \in stops : \A j \in stops : i <= j
  <1>1. num \in Nat /\ num <= MAX_PRINTERS_PER_QUEUE /\ next \in Places
        /\ MAX_PRINTERS_PER_QUEUE \in Nat
    BY TableAssumption DEF TableTypes, Sizes
  <1>2. stops \in SUBSET Nat /\ num \in stops
    BY <1>1
  <1>3. i \in stops
    <2> HIDE DEF stops
    <2>1. \E k \in stops : \A j \in stops : k <= j
      BY <1>2, Least
    <2>2. QED
      BY <2>1
  <1>4. Searched = Steps(i, next)
    BY DEF Searched
  <1>5. i \in 0 .. num
    BY <1>3
  <1> HIDE DEF i
  <1>6. CASE i = 0
    BY <1>1, <1>4, <1>6 DEF Steps
  <1>7. CASE i # 0
    <2>1. num > 0 /\ (next + i) % num \in 0 .. num - 1
      BY <1>1, <1>5, <1>7 DEF Places
    <2>2. QED
      BY <1>1, <1>4, <1>7, <2>1 DEF Steps, Places
  <1>8. QED
    BY <1>6, <1>7

\* What is busy in the list is still busy in it, with the same printer.
BusyKept ==
    \A x \in Listed :
        slot[x].state = "printing" =>
            \E y \in Places : /\ y < num'
                              /\ slot'[y].key = slot[x].key
                              /\ slot'[y].state \in {"printing", "zombie"}

\* A freshly forked queue child has no list yet.
LEMMA TableStart == TableInit => TableInv
  <1> SUFFICES ASSUME TableInit PROVE TableInv
    OBVIOUS
  <1>1. NumKeys \in Nat \ {0} /\ MAX_PRINTERS_PER_QUEUE \in Nat
    BY TableAssumption
  <1>2. slot \in Slots
    <2>1. PICK junk \in [key : {0}, state : {"idle", "unset"}, delete : BOOLEAN] :
            slot = [x \in Places |-> junk]
      BY DEF TableInit
    <2>2. junk \in EntryState
      BY <1>1 DEF EntryState, Keys
    <2>3. QED
      BY <2>1, <2>2 DEF Slots
  <1>3. TableTypes
    <2>1. database \in [Keys -> Statuses] /\ copy \in [Keys -> Statuses]
      BY DEF TableInit, Statuses
    <2>2. num \in Sizes /\ next \in Places
      BY <1>1 DEF TableInit, Sizes, Places
    <2>3. QED
      BY <1>2, <2>1, <2>2 DEF TableInit, TableTypes
  <1>4. Listed = {}
    BY <1>1 DEF TableInit, Listed, Places
  <1>5. OnlyStrayBehind
    BY DEF TableInit, OnlyStrayBehind, Busy
  <1>6. QED
    BY <1>3, <1>4, <1>5 DEF TableInit, TableInv, ListedOnce

\* The steps that rebuild the list.
LEMMA UpdateStep ==
    ASSUME TableInv, SvcBuildTable \/ SvcHarvest \/ SvcReload
    PROVE  TableInv' /\ BusyKept
  <1>1. TableTypes /\ ListedOnce /\ slot \in Slots /\ num \in Sizes
        /\ copy \in [Keys -> Statuses]
    BY DEF TableInv, TableTypes
  <1>2. \A x, y \in Listed : slot[x].key = slot[y].key => x = y
    BY <1>1 DEF ListedOnce
  <1>3. ASSUME NEW s \in Slots, NEW then \in {"loop", "gone", "reload", "while"},
               \A x \in Listed : s[x].key = slot[x].key,
               \A x \in Listed : slot[x].state = "printing" => s[x].state = "printing",
               \A x \in Places : ~(x < num) /\ s[x].state \in {"printing", "zombie"}
                                  => s[x].key \in stray,
               UNCHANGED stray, copy' \in [Keys -> Statuses], UpdateList(s, then),
               UNCHANGED <<database, next>>, reload' \in BOOLEAN, childExited' \in BOOLEAN
        PROVE  TableInv' /\ BusyKept
    <2>1. \A x, y \in Listed : s[x].key = s[y].key => x = y
      BY <1>2, <1>3
    <2>2. /\ slot' \in Slots /\ num' \in Sizes
          /\ pc' \in {"hung", "overrun"} \/ (pc' = then /\ ListRight')
          /\ ListedOnce' /\ OnlyStrayBehind'
          /\ \A x \in Listed : s[x].state # "idle" =>
                \E y \in Places : y < num' /\ slot'[y].key = s[x].key
                                           /\ slot'[y].state = s[x].state
      BY <1>1, <1>3, <2>1, UpdateKeeps
    <2>3. TableTypes'
      BY <1>1, <1>3, <2>2 DEF TableTypes
    <2>4. BusyKept
      BY <1>3, <2>2 DEF BusyKept
    <2>5. QED
      BY <1>3, <2>2, <2>3, <2>4 DEF TableInv
  <1>0. \A x \in Places : ~(x < num) /\ slot[x].state \in {"printing", "zombie"}
                          => slot[x].key \in stray
    BY DEF TableInv, OnlyStrayBehind, Busy
  <1>4. CASE SvcBuildTable
    <2>1. copy' \in [Keys -> Statuses]
      BY <1>1, <1>4 DEF SvcBuildTable
    <2>2. PICK then \in {"loop", "gone"} : UpdateList(slot, then)
      BY <1>4 DEF SvcBuildTable
    <2>3. /\ UNCHANGED <<database, next, stray>> /\ reload' \in BOOLEAN /\ childExited' \in BOOLEAN
      BY <1>1, <1>4 DEF SvcBuildTable, TableTypes
    <2>4. QED
      BY <1>0, <1>1, <1>3, <2>1, <2>2, <2>3
  <1>5. CASE SvcHarvest
    <2> DEFINE s == [x \in Places |->
                       IF slot[x].state = "zombie" THEN [slot[x] EXCEPT !.state = "idle"]
                                                   ELSE slot[x]]
    <2>1. copy' \in [Keys -> Statuses] /\ UNCHANGED <<database, next, stray>>
          /\ reload' \in BOOLEAN /\ childExited' \in BOOLEAN
      BY <1>1, <1>5 DEF SvcHarvest, TableTypes
    <2>2. CASE childExited
      <3>1. /\ s \in Slots
            /\ \A x \in Places : s[x].key = slot[x].key
            /\ \A x \in Places : slot[x].state = "printing" => s[x].state = "printing"
            /\ \A x \in Places : s[x].state \in {"printing", "zombie"}
                                 => slot[x].state \in {"printing", "zombie"}
        BY <1>1 DEF Slots, EntryState
      <3>2. UpdateList(s, "reload")
        BY <1>5, <2>2 DEF SvcHarvest
      <3> HIDE DEF s
      <3>3. /\ \A x \in Listed : s[x].key = slot[x].key
            /\ \A x \in Listed : slot[x].state = "printing" => s[x].state = "printing"
        BY <3>1 DEF Listed
      <3>4. \A x \in Places : ~(x < num) /\ s[x].state \in {"printing", "zombie"}
                              => s[x].key \in stray
        BY <1>0, <3>1
      <3>5. QED
        BY <1>3, <2>1, <3>1, <3>2, <3>3, <3>4
    <2>3. CASE ~childExited
      <3>1. UNCHANGED <<slot, num, copy>> /\ pc = "awake" /\ pc' = "reload"
        BY <1>5, <2>3 DEF SvcHarvest
      <3>2. TableTypes'
        BY <1>1, <2>1, <3>1 DEF TableTypes
      <3>3. ListRight'
        BY <3>1 DEF TableInv, ListRight, Listed, Idle, Free
      <3>4. ListedOnce' /\ BusyKept
        BY <1>1, <3>1 DEF ListedOnce, BusyKept, Listed
      <3>5. OnlyStrayBehind'
        BY <2>1, <3>1 DEF TableInv, OnlyStrayBehind, Busy
      <3>6. QED
        BY <3>1, <3>2, <3>3, <3>4, <3>5 DEF TableInv
    <2>4. QED
      BY <1>1, <2>2, <2>3 DEF TableTypes
  <1>6. CASE SvcReload
    <2>1. UNCHANGED <<database, next, stray>> /\ reload' \in BOOLEAN /\ childExited' \in BOOLEAN
      BY <1>1, <1>6 DEF SvcReload, TableTypes
    <2>2. CASE reload
      <3>1. copy' = ReadDatabase(copy) /\ UpdateList(slot, "while")
        BY <1>6, <2>2 DEF SvcReload
      <3>2. copy' \in [Keys -> Statuses]
        BY <1>1, <3>1 DEF ReadDatabase, TableTypes
      <3>3. QED
        BY <1>0, <1>1, <1>3, <2>1, <3>1, <3>2
    <2>3. CASE ~reload
      <3>1. UNCHANGED <<slot, num, copy>> /\ pc = "reload" /\ pc' = "while"
        BY <1>6, <2>3 DEF SvcReload
      <3>2. TableTypes'
        BY <1>1, <2>1, <3>1 DEF TableTypes
      <3>3. ListRight'
        BY <3>1 DEF TableInv, ListRight, Listed, Idle, Free
      <3>4. ListedOnce' /\ BusyKept
        BY <1>1, <3>1 DEF ListedOnce, BusyKept, Listed
      <3>5. OnlyStrayBehind'
        BY <2>1, <3>1 DEF TableInv, OnlyStrayBehind, Busy
      <3>6. QED
        BY <3>1, <3>2, <3>3, <3>4, <3>5 DEF TableInv
    <2>4. QED
      BY <1>1, <2>2, <2>3 DEF TableTypes
  <1>7. QED
    BY <1>4, <1>5, <1>6

\* The steps that leave the list alone.
LEMMA IdleStep ==
    ASSUME TableInv, TableTypes', UNCHANGED <<copy, slot, num, stray>>,
           pc' = pc \/ (pc # "start" /\ pc \notin {"hung", "overrun"} /\ pc' # "start")
    PROVE  TableInv' /\ BusyKept
  <1>1. ListedOnce' /\ OnlyStrayBehind' /\ BusyKept
    BY DEF TableInv, ListedOnce, OnlyStrayBehind, Busy, BusyKept, Listed, TableTypes
  <1>2. ListRight => ListRight'
    BY DEF ListRight, Listed, Idle, Free
  <1>3. QED
    BY <1>1, <1>2 DEF TableInv

\* A step in which one entry becomes busy or its child ends.
LEMMA EntryStep ==
    ASSUME TableInv, TableTypes', UNCHANGED <<copy, num>>, NEW x \in Places,
           NEW state \in {"printing", "zombie"},
           slot' = [slot EXCEPT ![x].state = state],
           stray \subseteq stray', x < num \/ slot[x].key \in stray',
           pc \notin {"start", "hung", "overrun"}, pc' # "start"
    PROVE  TableInv' /\ BusyKept
  <1>1. \A y \in Places : /\ slot'[y].key = slot[y].key /\ slot'[y].delete = slot[y].delete
                          /\ slot'[y].state = IF y = x THEN state ELSE slot[y].state
    BY DEF TableInv, TableTypes, Slots, EntryState
  <1>2. ListedOnce' /\ OnlyStrayBehind'
    BY <1>1 DEF TableInv, ListedOnce, OnlyStrayBehind, Busy, Listed
  <1>3. ListRight'
    BY <1>1 DEF TableInv, ListRight, Listed, Idle, Free
  <1>4. BusyKept
    BY <1>1 DEF BusyKept, Listed
  <1>5. QED
    BY <1>2, <1>3, <1>4 DEF TableInv

\* Every step keeps the invariant and what is busy.
LEMMA TableStep ==
    ASSUME TableInv, [TableNext]_tableVars
    PROVE  TableInv' /\ BusyKept
  <1>1. TableTypes
    BY DEF TableInv
  <1>2. CASE SvcBuildTable \/ SvcHarvest \/ SvcReload
    BY <1>2, UpdateStep
  <1>3. CASE SvcSend
    <2>1. Searched \in Places
      BY <1>1, SearchEnds
    <2>2. /\ UNCHANGED <<copy, num>> /\ slot' = [slot EXCEPT ![Searched].state = "printing"]
          /\ pc = "loop" /\ pc' = "awake"
          /\ stray' = IF Searched < num THEN stray ELSE stray \cup {slot[Searched].key}
      BY <1>3 DEF SvcSend
    <2>3. TableTypes'
      BY <1>1, <1>3, <2>1 DEF SvcSend, TableTypes, Slots, EntryState, webSide
    <2>4. stray \subseteq stray' /\ (Searched < num \/ slot[Searched].key \in stray')
      BY <2>2
    <2>5. QED
      BY <2>1, <2>2, <2>3, <2>4, EntryStep
  <1>4. CASE SvcWait \/ SvcWakes \/ SvcGoOn
    <2>1. Searched \in Places
      BY <1>1, SearchEnds
    <2>2. TableTypes'
      BY <1>1, <1>4, <2>1 DEF SvcWait, SvcWakes, SvcGoOn, TableTypes
    <2>3. /\ UNCHANGED <<copy, slot, num, stray>>
          /\ pc \in {"loop", "pause", "while"} /\ pc' # "start"
      BY <1>4 DEF SvcWait, SvcWakes, SvcGoOn
    <2>4. QED
      BY <2>2, <2>3, IdleStep
  <1>5. ASSUME NEW x \in Places, ChildEnds(x)
        PROVE  TableInv' /\ BusyKept
    <2>1. /\ UNCHANGED <<copy, num>> /\ slot' = [slot EXCEPT ![x].state = "zombie"]
          /\ pc \in {"loop", "pause", "awake", "reload", "while"} /\ pc' = pc
          /\ stray' = stray /\ slot[x].state = "printing"
      BY <1>5 DEF ChildEnds
    <2>2. TableTypes'
      BY <1>1, <1>5 DEF ChildEnds, TableTypes, Slots, EntryState
    <2>3. x < num \/ slot[x].key \in stray'
      BY <2>1 DEF TableInv, OnlyStrayBehind, Busy
    <2>4. QED
      BY <2>1, <2>2, <2>3, EntryStep
  <1>6. ASSUME NEW k \in Keys, NEW new \in Statuses, Edit(k, new)
        PROVE  TableInv' /\ BusyKept
    <2>1. TableTypes'
      BY <1>1, <1>6 DEF Edit, TableTypes
    <2>2. UNCHANGED <<copy, slot, num, pc, stray>>
      BY <1>6 DEF Edit
    <2>3. QED
      BY <2>1, <2>2, IdleStep
  <1>7. ASSUME NEW new \in {"up", "other"}, InsertPrinter(new)
        PROVE  TableInv' /\ BusyKept
    BY <1>6, <1>7 DEF InsertPrinter, Statuses
  <1>8. ASSUME NEW k \in Keys, TestPrinter(k) \/ DeletePrinter(k) \/ UpdatePrinter(k)
        PROVE  TableInv' /\ BusyKept
    <2>1. CASE TestPrinter(k)
      <3>1. TableTypes' /\ UNCHANGED <<copy, slot, num, pc, stray>>
        BY <1>1, <2>1 DEF TestPrinter, TableTypes
      <3>2. QED
        BY <3>1, IdleStep
    <2>2. CASE DeletePrinter(k)
      BY <1>6, <2>2 DEF DeletePrinter, Statuses
    <2>3. CASE UpdatePrinter(k)
      BY <1>6, <2>3 DEF UpdatePrinter, Statuses
    <2>4. QED
      BY <1>8, <2>1, <2>2, <2>3
  <1>9. CASE UNCHANGED tableVars
    <2>1. TableTypes' /\ UNCHANGED <<copy, slot, num, pc, stray>>
      BY <1>1, <1>9 DEF tableVars, TableTypes
    <2>2. QED
      BY <2>1, IdleStep
  <1>10. QED
    BY <1>2, <1>3, <1>4, <1>5, <1>7, <1>8, <1>9 DEF TableNext

\* The list is sound in every state.
LEMMA TableInvariant == TableSpec => []TableInv
  <1>1. TableInv /\ [TableNext]_tableVars => TableInv'
    BY TableStep
  <1>2. QED
    BY <1>1, TableStart, PTL DEF TableSpec

\* No printer is in a queue's list twice, and no two jobs are at one printer,
\* unless one was once sent to it from a place behind the list, for any number
\* of printers, table sizes and changes (ppd.c 641, 898-926).
THEOREM PrintersOnce == TableSpec => []NoPrinterTwice
  <1>1. ASSUME TableInv, NEW x \in Places, NEW y \in Places,
               Busy(x), Busy(y), slot[x].key = slot[y].key
        PROVE  x = y \/ slot[x].key \in stray
    <2>1. CASE x < num /\ y < num
      BY <1>1, <2>1 DEF TableInv, ListedOnce, Listed
    <2>2. CASE ~(x < num) \/ ~(y < num)
      BY <1>1, <2>2 DEF TableInv, OnlyStrayBehind
    <2>3. QED
      BY <2>1, <2>2
  <1>2. TableInv => NoPrinterTwice
    BY <1>1 DEF TableInv, ListedOnce, NoPrinterTwice
  <1>3. QED
    BY <1>2, TableInvariant, PTL

\* When the child looks for a printer, every printer that its copy of the
\* database has up is in the list, and no idle printer in the list is passed
\* over or down (ppd.c 838-931).
THEOREM ListFollowsCopy == TableSpec => []ListMatchesCopy
  <1>1. TableInv => ListMatchesCopy
    BY DEF TableInv, ListRight, ListMatchesCopy
  <1>2. QED
    BY <1>1, TableInvariant, PTL

\* The entry of a printing child outlives whatever happens to its printer in
\* the database, and every update (ppd.c 856-886, 953-956).
THEOREM BusyEntriesStay == TableSpec => BusyEntryStays
  <1>1. TableInv /\ [TableNext]_tableVars =>
          [\A x \in Listed :
             slot[x].state = "printing" =>
                 \E y \in Places : /\ y < num'
                                   /\ slot'[y].key = slot[x].key
                                   /\ slot'[y].state \in {"printing", "zombie"}]_tableVars
    BY TableStep DEF BusyKept
  <1>2. QED
    BY <1>1, TableInvariant, PTL DEF TableSpec, BusyEntryStays

-----------------------------------------------------------------------------
(* The dialogue with one printer.                                         *)

Codes == {"ready", "cancel", "reset"}
Kinds == {"echo", "info", "device", "start", "end", "page", "canceled"}
Results == {"ok", "connect_timeout", "timeout", "reset", "cancel_requested", "cancelled",
            "printed"}

\* Where the driver has not begun to send the job, and where it has.
BeforeJob == {"connect", "synch", "prepare", "status"}
AtWork == {"send", "finish", "monitor"}

Messages == [kind : Kinds, code : Codes, own : BOOLEAN, pages : Nat]
DriverState ==
    [pc : BeforeJob \cup AtWork \cup {"done"}, tries : Nat, left : Nat, code : Codes,
     single : Nat, total : Nat, last : {"none", "device", "page"}, timedOut : BOOLEAN,
     cancelRequested : BOOLEAN, jobCancelled : BOOLEAN, result : Results, pages : Nat]
PrinterState ==
    [on : BOOLEAN, asked : {"nothing", "echo", "info"}, code : Codes,
     job : {"none", "open", "started", "cancelled", "ended", "lost"},
     fed : BOOLEAN, eoj : BOOLEAN, inner : BOOLEAN, since : Nat, out : Nat]

Types ==
    /\ drv \in DriverState /\ printer \in PrinterState
    /\ conn \in {"none", "open", "eof", "broken"}
    /\ line \in Seq(Messages)

\* The pages since the last mark are among those that came out; a printer that
\* was reset prints nothing more.
PrinterSound ==
    /\ printer.since <= printer.out
    /\ printer.job \in {"none", "open"} => printer.out = 0
    /\ printer.job = "ended" => printer.since = 0
    /\ printer.code = "reset" => printer.job = "lost"

\* Before the job there is nothing to count, and nothing is charged to anybody.
NothingYet ==
    /\ drv.pc # "done" => drv.pages = 0
    /\ drv.pc \in BeforeJob =>
          /\ printer.job \in {"none", "open"} /\ ~printer.fed /\ printer.code = "ready"
          /\ drv.single = 0 /\ drv.total = 0 /\ drv.code = "ready"
          /\ \A i \in 1 .. Len(line) :
                line[i].kind \in {"echo", "info", "device"} /\ line[i].code = "ready"

\* What a driver with the counts of d has counted when it has read i messages
\* of l: t the pages of ended jobs, s the single pages, with the code c.
Counts(d, l, t, s, c) ==
    /\ t[0] = d.total /\ s[0] = d.single /\ c[0] = d.code
    /\ \A i \in 1 .. Len(l) :
          /\ t[i] = IF l[i].kind = "end" THEN t[i - 1] + l[i].pages ELSE t[i - 1]
          /\ s[i] = IF l[i].kind = "page" /\ c[i - 1] # "reset" THEN s[i - 1] + 1 ELSE s[i - 1]
          /\ c[i] = IF l[i].kind = "device" THEN l[i].code ELSE c[i - 1]

\* These counts never exceed what came out of the printer p, and are complete at
\* the end of the line, at the end of the job and once the printer is reset.
CountsAgree(p, l, t, s, c) ==
    /\ \A i \in 0 .. Len(l) : /\ t[i] <= p.out /\ s[i] <= p.out
                              /\ c[i] = "reset" => p.job = "lost" /\ s[i] = p.out
    /\ \A i \in 1 .. Len(l) : l[i].kind = "end" /\ l[i].own => p.job = "ended" /\ t[i] = p.out
    /\ t[Len(l)] + p.since = p.out
    /\ s[Len(l)] = p.out
    /\ p.code = "reset" => c[Len(l)] = "reset"

PagesRight(p, d, l) ==
    \E t, s \in [0 .. Len(l) -> Nat], c \in [0 .. Len(l) -> Codes] :
        Counts(d, l, t, s, c) /\ CountsAgree(p, l, t, s, c)

JetDirectInv ==
    /\ Types /\ PrinterSound /\ NothingYet
    /\ drv.pc \in AtWork /\ ~Hungup => PagesRight(printer, drv, line)
    /\ NoPageInvented /\ PagesComplete

-----------------------------------------------------------------------------
(* The counts.                                                             *)

\* What accepting a message does to the driver's counts.
LEMMA AcceptFacts ==
    ASSUME drv \in DriverState, NEW m \in Messages
    PROVE  LET d == Accept(m)
           IN  /\ d \in DriverState
               /\ d.pc = drv.pc /\ d.pages = drv.pages
               /\ d.timedOut = drv.timedOut /\ d.jobCancelled = drv.jobCancelled
               /\ d.total = IF m.kind = "end" THEN drv.total + m.pages ELSE drv.total
               /\ d.single = IF m.kind = "page" /\ drv.code # "reset"
                             THEN drv.single + 1 ELSE drv.single
               /\ d.code = IF m.kind = "device" THEN m.code ELSE drv.code
  <1>1. m.kind \in Kinds /\ m.code \in Codes /\ m.pages \in Nat
    BY DEF Messages
  <1>2. drv.total \in Nat /\ drv.single \in Nat /\ drv.code \in Codes
    BY DEF DriverState
  <1>3. CountPage \in Nat /\ PagesSoFar(drv.total, m.pages) \in Nat
    BY <1>1, <1>2 DEF CountPage, PagesSoFar
  <1>4. QED
    BY <1>1, <1>2, <1>3 DEF Accept, CountPage, CountsPage, PagesSoFar, DriverState

\* What a message can return.
LEMMA ResultFacts ==
    ASSUME NEW m \in Messages
    PROVE  /\ Result(m) \in Results
           /\ Result(m) = "printed" => m.kind = "end" /\ m.own
           /\ Result(m) = "reset" => m.kind = "device" /\ m.code = "reset"
  BY DEF Result, DeviceResult, Messages, Codes, Kinds, Results

\* After a message has been read the counts agree as before, and the message
\* of the job's end, or of a reset, has made them complete.
LEMMA ReadOne ==
    ASSUME drv \in DriverState, printer \in PrinterState, line \in Seq(Messages),
           line # << >>, PagesRight(printer, drv, line)
    PROVE  LET d == Accept(Head(line))
           IN  /\ PagesRight(printer, d, Tail(line))
               /\ d.total <= printer.out /\ d.single <= printer.out
               /\ Result(Head(line)) = "printed" => d.total = printer.out
               /\ Result(Head(line)) = "reset" => d.single = printer.out
  <1> DEFINE m == Head(line)
             d == Accept(m)
             l == Tail(line)
             n == Len(line)
  <1>1. /\ n \in Nat /\ n >= 1 /\ m = line[1] /\ m \in Messages
        /\ Len(l) = n - 1 /\ \A i \in 1 .. n - 1 : l[i] = line[i + 1]
    OBVIOUS
  <1>2. PICK t \in [0 .. n -> Nat], s \in [0 .. n -> Nat], c \in [0 .. n -> Codes] :
          Counts(drv, line, t, s, c) /\ CountsAgree(printer, line, t, s, c)
    BY DEF PagesRight
  <1> DEFINE t1 == [i \in 0 .. n - 1 |-> t[i + 1]]
             s1 == [i \in 0 .. n - 1 |-> s[i + 1]]
             c1 == [i \in 0 .. n - 1 |-> c[i + 1]]
  <1>3. d.total = t[1] /\ d.single = s[1] /\ d.code = c[1]
    BY <1>1, <1>2, AcceptFacts DEF Counts
  <1>4. Counts(d, l, t1, s1, c1)
    BY <1>1, <1>2, <1>3 DEF Counts
  <1>5. CountsAgree(printer, l, t1, s1, c1)
    BY <1>1, <1>2 DEF CountsAgree
  <1>6. /\ t1 \in [0 .. Len(l) -> Nat] /\ s1 \in [0 .. Len(l) -> Nat]
        /\ c1 \in [0 .. Len(l) -> Codes]
    BY <1>1
  <1>7. PagesRight(printer, d, l)
    BY <1>4, <1>5, <1>6 DEF PagesRight
  <1>8. d.total <= printer.out /\ d.single <= printer.out
    BY <1>1, <1>2, <1>3 DEF CountsAgree
  <1>9. Result(m) = "printed" => d.total = printer.out
    BY <1>1, <1>2, <1>3, ResultFacts DEF CountsAgree
  <1>10. Result(m) = "reset" => d.single = printer.out
    BY <1>1, <1>2, <1>3, ResultFacts DEF CountsAgree, Counts
  <1>11. QED
    BY <1>7, <1>8, <1>9, <1>10

\* Before anything is read the counts are within what came out.
LEMMA CountedSoFar ==
    ASSUME NEW p \in PrinterState, NEW d \in DriverState, NEW l \in Seq(Messages),
           PagesRight(p, d, l)
    PROVE  d.total <= p.out /\ d.single <= p.out
  <1>1. Len(l) \in Nat
    OBVIOUS
  <1>2. QED
    BY <1>1 DEF PagesRight, Counts, CountsAgree

\* The counts are all that matters of the driver, and the pages and the state
\* of the job all that matters of the printer.
LEMMA SameCounts ==
    ASSUME NEW p, NEW q, NEW d, NEW e, NEW l, PagesRight(p, d, l),
           e.total = d.total, e.single = d.single, e.code = d.code,
           q.out = p.out, q.since = p.since, q.job = p.job, q.code = p.code
    PROVE  PagesRight(q, e, l)
  <1>1. PICK t \in [0 .. Len(l) -> Nat], s \in [0 .. Len(l) -> Nat],
             c \in [0 .. Len(l) -> Codes] :
          Counts(d, l, t, s, c) /\ CountsAgree(p, l, t, s, c)
    BY DEF PagesRight
  <1>2. Counts(e, l, t, s, c)
    BY <1>1 DEF Counts
  <1>3. CountsAgree(q, l, t, s, c)
    BY <1>1 DEF CountsAgree
  <1>4. QED
    BY <1>2, <1>3 DEF PagesRight

\* The printer says one thing more, that agrees with what it does.
LEMMA SaidOne ==
    ASSUME NEW p \in PrinterState, NEW q \in PrinterState, NEW d \in DriverState,
           NEW l \in Seq(Messages), NEW m \in Messages, PagesRight(p, d, l),
           q.out >= p.out,
           p.job \in {"lost", "ended"} => q.job = p.job /\ q.out = p.out,
           m.kind = "end" => q.out = p.out /\ m.pages = p.since /\ q.since = 0,
           m.kind = "end" /\ m.own => q.job = "ended",
           m.kind # "end" => q.out - q.since = p.out - p.since,
           m.kind = "page" => IF p.code = "reset" THEN q.out = p.out
                              ELSE q.out = p.out + 1 /\ p.job # "lost",
           m.kind # "page" => q.out = p.out,
           m.kind = "device" /\ m.code = "reset" => q.job = "lost",
           q.code = "reset" => IF m.kind = "device" THEN m.code = "reset"
                               ELSE p.code = "reset"
    PROVE  PagesRight(q, d, Append(l, m))
  <1> DEFINE n == Len(l)
             k == Append(l, m)
  <1>1. /\ n \in Nat /\ Len(k) = n + 1 /\ k[n + 1] = m
        /\ \A i \in 1 .. n : k[i] = l[i]
    OBVIOUS
  <1>2. PICK t \in [0 .. n -> Nat], s \in [0 .. n -> Nat], c \in [0 .. n -> Codes] :
          Counts(d, l, t, s, c) /\ CountsAgree(p, l, t, s, c)
    BY DEF PagesRight
  <1>3. /\ m.kind \in Kinds /\ m.code \in Codes /\ m.pages \in Nat
        /\ p.out \in Nat /\ p.since \in Nat /\ q.out \in Nat /\ q.since \in Nat
    BY DEF Messages, PrinterState
  <1> DEFINE tn == IF m.kind = "end" THEN t[n] + m.pages ELSE t[n]
             sn == IF m.kind = "page" /\ c[n] # "reset" THEN s[n] + 1 ELSE s[n]
             cn == IF m.kind = "device" THEN m.code ELSE c[n]
             t1 == [i \in 0 .. n + 1 |-> IF i = n + 1 THEN tn ELSE t[i]]
             s1 == [i \in 0 .. n + 1 |-> IF i = n + 1 THEN sn ELSE s[i]]
             c1 == [i \in 0 .. n + 1 |-> IF i = n + 1 THEN cn ELSE c[i]]
  <1>4. t[n] \in Nat /\ s[n] \in Nat /\ c[n] \in Codes
    BY <1>1
  <1>5. tn \in Nat /\ sn \in Nat /\ cn \in Codes
    BY <1>3, <1>4
  <1>6. t[n] + p.since = p.out /\ s[n] = p.out /\ (p.code = "reset" => c[n] = "reset")
        /\ (c[n] = "reset" => p.job = "lost")
    BY <1>1, <1>2 DEF CountsAgree
  <1>7. tn + q.since = q.out /\ sn = q.out /\ (q.code = "reset" => cn = "reset")
    <2>1. tn + q.since = q.out
      <3>1. CASE m.kind = "end"
        BY <1>3, <1>4, <1>6, <3>1
      <3>2. CASE m.kind # "end"
        BY <1>3, <1>4, <1>6, <3>2
      <3>3. QED
        BY <3>1, <3>2
    <2>2. sn = q.out
      <3>1. CASE m.kind = "page" /\ p.code = "reset"
        BY <1>6, <3>1
      <3>2. CASE m.kind = "page" /\ p.code # "reset"
        BY <1>6, <3>2
      <3>3. CASE m.kind # "page"
        BY <1>6, <3>3
      <3>4. QED
        BY <3>1, <3>2, <3>3
    <2>3. q.code = "reset" => cn = "reset"
      BY <1>6
    <2>4. QED
      BY <2>1, <2>2, <2>3
  <1>8. cn = "reset" => q.job = "lost"
    BY <1>3, <1>4, <1>6
  <1> HIDE DEF tn, sn, cn
  <1>9. t1 \in [0 .. n + 1 -> Nat] /\ s1 \in [0 .. n + 1 -> Nat] /\ c1 \in [0 .. n + 1 -> Codes]
    BY <1>1, <1>5
  <1>10. Counts(d, k, t1, s1, c1)
    <2>1. t1[0] = d.total /\ s1[0] = d.single /\ c1[0] = d.code
      BY <1>1, <1>2 DEF Counts
    <2>2. ASSUME NEW i \in 1 .. n + 1
          PROVE  /\ t1[i] = IF k[i].kind = "end" THEN t1[i - 1] + k[i].pages ELSE t1[i - 1]
                 /\ s1[i] = IF k[i].kind = "page" /\ c1[i - 1] # "reset"
                            THEN s1[i - 1] + 1 ELSE s1[i - 1]
                 /\ c1[i] = IF k[i].kind = "device" THEN k[i].code ELSE c1[i - 1]
      <3>1. CASE i = n + 1
        BY <1>1, <3>1 DEF tn, sn, cn
      <3>2. CASE i # n + 1
        <4>1. i \in 1 .. n /\ i - 1 \in 0 .. n /\ i \in 0 .. n
          BY <1>1, <3>2
        <4>2. k[i] = l[i]
          BY <1>1, <4>1
        <4>3. /\ t1[i] = t[i] /\ s1[i] = s[i] /\ c1[i] = c[i]
              /\ t1[i - 1] = t[i - 1] /\ s1[i - 1] = s[i - 1] /\ c1[i - 1] = c[i - 1]
          BY <1>1, <4>1
        <4>4. QED
          BY <1>2, <4>1, <4>2, <4>3 DEF Counts
      <3>3. QED
        BY <3>1, <3>2
    <2>3. QED
      BY <1>1, <2>1, <2>2 DEF Counts
  <1>11. CountsAgree(q, k, t1, s1, c1)
    <2>1. ASSUME NEW i \in 0 .. n + 1
          PROVE  /\ t1[i] <= q.out /\ s1[i] <= q.out
                 /\ c1[i] = "reset" => q.job = "lost" /\ s1[i] = q.out
      <3>1. CASE i = n + 1
        BY <1>1, <1>3, <1>5, <1>7, <1>8, <3>1
      <3>2. CASE i # n + 1
        <4>1. i \in 0 .. n
          BY <1>1, <3>2
        <4>2. t1[i] = t[i] /\ s1[i] = s[i] /\ c1[i] = c[i]
          BY <1>1, <4>1
        <4>3. /\ t[i] \in Nat /\ s[i] \in Nat /\ t[i] <= p.out /\ s[i] <= p.out
              /\ c[i] = "reset" => p.job = "lost" /\ s[i] = p.out
          BY <1>2, <4>1 DEF CountsAgree
        <4>4. QED
          BY <1>3, <4>2, <4>3
      <3>3. QED
        BY <3>1, <3>2
    <2>2. ASSUME NEW i \in 1 .. n + 1, k[i].kind = "end", k[i].own
          PROVE  q.job = "ended" /\ t1[i] = q.out
      <3>1. CASE i = n + 1
        BY <1>1, <1>3, <1>5, <1>7, <2>2, <3>1
      <3>2. CASE i # n + 1
        <4>1. i \in 1 .. n /\ i \in 0 .. n
          BY <1>1, <3>2
        <4>2. t1[i] = t[i] /\ k[i] = l[i]
          BY <1>1, <4>1
        <4>3. p.job = "ended" /\ t[i] = p.out
          BY <1>2, <2>2, <4>1, <4>2 DEF CountsAgree
        <4>4. QED
          BY <4>2, <4>3
      <3>3. QED
        BY <3>1, <3>2
    <2>3. t1[n + 1] = tn /\ s1[n + 1] = sn /\ c1[n + 1] = cn
      BY <1>1
    <2>4. QED
      BY <1>1, <1>7, <2>1, <2>2, <2>3 DEF CountsAgree
  <1>12. QED
    <2> HIDE DEF t1, s1, c1, k
    <2>1. QED
      BY <1>1, <1>9, <1>10, <1>11 DEF PagesRight, k

\* Messages of before the job count nothing.
LEMMA NothingCounted ==
    ASSUME NEW p \in PrinterState, NEW d \in DriverState, NEW l \in Seq(Messages),
           p.out = 0, p.since = 0, p.code = "ready",
           d.single = 0, d.total = 0, d.code = "ready",
           \A i \in 1 .. Len(l) : l[i].kind \in {"echo", "info", "device"} /\ l[i].code = "ready"
    PROVE  PagesRight(p, d, l)
  <1> DEFINE n == Len(l)
             t == [i \in 0 .. n |-> 0]
             c == [i \in 0 .. n |-> "ready"]
  <1>1. n \in Nat
    OBVIOUS
  <1>2. t \in [0 .. n -> Nat] /\ c \in [0 .. n -> Codes]
    BY DEF Codes
  <1>3. Counts(d, l, t, t, c)
    BY <1>1 DEF Counts
  <1>4. CountsAgree(p, l, t, t, c)
    BY <1>1 DEF CountsAgree
  <1>5. QED
    BY <1>2, <1>3, <1>4 DEF PagesRight

-----------------------------------------------------------------------------
(* What the driver reads, and what it makes of it at the end.              *)

\* What reading a message leaves alone, also at the end of the stream.
LEMMA IncomingTypes ==
    ASSUME Types, NEW o \in Incoming
    PROVE  /\ o.drv \in DriverState /\ o.line \in Seq(Messages) /\ o.returns \in Results
           /\ o.drv.pc = drv.pc /\ o.drv.pages = drv.pages
           /\ o.drv.timedOut = drv.timedOut /\ o.drv.jobCancelled = drv.jobCancelled
  <1>0. drv \in DriverState /\ line \in Seq(Messages)
    BY DEF Types
  <1>1. CASE ~CanHear
    <2>1. o = Outcome(drv, "timeout", line)
      BY <1>1 DEF Incoming
    <2>2. QED
      BY <1>0, <2>1 DEF Outcome, Results
  <1>2. CASE CanHear /\ line # << >>
    <2>1. o = Outcome(Accept(Head(line)), Result(Head(line)), Tail(line))
      BY <1>2 DEF Incoming
    <2>2. Head(line) \in Messages /\ Tail(line) \in Seq(Messages)
      BY <1>0, <1>2
    <2>3. QED
      BY <1>0, <2>1, <2>2, AcceptFacts, ResultFacts DEF Outcome
  <1>3. CASE CanHear /\ line = << >> /\ conn = "eof"
    <2>1. o \in AtEndOfStream
      BY <1>3 DEF Incoming
    <2>2. drv.code \in Codes /\ drv.single \in Nat
      BY <1>0 DEF DriverState
    <2>3. DeviceResult(drv.code) \in Results
      BY <2>2 DEF DeviceResult, Codes, Results
    <2>4. CountPage \in Nat
      BY <2>2 DEF CountPage
    <2>5. CASE o \in {Outcome(drv, "ok", line), Outcome(drv, DeviceResult(drv.code), line)}
      BY <1>0, <2>3, <2>5 DEF Outcome, Results
    <2>6. CASE o = Outcome([drv EXCEPT !.single = CountPage], "ok", line)
      <3>1. PICK new : new = [drv EXCEPT !.single = CountPage]
        OBVIOUS
      <3>2. /\ new \in DriverState /\ new.pc = drv.pc /\ new.pages = drv.pages
            /\ new.timedOut = drv.timedOut /\ new.jobCancelled = drv.jobCancelled
        BY <1>0, <2>4, <3>1 DEF DriverState
      <3>3. QED
        BY <1>0, <2>6, <3>1, <3>2 DEF Outcome, Results
    <2>7. QED
      BY <2>1, <2>5, <2>6 DEF AtEndOfStream
  <1>4. QED
    BY <1>1, <1>2, <1>3 DEF Incoming

\* While the printer is there, what the driver has counted after a message is
\* in agreement with the printer, and complete where it says so.
LEMMA IncomingCounts ==
    ASSUME Types, ~Hungup, PagesRight(printer, drv, line), NEW o \in Incoming
    PROVE  /\ PagesRight(printer, o.drv, o.line)
           /\ o.drv.total <= printer.out /\ o.drv.single <= printer.out
           /\ o.returns = "printed" => o.drv.total = printer.out
           /\ o.returns = "reset" => o.drv.single = printer.out
  <1>0. drv \in DriverState /\ line \in Seq(Messages) /\ printer \in PrinterState
    BY DEF Types
  <1>1. CASE ~CanHear
    <2>1. o = Outcome(drv, "timeout", line)
      BY <1>1 DEF Incoming
    <2>2. QED
      BY <1>0, <2>1, CountedSoFar DEF Outcome
  <1>2. CASE CanHear /\ line # << >>
    <2>1. o = Outcome(Accept(Head(line)), Result(Head(line)), Tail(line))
      BY <1>2 DEF Incoming
    <2>2. QED
      BY <1>0, <1>2, <2>1, ReadOne DEF Outcome
  <1>3. CASE CanHear /\ line = << >> /\ conn = "eof"
    BY <1>3 DEF Hungup
  <1>4. QED
    BY <1>1, <1>2, <1>3 DEF Incoming

\* What send_job_to_printer leaves of a job it has sent.
LEMMA FromSendFacts ==
    ASSUME NEW d \in DriverState, NEW r
    PROVE  LET e == FromSend(d, r)
           IN  /\ e \in DriverState
               /\ e.pc = "finish" /\ e.pages = d.pages
               /\ e.total = d.total /\ e.single = d.single /\ e.code = d.code
  BY DEF FromSend, DriverState, AtWork

\* The pages charged at the end are none, those of the ended jobs, or those
\* that were counted one by one.
LEMMA FinalFacts ==
    ASSUME NEW d \in DriverState, NEW r \in Results
    PROVE  LET e == Final(d, r)
           IN  /\ e \in DriverState
               /\ e.pc = "done"
               /\ e.pages \in {0, d.total, d.single}
               /\ e.result = "printed" => r = "printed" /\ e.pages = d.total
               /\ e.result = "reset" => r = "reset" /\ e.pages = d.single
  <1> DEFINE result == IF d.cancelRequested /\ r \notin {"timeout", "reset"}
                       THEN "cancelled" ELSE r
             pages == CASE result \in {"printed", "cancelled"} -> d.total
                        [] result \in {"reset", "timeout"}     -> d.single
                        [] OTHER                               -> 0
  <1>1. result \in Results /\ (result \in {"printed", "reset"} => r = result)
    BY DEF Results
  <1>2. d.total \in Nat /\ d.single \in Nat
    BY DEF DriverState
  <1>3. /\ pages \in {0, d.total, d.single} /\ pages \in Nat
        /\ result = "printed" => pages = d.total
        /\ result = "reset" => pages = d.single
    BY <1>2
  <1>4. Final(d, r) = [d EXCEPT !.pc = "done", !.result = result, !.pages = pages]
    BY DEF Final
  <1> HIDE DEF result, pages
  <1>5. PICK e : e = [d EXCEPT !.pc = "done", !.result = result, !.pages = pages]
    OBVIOUS
  <1>6. e \in DriverState /\ e.pc = "done" /\ e.result = result /\ e.pages = pages
    BY <1>1, <1>3, <1>5 DEF DriverState
  <1>7. QED
    BY <1>1, <1>3, <1>4, <1>5, <1>6

-----------------------------------------------------------------------------
(* The invariant.                                                          *)

LEMMA InitJetDirect == Init => JetDirectInv
  <1> SUFFICES ASSUME Init
               PROVE  JetDirectInv
    OBVIOUS
  <1>1. drv \in DriverState /\ printer \in PrinterState
    BY JetDirectAssumption DEF Init, DriverState, PrinterState, BeforeJob, Codes, Results
  <1>2. line \in Seq(Messages) /\ Len(line) = 0 /\ conn = "none"
    BY DEF Init
  <1>3. PrinterSound
    BY DEF Init, PrinterSound
  <1>4. NothingYet
    BY <1>2 DEF Init, NothingYet
  <1>5. drv.pc = "connect"
    BY DEF Init
  <1>6. QED
    BY <1>1, <1>2, <1>3, <1>4, <1>5
       DEF JetDirectInv, Types, AtWork, NoPageInvented, PagesComplete

\* What a step of a driver at work owes to the invariant.
LEMMA DriverKept ==
    ASSUME JetDirectInv, drv.pc \in AtWork,
           drv' \in DriverState, drv'.pc \in AtWork \cup {"done"},
           drv'.pc # "done" => drv'.pages = 0,
           line' \in Seq(Messages), conn' \in {"none", "open", "eof", "broken"},
           Hungup => Hungup',
           printer' \in PrinterState,
           printer'.out = printer.out, printer'.since = printer.since,
           printer'.job = printer.job, printer'.code = printer.code,
           drv'.pc \in AtWork /\ ~Hungup => PagesRight(printer, drv', line'),
           drv'.pc = "done" /\ ~Hungup =>
              /\ drv'.pages <= printer.out
              /\ drv'.result \in {"printed", "reset"} => drv'.pages = printer.out
    PROVE  JetDirectInv'
  <1>1. Types'
    BY DEF Types
  <1>2. PrinterSound'
    BY DEF JetDirectInv, PrinterSound
  <1>3. NothingYet'
    BY DEF NothingYet, BeforeJob, AtWork
  <1>4. drv'.pc \in AtWork /\ ~Hungup => PagesRight(printer', drv', line')
    BY SameCounts
  <1>5. NoPageInvented' /\ PagesComplete'
    BY DEF NoPageInvented, PagesComplete
  <1>6. QED
    BY <1>1, <1>2, <1>3, <1>4, <1>5 DEF JetDirectInv

\* A step in which the driver at work reads a message and goes on with its
\* counts, or ends.
LEMMA GoesOn ==
    ASSUME JetDirectInv, drv.pc \in AtWork, NEW o \in Incoming,
           line' = o.line, conn' = conn \/ conn' = AfterWrite,
           printer' \in PrinterState,
           printer'.out = printer.out, printer'.since = printer.since,
           printer'.job = printer.job, printer'.code = printer.code,
           \/ /\ drv' \in DriverState /\ drv'.pc \in AtWork /\ drv'.pages = o.drv.pages
              /\ drv'.total = o.drv.total /\ drv'.single = o.drv.single
              /\ drv'.code = o.drv.code
           \/ drv' = Final(o.drv, o.returns)
           \/ drv' = Final(o.drv, "cancelled")
    PROVE  JetDirectInv'
  <1>1. Types /\ drv.pages = 0 /\ printer \in PrinterState
    BY DEF JetDirectInv, NothingYet, AtWork, Types
  <1>2. /\ o.drv \in DriverState /\ o.line \in Seq(Messages) /\ o.returns \in Results
        /\ o.drv.pages = 0
    BY <1>1, IncomingTypes
  <1>3. ~Hungup =>
          /\ PagesRight(printer, o.drv, o.line)
          /\ o.drv.total <= printer.out /\ o.drv.single <= printer.out
          /\ o.returns = "printed" => o.drv.total = printer.out
          /\ o.returns = "reset" => o.drv.single = printer.out
    BY <1>1, IncomingCounts DEF JetDirectInv
  <1>4. conn' \in {"none", "open", "eof", "broken"} /\ (Hungup => Hungup')
    BY <1>1 DEF Types, AfterWrite, Hungup
  <1>5. CASE /\ drv' \in DriverState /\ drv'.pc \in AtWork /\ drv'.pages = o.drv.pages
             /\ drv'.total = o.drv.total /\ drv'.single = o.drv.single
             /\ drv'.code = o.drv.code
    <2>1. drv'.pc # "done"
      BY <1>5 DEF AtWork
    <2>2. ~Hungup => PagesRight(printer, drv', line')
      BY <1>3, <1>5, SameCounts
    <2>3. QED
      BY <1>2, <1>4, <1>5, <2>1, <2>2, DriverKept
  <1>6. ASSUME NEW r \in {o.returns, "cancelled"}, drv' = Final(o.drv, r)
        PROVE  JetDirectInv'
    <2>1. r \in Results
      BY <1>2 DEF Results
    <2>2. /\ drv' \in DriverState /\ drv'.pc = "done"
          /\ drv'.pages \in {0, o.drv.total, o.drv.single}
          /\ drv'.result = "printed" => r = "printed" /\ drv'.pages = o.drv.total
          /\ drv'.result = "reset" => r = "reset" /\ drv'.pages = o.drv.single
      BY <1>2, <1>6, <2>1, FinalFacts
    <2>3. 0 <= printer.out
      BY <1>1 DEF PrinterState
    <2>4. ~Hungup => /\ drv'.pages <= printer.out
                     /\ drv'.result \in {"printed", "reset"} => drv'.pages = printer.out
      BY <1>3, <1>6, <2>2, <2>3
    <2>5. drv'.pc \notin AtWork
      BY <2>2 DEF AtWork
    <2>6. QED
      BY <1>2, <1>4, <2>2, <2>4, <2>5, DriverKept
  <1>7. QED
    BY <1>5, <1>6

\* A driver that reads nothing more: it goes on with the counts it has, or ends
\* with them.
LEMMA ReadsNothing ==
    ASSUME JetDirectInv, drv.pc \in AtWork,
           line' = line, conn' = conn \/ conn' = AfterWrite,
           printer' \in PrinterState,
           printer'.out = printer.out, printer'.since = printer.since,
           printer'.job = printer.job, printer'.code = printer.code,
           drv' \in DriverState,
           \/ /\ drv'.pc \in AtWork /\ drv'.pages = drv.pages
              /\ drv'.total = drv.total /\ drv'.single = drv.single /\ drv'.code = drv.code
           \/ /\ drv'.pc = "done" /\ drv'.result \notin {"printed", "reset"}
              /\ drv'.pages \in {0, drv.total, drv.single}
    PROVE  JetDirectInv'
  <1>1. /\ drv \in DriverState /\ printer \in PrinterState /\ line \in Seq(Messages)
        /\ conn \in {"none", "open", "eof", "broken"} /\ drv.pages = 0
    BY DEF JetDirectInv, NothingYet, AtWork, Types
  <1>2. conn' \in {"none", "open", "eof", "broken"} /\ (Hungup => Hungup')
    BY <1>1 DEF AfterWrite, Hungup
  <1>3. ~Hungup => PagesRight(printer, drv, line)
    BY DEF JetDirectInv
  <1>4. ~Hungup => drv.total <= printer.out /\ drv.single <= printer.out
    BY <1>1, <1>3, CountedSoFar
  <1>5. 0 <= printer.out
    BY <1>1 DEF PrinterState
  <1>6. drv'.pc \in AtWork => drv'.pc # "done"
    BY DEF AtWork
  <1>7. drv'.pc \in AtWork /\ ~Hungup => PagesRight(printer, drv', line')
    BY <1>3, <1>6, SameCounts
  <1>8. QED
    BY <1>1, <1>2, <1>4, <1>5, <1>6, <1>7, DriverKept

-----------------------------------------------------------------------------
(* The driver before the job.                                              *)

\* Before the job nothing can have been counted, and nothing has come out.
LEMMA EarlyFacts ==
    ASSUME JetDirectInv, drv.pc \in BeforeJob
    PROVE  /\ drv \in DriverState /\ printer \in PrinterState /\ line \in Seq(Messages)
           /\ drv.pages = 0 /\ drv.single = 0 /\ drv.total = 0 /\ drv.code = "ready"
           /\ printer.job \in {"none", "open"} /\ ~printer.fed /\ printer.code = "ready"
           /\ printer.out = 0 /\ printer.since = 0
           /\ \A i \in 1 .. Len(line) :
                 line[i].kind \in {"echo", "info", "device"} /\ line[i].code = "ready"
  <1>1. drv \in DriverState /\ printer \in PrinterState /\ line \in Seq(Messages)
    BY DEF JetDirectInv, Types
  <1>2. drv.pc # "done"
    BY DEF BeforeJob
  <1>3. printer.out = 0 /\ printer.since <= printer.out
    BY DEF JetDirectInv, PrinterSound, NothingYet
  <1>4. printer.since = 0
    BY <1>1, <1>3 DEF PrinterState
  <1>5. QED
    BY <1>1, <1>2, <1>3, <1>4 DEF JetDirectInv, NothingYet

\* What a step of before the job that stays there owes to the invariant.
LEMMA EarlyKept ==
    ASSUME JetDirectInv, drv.pc \in BeforeJob,
           drv' \in DriverState, drv'.pc \in BeforeJob \cup {"done"}, drv'.pages = 0,
           drv'.pc = "done" => drv'.result = "connect_timeout",
           drv'.single = 0, drv'.total = 0, drv'.code = "ready",
           printer' \in PrinterState, printer'.job \in {"none", "open"},
           printer'.fed = printer.fed, printer'.code = "ready",
           printer'.out = 0, printer'.since = 0,
           conn' \in {"none", "open", "eof", "broken"},
           line' \in Seq(Messages),
           \A i \in 1 .. Len(line') :
              line'[i].kind \in {"echo", "info", "device"} /\ line'[i].code = "ready"
    PROVE  JetDirectInv'
  <1>1. Types'
    BY DEF Types
  <1>2. PrinterSound'
    BY DEF PrinterSound
  <1>3. ~printer.fed
    BY EarlyFacts
  <1>4. NothingYet'
    BY <1>3 DEF NothingYet
  <1>5. drv'.pc \notin AtWork
    BY DEF BeforeJob, AtWork
  <1>6. NoPageInvented' /\ PagesComplete'
    BY DEF NoPageInvented, PagesComplete
  <1>7. QED
    BY <1>1, <1>2, <1>4, <1>5, <1>6 DEF JetDirectInv

\* A failed attempt.
LEMMA TriesAgainFacts ==
    ASSUME drv \in DriverState, TriesAgain
    PROVE  /\ drv' \in DriverState /\ drv'.pc \in {"connect", "done"}
           /\ drv'.pages = drv.pages
           /\ drv'.single = drv.single /\ drv'.total = drv.total /\ drv'.code = drv.code
           /\ drv'.pc = "done" => drv'.result = "connect_timeout"
  <1>1. drv.tries + 1 \in Nat
    BY DEF DriverState
  <1>2. CASE TimeIsUp(drv.tries + 1)
    BY <1>1, <1>2 DEF TriesAgain, DriverState, Results
  <1>3. CASE ~TimeIsUp(drv.tries + 1)
    BY <1>1, <1>3 DEF TriesAgain, DriverState, BeforeJob
  <1>4. QED
    BY <1>2, <1>3

\* The way to the connection keeps the invariant, and hands it on to the job.
LEMMA EarlySteps ==
    ASSUME JetDirectInv, DrvRefused \/ DrvConnects \/ DrvAnswered \/ DrvUnanswered
    PROVE  JetDirectInv'
  <1>1. drv.pc \in BeforeJob
    BY DEF DrvRefused, DrvConnects, DrvAnswered, DrvUnanswered, Awaited, BeforeJob
  <1>2. /\ drv \in DriverState /\ printer \in PrinterState /\ line \in Seq(Messages)
        /\ drv.pages = 0 /\ drv.single = 0 /\ drv.total = 0 /\ drv.code = "ready"
        /\ printer.job \in {"none", "open"} /\ ~printer.fed /\ printer.code = "ready"
        /\ printer.out = 0 /\ printer.since = 0
        /\ \A i \in 1 .. Len(line) :
              line[i].kind \in {"echo", "info", "device"} /\ line[i].code = "ready"
    BY <1>1, EarlyFacts
  <1>3. conn \in {"none", "open", "eof", "broken"}
    BY DEF JetDirectInv, Types
  <1>4. << >> \in Seq(Messages) /\ Len(<< >>) = 0
    OBVIOUS
  <1>5. CASE DrvRefused
    <2>1. TriesAgain /\ conn' = conn /\ line' = line /\ printer' = printer
      BY <1>5 DEF DrvRefused
    <2>2. QED
      BY <1>1, <1>2, <1>3, <2>1, TriesAgainFacts, EarlyKept DEF BeforeJob
  <1>6. CASE DrvConnects
    <2>1. /\ drv' = [drv EXCEPT !.pc = "synch"] /\ conn' = "open" /\ line' = << >>
          /\ printer' = [printer EXCEPT !.asked = "echo", !.job = "none", !.code = "ready"]
      BY <1>6 DEF DrvConnects
    <2>2. /\ drv' \in DriverState /\ drv'.pc = "synch" /\ drv'.pages = 0
          /\ drv'.single = 0 /\ drv'.total = 0 /\ drv'.code = "ready"
      BY <1>2, <2>1 DEF DriverState, BeforeJob
    <2>3. /\ printer' \in PrinterState /\ printer'.job = "none" /\ printer'.fed = printer.fed
          /\ printer'.code = "ready" /\ printer'.out = 0 /\ printer'.since = 0
      BY <1>2, <2>1 DEF PrinterState, Codes
    <2>4. QED
      BY <1>1, <1>4, <2>1, <2>2, <2>3, EarlyKept DEF BeforeJob
  <1>7. CASE DrvUnanswered
    <2>1. conn' = "none" /\ line' = << >> /\ printer' = printer
      BY <1>7 DEF DrvUnanswered
    <2>2. CASE drv.pc = "status"
      <3>1. drv' = [drv EXCEPT !.pc = "connect"]
        BY <1>7, <2>2 DEF DrvUnanswered
      <3>2. /\ drv' \in DriverState /\ drv'.pc = "connect" /\ drv'.pages = 0
            /\ drv'.single = 0 /\ drv'.total = 0 /\ drv'.code = "ready"
        BY <1>2, <3>1 DEF DriverState, BeforeJob
      <3>3. QED
        BY <1>1, <1>2, <1>4, <2>1, <3>2, EarlyKept DEF BeforeJob
    <2>3. CASE drv.pc # "status"
      <3>1. TriesAgain
        BY <1>7, <2>3 DEF DrvUnanswered
      <3>2. QED
        BY <1>1, <1>2, <1>4, <2>1, <3>1, TriesAgainFacts, EarlyKept DEF BeforeJob
    <2>4. QED
      BY <2>2, <2>3
  <1>8. CASE DrvAnswered
    <2>1. line # << >> /\ line' = Tail(line) /\ drv.pc \in {"synch", "prepare", "status"}
      BY <1>8 DEF DrvAnswered, Awaited
    <2>2. /\ line' \in Seq(Messages) /\ Head(line) \in Messages
          /\ Head(line).code = "ready"
          /\ \A i \in 1 .. Len(line') :
                line'[i].kind \in {"echo", "info", "device"} /\ line'[i].code = "ready"
      BY <1>2, <2>1
    <2>3. \/ drv' = drv /\ conn' = conn /\ printer' = printer
          \/ /\ drv' = [drv EXCEPT !.pc = "prepare"] /\ conn' = AfterWrite
             /\ printer' = [printer EXCEPT !.asked = "echo", !.job = "open"]
          \/ /\ drv' = [drv EXCEPT !.pc = "status"] /\ conn' = AfterWrite
             /\ printer' = [printer EXCEPT !.asked = "info"]
          \/ /\ drv' = [drv EXCEPT !.pc = "send", !.code = Head(line).code]
             /\ conn' = conn /\ printer' = printer
      BY <1>8 DEF DrvAnswered
    <2>4. conn' \in {"none", "open", "eof", "broken"}
      BY <1>3, <2>3 DEF AfterWrite
    <2>5. /\ printer' \in PrinterState /\ printer'.job \in {"none", "open"}
          /\ printer'.fed = printer.fed
          /\ printer'.code = "ready" /\ printer'.out = 0 /\ printer'.since = 0
      BY <1>2, <2>3 DEF PrinterState
    <2>6. CASE drv' = [drv EXCEPT !.pc = "send", !.code = Head(line).code]
      <3>1. /\ drv' \in DriverState /\ drv'.pc = "send" /\ drv'.pages = 0
            /\ drv'.single = 0 /\ drv'.total = 0 /\ drv'.code = "ready"
        BY <1>2, <2>2, <2>6 DEF DriverState, AtWork
      <3>2. PagesRight(printer', drv', line')
        BY <2>2, <2>5, <3>1, NothingCounted
      <3>3. Types'
        BY <2>2, <2>4, <2>5, <3>1 DEF Types
      <3>4. PrinterSound'
        BY <2>5 DEF PrinterSound
      <3>5. NothingYet'
        BY <3>1 DEF NothingYet, BeforeJob
      <3>6. NoPageInvented' /\ PagesComplete'
        BY <3>1 DEF NoPageInvented, PagesComplete
      <3>7. QED
        BY <3>2, <3>3, <3>4, <3>5, <3>6 DEF JetDirectInv
    <2>7. CASE \/ drv' = drv
               \/ drv' = [drv EXCEPT !.pc = "prepare"]
               \/ drv' = [drv EXCEPT !.pc = "status"]
      <3>1. /\ drv' \in DriverState /\ drv'.pc \in BeforeJob /\ drv'.pages = 0
            /\ drv'.single = 0 /\ drv'.total = 0 /\ drv'.code = "ready"
        BY <1>1, <1>2, <2>7 DEF DriverState, BeforeJob
      <3>2. drv'.pc # "done"
        BY <3>1 DEF BeforeJob
      <3>3. QED
        BY <1>1, <2>2, <2>4, <2>5, <3>1, <3>2, EarlyKept
    <2>8. QED
      BY <2>3, <2>6, <2>7
  <1>9. QED
    BY <1>5, <1>6, <1>7, <1>8

-----------------------------------------------------------------------------
(* The driver at work.                                                     *)

LEMMA SendSteps ==
    ASSUME JetDirectInv, DrvSendChar \/ DrvSendRead \/ DrvSendSilent
    PROVE  JetDirectInv'
  <1>1. drv.pc = "send" /\ drv.pc \in AtWork
    BY DEF DrvSendChar, DrvSendRead, DrvSendSilent, AtWork
  <1>2. drv \in DriverState /\ printer \in PrinterState /\ Types
    BY DEF JetDirectInv, Types
  <1>3. CASE DrvSendChar
    <2>1. line' = line
      BY <1>3 DEF DrvSendChar
    <2>2. CASE drv.left = 0
      <3>1. drv' = FromSend(drv, "ok") /\ conn' = conn /\ printer' = printer
        BY <1>3, <2>2 DEF DrvSendChar
      <3>2. QED
        BY <1>1, <1>2, <2>1, <3>1, FromSendFacts, ReadsNothing DEF AtWork
    <2>3. CASE drv.left > 0 /\ conn = "broken"
      <3>1. PICK e : e = FromSend(drv, "timeout")
        OBVIOUS
      <3>2. /\ e \in DriverState /\ e.pc = "finish" /\ e.pages = drv.pages
            /\ e.total = drv.total /\ e.single = drv.single /\ e.code = drv.code
        BY <1>2, <3>1, FromSendFacts
      <3>3. drv' = [e EXCEPT !.timedOut = TRUE] /\ conn' = conn /\ printer' = printer
        BY <1>2, <1>3, <2>3, <3>1 DEF DrvSendChar, DriverState
      <3>4. /\ drv' \in DriverState /\ drv'.pc = "finish" /\ drv'.pages = drv.pages
            /\ drv'.total = drv.total /\ drv'.single = drv.single /\ drv'.code = drv.code
        BY <3>2, <3>3 DEF DriverState
      <3>5. QED
        BY <1>1, <1>2, <2>1, <3>3, <3>4, ReadsNothing DEF AtWork
    <2>4. CASE drv.left # 0 /\ ~(drv.left > 0 /\ conn = "broken")
      <3>1. /\ drv' = [drv EXCEPT !.left = @ - 1] /\ conn' = AfterWrite
            /\ printer' = [printer EXCEPT !.fed = TRUE]
        BY <1>3, <2>4 DEF DrvSendChar
      <3>2. drv.left - 1 \in Nat
        BY <1>2, <2>4 DEF DriverState
      <3>3. /\ drv' \in DriverState /\ drv'.pc = "send" /\ drv'.pages = drv.pages
            /\ drv'.total = drv.total /\ drv'.single = drv.single /\ drv'.code = drv.code
        BY <1>1, <1>2, <3>1, <3>2 DEF DriverState
      <3>4. /\ printer' \in PrinterState /\ printer'.out = printer.out
            /\ printer'.since = printer.since /\ printer'.job = printer.job
            /\ printer'.code = printer.code
        BY <1>2, <3>1 DEF PrinterState
      <3>5. QED
        BY <1>1, <2>1, <3>1, <3>3, <3>4, ReadsNothing DEF AtWork
    <2>5. QED
      BY <2>2, <2>3, <2>4
  <1>4. CASE DrvSendRead
    <2>1. conn' = conn /\ printer' = printer
      BY <1>4 DEF DrvSendRead
    <2>2. PICK o \in Incoming :
            /\ drv' = IF o.returns = "ok" THEN o.drv ELSE FromSend(o.drv, o.returns)
            /\ line' = o.line
      BY <1>4 DEF DrvSendRead
    <2>3. o.drv \in DriverState /\ o.drv.pc = "send"
      BY <1>1, <1>2, IncomingTypes
    <2>4. /\ drv' \in DriverState /\ drv'.pc \in {"send", "finish"} /\ drv'.pages = o.drv.pages
          /\ drv'.total = o.drv.total /\ drv'.single = o.drv.single
          /\ drv'.code = o.drv.code
      BY <2>2, <2>3, FromSendFacts
    <2>5. drv'.pc \in AtWork
      BY <2>4 DEF AtWork
    <2>6. QED
      BY <1>1, <1>2, <2>1, <2>2, <2>4, <2>5, GoesOn
  <1>5. CASE DrvSendSilent
    <2>1. conn' = conn /\ line' = line /\ printer' = printer
      BY <1>5 DEF DrvSendSilent
    <2>2. PICK e : e = FromSend(drv, "timeout")
      OBVIOUS
    <2>3. /\ e \in DriverState /\ e.pc = "finish" /\ e.pages = drv.pages
          /\ e.total = drv.total /\ e.single = drv.single /\ e.code = drv.code
      BY <1>2, <2>2, FromSendFacts
    <2>4. PICK alarm \in BOOLEAN : drv' = [e EXCEPT !.timedOut = drv.timedOut \/ alarm]
      BY <1>5, <2>2 DEF DrvSendSilent
    <2>5. /\ drv' \in DriverState /\ drv'.pc = "finish" /\ drv'.pages = drv.pages
          /\ drv'.total = drv.total /\ drv'.single = drv.single /\ drv'.code = drv.code
      <3>1. (drv.timedOut \/ alarm) \in BOOLEAN
        OBVIOUS
      <3>2. QED
        BY <2>3, <2>4, <3>1 DEF DriverState
    <2>6. QED
      BY <1>1, <1>2, <2>1, <2>5, ReadsNothing DEF AtWork
  <1>6. QED
    BY <1>3, <1>4, <1>5

\* A turn of finish_job_to_printer's loop that reads a message.
LEMMA FinishReadsKept ==
    ASSUME JetDirectInv, drv.pc = "finish", NEW written \in BOOLEAN, FinishReads(written),
           conn' = conn \/ conn' = AfterWrite,
           printer' \in PrinterState,
           printer'.out = printer.out, printer'.since = printer.since,
           printer'.job = printer.job, printer'.code = printer.code
    PROVE  JetDirectInv'
  <1>1. drv.pc \in AtWork /\ Types
    BY DEF AtWork, JetDirectInv
  <1>2. PICK o \in Incoming :
          /\ line' = o.line
          /\ IF o.returns # "ok"
                THEN drv' = Final(o.drv, o.returns)
                ELSE drv' = IF written THEN [o.drv EXCEPT !.pc = "monitor"] ELSE o.drv
    BY DEF FinishReads
  <1>3. o.drv \in DriverState /\ o.drv.pc = "finish"
    BY <1>1, IncomingTypes
  <1>4. CASE o.returns # "ok"
    BY <1>1, <1>2, <1>4, GoesOn
  <1>5. CASE o.returns = "ok"
    <2>1. /\ drv' \in DriverState /\ drv'.pc \in AtWork /\ drv'.pages = o.drv.pages
          /\ drv'.total = o.drv.total /\ drv'.single = o.drv.single
          /\ drv'.code = o.drv.code
      BY <1>2, <1>3, <1>5 DEF DriverState, AtWork
    <2>2. QED
      BY <1>1, <1>2, <2>1, GoesOn
  <1>6. QED
    BY <1>4, <1>5

\* A driver that gives the job up.
LEMMA GivesUp ==
    ASSUME JetDirectInv, drv.pc \in AtWork, NEW e, e = Final(drv, "timeout"),
           drv' = e \/ \E b \in BOOLEAN : drv' = [e EXCEPT !.timedOut = b],
           line' = line, conn' = conn, printer' = printer
    PROVE  JetDirectInv'
  <1>1. drv \in DriverState /\ printer \in PrinterState /\ "timeout" \in Results
    BY DEF JetDirectInv, Types, Results
  <1>2. /\ e \in DriverState /\ e.pc = "done" /\ e.result \notin {"printed", "reset"}
        /\ e.pages \in {0, drv.total, drv.single}
    BY <1>1, FinalFacts
  <1>3. /\ drv' \in DriverState /\ drv'.pc = "done" /\ drv'.result \notin {"printed", "reset"}
        /\ drv'.pages \in {0, drv.total, drv.single}
    BY <1>2 DEF DriverState
  <1>4. QED
    BY <1>1, <1>3, ReadsNothing

LEMMA FinishSteps ==
    ASSUME JetDirectInv, DrvFinishWrite \/ DrvFinishRead \/ DrvFinishFails
    PROVE  JetDirectInv'
  <1>1. drv.pc = "finish" /\ drv.pc \in AtWork
    BY DEF DrvFinishWrite, DrvFinishRead, DrvFinishFails, AtWork
  <1>2. drv \in DriverState /\ printer \in PrinterState
    BY DEF JetDirectInv, Types
  <1>3. CASE DrvFinishWrite
    <2>1. conn' = AfterWrite /\ printer' = [printer EXCEPT !.eoj = TRUE]
      BY <1>3 DEF DrvFinishWrite
    <2>2. /\ printer' \in PrinterState /\ printer'.out = printer.out
          /\ printer'.since = printer.since /\ printer'.job = printer.job
          /\ printer'.code = printer.code
      BY <1>2, <2>1 DEF PrinterState
    <2>3. CASE FinishReads(TRUE)
      BY <1>1, <2>1, <2>2, <2>3, FinishReadsKept
    <2>4. CASE drv' = [drv EXCEPT !.pc = "monitor"] /\ line' = line
      <3>1. /\ drv' \in DriverState /\ drv'.pc \in AtWork /\ drv'.pages = drv.pages
            /\ drv'.total = drv.total /\ drv'.single = drv.single /\ drv'.code = drv.code
        BY <1>2, <2>4 DEF DriverState, AtWork
      <3>2. QED
        BY <1>1, <2>1, <2>2, <2>4, <3>1, ReadsNothing
    <2>5. QED
      BY <1>3, <2>3, <2>4 DEF DrvFinishWrite
  <1>4. CASE DrvFinishRead
    <2>1. FinishReads(FALSE) /\ conn' = conn /\ printer' = printer
      BY <1>4 DEF DrvFinishRead
    <2>2. QED
      BY <1>1, <1>2, <2>1, FinishReadsKept
  <1>5. CASE DrvFinishFails
    <2>1. PICK e : e = Final(drv, "timeout")
      OBVIOUS
    <2>2. /\ drv' = [e EXCEPT !.timedOut = @ \/ conn = "broken"]
          /\ line' = line /\ conn' = conn /\ printer' = printer
      BY <1>5, <2>1 DEF DrvFinishFails
    <2>3. \E b \in BOOLEAN : drv' = [e EXCEPT !.timedOut = b]
      <3>1. (e.timedOut \/ conn = "broken") \in BOOLEAN
        OBVIOUS
      <3>2. QED
        BY <2>2, <3>1
    <2>4. QED
      BY <1>1, <2>1, <2>2, <2>3, GivesUp
  <1>6. QED
    BY <1>3, <1>4, <1>5

LEMMA MonitorSteps ==
    ASSUME JetDirectInv, DrvMonitor \/ DrvMonitorSilent
    PROVE  JetDirectInv'
  <1>1. drv.pc = "monitor" /\ drv.pc \in AtWork
    BY DEF DrvMonitor, DrvMonitorSilent, AtWork
  <1>2. drv \in DriverState /\ printer \in PrinterState /\ Types
    BY DEF JetDirectInv, Types
  <1>3. CASE DrvMonitor
    <2>1. conn' = conn /\ printer' = printer
      BY <1>3 DEF DrvMonitor
    <2>2. PICK o \in Incoming :
            /\ line' = o.line
            /\ \/ /\ o.returns = "printed"
                  /\ drv' = Final(o.drv, IF drv.jobCancelled THEN "cancelled" ELSE "printed")
               \/ drv' = Final(o.drv, o.returns)
               \/ drv' = [o.drv EXCEPT !.jobCancelled = TRUE]
               \/ drv' = o.drv
      BY <1>3 DEF DrvMonitor
    <2>3. o.drv \in DriverState /\ o.drv.pc = "monitor"
      BY <1>1, <1>2, IncomingTypes
    <2>4. CASE drv' \in {Final(o.drv, o.returns), Final(o.drv, "cancelled")}
      BY <1>1, <1>2, <2>1, <2>2, <2>4, GoesOn
    <2>5. CASE drv' = [o.drv EXCEPT !.jobCancelled = TRUE] \/ drv' = o.drv
      <3>1. /\ drv' \in DriverState /\ drv'.pc \in AtWork /\ drv'.pages = o.drv.pages
            /\ drv'.total = o.drv.total /\ drv'.single = o.drv.single
            /\ drv'.code = o.drv.code
        BY <2>3, <2>5 DEF DriverState, AtWork
      <3>2. QED
        BY <1>1, <1>2, <2>1, <2>2, <3>1, GoesOn
    <2>6. QED
      BY <2>2, <2>4, <2>5
  <1>4. CASE DrvMonitorSilent
    <2>1. PICK e : e = Final(drv, "timeout")
      OBVIOUS
    <2>2. drv' = e /\ line' = line /\ conn' = conn /\ printer' = printer
      BY <1>4, <2>1 DEF DrvMonitorSilent
    <2>3. QED
      BY <1>1, <2>1, <2>2, GivesUp
  <1>5. QED
    BY <1>3, <1>4

-----------------------------------------------------------------------------
(* The printer.                                                            *)

\* What a message of the printer owes to the invariant.
LEMMA SaysKept ==
    ASSUME JetDirectInv, drv' = drv, conn' = conn, drv.pc # "done",
           NEW m \in Messages, line' = Append(line, m),
           printer' \in PrinterState, PrinterSound',
           printer.job \in {"none", "open"} /\ ~printer.fed /\ printer.code = "ready" =>
              /\ printer'.job = printer.job /\ printer'.fed = printer.fed
              /\ printer'.code = printer.code
              /\ m.kind \in {"echo", "info", "device"} /\ m.code = "ready",
           printer'.out >= printer.out,
           printer.job \in {"lost", "ended"} =>
              printer'.job = printer.job /\ printer'.out = printer.out,
           m.kind = "end" => /\ printer'.out = printer.out /\ m.pages = printer.since
                             /\ printer'.since = 0,
           m.kind = "end" /\ m.own => printer'.job = "ended",
           m.kind # "end" => printer'.out - printer'.since = printer.out - printer.since,
           m.kind = "page" => IF printer.code = "reset" THEN printer'.out = printer.out
                              ELSE printer'.out = printer.out + 1 /\ printer.job # "lost",
           m.kind # "page" => printer'.out = printer.out,
           m.kind = "device" /\ m.code = "reset" => printer'.job = "lost",
           printer'.code = "reset" => IF m.kind = "device" THEN m.code = "reset"
                                      ELSE printer.code = "reset"
    PROVE  JetDirectInv'
  <1>1. /\ drv \in DriverState /\ printer \in PrinterState /\ line \in Seq(Messages)
        /\ conn \in {"none", "open", "eof", "broken"}
    BY DEF JetDirectInv, Types
  <1>2. /\ line' \in Seq(Messages) /\ Len(line') = Len(line) + 1
        /\ line'[Len(line) + 1] = m /\ \A i \in 1 .. Len(line) : line'[i] = line[i]
    BY <1>1
  <1>3. Types'
    BY <1>1, <1>2 DEF Types
  <1>4. NothingYet'
    <2>1. drv'.pages = 0
      BY DEF JetDirectInv, NothingYet
    <2>2. ASSUME drv.pc \in BeforeJob
          PROVE  /\ printer'.job \in {"none", "open"} /\ ~printer'.fed
                 /\ printer'.code = "ready"
                 /\ drv'.single = 0 /\ drv'.total = 0 /\ drv'.code = "ready"
                 /\ \A i \in 1 .. Len(line') :
                       line'[i].kind \in {"echo", "info", "device"} /\ line'[i].code = "ready"
      <3>1. /\ drv.single = 0 /\ drv.total = 0 /\ drv.code = "ready"
            /\ printer.job \in {"none", "open"} /\ ~printer.fed /\ printer.code = "ready"
            /\ \A i \in 1 .. Len(line) :
                  line[i].kind \in {"echo", "info", "device"} /\ line[i].code = "ready"
        BY <2>2, EarlyFacts
      <3>2. Len(line) \in Nat
        BY <1>1
      <3>3. ASSUME NEW i \in 1 .. Len(line')
            PROVE  line'[i].kind \in {"echo", "info", "device"} /\ line'[i].code = "ready"
        <4>1. i \in 1 .. Len(line) \/ i = Len(line) + 1
          BY <1>2, <3>2
        <4>2. QED
          BY <1>2, <3>1, <4>1
      <3>4. QED
        BY <3>1, <3>3
    <2>3. QED
      BY <2>1, <2>2 DEF NothingYet
  <1>5. drv.pc \in AtWork /\ ~Hungup => PagesRight(printer', drv', line')
    <2>1. SUFFICES ASSUME PagesRight(printer, drv, line)
                   PROVE  PagesRight(printer', drv, Append(line, m))
      BY DEF JetDirectInv
    <2>2. QED
      BY <1>1, <2>1, SaidOne
  <1>6. NoPageInvented' /\ PagesComplete'
    BY DEF NoPageInvented, PagesComplete
  <1>7. Hungup' = Hungup
    BY DEF Hungup
  <1>8. QED
    BY <1>3, <1>4, <1>5, <1>6, <1>7 DEF JetDirectInv

\* What the messages are made of.
LEMMA MessageFacts ==
    ASSUME NEW kind \in Kinds
    PROVE  /\ Message(kind) \in Messages
           /\ Message(kind).kind = kind /\ Message(kind).code = "ready"
  BY DEF Message, Messages, Codes

LEMMA AnswerFacts ==
    ASSUME NEW kind \in Kinds, NEW code \in Codes
    PROVE  LET m == [Message(kind) EXCEPT !.code = code]
           IN  m \in Messages /\ m.kind = kind /\ m.code = code
  BY DEF Message, Messages

LEMMA DeviceFacts ==
    ASSUME NEW code \in Codes
    PROVE  /\ Device(code) \in Messages
           /\ Device(code).kind = "device" /\ Device(code).code = code
  BY AnswerFacts DEF Device, Kinds

LEMMA StartFacts ==
    ASSUME NEW own \in BOOLEAN
    PROVE  Start(own) \in Messages /\ Start(own).kind = "start"
  BY DEF Start, Message, Messages, Kinds, Codes

LEMMA EndFacts ==
    ASSUME NEW own \in BOOLEAN, NEW n \in Nat
    PROVE  /\ End(own, n) \in Messages /\ End(own, n).kind = "end"
           /\ End(own, n).own = own /\ End(own, n).pages = n
  BY DEF End, Message, Messages, Kinds, Codes

\* The printer's messages that tell nothing of pages.
LEMMA TalkSteps ==
    ASSUME JetDirectInv,
           PrinterAnswers \/ PrinterStatus \/ PrinterStartsJob \/ PressCancel \/ PrinterCancels
              \/ PressReset \/ PrinterReady
    PROVE  JetDirectInv'
  <1>1. drv' = drv /\ conn' = conn /\ drv.pc # "done"
    BY DEF PrinterAnswers, PrinterStatus, PrinterStartsJob, PressCancel, PrinterCancels,
           PressReset, PrinterReady, Talks
  <1>2. printer \in PrinterState /\ printer.code \in Codes /\ printer.asked \in {"nothing", "echo", "info"}
    BY DEF JetDirectInv, Types, PrinterState
  <1>3. PrinterSound
    BY DEF JetDirectInv
  <1>4. printer.out \in Nat /\ printer.since \in Nat
    BY <1>2 DEF PrinterState
  <1>5. /\ {"echo", "info", "device", "start", "canceled"} \subseteq Kinds
        /\ {"ready", "cancel", "reset"} \subseteq Codes
    BY DEF Kinds, Codes
  <1>6. CASE PrinterAnswers
    <2>1. PICK m : m = [Message(printer.asked) EXCEPT !.code = printer.code]
      OBVIOUS
    <2>2. line' = Append(line, m) /\ printer.asked \in {"echo", "info"}
          /\ printer' = [printer EXCEPT !.asked = "nothing"]
      BY <1>2, <1>6, <2>1 DEF PrinterAnswers, Says
    <2>3. m \in Messages /\ m.kind \in {"echo", "info"} /\ m.code = printer.code
      BY <1>2, <1>5, <2>1, <2>2, AnswerFacts
    <2>4. /\ printer' \in PrinterState /\ printer'.job = printer.job
          /\ printer'.fed = printer.fed /\ printer'.code = printer.code
          /\ printer'.since = printer.since /\ printer'.out = printer.out
      BY <1>2, <2>2 DEF PrinterState
    <2>5. PrinterSound'
      BY <1>3, <2>4 DEF PrinterSound
    <2>6. QED
      BY <1>1, <1>4, <2>2, <2>3, <2>4, <2>5, SaysKept
  <1>7. CASE PrinterStatus
    <2>1. PICK m : m = Device(printer.code)
      OBVIOUS
    <2>2. line' = Append(line, m) /\ printer' = printer
      BY <1>7, <2>1 DEF PrinterStatus, Says
    <2>3. m \in Messages /\ m.kind = "device" /\ m.code = printer.code
      BY <1>2, <1>5, <2>1, DeviceFacts
    <2>4. PrinterSound'
      BY <1>3, <2>2 DEF PrinterSound
    <2>5. printer.code = "reset" => printer.job = "lost"
      BY <1>3 DEF PrinterSound
    <2>6. QED
      BY <1>1, <1>2, <1>4, <2>2, <2>3, <2>4, <2>5, SaysKept
  <1>8. CASE PrinterStartsJob
    <2>1. PICK m : m = Start(TRUE)
      OBVIOUS
    <2>2. /\ line' = Append(line, m) /\ printer.job = "open" /\ printer.fed
          /\ printer' = [printer EXCEPT !.job = "started"]
      BY <1>8, <2>1 DEF PrinterStartsJob, Says
    <2>3. m \in Messages /\ m.kind = "start"
      BY <1>5, <2>1, StartFacts
    <2>4. /\ printer' \in PrinterState /\ printer'.job = "started"
          /\ printer'.code = printer.code
          /\ printer'.since = printer.since /\ printer'.out = printer.out
      BY <1>2, <2>2 DEF PrinterState
    <2>5. PrinterSound'
      BY <1>3, <2>2, <2>4 DEF PrinterSound
    <2>6. QED
      BY <1>1, <1>4, <2>2, <2>3, <2>4, <2>5, SaysKept
  <1>9. CASE PressCancel
    <2>1. PICK m : m = Device("cancel")
      OBVIOUS
    <2>2. /\ line' = Append(line, m) /\ printer.job = "started"
          /\ printer' = [printer EXCEPT !.code = "cancel"]
      BY <1>9, <2>1 DEF PressCancel, Says
    <2>3. m \in Messages /\ m.kind = "device" /\ m.code = "cancel"
      BY <1>5, <2>1, DeviceFacts
    <2>4. /\ printer' \in PrinterState /\ printer'.job = "started" /\ printer'.code = "cancel"
          /\ printer'.since = printer.since /\ printer'.out = printer.out
      BY <1>2, <1>5, <2>2 DEF PrinterState
    <2>5. PrinterSound'
      BY <1>3, <2>2, <2>4 DEF PrinterSound
    <2>6. QED
      BY <1>1, <1>4, <2>2, <2>3, <2>4, <2>5, SaysKept
  <1>10. CASE PrinterCancels
    <2>1. PICK m : m = Message("canceled")
      OBVIOUS
    <2>2. /\ line' = Append(line, m) /\ printer.job = "started" /\ printer.code = "cancel"
          /\ printer' = [printer EXCEPT !.job = "cancelled"]
      BY <1>10, <2>1 DEF PrinterCancels, Says
    <2>3. m \in Messages /\ m.kind = "canceled"
      BY <1>5, <2>1, MessageFacts
    <2>4. /\ printer' \in PrinterState /\ printer'.job = "cancelled" /\ printer'.code = "cancel"
          /\ printer'.since = printer.since /\ printer'.out = printer.out
      BY <1>2, <2>2 DEF PrinterState
    <2>5. PrinterSound'
      BY <1>3, <2>4 DEF PrinterSound
    <2>6. QED
      BY <1>1, <1>4, <2>2, <2>3, <2>4, <2>5, SaysKept
  <1>11. CASE PressReset
    <2>1. PICK m : m = Device("reset")
      OBVIOUS
    <2>2. /\ line' = Append(line, m) /\ printer.job = "started"
          /\ printer' = [printer EXCEPT !.code = "reset", !.job = "lost"]
      BY <1>11, <2>1 DEF PressReset, Says
    <2>3. m \in Messages /\ m.kind = "device" /\ m.code = "reset"
      BY <1>5, <2>1, DeviceFacts
    <2>4. /\ printer' \in PrinterState /\ printer'.job = "lost" /\ printer'.code = "reset"
          /\ printer'.since = printer.since /\ printer'.out = printer.out
      BY <1>2, <1>5, <2>2 DEF PrinterState
    <2>5. PrinterSound'
      BY <1>3, <2>4 DEF PrinterSound
    <2>6. QED
      BY <1>1, <1>4, <2>2, <2>3, <2>4, <2>5, SaysKept
  <1>12. CASE PrinterReady
    <2>1. PICK m : m = Device("ready")
      OBVIOUS
    <2>2. /\ line' = Append(line, m) /\ printer.code = "reset"
          /\ printer' = [printer EXCEPT !.code = "ready"]
      BY <1>12, <2>1 DEF PrinterReady, Says
    <2>3. m \in Messages /\ m.kind = "device" /\ m.code = "ready"
      BY <1>5, <2>1, DeviceFacts
    <2>4. /\ printer' \in PrinterState /\ printer'.job = printer.job /\ printer'.code = "ready"
          /\ printer'.since = printer.since /\ printer'.out = printer.out
      BY <1>2, <1>5, <2>2 DEF PrinterState
    <2>5. PrinterSound'
      BY <1>3, <2>4 DEF PrinterSound
    <2>6. QED
      BY <1>1, <1>4, <2>2, <2>3, <2>4, <2>5, SaysKept
  <1>13. QED
    BY <1>6, <1>7, <1>8, <1>9, <1>10, <1>11, <1>12

\* The messages that do: pages, the ends of jobs, and the flood after a reset.
LEMMA PageSteps ==
    ASSUME JetDirectInv, PageOut \/ InnerJob \/ PrinterEndsJob \/ Flood
    PROVE  JetDirectInv'
  <1>1. drv' = drv /\ conn' = conn /\ drv.pc # "done"
    BY DEF PageOut, InnerJob, PrinterEndsJob, Flood, Talks
  <1>2. printer \in PrinterState /\ PrinterSound
    BY DEF JetDirectInv, Types
  <1>3. printer.out \in Nat /\ printer.since \in Nat /\ printer.since <= printer.out
    BY <1>2 DEF PrinterState, PrinterSound
  <1>4. {"page", "start", "end"} \subseteq Kinds /\ "ready" \in Codes
    BY DEF Kinds, Codes
  <1>5. CASE PageOut
    <2>1. PICK m : m = Message("page")
      OBVIOUS
    <2>2. /\ line' = Append(line, m) /\ printer.job = "started"
          /\ printer' = [printer EXCEPT !.out = @ + 1, !.since = @ + 1]
      BY <1>5, <2>1 DEF PageOut, Says
    <2>3. m \in Messages /\ m.kind = "page"
      BY <1>4, <2>1, MessageFacts
    <2>4. /\ printer' \in PrinterState /\ printer'.job = "started"
          /\ printer'.code = printer.code
          /\ printer'.since = printer.since + 1 /\ printer'.out = printer.out + 1
      <3>1. printer.out + 1 \in Nat /\ printer.since + 1 \in Nat
        BY <1>3
      <3>2. QED
        BY <1>2, <2>2, <3>1 DEF PrinterState
    <2>5. printer.code # "reset"
      BY <1>2, <2>2 DEF PrinterSound
    <2>6. PrinterSound'
      BY <1>3, <2>4, <2>5 DEF PrinterSound
    <2>7. QED
      BY <1>1, <1>3, <2>2, <2>3, <2>4, <2>5, <2>6, SaysKept
  <1>6. CASE InnerJob
    <2>1. printer.job = "started" /\ printer.code # "reset"
      BY <1>2, <1>6 DEF InnerJob, PrinterSound
    <2>2. CASE printer.inner
      <3>1. PICK m : m = End(FALSE, printer.since)
        OBVIOUS
      <3>2. /\ line' = Append(line, m)
            /\ printer' = [printer EXCEPT !.inner = ~@, !.since = 0]
        BY <1>6, <2>2, <3>1 DEF InnerJob, Says
      <3>3. m \in Messages /\ m.kind = "end" /\ ~m.own /\ m.pages = printer.since
        BY <1>3, <1>4, <3>1, EndFacts
      <3>4. /\ printer' \in PrinterState /\ printer'.job = "started"
            /\ printer'.code = printer.code
            /\ printer'.since = 0 /\ printer'.out = printer.out
        BY <1>2, <2>1, <3>2 DEF PrinterState
      <3>5. PrinterSound'
        BY <1>3, <2>1, <3>4 DEF PrinterSound
      <3>6. QED
        BY <1>1, <1>3, <2>1, <3>2, <3>3, <3>4, <3>5, SaysKept
    <2>3. CASE ~printer.inner
      <3>1. PICK m : m = Start(FALSE)
        OBVIOUS
      <3>2. /\ line' = Append(line, m)
            /\ printer' = [printer EXCEPT !.inner = ~@, !.since = @]
        BY <1>6, <2>3, <3>1 DEF InnerJob, Says
      <3>3. m \in Messages /\ m.kind = "start"
        BY <1>4, <3>1, StartFacts
      <3>4. /\ printer' \in PrinterState /\ printer'.job = "started"
            /\ printer'.code = printer.code
            /\ printer'.since = printer.since /\ printer'.out = printer.out
        BY <1>2, <2>1, <3>2 DEF PrinterState
      <3>5. PrinterSound'
        BY <1>3, <2>1, <3>4 DEF PrinterSound
      <3>6. QED
        BY <1>1, <1>3, <2>1, <3>2, <3>3, <3>4, <3>5, SaysKept
    <2>4. QED
      BY <2>2, <2>3
  <1>7. CASE PrinterEndsJob
    <2>1. PICK m : m = End(TRUE, printer.since)
      OBVIOUS
    <2>2. /\ line' = Append(line, m) /\ printer.job \in {"started", "cancelled"}
          /\ printer' = [printer EXCEPT !.job = "ended", !.code = "ready", !.since = 0]
      BY <1>7, <2>1 DEF PrinterEndsJob, Says
    <2>3. m \in Messages /\ m.kind = "end" /\ m.own /\ m.pages = printer.since
      BY <1>3, <1>4, <2>1, EndFacts
    <2>4. /\ printer' \in PrinterState /\ printer'.job = "ended" /\ printer'.code = "ready"
          /\ printer'.since = 0 /\ printer'.out = printer.out
      BY <1>2, <1>4, <2>2 DEF PrinterState
    <2>5. PrinterSound'
      BY <1>3, <2>4 DEF PrinterSound
    <2>6. QED
      BY <1>1, <1>3, <2>2, <2>3, <2>4, <2>5, SaysKept
  <1>8. CASE Flood
    <2>1. PICK m : m = Message("page")
      OBVIOUS
    <2>2. line' = Append(line, m) /\ printer.code = "reset" /\ printer' = printer
      BY <1>8, <2>1 DEF Flood, Says
    <2>3. m \in Messages /\ m.kind = "page"
      BY <1>4, <2>1, MessageFacts
    <2>4. PrinterSound'
      BY <1>2, <2>2 DEF PrinterSound
    <2>5. QED
      BY <1>1, <1>2, <1>3, <2>2, <2>3, <2>4, SaysKept
  <1>9. QED
    BY <1>5, <1>6, <1>7, <1>8

\* The power is cut, or the connection ends: the pages stay as they are.
LEMMA CutSteps ==
    ASSUME JetDirectInv, SwitchOff \/ EndConnection
    PROVE  JetDirectInv'
  <1>1. /\ drv \in DriverState /\ printer \in PrinterState /\ line \in Seq(Messages)
        /\ conn \in {"none", "open", "eof", "broken"}
    BY DEF JetDirectInv, Types
  <1>2. CASE SwitchOff
    <2>1. /\ drv' = drv /\ conn' = conn /\ line' = line
          /\ printer' = [printer EXCEPT !.on = FALSE]
      BY <1>2 DEF SwitchOff
    <2>2. /\ printer' \in PrinterState /\ printer'.job = printer.job
          /\ printer'.fed = printer.fed /\ printer'.code = printer.code
          /\ printer'.since = printer.since /\ printer'.out = printer.out
      BY <1>1, <2>1 DEF PrinterState
    <2>3. Types' /\ PrinterSound' /\ NothingYet'
      BY <1>1, <2>1, <2>2 DEF JetDirectInv, Types, PrinterSound, NothingYet
    <2>4. drv.pc \in AtWork /\ ~Hungup => PagesRight(printer', drv, line)
      BY <2>2, SameCounts DEF JetDirectInv
    <2>5. NoPageInvented' /\ PagesComplete' /\ Hungup' = Hungup
      BY <2>1, <2>2 DEF JetDirectInv, NoPageInvented, PagesComplete, Hungup
    <2>6. QED
      BY <2>1, <2>3, <2>4, <2>5 DEF JetDirectInv
  <1>3. CASE EndConnection
    <2>1. /\ drv' = drv /\ printer' = printer /\ drv.pc # "done"
          /\ conn' \in {"eof", "broken"} /\ line' \in {line, << >>}
      BY <1>3 DEF EndConnection
    <2>2. << >> \in Seq(Messages) /\ Len(<< >>) = 0
      OBVIOUS
    <2>3. Types' /\ PrinterSound'
      BY <1>1, <2>1, <2>2 DEF JetDirectInv, Types, PrinterSound
    <2>4. NothingYet'
      BY <2>1, <2>2 DEF JetDirectInv, NothingYet
    <2>5. Hungup' /\ NoPageInvented' /\ PagesComplete'
      BY <2>1 DEF Hungup, NoPageInvented, PagesComplete
    <2>6. QED
      BY <2>3, <2>4, <2>5 DEF JetDirectInv
  <1>4. QED
    BY <1>2, <1>3

\* The process that resets the display, and the next job, have no part in it.
LEMMA OtherSteps ==
    ASSUME JetDirectInv, ResetterStep \/ NextJob \/ UNCHANGED vars
    PROVE  JetDirectInv'
  <1>1. UNCHANGED <<drv, conn, line, printer>>
    BY DEF ResetterStep, ResetterConnects, ResetterWakes, NextJob, vars
  <1>2. QED
    BY <1>1 DEF JetDirectInv, Types, PrinterSound, NothingYet, Hungup, NoPageInvented,
                PagesComplete

-----------------------------------------------------------------------------
(* The theorems.                                                           *)

LEMMA JetDirectInvKept == JetDirectInv /\ [Next]_vars => JetDirectInv'
  <1> SUFFICES ASSUME JetDirectInv, [Next]_vars
               PROVE  JetDirectInv'
    OBVIOUS
  <1>1. CASE DrvStep
    BY <1>1, EarlySteps, SendSteps, FinishSteps, MonitorSteps DEF DrvStep
  <1>2. CASE PrinterStep
    BY <1>2, TalkSteps, PageSteps, CutSteps DEF PrinterStep
  <1>3. CASE ResetterStep \/ NextJob \/ UNCHANGED vars
    BY <1>3, OtherSteps
  <1>4. QED
    BY <1>1, <1>2, <1>3 DEF Next

LEMMA JetDirectInvHolds == Spec => []JetDirectInv
  BY InitJetDirect, JetDirectInvKept, PTL DEF Spec

\* Nobody is charged for a page that has not come out of the printer, whatever
\* buttons are pressed, whenever the power is cut and wherever the driver gives
\* up, as long as the printer has not closed the connection (pjl_jetdirect.c
\* 229-262, 1523-1560).
THEOREM NobodyPaysForNothing == Spec => []NoPageInvented
  <1>1. JetDirectInv => NoPageInvented
    BY DEF JetDirectInv
  <1>2. QED
    BY <1>1, JetDirectInvHolds, PTL

\* A job that is reported as printed, or its printer as reset, is charged with
\* exactly the pages that came out, however many jobs its data held and however
\* many messages were on their way (pjl_jetdirect.c 229-262, 1305-1325).
THEOREM PrintedIsPaid == Spec => []PagesComplete
  <1>1. JetDirectInv => PagesComplete
    BY DEF JetDirectInv
  <1>2. QED
    BY <1>1, JetDirectInvHolds, PTL

=============================================================================
