------------------------- MODULE SpoolQueue_proofs --------------------------
(***************************************************************************)
(* What holds of the spool directory for any number of ppr and pprm        *)
(* processes, printers and jobs, any QUEUE_LENGTH, and any crashes; and    *)
(* what the queue promises to its users when nobody removes jobs, with the *)
(* refinement of PrintSpool.  First come the facts about the circular job  *)
(* numbers that this rests on, and last the two directory scans by         *)
(* themselves.                                                             *)
(***************************************************************************)
EXTENDS SpoolQueueRefinement, FiniteSetTheorems, FunctionTheorems,
        WellFoundedInduction, TLAPS

-----------------------------------------------------------------------------
(* The circular job numbers.                                               *)

\* The slots and the space they are in are what they look like.
LEMMA SpaceFacts ==
    /\ QUEUE_LENGTH \in Nat
    /\ QUEUE_LENGTH >= 1
    /\ IndexSpace \in Nat
    /\ IndexSpace = QUEUE_LENGTH + QUEUE_LENGTH
    /\ Slots = 0 .. (IndexSpace - 1)
  BY QueueLengthAssumption DEF IndexSpace, Slots

\* The modulus of NextIndex acts at one point only, the end of the space.
LEMMA NextIndexCases ==
    ASSUME NEW s \in Slots
    PROVE  NextIndex(s) = IF s + 1 = IndexSpace THEN 0 ELSE s + 1
  <1>1. s + 1 \in 1 .. IndexSpace
    BY SpaceFacts
  <1>2. ASSUME NEW n \in Nat, NEW m \in Nat, m > 0, n < m
        PROVE  n % m = n
    BY <1>2
  <1>3. ASSUME NEW m \in Nat, m > 0
        PROVE  m % m = 0
    BY <1>3
  <1>4. CASE s + 1 = IndexSpace
    BY <1>3, <1>4, SpaceFacts DEF NextIndex
  <1>5. CASE s + 1 # IndexSpace
    BY <1>1, <1>2, <1>5, SpaceFacts DEF NextIndex
  <1>6. QED
    BY <1>4, <1>5

\* The test of a full queue compares positions half the space apart.
LEMMA QueueFullDist ==
    ASSUME NEW next \in Slots, NEW tail \in Slots
    PROVE  QueueFull(next, tail) <=> Dist(tail, next) = QUEUE_LENGTH
  <1>1. ASSUME NEW n \in Nat, NEW m \in Nat, n < m
        PROVE  n % m = n
    BY <1>1
  <1>2. ASSUME NEW n \in Nat, NEW m \in Nat, m <= n, n < m + m
        PROVE  n % m = n - m
    BY <1>2
  <1>3. next + QUEUE_LENGTH \in Nat /\ next + QUEUE_LENGTH < IndexSpace + IndexSpace
    BY SpaceFacts
  <1>4. CASE next + QUEUE_LENGTH < IndexSpace
    <2>1. (next + QUEUE_LENGTH) % IndexSpace = next + QUEUE_LENGTH
      BY <1>1, <1>3, <1>4, SpaceFacts
    <2>2. QED
      BY <2>1, <1>4, SpaceFacts DEF QueueFull, Dist
  <1>5. CASE IndexSpace <= next + QUEUE_LENGTH
    <2> DEFINE n == next + QUEUE_LENGTH
    <2>1. n \in Nat /\ IndexSpace \in Nat /\ IndexSpace <= n /\ n < IndexSpace + IndexSpace
      BY <1>3, <1>5, SpaceFacts
    <2>2. n % IndexSpace = n - IndexSpace
      <3> HIDE DEF n
      <3> QED BY <1>2, <2>1
    <2>3. QED
      BY <2>2, <1>5, SpaceFacts DEF QueueFull, Dist
  <1>6. QED
    BY <1>3, <1>4, <1>5, SpaceFacts

\* The three case distinctions of the code are comparisons of distances.
LEMMA TestsAreDistances ==
    ASSUME NEW a \in Slots, NEW b \in Slots
    PROVE  /\ Dist(a, b) \in Slots
           /\ JobsLeft(b, a) <=> Dist(a, b) < QUEUE_LENGTH
           /\ NewerThan(b, a) <=> a # b /\ Dist(a, b) < QUEUE_LENGTH
           /\ OlderThan(a, b) <=> a # b /\ Dist(a, b) < QUEUE_LENGTH
  BY SpaceFacts DEF Dist, JobsLeft, NewerThan, OlderThan

\* Distances are numbers below the size of the space.
LEMMA DistType ==
    ASSUME NEW a \in Slots, NEW b \in Slots
    PROVE  Dist(a, b) \in Int /\ Dist(a, b) >= 0 /\ Dist(a, b) < IndexSpace
  BY SpaceFacts DEF Dist

\* Going from b to a and back is once around.
LEMMA DistReverse ==
    ASSUME NEW a \in Slots, NEW b \in Slots, a # b
    PROVE  Dist(a, b) = IndexSpace - Dist(b, a)
  BY SpaceFacts DEF Dist

\* Inside one window the distances from its base order the numbers.
LEMMA DistInWindow ==
    ASSUME NEW base \in Slots, NEW a \in Slots, NEW b \in Slots,
           Dist(base, a) < QUEUE_LENGTH, Dist(base, b) < QUEUE_LENGTH
    PROVE  Dist(a, b) < QUEUE_LENGTH <=> Dist(base, a) <= Dist(base, b)
  BY SpaceFacts DEF Dist

\* The number after s is one step further from every base but itself.
LEMMA NextIndexDist ==
    ASSUME NEW base \in Slots, NEW s \in Slots, Dist(base, s) < QUEUE_LENGTH
    PROVE  /\ NextIndex(s) \in Slots
           /\ Dist(base, NextIndex(s)) = Dist(base, s) + 1
  <1>1. NextIndex(s) = IF s + 1 = IndexSpace THEN 0 ELSE s + 1
    BY NextIndexCases
  <1>2. QED
    BY <1>1, SpaceFacts DEF Dist

\* ppr's placement rule: when the queue is not full by its test, the number
\* after the newest job is unused, and adding it leaves every job within one
\* window of the oldest.
LEMMA PlacementKeepsWindow ==
    ASSUME NEW S \in SUBSET Slots, NEW h, NEW t,
           IsNewest(h, S), IsOldest(t, S),
           ~QueueFull(NextIndex(h), t)
    PROVE  /\ NextIndex(h) \in Slots
           /\ NextIndex(h) \notin S
           /\ IsOldest(t, S \cup {NextIndex(h)})
  <1> DEFINE new == NextIndex(h)
  <1>1. h \in Slots /\ t \in Slots /\ h \in S /\ t \in S
    BY DEF IsNewest, IsOldest
  <1>2. Dist(t, h) < QUEUE_LENGTH
    BY <1>1 DEF IsOldest, InWindowFrom
  <1>3. new \in Slots /\ Dist(t, new) = Dist(t, h) + 1
    BY <1>1, <1>2, NextIndexDist
  <1>4. Dist(t, new) # QUEUE_LENGTH
    BY <1>1, <1>3, QueueFullDist
  <1>5. Dist(t, new) < QUEUE_LENGTH
    <2>1. Dist(t, h) \in Int /\ Dist(t, new) \in Int
      BY <1>1, <1>3, DistType
    <2> HIDE DEF new
    <2>2. QED
      BY <1>2, <1>3, <1>4, <2>1, SpaceFacts
  <1>6. new \notin S
    <2> SUFFICES ASSUME new \in S PROVE FALSE
      OBVIOUS
    <2>1. Dist(new, h) < QUEUE_LENGTH
      BY DEF IsNewest
    <2>2. Dist(t, new) <= Dist(t, h)
      BY <1>1, <1>2, <1>3, <1>5, <2>1, DistInWindow
    <2>3. Dist(t, h) \in Int /\ Dist(t, new) \in Int
      BY <1>1, <1>3, DistType
    <2> HIDE DEF new
    <2>4. QED
      BY <1>3, <2>2, <2>3
  <1>7. IsOldest(t, S \cup {new})
    BY <1>1, <1>5 DEF IsOldest, InWindowFrom
  <1>8. QED
    BY <1>3, <1>6, <1>7

\* A listing that fits in one window keeps doing so when jobs leave it.
LEMMA WindowedSubset ==
    ASSUME NEW S \in SUBSET Slots, NEW T \in SUBSET S, Windowed(S),
           NEW t \in T, \A s \in T : ~OlderThan(s, t)
    PROVE  IsOldest(t, T)
  <1>1. PICK base \in S : InWindowFrom(base, S)
    BY DEF Windowed
  <1>2. base \in Slots /\ t \in Slots
    OBVIOUS
  <1>3. ASSUME NEW s \in T
        PROVE  Dist(t, s) < QUEUE_LENGTH
    <2>1. s \in Slots /\ Dist(base, s) < QUEUE_LENGTH /\ Dist(base, t) < QUEUE_LENGTH
      BY <1>1 DEF InWindowFrom
    <2>2. s = t \/ ~(Dist(s, t) < QUEUE_LENGTH)
      BY <1>2, <2>1, TestsAreDistances
    <2>3. CASE s = t
      BY <2>3, <1>2, SpaceFacts DEF Dist
    <2>4. CASE ~(Dist(s, t) < QUEUE_LENGTH)
      <3>1. ~(Dist(base, s) <= Dist(base, t))
        BY <1>2, <2>1, <2>4, DistInWindow
      <3>2. Dist(base, t) <= Dist(base, s)
        <4>1. Dist(base, s) \in Int /\ Dist(base, t) \in Int
          BY <1>2, <2>1, DistType
        <4>2. QED
          BY <3>1, <4>1
      <3>3. QED
        BY <1>2, <2>1, <3>2, DistInWindow
    <2>5. QED
      BY <2>2, <2>3, <2>4
  <1>4. QED
    BY <1>3 DEF IsOldest, InWindowFrom

\* The same for the newest job.
LEMMA WindowedNewest ==
    ASSUME NEW S \in SUBSET Slots, NEW T \in SUBSET S, Windowed(S),
           NEW h \in T, \A s \in T : ~NewerThan(s, h)
    PROVE  IsNewest(h, T)
  <1>1. PICK base \in S : InWindowFrom(base, S)
    BY DEF Windowed
  <1>2. base \in Slots /\ h \in Slots
    OBVIOUS
  <1>3. ASSUME NEW s \in T
        PROVE  Dist(s, h) < QUEUE_LENGTH
    <2>1. s \in Slots /\ Dist(base, s) < QUEUE_LENGTH /\ Dist(base, h) < QUEUE_LENGTH
      BY <1>1 DEF InWindowFrom
    <2>2. s = h \/ ~(Dist(h, s) < QUEUE_LENGTH)
      BY <1>2, <2>1, TestsAreDistances
    <2>3. CASE s = h
      BY <2>3, <1>2, SpaceFacts DEF Dist
    <2>4. CASE ~(Dist(h, s) < QUEUE_LENGTH)
      <3>1. ~(Dist(base, h) <= Dist(base, s))
        BY <1>2, <2>1, <2>4, DistInWindow
      <3>2. Dist(base, s) <= Dist(base, h)
        <4>1. Dist(base, s) \in Int /\ Dist(base, h) \in Int
          BY <1>2, <2>1, DistType
        <4>2. QED
          BY <3>1, <4>1
      <3>3. QED
        BY <1>2, <2>1, <3>2, DistInWindow
    <2>5. QED
      BY <2>2, <2>3, <2>4
  <1>4. QED
    BY <1>3 DEF IsNewest

\* One entry more: the scan's comparison keeps the newest of a listing that
\* fits in one window, and likewise the oldest.
LEMMA ScanStep ==
    ASSUME NEW S \in SUBSET Slots, NEW T \in SUBSET S, Windowed(S),
           NEW val \in S, NEW h, NEW t, IsNewest(h, T), IsOldest(t, T)
    PROVE  /\ IsNewest(IF NewerThan(val, h) THEN val ELSE h, T \cup {val})
           /\ IsOldest(IF OlderThan(val, t) THEN val ELSE t, T \cup {val})
  <1>1. PICK base \in S : InWindowFrom(base, S)
    BY DEF Windowed
  <1>2. /\ base \in Slots /\ val \in Slots /\ h \in Slots /\ t \in Slots
        /\ h \in T /\ t \in T
    BY DEF IsNewest, IsOldest
  <1>3. \A a \in S : Dist(base, a) < QUEUE_LENGTH /\ Dist(base, a) \in Int
    BY <1>1, <1>2, DistType DEF InWindowFrom
  <1>4. \A a, b \in S : Dist(a, b) < QUEUE_LENGTH <=> Dist(base, a) <= Dist(base, b)
    BY <1>2, <1>3, DistInWindow
  <1>5. IsNewest(IF NewerThan(val, h) THEN val ELSE h, T \cup {val})
    <2>1. NewerThan(val, h) <=> h # val /\ Dist(h, val) < QUEUE_LENGTH
      BY <1>2, TestsAreDistances
    <2>2. \A s \in T : Dist(base, s) <= Dist(base, h)
      BY <1>2, <1>4 DEF IsNewest
    <2>3. Dist(base, val) \in Int /\ Dist(base, h) \in Int /\ \A s \in T : Dist(base, s) \in Int
      BY <1>2, <1>3
    <2>4. CASE NewerThan(val, h)
      <3>1. Dist(base, h) <= Dist(base, val)
        BY <1>2, <1>4, <2>1, <2>4
      <3>2. \A s \in T \cup {val} : Dist(base, s) <= Dist(base, val)
        BY <2>2, <2>3, <3>1
      <3>3. QED
        BY <1>2, <1>4, <2>4, <3>2 DEF IsNewest
    <2>5. CASE ~NewerThan(val, h)
      <3>1. Dist(base, val) <= Dist(base, h)
        BY <1>2, <1>4, <2>1, <2>3, <2>5
      <3>2. \A s \in T \cup {val} : Dist(base, s) <= Dist(base, h)
        BY <2>2, <3>1
      <3>3. QED
        BY <1>2, <1>4, <2>5, <3>2 DEF IsNewest
    <2>6. QED
      BY <2>4, <2>5
  <1>6. IsOldest(IF OlderThan(val, t) THEN val ELSE t, T \cup {val})
    <2>1. OlderThan(val, t) <=> val # t /\ Dist(val, t) < QUEUE_LENGTH
      BY <1>2, TestsAreDistances
    <2>2. \A s \in T : Dist(base, t) <= Dist(base, s)
      BY <1>2, <1>4 DEF IsOldest, InWindowFrom
    <2>3. Dist(base, val) \in Int /\ Dist(base, t) \in Int /\ \A s \in T : Dist(base, s) \in Int
      BY <1>2, <1>3
    <2>4. CASE OlderThan(val, t)
      <3>1. Dist(base, val) <= Dist(base, t)
        BY <1>2, <1>4, <2>1, <2>4
      <3>2. \A s \in T \cup {val} : Dist(base, val) <= Dist(base, s)
        BY <2>2, <2>3, <3>1
      <3>3. QED
        BY <1>2, <1>4, <2>4, <3>2 DEF IsOldest, InWindowFrom
    <2>5. CASE ~OlderThan(val, t)
      <3>1. Dist(base, t) <= Dist(base, val)
        BY <1>2, <1>4, <2>1, <2>3, <2>5
      <3>2. \A s \in T \cup {val} : Dist(base, t) <= Dist(base, s)
        BY <2>2, <3>1
      <3>3. QED
        BY <1>2, <1>4, <2>5, <3>2 DEF IsOldest, InWindowFrom
    <2>6. QED
      BY <2>4, <2>5
  <1>7. QED
    BY <1>5, <1>6

\* Of any set of numbers one is farthest from a base.
LEMMA FarthestExists ==
    ASSUME NEW S \in SUBSET Slots, S # {}, NEW base \in Slots
    PROVE  \E h \in S : \A v \in S : Dist(base, v) <= Dist(base, h)
  <1> DEFINE beyond(h) == {s \in S : Dist(base, s) > Dist(base, h)}
             T == {beyond(h) : h \in S}
  <1>1. IsFiniteSet(S)
    <2>1. IsFiniteSet(Slots)
      BY SpaceFacts, FS_Interval
    <2>2. QED
      BY <2>1, FS_Subset
  <1>2. T \subseteq FiniteSubsetsOf(S) /\ T # {}
    <2>1. \A X \in SUBSET S : IsFiniteSet(X)
      BY <1>1, FS_Subset
    <2>2. \A h \in S : beyond(h) \in SUBSET S
      OBVIOUS
    <2> HIDE DEF beyond
    <2>3. QED
      BY <2>1, <2>2 DEF FiniteSubsetsOf
  <1>3. PICK X \in T : \A Y \in T : <<Y, X>> \notin StrictSubsetOrdering(S)
    BY <1>2, FS_StrictSubsetOrderingWellFounded, WFMin
  <1>4. PICK h \in S : X = beyond(h)
    OBVIOUS
  <1>5. \A s \in S : Dist(base, s) \in Int
    BY DistType
  <1>6. ASSUME NEW v \in beyond(h)
        PROVE  FALSE
    <2>1. beyond(v) \subseteq beyond(h) /\ v \notin beyond(v) /\ beyond(v) \in T
      BY <1>5
    <2>2. <<beyond(v), beyond(h)>> \in StrictSubsetOrdering(S)
      BY <2>1, <1>6 DEF StrictSubsetOrdering
    <2>3. QED
      BY <2>1, <2>2, <1>3, <1>4
  <1>7. QED
    BY <1>5, <1>6

\* And one is nearest to it.
LEMMA NearestExists ==
    ASSUME NEW S \in SUBSET Slots, S # {}, NEW base \in Slots
    PROVE  \E h \in S : \A v \in S : Dist(base, h) <= Dist(base, v)
  <1> DEFINE beyond(h) == {s \in S : Dist(base, s) < Dist(base, h)}
             T == {beyond(h) : h \in S}
  <1>1. IsFiniteSet(S)
    <2>1. IsFiniteSet(Slots)
      BY SpaceFacts, FS_Interval
    <2>2. QED
      BY <2>1, FS_Subset
  <1>2. T \subseteq FiniteSubsetsOf(S) /\ T # {}
    <2>1. \A X \in SUBSET S : IsFiniteSet(X)
      BY <1>1, FS_Subset
    <2>2. \A h \in S : beyond(h) \in SUBSET S
      OBVIOUS
    <2> HIDE DEF beyond
    <2>3. QED
      BY <2>1, <2>2 DEF FiniteSubsetsOf
  <1>3. PICK X \in T : \A Y \in T : <<Y, X>> \notin StrictSubsetOrdering(S)
    BY <1>2, FS_StrictSubsetOrderingWellFounded, WFMin
  <1>4. PICK h \in S : X = beyond(h)
    OBVIOUS
  <1>5. \A s \in S : Dist(base, s) \in Int
    BY DistType
  <1>6. ASSUME NEW v \in beyond(h)
        PROVE  FALSE
    <2>1. beyond(v) \subseteq beyond(h) /\ v \notin beyond(v) /\ beyond(v) \in T
      BY <1>5
    <2>2. <<beyond(v), beyond(h)>> \in StrictSubsetOrdering(S)
      BY <2>1, <1>6 DEF StrictSubsetOrdering
    <2>3. QED
      BY <2>1, <2>2, <1>3, <1>4
  <1>7. QED
    BY <1>5, <1>6

\* A listing that fits in one window has a newest job.
LEMMA NewestExists ==
    ASSUME NEW S \in SUBSET Slots, S # {}, Windowed(S)
    PROVE  \E h \in S : \A v \in S : ~NewerThan(v, h)
  <1>1. PICK base \in S : InWindowFrom(base, S)
    BY DEF Windowed
  <1>2. PICK h \in S : \A v \in S : Dist(base, v) <= Dist(base, h)
    BY FarthestExists
  <1>3. \A s \in S : Dist(base, s) \in Int
    BY DistType
  <1>4. ASSUME NEW v \in S, NewerThan(v, h)
        PROVE  FALSE
    <2>1. v # h /\ Dist(h, v) < QUEUE_LENGTH
      BY <1>4, TestsAreDistances
    <2>2. Dist(base, h) <= Dist(base, v)
      BY <1>1, <2>1, DistInWindow DEF InWindowFrom
    <2>3. Dist(base, h) # Dist(base, v)
      BY <1>1, <2>1, SpaceFacts DEF Dist
    <2>4. QED
      BY <1>2, <1>3, <2>2, <2>3
  <1>5. QED
    BY <1>4

\* Removing files leaves the others in one window.
LEMMA RemovalKeepsWindow ==
    ASSUME NEW S \in SUBSET Slots, Windowed(S), NEW T \in SUBSET S
    PROVE  Windowed(T)
  <1>1. CASE T = {}
    BY <1>1 DEF Windowed
  <1>2. CASE T # {}
    <2>1. PICK base \in S : InWindowFrom(base, S)
      BY <1>2 DEF Windowed
    <2>2. PICK t \in T : \A v \in T : Dist(base, t) <= Dist(base, v)
      BY <1>2, NearestExists
    <2>3. ASSUME NEW v \in T
          PROVE  Dist(t, v) < QUEUE_LENGTH
      <3>1. Dist(base, t) < QUEUE_LENGTH /\ Dist(base, v) < QUEUE_LENGTH
        BY <2>1 DEF InWindowFrom
      <3>2. QED
        BY <2>2, <3>1, DistInWindow
    <2>4. QED
      BY <2>3 DEF Windowed, InWindowFrom
  <1>3. QED
    BY <1>1, <1>2

\* ppr's placement rule once more, for what ppr really knows: the head it has
\* scanned may have been printed and removed since.
LEMMA PlacementAfterRemovals ==
    ASSUME NEW S \in SUBSET Slots, NEW h \in Slots, NEW t,
           \A s \in S : Dist(s, h) < QUEUE_LENGTH, IsOldest(t, S),
           ~QueueFull(NextIndex(h), t)
    PROVE  /\ NextIndex(h) \notin S
           /\ IsOldest(t, S \cup {NextIndex(h)})
  <1>1. t \in S /\ t \in Slots /\ Dist(t, h) < QUEUE_LENGTH
    BY DEF IsOldest
  <1>2. /\ NextIndex(h) \in Slots
        /\ Dist(t, NextIndex(h)) = Dist(t, h) + 1
    BY <1>1, NextIndexDist
  <1>3. Dist(t, NextIndex(h)) < QUEUE_LENGTH
    <2>1. Dist(t, NextIndex(h)) # QUEUE_LENGTH
      BY <1>1, <1>2, QueueFullDist
    <2>2. Dist(t, h) \in Int /\ QUEUE_LENGTH \in Int
      BY <1>1, DistType, SpaceFacts
    <2>3. QED
      BY <1>1, <1>2, <2>1, <2>2
  <1>4. NextIndex(h) \notin S
    <2> SUFFICES ASSUME NextIndex(h) \in S
                 PROVE  FALSE
      OBVIOUS
    <2>1. Dist(NextIndex(h), h) < QUEUE_LENGTH
      OBVIOUS
    <2>2. Dist(NextIndex(h), NextIndex(h)) = Dist(NextIndex(h), h) + 1
      BY <1>2, <2>1, NextIndexDist
    <2>3. Dist(NextIndex(h), NextIndex(h)) = 0
      BY <1>2, SpaceFacts DEF Dist
    <2>4. QED
      BY <1>2, <2>2, <2>3, DistType
  <1>5. QED
    BY <1>1, <1>3, <1>4 DEF IsOldest, InWindowFrom

-----------------------------------------------------------------------------
(* The directory.                                                          *)

\* The lock owners are all different.
LEMMA OwnerFacts ==
    /\ Free \notin Clients /\ Free \notin Removers /\ Free # Service
    /\ Service \notin Clients /\ Service \notin Removers
    /\ Clients \cap Removers = {}
  BY SpoolAssumption

\* In a directory whose files fit in one window the scans find the ends.
LEMMA ScansFindEnds ==
    ASSUME NEW S \in SUBSET Slots, S # {}, Windowed(S)
    PROVE  IsNewest(CalculateHead(S), S) /\ IsOldest(CalculateTail(S), S)
  <1>1. \E h \in S : \A v \in S : ~NewerThan(v, h)
    BY NewestExists
  <1>2. CalculateHead(S) \in S /\ \A v \in S : ~NewerThan(v, CalculateHead(S))
    BY <1>1 DEF CalculateHead
  <1>3. \E t \in S : \A v \in S : ~OlderThan(v, t)
    <2>1. PICK t \in S : InWindowFrom(t, S)
      BY DEF Windowed
    <2>2. ASSUME NEW v \in S, OlderThan(v, t)
          PROVE  FALSE
      <3>1. v # t /\ Dist(v, t) < QUEUE_LENGTH /\ Dist(t, v) < QUEUE_LENGTH
        BY <2>1, <2>2, TestsAreDistances DEF InWindowFrom
      <3>2. QED
        <4>1. Dist(v, t) = IndexSpace - Dist(t, v)
          BY <3>1, DistReverse
        <4>2. Dist(t, v) \in Int /\ Dist(v, t) \in Int
          BY DistType
        <4>3. QED
          BY <3>1, <4>1, <4>2, SpaceFacts
    <2>3. QED
      BY <2>2
  <1>4. CalculateTail(S) \in S /\ \A v \in S : ~OlderThan(v, CalculateTail(S))
    BY <1>3 DEF CalculateTail
  <1>5. QED
    BY <1>2, <1>4, WindowedNewest, WindowedSubset

-----------------------------------------------------------------------------
(* Types.                                                                  *)

\* The numbers of jobs.
LEMMA SlotFacts ==
    /\ 0 \in Slots
    /\ \A s \in Slots : NextIndex(s) \in Slots
    /\ \A s \in Slots : s \in Int
  BY SpaceFacts, NextIndexCases

\* The serial numbers of the jobs.
LEMMA JobFacts ==
    /\ \A n \in 0 .. MaxJobs : n < MaxJobs => n + 1 \in Jobs /\ n + 1 \in 0 .. MaxJobs
    /\ 0 \in 0 .. MaxJobs
  BY SpoolAssumption DEF Jobs

\* The constant states the processes start from and return to.
LEMMA ConstantStates ==
    /\ IdleClient \in ClientState /\ IdleClient \in RemoverState
    /\ IdleEntry \in EntryState
    /\ NoService \in ServiceState
    /\ \A up \in BOOLEAN : NewService(up) \in ServiceState
  BY SlotFacts DEF IdleClient, IdleEntry, NoService, NewService, ClientState,
     RemoverState, EntryState, ServiceState, ClientPcs, RemoverPcs, EntryStates,
     ServicePcs

\* A signal leaves the queue child's state well typed.
LEMMA SignalType ==
    ASSUME NEW s \in ServiceState, NEW t \in AfterSignal(s)
    PROVE  t \in ServiceState
  BY ConstantStates DEF AfterSignal, ServiceState, ServicePcs

\* A record of a process whose program counter has moved is one still.
LEMMA Moves ==
    /\ \A f \in [Clients -> ClientState], c \in Clients, pc \in ClientPcs :
         [f EXCEPT ![c].pc = pc] \in [Clients -> ClientState]
    /\ \A f \in [Clients -> ClientState], c \in Clients, s \in ClientState :
         [f EXCEPT ![c] = s] \in [Clients -> ClientState]
    /\ \A f \in [Removers -> RemoverState], r \in Removers, pc \in RemoverPcs :
         [f EXCEPT ![r].pc = pc] \in [Removers -> RemoverState]
    /\ \A f \in [Removers -> RemoverState], r \in Removers, s \in RemoverState :
         [f EXCEPT ![r] = s] \in [Removers -> RemoverState]
    /\ \A s \in ServiceState, pc \in ServicePcs : [s EXCEPT !.pc = pc] \in ServiceState
    /\ \A f \in [Printers -> EntryState], p \in Printers, st \in EntryStates :
         [f EXCEPT ![p].state = st] \in [Printers -> EntryState]
  BY DEF ClientState, RemoverState, ServiceState, EntryState

\* What a step leaves alone keeps its type.
LEMMA UnchangedTypes ==
    /\ SpoolType /\ UNCHANGED spool => SpoolType'
    /\ LockType /\ UNCHANGED locks => LockType'
    /\ HistoryType /\ UNCHANGED history => HistoryType'
    /\ BoundsType /\ UNCHANGED bounds => BoundsType'
  BY DEF SpoolType, LockType, HistoryType, BoundsType, spool, locks, history, bounds

\* The types hold in an empty queue.
LEMMA TypeInit == Init => TypeOK
  <1> SUFFICES ASSUME Init
               PROVE  TypeOK
    OBVIOUS
  <1>1. SpoolType
    BY SlotFacts, SpoolAssumption DEF Init, SpoolType
  <1>2. LockType
    BY DEF Init, LockType, Owners
  <1>3. HistoryType
    BY JobFacts DEF Init, HistoryType
  <1>4. BoundsType
    BY SpoolAssumption DEF Init, BoundsType
  <1>5. QED
    BY <1>1, <1>2, <1>3, <1>4, ConstantStates DEF Init, TypeOK


\* Every step keeps the types.
LEMMA TypeStep == TypeOK /\ InfFilesWindowed /\ [Next]_vars => TypeOK'
  <1> SUFFICES ASSUME TypeOK, InfFilesWindowed, [Next]_vars
               PROVE  TypeOK'
    OBVIOUS
  <1> USE DEF TypeOK, ClientPcs, RemoverPcs, ServicePcs, EntryStates,
              spool, locks, history, bounds
  <1>1. ASSUME NEW c \in Clients, PprStart(c)
       PROVE  TypeOK'
    BY <1>1, Moves, ConstantStates, UnchangedTypes DEF PprStart
  <1>2. ASSUME NEW c \in Clients, PprLock(c)
       PROVE  TypeOK'
    BY <1>2, Moves, UnchangedTypes DEF PprLock, LockType, Owners
  <1>3. ASSUME NEW c \in Clients, PprLockBusy(c)
       PROVE  TypeOK'
    BY <1>3, Moves, ConstantStates, UnchangedTypes DEF PprLockBusy
  <1>4. ASSUME NEW c \in Clients, PprCalculateHead(c)
       PROVE  TypeOK'
    <2>1. NewSlot \in Slots
      BY SlotFacts, ScansFindEnds
         DEF NewSlot, InfFilesWindowed, SpoolType, Files, IsNewest
    <2>2. ppr' \in [Clients -> ClientState]
      BY <1>4, <2>1 DEF PprCalculateHead, ClientState
    <2>3. QED
      BY <1>4, <2>1, <2>2, UnchangedTypes
      DEF PprCalculateHead
  <1>5. ASSUME NEW c \in Clients, PprCalculateTail(c)
       PROVE  TypeOK'
    BY <1>5, Moves, ConstantStates, UnchangedTypes DEF PprCalculateTail
  <1>6. ASSUME NEW c \in Clients, PprFull(c)
       PROVE  TypeOK'
    BY <1>6, Moves, ConstantStates, UnchangedTypes
    DEF PprFull, LockType, Owners
  <1>7. ASSUME NEW c \in Clients, PprCreateDat(c)
       PROVE  TypeOK'
    <2>1. lastJob + 1 \in Jobs /\ lastJob + 1 \in 0 .. MaxJobs
      BY <1>7, JobFacts DEF PprCreateDat, HistoryType
    <2>2. ppr' \in [Clients -> ClientState]
      BY <1>7, <2>1 DEF PprCreateDat, ClientState
    <2>3. ppr[c].slot \in Slots
      BY DEF ClientState
    <2>4. SpoolType'
      BY <1>7, <2>1 DEF PprCreateDat, SpoolType
    <2>5. HistoryType'
      BY <1>7, <2>1 DEF PprCreateDat, HistoryType
    <2>6. QED
      BY <1>7, <2>1, <2>2, <2>3, <2>4, <2>5, UnchangedTypes
      DEF PprCreateDat
  <1>8. ASSUME NEW c \in Clients, PprOpenInf(c)
       PROVE  TypeOK'
    BY <1>8, Moves, UnchangedTypes DEF PprOpenInf, SpoolType, ClientState
  <1>9. ASSUME NEW c \in Clients, PprWriteInf(c)
       PROVE  TypeOK'
    <2>1. ppr' \in [Clients -> ClientState]
      BY <1>9, Moves DEF PprWriteInf
    <2>2. ppr[c].job \in Jobs \cup {NoJob}
      BY DEF ClientState
    <2>3. SpoolType'
      BY <1>9, <2>2 DEF PprWriteInf, SpoolType
    <2>4. LockType'
      BY <1>9 DEF PprWriteInf, LockType, Owners
    <2>5. QED
      BY <1>9, <2>1, <2>2, <2>3, <2>4, UnchangedTypes
      DEF PprWriteInf
  <1>10. ASSUME NEW c \in Clients, PprUnknownUser(c)
       PROVE  TypeOK'
    BY <1>10, Moves, ConstantStates, UnchangedTypes
    DEF PprUnknownUser, SpoolType, LockType, Owners, ClientState
  <1>11. ASSUME NEW c \in Clients, PprNotify(c)
       PROVE  TypeOK'
    BY <1>11, Moves, ConstantStates, UnchangedTypes DEF PprNotify
  <1>12. ASSUME NEW r \in Removers, RmStart(r)
       PROVE  TypeOK'
    <2>1. rm' \in [Removers -> RemoverState]
      BY <1>12, ZenonT(40) DEF RmStart, RemoverState
    <2>2. QED
      BY <1>12, <2>1, UnchangedTypes
      DEF RmStart
  <1>13. ASSUME NEW r \in Removers, RmLock(r)
       PROVE  TypeOK'
    BY <1>13, Moves, UnchangedTypes DEF RmLock, LockType, Owners
  <1>14. ASSUME NEW r \in Removers, RmMayRemove(r)
       PROVE  TypeOK'
    BY <1>14, Moves, UnchangedTypes DEF RmMayRemove
  <1>15. ASSUME NEW r \in Removers, RmMayNotRemove(r)
       PROVE  TypeOK'
    BY <1>15, Moves, ConstantStates, UnchangedTypes
    DEF RmMayNotRemove, LockType, Owners
  <1>16. ASSUME NEW r \in Removers, RmOpenInf(r)
       PROVE  TypeOK'
    BY <1>16, UnchangedTypes, ZenonT(40) DEF RmOpenInf, RemoverState, SpoolType
  <1>17. ASSUME NEW r \in Removers, RmLockInf(r)
       PROVE  TypeOK'
    BY <1>17, Moves, UnchangedTypes
    DEF RmLockInf, LockType, Owners, RemoverState
  <1>18. ASSUME NEW r \in Removers, RmInfBusy(r)
       PROVE  TypeOK'
    BY <1>18, Moves, SignalType, UnchangedTypes
    DEF RmInfBusy, LockType, Owners
  <1>19. ASSUME NEW r \in Removers, RmAcknowledged(r)
       PROVE  TypeOK'
    BY <1>19, Moves, ConstantStates, UnchangedTypes
    DEF RmAcknowledged, RmLeaves, LockType, Owners
  <1>20. ASSUME NEW r \in Removers, RmUnlinkInf(r)
       PROVE  TypeOK'
    BY <1>20, Moves, UnchangedTypes DEF RmUnlinkInf, SpoolType
  <1>21. ASSUME NEW r \in Removers, RmInfGone(r)
       PROVE  TypeOK'
    BY <1>21, Moves, ConstantStates, UnchangedTypes
    DEF RmInfGone, RmLeaves, LockType, Owners
  <1>22. ASSUME NEW r \in Removers, RmUnlinkDat(r)
       PROVE  TypeOK'
    BY <1>22, Moves, ConstantStates, UnchangedTypes
    DEF RmUnlinkDat, RmLeaves, LockType, Owners, SpoolType
  <1>23. CASE DaemonServe
    <2>1. svc' = svc \/ svc' \in AfterSignal(svc) \/ svc' = NewService(TRUE)
      BY <1>23 DEF DaemonServe
    <2>2. svc' \in ServiceState
      BY <2>1, SignalType, ConstantStates
    <2>3. BOOLEAN = {TRUE, FALSE}
      OBVIOUS
    <2>4. QED
      BY <1>23, <2>1, <2>2, <2>3, UnchangedTypes
      DEF DaemonServe
  <1>24. CASE AdminSetStatus
    <2>1. [svc EXCEPT !.reload = TRUE] \in ServiceState
      BY DEF ServiceState
    <2>2. svc' \in ServiceState
      BY <1>24, <2>1, SignalType DEF AdminSetStatus
    <2>3. BoundsType'
      BY <1>24, SpoolAssumption DEF AdminSetStatus, BoundsType
    <2>4. QED
      BY <1>24, <2>2, <2>3, UnchangedTypes DEF AdminSetStatus
  <1>25. CASE CrashAndRestart
    <2>1. svc' \in ServiceState
      BY <1>25, ConstantStates DEF CrashAndRestart, BoundsType
    <2>2. entry' \in [Printers -> EntryState]
      BY <1>25, ConstantStates DEF CrashAndRestart
    <2>3. ppr' \in [Clients -> ClientState] /\ rm' \in [Removers -> RemoverState]
      BY <1>25, ConstantStates DEF CrashAndRestart
    <2>4. LockType'
      BY <1>25 DEF CrashAndRestart, LockType, Owners
    <2>5. BoundsType'
      BY <1>25, SpoolAssumption DEF CrashAndRestart, BoundsType
    <2>6. QED
      BY <1>25, <2>1, <2>2, <2>3, <2>4, <2>5, UnchangedTypes
      DEF CrashAndRestart
  <1>26. CASE SvcGetHeadTail
    <2>1. Files # {} =>
            CalculateHead(Files) \in Slots /\ CalculateTail(Files) \in Slots
      BY ScansFindEnds
         DEF InfFilesWindowed, Files, IsNewest, IsOldest
    <2>2. svc' \in ServiceState
      BY <1>26, <2>1 DEF SvcGetHeadTail, ServiceState
    <2>3. LockType'
      BY <1>26 DEF SvcGetHeadTail, LockType, Owners
    <2>4. QED
      BY <1>26, <2>1, <2>2, <2>3, UnchangedTypes
      DEF SvcGetHeadTail
  <1>27. CASE SvcNothingQueued
    BY <1>27, ConstantStates, UnchangedTypes DEF SvcNothingQueued
  <1>28. CASE SvcSend
    BY <1>28, UnchangedTypes
    DEF SvcSend, LockAfterUnlock, LockType, Owners, ServiceState
  <1>29. CASE SvcSendNothing
    BY <1>29, UnchangedTypes
    DEF SvcSendNothing, LockAfterUnlock, LockType, Owners, ServiceState
  <1>30. CASE SvcPause
    BY <1>30, UnchangedTypes DEF SvcPause, ServiceState
  <1>31. CASE SvcOpenInf
    BY <1>31, UnchangedTypes DEF SvcOpenInf, ServiceState, SpoolType
  <1>32. CASE SvcLockInf
    BY <1>32, UnchangedTypes DEF SvcLockInf, LockType, Owners, ServiceState
  <1>33. CASE SvcInfLocked \/ SvcForkFails
    BY <1>33, UnchangedTypes DEF SvcInfLocked, SvcForkFails, ServiceState
  <1>34. CASE SvcPrintJob
    <2>1. svc.tail \in Slots /\ svc.opened \in Jobs \cup {NoJob}
         /\ svc.numChildren \in Int
      BY DEF ServiceState
    <2>2. dat[svc.tail] \in Jobs \cup {NoJob}
      BY <2>1 DEF SpoolType
    <2>3. entry' \in [Printers -> EntryState]
      BY <1>34, <2>1, <2>2 DEF SvcPrintJob, EntryState
    <2>4. svc' \in ServiceState
      <3>1. svc' = [svc EXCEPT !.pc = "awake", !.opened = NoJob, !.numChildren = @ + 1]
        BY <1>34 DEF SvcPrintJob
      <3>2. svc.numChildren + 1 \in Int
        BY <2>1
      <3>3. QED
        BY <3>1, <3>2 DEF ServiceState
    <2>5. QED
      BY <1>34, <2>1, <2>2, <2>3, <2>4, UnchangedTypes
      DEF SvcPrintJob
  <1>35. CASE SvcDropInf
    BY <1>35, UnchangedTypes
    DEF SvcDropInf, ServiceState, SpoolType, LockType, Owners
  <1>36. CASE SvcDropFails
    BY <1>36, ConstantStates, UnchangedTypes
    DEF SvcDropFails, ServiceExits, LockType, Owners, EntryState
  <1>37. CASE SvcTestChildExited
    BY <1>37, UnchangedTypes DEF SvcTestChildExited, ServiceState
  <1>38. CASE SvcHarvest
    <2>1. PICK p \in Printers :
              /\ entry' = [entry EXCEPT ![p] = IdleEntry]
              /\ infLock' = [infLock EXCEPT ![entry[p].inf] = Free]
              /\ svc' = [svc EXCEPT !.pc = "unlinkdat", !.reaping = entry[p].jobnum,
                                    !.numChildren = @ - 1]
      BY <1>38 DEF SvcHarvest
    <2>2. entry[p].jobnum \in Slots
      BY DEF EntryState
    <2>3. entry' \in [Printers -> EntryState]
      BY <2>1, ConstantStates
    <2>4. svc' \in ServiceState
      <3>1. svc.numChildren - 1 \in Int
        BY DEF ServiceState
      <3>2. QED
        BY <2>1, <2>2, <3>1 DEF ServiceState
    <2>5. LockType'
      BY <1>38, <2>1 DEF SvcHarvest, LockType, Owners
    <2>6. QED
      BY <1>38, <2>1, <2>2, <2>3, <2>4, <2>5, UnchangedTypes
      DEF SvcHarvest
  <1>39. CASE SvcHarvestEnds
    BY <1>39, UnchangedTypes DEF SvcHarvestEnds, ServiceState
  <1>40. CASE SvcUnlinkDat
    <2>1. SpoolType'
      BY <1>40 DEF SvcUnlinkDat, SpoolType, ServiceState
    <2>2. svc' \in ServiceState
      BY <1>40, Moves DEF SvcUnlinkDat
    <2>3. QED
      BY <1>40, <2>1, <2>2, UnchangedTypes
      DEF SvcUnlinkDat
  <1>41. CASE SvcUnlinkInf
    BY <1>41, SlotFacts, UnchangedTypes
    DEF SvcUnlinkInf, SpoolType, ServiceState
  <1>42. CASE SvcUnlinkFails
    BY <1>42, ConstantStates, UnchangedTypes
    DEF SvcUnlinkFails, ServiceExits, LockType, Owners, EntryState
  <1>43. CASE SvcAdvance
    BY <1>43, SlotFacts, UnchangedTypes
    DEF SvcAdvance, TailAfterSend, ServiceState, BoundsType
  <1>44. CASE SvcRelock
    <2>1. LockType'
      BY <1>44 DEF SvcRelock, LockType, Owners
    <2>2. svc' \in ServiceState
      BY <1>44, Moves DEF SvcRelock
    <2>3. QED
      BY <1>44, <2>1, <2>2, UnchangedTypes
      DEF SvcRelock
  <1>45. CASE SvcRecalculate
    <2>1. Files # {} =>
            CalculateHead(Files) \in Slots /\ CalculateTail(Files) \in Slots
      BY ScansFindEnds
         DEF InfFilesWindowed, Files, IsNewest, IsOldest
    <2>2. svc' \in ServiceState
      BY <1>45, <2>1 DEF SvcRecalculate, ServiceState
    <2>3. QED
      BY <1>45, <2>1, <2>2, UnchangedTypes
      DEF SvcRecalculate
  <1>46. CASE SvcExit
    BY <1>46, ConstantStates, UnchangedTypes
    DEF SvcExit, ServiceExits, LockType, Owners, EntryState, SpoolType, ServiceState
  <1>47. ASSUME NEW p \in Printers, ChildBegin(p)
       PROVE  TypeOK'
    BY <1>47, UnchangedTypes DEF ChildBegin, EntryState
  <1>48. ASSUME NEW p \in Printers, ChildRefuse(p)
       PROVE  TypeOK'
    <2>1. entry' \in [Printers -> EntryState]
      BY <1>48, Moves DEF ChildRefuse, ChildExits
    <2>2. [svc EXCEPT !.childExited = TRUE] \in ServiceState
      BY DEF ServiceState
    <2>3. svc' \in ServiceState
      BY <1>48, <2>2, SignalType DEF ChildRefuse, ChildExits
    <2>4. entry[p].inf \in Jobs \cup {NoJob}
      BY DEF EntryState
    <2>5. HistoryType'
      BY <1>48, <2>4 DEF ChildRefuse, HistoryType
    <2>6. QED
      BY <1>48, <2>1, <2>2, <2>3, <2>4, <2>5, UnchangedTypes
      DEF ChildRefuse, ChildExits
  <1>49. ASSUME NEW p \in Printers, ChildFinish(p)
       PROVE  TypeOK'
    <2>1. entry' \in [Printers -> EntryState]
      BY <1>49, Moves DEF ChildFinish, ChildExits
    <2>2. [svc EXCEPT !.childExited = TRUE] \in ServiceState
      BY DEF ServiceState
    <2>3. svc' \in ServiceState
      BY <1>49, <2>2, SignalType DEF ChildFinish, ChildExits
    <2>4. entry[p].inf \in Jobs \cup {NoJob}
      BY DEF EntryState
    <2>5. HistoryType'
      <3>1. prints' = [prints EXCEPT ![entry[p].dat] = @ + 1]
        BY <1>49 DEF ChildFinish
      <3>2. \A j \in Jobs : prints[j] + 1 \in Nat
        BY DEF HistoryType
      <3>3. prints' \in [Jobs -> Nat]
        BY <3>1, <3>2 DEF HistoryType
      <3>4. QED
        BY <1>49, <2>4, <3>3 DEF ChildFinish, HistoryType
    <2>6. QED
      BY <1>49, <2>1, <2>2, <2>3, <2>4, <2>5, UnchangedTypes
      DEF ChildFinish, ChildExits
  <1>50. ASSUME NEW j \in Jobs, OrphanFinish(j)
       PROVE  TypeOK'
    BY <1>50, UnchangedTypes DEF OrphanFinish, HistoryType
  <1>51. CASE UNCHANGED vars
    BY <1>51, UnchangedTypes DEF vars
  <1>52. QED
    BY <1>1, <1>2, <1>3, <1>4, <1>5, <1>6, <1>7, <1>8, <1>9, <1>10, <1>11,
       <1>12, <1>13, <1>14, <1>15, <1>16, <1>17, <1>18, <1>19, <1>20,
       <1>21, <1>22, <1>23, <1>24, <1>25, <1>26, <1>27, <1>28, <1>29,
       <1>30, <1>31, <1>32, <1>33, <1>34, <1>35, <1>36, <1>37, <1>38,
       <1>39, <1>40, <1>41, <1>42, <1>43, <1>44, <1>45, <1>46, <1>47,
       <1>48, <1>49, <1>50, <1>51
    DEF Next, PprStep, RmStep, SvcStep, ChildStep

-----------------------------------------------------------------------------
(* The lock on .lock.                                                      *)

\* Which steps touch the lock, a ppr or a pprm other than their own.
LEMMA ServiceKeepsOut ==
    ASSUME SvcStep \/ (\E p \in Printers : ChildStep(p))
           \/ (\E j \in Jobs : OrphanFinish(j)) \/ DaemonServe \/ AdminSetStatus
    PROVE  /\ UNCHANGED <<ppr, rm>>
           /\ lock' = lock \/ lock \in {Free, Service}
  <1>1. CASE SvcStep
    BY <1>1 DEF SvcStep, SvcGetHeadTail, SvcNothingQueued, SvcSend,
       SvcSendNothing, SvcPause, SvcOpenInf, SvcLockInf, SvcInfLocked, SvcForkFails,
       SvcPrintJob, SvcDropInf, SvcDropFails, SvcTestChildExited, SvcHarvest,
       SvcHarvestEnds, SvcUnlinkDat, SvcUnlinkInf, SvcUnlinkFails, SvcAdvance,
       SvcRelock, SvcRecalculate, SvcExit, ServiceExits, LockAvailable,
       LockAfterUnlock, locks
  <1>2. CASE \E p \in Printers : ChildStep(p)
    BY <1>2 DEF ChildStep, ChildBegin, ChildRefuse, ChildFinish, locks
  <1>3. CASE (\E j \in Jobs : OrphanFinish(j)) \/ DaemonServe \/ AdminSetStatus
    BY <1>3 DEF OrphanFinish, DaemonServe, AdminSetStatus, locks
  <1>4. QED
    BY <1>1, <1>2, <1>3

\* Nobody is at work in the directory at the start.
LEMMA LockInit == Init => LockExclusion
  BY DEF Init, LockExclusion, ClientCritical, RemoverCritical, IdleClient

\* A process enters the directory with the lock free, and gives the lock up
\* only if it is its own.
LEMMA LockStep == TypeOK /\ LockExclusion /\ [Next]_vars => LockExclusion'
  <1> SUFFICES ASSUME TypeOK, LockExclusion, [Next]_vars
               PROVE  LockExclusion'
    OBVIOUS
  <1> USE OwnerFacts DEF LockExclusion, ClientCritical, RemoverCritical
  <1>1. ASSUME NEW c \in Clients, PprStart(c) \/ PprStep(c)
        PROVE  LockExclusion'
    <2>1. ppr \in [Clients -> ClientState]
      BY DEF TypeOK
    <2>2. CASE PprLock(c)
      BY <2>1, <2>2 DEF PprLock, LockAvailable
    <2>3. CASE PprFull(c) \/ PprWriteInf(c) \/ PprUnknownUser(c)
      <3>1. /\ lock = c /\ lock' = Free /\ rm' = rm
            /\ \A d \in Clients : d # c => ppr'[d] = ppr[d]
            /\ ppr'[c].pc \in {"idle", "notify"}
        BY <2>1, <2>3 DEF PprFull, PprWriteInf, PprUnknownUser, IdleClient,
           ClientState
      <3>2. QED
        BY <3>1
    <2>4. CASE PprStart(c) \/ PprLockBusy(c) \/ PprNotify(c)
      <3>1. /\ lock' = lock /\ rm' = rm
            /\ \A d \in Clients : d # c => ppr'[d] = ppr[d]
            /\ ppr'[c].pc \in {"idle", "lock"}
        BY <2>1, <2>4 DEF PprStart, PprLockBusy, PprNotify, IdleClient, locks,
           ClientState
      <3>2. QED
        BY <3>1
    <2>5. CASE PprCalculateHead(c) \/ PprCalculateTail(c) \/ PprCreateDat(c)
               \/ PprOpenInf(c)
      <3>1. /\ lock' = lock /\ rm' = rm
            /\ \A d \in Clients : d # c => ppr'[d] = ppr[d]
            /\ lock = c
        BY <2>1, <2>5 DEF PprCalculateHead, PprCalculateTail, PprCreateDat,
           PprOpenInf, locks, ClientState
      <3>2. QED
        BY <3>1
    <2>6. QED
      BY <1>1, <2>2, <2>3, <2>4, <2>5 DEF PprStep
  <1>2. ASSUME NEW r \in Removers, RmStart(r) \/ RmStep(r)
        PROVE  LockExclusion'
    <2>1. rm \in [Removers -> RemoverState]
      BY DEF TypeOK
    <2>2. CASE RmLock(r)
      BY <2>1, <2>2 DEF RmLock, LockAvailable
    <2>3. CASE RmMayNotRemove(r) \/ RmAcknowledged(r) \/ RmInfGone(r)
               \/ RmUnlinkDat(r)
      BY <2>1, <2>3 DEF RmMayNotRemove, RmAcknowledged, RmInfGone, RmUnlinkDat,
         RmLeaves, IdleClient
    <2>4. CASE RmStart(r)
      <3>1. /\ lock' = lock /\ ppr' = ppr
            /\ \A q \in Removers : q # r => rm'[q] = rm[q]
            /\ rm'[r].pc = "lock"
        BY <2>1, <2>4 DEF RmStart, locks, RemoverState
      <3>2. QED
        BY <3>1
    <2>5. CASE RmMayRemove(r) \/ RmOpenInf(r) \/ RmLockInf(r) \/ RmInfBusy(r)
               \/ RmUnlinkInf(r)
      <3>1. /\ lock' = lock /\ ppr' = ppr
            /\ \A q \in Removers : q # r => rm'[q] = rm[q]
            /\ lock = r
        BY <2>1, <2>5 DEF RmMayRemove, RmOpenInf, RmLockInf, RmInfBusy,
           RmUnlinkInf, locks
      <3>2. QED
        BY <3>1
    <2>6. QED
      BY <1>2, <2>2, <2>3, <2>4, <2>5 DEF RmStep
  <1>3. CASE CrashAndRestart
    BY <1>3 DEF CrashAndRestart, IdleClient
  <1>4. CASE SvcStep \/ (\E p \in Printers : ChildStep(p))
             \/ (\E j \in Jobs : OrphanFinish(j)) \/ DaemonServe \/ AdminSetStatus
    <2>1. UNCHANGED <<ppr, rm>> /\ (lock' = lock \/ lock \in {Free, Service})
      BY <1>4, ServiceKeepsOut
    <2>2. QED
      BY <2>1
  <1>5. CASE UNCHANGED vars
    BY <1>5 DEF vars, locks
  <1>6. QED
    BY <1>1, <1>2, <1>3, <1>4, <1>5 DEF Next

-----------------------------------------------------------------------------
(* The numbers in use.                                                     *)

\* Where a ppr stands while it holds .lock.  Between the two scans the queue
\* child may have removed files, the head among them; after the test the
\* number it has chosen is free and can be added.
ClientsPlaced ==
    \A c \in Clients :
        /\ ppr[c].pc = "tail" /\ Files # {}
              => \E h \in Slots : /\ ppr[c].slot = NextIndex(h)
                                  /\ \A s \in Files : Dist(s, h) < QUEUE_LENGTH
        /\ ppr[c].pc \in {"dat", "inf"}
              => /\ ppr[c].slot \notin Files
                 /\ Windowed(Files \cup {ppr[c].slot})

SpoolInv == TypeOK /\ LockExclusion /\ InfFilesWindowed /\ ClientsPlaced

\* Only ppr's fopen adds an inf file.
LEMMA OthersOnlyRemove ==
    ASSUME TypeOK, SvcStep \/ (\E p \in Printers : ChildStep(p))
           \/ (\E j \in Jobs : OrphanFinish(j)) \/ DaemonServe \/ AdminSetStatus
           \/ CrashAndRestart \/ (\E r \in Removers : RmStart(r) \/ RmStep(r))
           \/ UNCHANGED vars
    PROVE  Files' \subseteq Files
  <1> USE DEF Files
  <1>1. inf \in [Slots -> Jobs \cup {NoJob}]
    BY DEF TypeOK, SpoolType
  <1>2. CASE SvcStep
    BY <1>1, <1>2 DEF SvcStep, SvcGetHeadTail, SvcNothingQueued, SvcSend,
       SvcSendNothing, SvcPause, SvcOpenInf, SvcLockInf, SvcInfLocked, SvcForkFails,
       SvcPrintJob, SvcDropInf, SvcDropFails, SvcTestChildExited, SvcHarvest,
       SvcHarvestEnds, SvcUnlinkDat, SvcUnlinkInf, SvcUnlinkFails, SvcAdvance,
       SvcRelock, SvcRecalculate, SvcExit, spool
  <1>3. CASE \E p \in Printers : ChildStep(p)
    BY <1>3 DEF ChildStep, ChildBegin, ChildRefuse, ChildFinish, spool
  <1>4. CASE \/ \E j \in Jobs : OrphanFinish(j)
             \/ DaemonServe \/ AdminSetStatus \/ CrashAndRestart \/ UNCHANGED vars
    BY <1>4 DEF OrphanFinish, DaemonServe, AdminSetStatus, CrashAndRestart,
       vars, spool
  <1>5. CASE \E r \in Removers : RmStart(r) \/ RmStep(r)
    BY <1>1, <1>5 DEF RmStart, RmStep, RmLock, RmMayRemove, RmMayNotRemove,
       RmOpenInf, RmLockInf, RmInfBusy, RmAcknowledged, RmUnlinkInf, RmInfGone,
       RmUnlinkDat, spool
  <1>6. QED
    BY <1>2, <1>3, <1>4, <1>5

\* Removing files spoils nothing a ppr has worked out.
LEMMA RemovalIsHarmless ==
    ASSUME SpoolInv, Files' \subseteq Files, ppr' = ppr
    PROVE  InfFilesWindowed' /\ ClientsPlaced'
  <1>1. Files \in SUBSET Slots
    BY DEF Files
  <1>2. InfFilesWindowed'
    BY <1>1, RemovalKeepsWindow DEF SpoolInv, InfFilesWindowed
  <1>3. ASSUME NEW c \in Clients, ppr[c].pc \in {"dat", "inf"}
        PROVE  Windowed(Files' \cup {ppr[c].slot})
    <2>1. ppr[c].slot \in Slots
      BY DEF SpoolInv, TypeOK, ClientState
    <2>2. Windowed(Files \cup {ppr[c].slot})
      BY <1>3 DEF SpoolInv, ClientsPlaced
    <2>3. QED
      BY <1>1, <2>1, <2>2, RemovalKeepsWindow
  <1>4. ClientsPlaced'
    BY <1>3 DEF SpoolInv, ClientsPlaced
  <1>5. QED
    BY <1>2, <1>4

\* ppr's own steps.  While it is past the lock no other ppr is, so only its
\* own numbers are concerned.
LEMMA ClientStep ==
    ASSUME SpoolInv, NEW c \in Clients, PprStart(c) \/ PprStep(c)
    PROVE  InfFilesWindowed' /\ ClientsPlaced'
  <1> USE DEF SpoolInv
  <1>1. /\ ppr \in [Clients -> ClientState]
        /\ inf \in [Slots -> Jobs \cup {NoJob}]
        /\ Files \in SUBSET Slots
        /\ \A d \in Clients : ppr[d].slot \in Slots
    BY DEF TypeOK, SpoolType, ClientState, Files
  <1>2. ASSUME ClientCritical(c), NEW d \in Clients, d # c
        PROVE  ~ClientCritical(d)
    BY <1>2 DEF LockExclusion
  <1>3. \A d \in Clients : d # c => ppr'[d] = ppr[d]
    BY <1>1 DEF PprStart, PprStep, PprLock, PprLockBusy, PprCalculateHead,
       PprCalculateTail, PprFull, PprCreateDat, PprOpenInf, PprWriteInf,
       PprUnknownUser, PprNotify
  <1>4. CASE PprStart(c) \/ PprLock(c) \/ PprLockBusy(c) \/ PprFull(c)
             \/ PprWriteInf(c) \/ PprUnknownUser(c) \/ PprNotify(c)
    <2>1. Files' = Files /\ ppr'[c].pc \in {"idle", "lock", "head", "notify"}
      BY <1>1, <1>4 DEF PprStart, PprLock, PprLockBusy, PprFull, PprWriteInf,
         PprUnknownUser, PprNotify, IdleClient, Files, spool, ClientState
    <2>2. QED
      BY <1>3, <2>1 DEF InfFilesWindowed, ClientsPlaced
  <1>5. CASE PprCalculateHead(c)
    <2>1. /\ Files' = Files
          /\ ppr'[c].pc = "tail" /\ ppr'[c].slot = NewSlot
      BY <1>1, <1>5 DEF PprCalculateHead, Files, spool, ClientState
    <2>2. Files # {} => IsNewest(CalculateHead(Files), Files)
      BY <1>1, ScansFindEnds DEF InfFilesWindowed
    <2>3. Files # {} => \E h \in Slots : /\ NewSlot = NextIndex(h)
                                         /\ \A s \in Files : Dist(s, h) < QUEUE_LENGTH
      BY <1>1, <2>2 DEF NewSlot, IsNewest
    <2>4. QED
      BY <1>3, <2>1, <2>3 DEF InfFilesWindowed, ClientsPlaced
  <1>6. CASE PprCalculateTail(c)
    <2>1. /\ Files' = Files /\ ~QueueIsFull(c)
          /\ ppr[c].pc = "tail" /\ ppr'[c].pc = "dat" /\ ppr'[c].slot = ppr[c].slot
      BY <1>1, <1>6 DEF PprCalculateTail, Files, spool, ClientState
    <2>2. CASE Files = {}
      <3>1. Windowed({ppr[c].slot})
        BY <1>1, SpaceFacts DEF Windowed, InWindowFrom, Dist
      <3>2. QED
        BY <1>3, <2>1, <2>2, <3>1 DEF InfFilesWindowed, ClientsPlaced
    <2>3. CASE Files # {}
      <3>1. PICK h \in Slots : /\ ppr[c].slot = NextIndex(h)
                               /\ \A s \in Files : Dist(s, h) < QUEUE_LENGTH
        BY <2>1, <2>3 DEF ClientsPlaced
      <3>2. IsOldest(CalculateTail(Files), Files)
        BY <1>1, <2>3, ScansFindEnds DEF InfFilesWindowed
      <3>3. ~QueueFull(NextIndex(h), CalculateTail(Files))
        BY <2>1, <2>3, <3>1 DEF QueueIsFull
      <3>4. /\ ppr[c].slot \notin Files
            /\ IsOldest(CalculateTail(Files), Files \cup {ppr[c].slot})
        BY <1>1, <3>1, <3>2, <3>3, PlacementAfterRemovals
      <3>5. QED
        BY <1>3, <2>1, <2>3, <3>4
           DEF InfFilesWindowed, ClientsPlaced, Windowed, IsOldest
    <2>4. QED
      BY <2>2, <2>3
  <1>7. CASE PprCreateDat(c)
    <2>1. /\ Files' = Files
          /\ ppr[c].pc = "dat" /\ ppr'[c].pc = "inf" /\ ppr'[c].slot = ppr[c].slot
      BY <1>1, <1>7 DEF PprCreateDat, Files, ClientState
    <2>2. QED
      BY <1>3, <2>1 DEF InfFilesWindowed, ClientsPlaced
  <1>8. CASE PprOpenInf(c)
    <2>1. /\ Files' \subseteq Files \cup {ppr[c].slot}
          /\ ppr[c].pc = "inf" /\ ppr'[c].pc = "write"
      BY <1>1, <1>8 DEF PprOpenInf, Files, ClientState
    <2>2. Windowed(Files \cup {ppr[c].slot})
      BY <2>1 DEF ClientsPlaced
    <2>3. InfFilesWindowed'
      BY <1>1, <2>1, <2>2, RemovalKeepsWindow DEF InfFilesWindowed
    <2>4. \A d \in Clients : d # c => ppr'[d].pc \notin {"tail", "dat", "inf"}
      BY <1>2, <1>3, <2>1 DEF ClientCritical
    <2>5. QED
      BY <2>1, <2>3, <2>4 DEF ClientsPlaced
  <1>9. QED
    BY <1>4, <1>5, <1>6, <1>7, <1>8 DEF PprStep

\* The invariant holds at the start.
LEMMA SpoolInvInit == Init => SpoolInv
  <1> SUFFICES ASSUME Init
               PROVE  SpoolInv
    OBVIOUS
  <1>1. Files = {} /\ \A c \in Clients : ppr[c].pc = "idle"
    BY DEF Init, Files, IdleClient
  <1>2. InfFilesWindowed /\ ClientsPlaced
    BY <1>1 DEF InfFilesWindowed, Windowed, ClientsPlaced
  <1>3. QED
    BY <1>2, TypeInit, LockInit DEF SpoolInv

\* Every step keeps the invariant: those that add a file, those that remove
\* one, and the rest.
LEMMA SpoolInvStep == SpoolInv /\ [Next]_vars => SpoolInv'
  <1> SUFFICES ASSUME SpoolInv, [Next]_vars
               PROVE  SpoolInv'
    OBVIOUS
  <1>1. TypeOK' /\ LockExclusion'
    BY TypeStep, LockStep DEF SpoolInv
  <1>2. InfFilesWindowed' /\ ClientsPlaced'
    <2>1. CASE \E c \in Clients : PprStart(c) \/ PprStep(c)
      BY <2>1, ClientStep
    <2>2. CASE CrashAndRestart
      <3>1. Files' \subseteq Files /\ \A c \in Clients : ppr'[c].pc = "idle"
        BY <2>2, OthersOnlyRemove DEF SpoolInv, CrashAndRestart, IdleClient
      <3>2. Files \in SUBSET Slots
        BY DEF Files
      <3>3. QED
        BY <3>1, <3>2, RemovalKeepsWindow
           DEF SpoolInv, InfFilesWindowed, ClientsPlaced
    <2>3. CASE SvcStep \/ (\E p \in Printers : ChildStep(p))
             \/ (\E j \in Jobs : OrphanFinish(j)) \/ DaemonServe \/ AdminSetStatus
      BY <2>3, OthersOnlyRemove, ServiceKeepsOut, RemovalIsHarmless DEF SpoolInv
    <2>4. CASE \E r \in Removers : RmStart(r) \/ RmStep(r)
      <3>1. ppr' = ppr
        BY <2>4 DEF RmStart, RmStep, RmLock, RmMayRemove, RmMayNotRemove,
           RmOpenInf, RmLockInf, RmInfBusy, RmAcknowledged, RmUnlinkInf,
           RmInfGone, RmUnlinkDat
      <3>2. QED
        BY <2>4, <3>1, OthersOnlyRemove, RemovalIsHarmless DEF SpoolInv
    <2>5. CASE UNCHANGED vars
      BY <2>5, OthersOnlyRemove, RemovalIsHarmless DEF SpoolInv, vars
    <2>6. QED
      BY <2>1, <2>2, <2>3, <2>4, <2>5 DEF Next
  <1>3. QED
    BY <1>1, <1>2 DEF SpoolInv

\* The invariant holds in every behaviour.
LEMMA SpoolInvariant == Spec => []SpoolInv
  BY SpoolInvInit, SpoolInvStep, PTL DEF Spec

\* Every variable keeps its type.
THEOREM SpoolTypes == Spec => []TypeOK
  <1>1. SpoolInv => TypeOK
    BY DEF SpoolInv
  <1>2. QED
    BY <1>1, SpoolInvariant, PTL

\* ppr and pprm are in the directory one at a time, with any number of them,
\* whatever signals reach the queue child and whenever the machine crashes.
THEOREM LockExcludes == Spec => []LockExclusion
  <1>1. SpoolInv => LockExclusion
    BY DEF SpoolInv
  <1>2. QED
    BY <1>1, SpoolInvariant, PTL

\* A listing of the directory can always be read: the files fit in one window
\* of QUEUE_LENGTH numbers, although the queue child removes files without the
\* lock, between a ppr's two scans too.
THEOREM DirectoryScannable == Spec => []InfFilesWindowed
  <1>1. SpoolInv => InfFilesWindowed
    BY DEF SpoolInv
  <1>2. QED
    BY <1>1, SpoolInvariant, PTL

\* ppr never overwrites a queued job.
THEOREM NoJobOverwritten == Spec => []NumberIsFree
  <1>1. SpoolInv => NumberIsFree
    <2> SUFFICES ASSUME SpoolInv, NEW c \in Clients, ppr[c].pc \in {"dat", "inf"}
                 PROVE  inf[ppr[c].slot] = NoJob
      BY DEF NumberIsFree
    <2>1. ppr[c].slot \notin Files /\ ppr[c].slot \in Slots
      BY DEF SpoolInv, ClientsPlaced, TypeOK, ClientState
    <2>2. QED
      BY <2>1 DEF Files
  <1>2. QED
    BY <1>1, SpoolInvariant, PTL
-----------------------------------------------------------------------------
(* The queue child's count of its children.                                *)

\* A signal leaves all but the program counter alone, or ends a queue child
\* that has no children yet.
LEMMA SignalEffect ==
    ASSUME NEW s \in ServiceState, NEW t \in AfterSignal(s)
    PROVE  \/ t = s
           \/ s.pc = "paused" /\ t = [s EXCEPT !.pc = "awake"]
           \/ s.pc = "relock" /\ t = [s EXCEPT !.pc = "recalc"]
           \/ s.pc = "init" /\ t = NoService
  BY DEF AfterSignal

\* Between two lives of the queue child, and on its way out, it has none.
NoneLeft == svc.pc \in {"none", "init", "exiting"} => Busy = {}

Counted == svc.numChildren = Cardinality(Busy) /\ NoneLeft

\* The busy printers can be counted.
LEMMA BusyFinite == IsFiniteSet(Busy) /\ Cardinality(Busy) \in Nat
  <1>1. IsFiniteSet(Printers) /\ Busy \in SUBSET Printers
    BY SpoolAssumption DEF Busy
  <1>2. QED
    BY <1>1, FS_Subset, FS_CardinalityType

\* What a signal, with the flags its handler sets, does to the count.
LEMMA SignalKeepsCount ==
    ASSUME TypeOK, Counted, NEW s \in ServiceState, svc' \in AfterSignal(s),
           s.pc = svc.pc, s.numChildren = svc.numChildren, Busy' = Busy
    PROVE  Counted'
  <1>1. \/ svc' = s
        \/ s.pc = "paused" /\ svc' = [s EXCEPT !.pc = "awake"]
        \/ s.pc = "relock" /\ svc' = [s EXCEPT !.pc = "recalc"]
        \/ s.pc = "init" /\ svc' = NoService
    BY SignalEffect
  <1>2. CASE s.pc = "init" /\ svc' = NoService
    BY <1>2, FS_EmptySet DEF Counted, NoneLeft, NoService
  <1>3. CASE ~(s.pc = "init" /\ svc' = NoService)
    BY <1>1, <1>3 DEF Counted, NoneLeft, ServiceState
  <1>4. QED
    BY <1>2, <1>3

\* An exit closes the table; what is left behind is another matter.
LEMMA ExitKeepsCount ==
    ASSUME ServiceExits
    PROVE  Counted'
  <1>1. svc' = NoService /\ \A p \in Printers : entry'[p].state = "idle"
    BY DEF ServiceExits, IdleEntry
  <1>2. Busy' = {}
    BY <1>1 DEF Busy
  <1>3. QED
    BY <1>1, <1>2, FS_EmptySet DEF Counted, NoneLeft, NoService

\* Every step keeps the count of children equal to the busy entries.
LEMMA CountStep == TypeOK /\ Counted /\ [Next]_vars => Counted'
  <1> SUFFICES ASSUME TypeOK, Counted, [Next]_vars
               PROVE  Counted'
    OBVIOUS
  <1>1. /\ svc \in ServiceState
        /\ entry \in [Printers -> EntryState]
    BY DEF TypeOK
  <1>2. ASSUME UNCHANGED <<svc, entry>>
        PROVE  Counted'
    BY <1>2 DEF Counted, NoneLeft, Busy
  <1>3. CASE (\E c \in Clients : PprStart(c) \/ PprStep(c)) \/ UNCHANGED vars
    BY <1>2, <1>3 DEF PprStart, PprStep, PprLock, PprLockBusy, PprCalculateHead,
       PprCalculateTail, PprFull, PprCreateDat, PprOpenInf, PprWriteInf,
       PprUnknownUser, PprNotify, vars
  <1>4. ASSUME NEW r \in Removers, RmStart(r) \/ RmStep(r)
        PROVE  Counted'
    <2>1. CASE RmInfBusy(r)
      <3>1. svc' \in AfterSignal(svc) /\ Busy' = Busy
        BY <2>1 DEF RmInfBusy, Busy
      <3>2. QED
        BY <1>1, <3>1, SignalKeepsCount
    <2>2. CASE ~RmInfBusy(r)
      BY <1>2, <1>4, <2>2 DEF RmStart, RmStep, RmLock, RmMayRemove, RmMayNotRemove,
         RmOpenInf, RmLockInf, RmAcknowledged, RmUnlinkInf, RmInfGone, RmUnlinkDat
    <2>3. QED
      BY <2>1, <2>2
  <1>5. CASE DaemonServe
    <2>1. Busy' = Busy
      BY <1>5 DEF DaemonServe, Busy
    <2>2. \/ svc' = svc
          \/ svc' \in AfterSignal(svc)
          \/ svc.pc = "none" /\ svc' = NewService(TRUE)
      BY <1>5 DEF DaemonServe
    <2>3. CASE svc.pc = "none" /\ svc' = NewService(TRUE)
      <3>1. svc'.numChildren = 0 /\ Busy = {}
        BY <2>3 DEF NewService, NoService, Counted, NoneLeft
      <3>2. QED
        BY <2>1, <3>1, FS_EmptySet DEF Counted, NoneLeft
    <2>4. CASE svc' = svc
      BY <2>1, <2>4 DEF Counted, NoneLeft
    <2>5. QED
      BY <1>1, <2>1, <2>2, <2>3, <2>4, SignalKeepsCount
  <1>6. CASE AdminSetStatus
    <2>1. Busy' = Busy
      BY <1>6 DEF AdminSetStatus, Busy
    <2>2. /\ [svc EXCEPT !.reload = TRUE] \in ServiceState
          /\ [svc EXCEPT !.reload = TRUE].pc = svc.pc
          /\ [svc EXCEPT !.reload = TRUE].numChildren = svc.numChildren
      BY <1>1 DEF ServiceState
    <2>3. svc' = svc \/ svc' \in AfterSignal([svc EXCEPT !.reload = TRUE])
      BY <1>6 DEF AdminSetStatus
    <2>4. CASE svc' = svc
      BY <2>1, <2>4 DEF Counted, NoneLeft
    <2>5. QED
      BY <2>1, <2>2, <2>3, <2>4, SignalKeepsCount
  <1>7. CASE CrashAndRestart
    <2>1. Busy' = {}
      BY <1>7 DEF CrashAndRestart, IdleEntry, Busy
    <2>2. svc'.numChildren = 0
      BY <1>7 DEF CrashAndRestart, NewService, NoService
    <2>3. QED
      BY <2>1, <2>2, FS_EmptySet DEF Counted, NoneLeft
  <1>8. CASE SvcPrintJob
    <2>1. PICK p \in Printers \ Busy :
            entry' = [entry EXCEPT ![p] =
               [state |-> "starting", jobnum |-> svc.tail,
                inf |-> svc.opened, dat |-> dat[svc.tail]]]
      BY <1>8 DEF SvcPrintJob
    <2>2. Busy' = Busy \cup {p}
      BY <1>1, <2>1 DEF Busy
    <2>3. Cardinality(Busy') = Cardinality(Busy) + 1
      BY <2>2, BusyFinite, FS_AddElement
    <2>4. svc'.numChildren = svc.numChildren + 1 /\ svc'.pc = "awake"
      BY <1>1, <1>8 DEF SvcPrintJob, ServiceState
    <2>5. QED
      BY <2>3, <2>4 DEF Counted, NoneLeft
  <1>9. CASE SvcHarvest
    <2>1. PICK p \in Printers :
              /\ entry[p].state = "zombie"
              /\ entry' = [entry EXCEPT ![p] = IdleEntry]
              /\ svc' = [svc EXCEPT !.pc = "unlinkdat", !.reaping = entry[p].jobnum,
                                    !.numChildren = @ - 1]
      BY <1>9 DEF SvcHarvest
    <2>2. p \in Busy /\ Busy' = Busy \ {p}
      BY <1>1, <2>1 DEF Busy, IdleEntry
    <2>3. Cardinality(Busy') = Cardinality(Busy) - 1
      BY <2>2, BusyFinite, FS_RemoveElement
    <2>4. svc'.numChildren = svc.numChildren - 1 /\ svc'.pc = "unlinkdat"
      BY <1>1, <2>1 DEF ServiceState
    <2>5. QED
      BY <2>3, <2>4 DEF Counted, NoneLeft
  <1>10. CASE SvcDropFails \/ SvcUnlinkFails \/ SvcExit
    BY <1>10, ExitKeepsCount DEF SvcDropFails, SvcUnlinkFails, SvcExit
  <1>11. CASE SvcNothingQueued
    <2>1. Busy' = Busy /\ svc' = NoService /\ Busy = {}
      BY <1>11 DEF SvcNothingQueued, Busy, Counted, NoneLeft
    <2>2. QED
      BY <2>1, FS_EmptySet DEF Counted, NoneLeft, NoService
  <1>12. CASE SvcRecalculate
    <2>1. /\ Busy' = Busy /\ svc'.numChildren = svc.numChildren
          /\ svc'.pc = "exiting" => ~(svc.numChildren > 0)
          /\ svc'.pc \in {"loop", "exiting"}
      BY <1>1, <1>12 DEF SvcRecalculate, Busy, ServiceState, GoOn
    <2>2. ~(svc.numChildren > 0) => Busy = {}
      BY BusyFinite, FS_EmptySet DEF Counted
    <2>3. QED
      BY <2>1, <2>2 DEF Counted, NoneLeft
  <1>13. CASE \/ SvcGetHeadTail \/ SvcSend \/ SvcSendNothing \/ SvcPause \/ SvcOpenInf
              \/ SvcLockInf \/ SvcInfLocked \/ SvcForkFails \/ SvcDropInf \/ SvcTestChildExited
              \/ SvcHarvestEnds \/ SvcUnlinkDat \/ SvcUnlinkInf \/ SvcAdvance \/ SvcRelock
    <2>1. /\ entry' = entry
          /\ svc'.numChildren = svc.numChildren
          /\ svc'.pc \notin {"none", "init", "exiting"}
      BY <1>1, <1>13 DEF SvcGetHeadTail, SvcSend, SvcSendNothing, SvcPause, SvcOpenInf,
         SvcLockInf, SvcInfLocked, SvcForkFails, SvcDropInf, SvcTestChildExited, SvcHarvestEnds,
         SvcUnlinkDat, SvcUnlinkInf, SvcAdvance, SvcRelock, ServiceState
    <2>2. QED
      BY <2>1 DEF Counted, NoneLeft, Busy
  <1>14. ASSUME NEW p \in Printers, ChildStep(p)
         PROVE  Counted'
    <2>1. CASE ChildBegin(p)
      <3>1. Busy' = Busy /\ svc' = svc
        BY <1>1, <2>1 DEF ChildBegin, Busy, EntryState
      <3>2. QED
        BY <3>1 DEF Counted, NoneLeft
    <2>2. CASE ChildRefuse(p) \/ ChildFinish(p)
      <3>1. /\ svc' \in AfterSignal([svc EXCEPT !.childExited = TRUE])
            /\ entry' = [entry EXCEPT ![p].state = "zombie"]
            /\ entry[p].state # "idle"
        BY <2>2 DEF ChildRefuse, ChildFinish, ChildExits
      <3>2. Busy' = Busy
        BY <1>1, <3>1 DEF Busy, EntryState
      <3>3. /\ [svc EXCEPT !.childExited = TRUE] \in ServiceState
            /\ [svc EXCEPT !.childExited = TRUE].pc = svc.pc
            /\ [svc EXCEPT !.childExited = TRUE].numChildren = svc.numChildren
        BY <1>1 DEF ServiceState
      <3>4. QED
        BY <3>1, <3>2, <3>3, SignalKeepsCount
    <2>3. QED
      BY <1>14, <2>1, <2>2 DEF ChildStep
  <1>15. ASSUME NEW j \in Jobs, OrphanFinish(j)
         PROVE  Counted'
    BY <1>2, <1>15 DEF OrphanFinish
  <1>16. QED
    BY <1>3, <1>4, <1>5, <1>6, <1>7, <1>8, <1>9, <1>10, <1>11, <1>12, <1>13, <1>14, <1>15
       DEF Next, SvcStep

\* There are no children at the start.
LEMMA CountInit == Init => Counted
  <1> SUFFICES ASSUME Init
               PROVE  Counted
    OBVIOUS
  <1>1. Busy = {} /\ svc.numChildren = 0
    BY DEF Init, Busy, IdleEntry, NoService
  <1>2. QED
    BY <1>1, FS_EmptySet DEF Counted, NoneLeft

\* The queue child never loses count of its children, so it never exits while
\* one prints and never waits for one that is not there (ppd.c 704, 763, 821),
\* whatever pprm removes and whoever names an unknown user.
THEOREM ChildrenAreCounted == Spec => []ChildrenCounted
  <1>1. Counted => ChildrenCounted
    BY DEF Counted, NoneLeft, ChildrenCounted
  <1>2. QED
    BY <1>1, CountInit, CountStep, SpoolTypes, PTL DEF Spec

-----------------------------------------------------------------------------
(* The promises of the queue to its users, for any number of ppr,          *)
(* printers, jobs and crashes and any QUEUE_LENGTH, when pprm does not run *)
(* and nobody names an unknown user: each of the two takes files away      *)
(* under the queue child's hands, and the promises are then not kept.      *)

NobodyInterferes == Removers = {} /\ UnknownUsers = {}

\* The number whose files zombie_harvester is removing.
Reaped == IF svc.pc \in {"unlinkdat", "unlinkinf"} THEN {svc.reaping} ELSE {}

\* The numbers of the jobs that have been sent and are not yet given up, and
\* those of them whose printing child has exited.
Taken == {entry[p].jobnum : p \in Busy} \cup Reaped
Zombies == {p \in Printers : entry[p].state = "zombie"}
Finished == {entry[p].jobnum : p \in Zombies} \cup Reaped

\* No two entries, and no entry and the harvester, are about the same number.
EntriesSound ==
    /\ \A p \in Printers : entry[p].state = "idle" => entry[p] = IdleEntry
    /\ \A p \in Busy : entry[p].inf # NoJob /\ entry[p].jobnum \notin Reaped
    /\ \A p \in Zombies : entry[p].inf \in done
    /\ \A p, q \in Busy : entry[p].jobnum = entry[q].jobnum => p = q

\* The harvester finds the files it has come to unlink, and they are those of
\* the job that has been printed.
ReapedInPlace ==
    \A s \in Reaped :
        /\ inf[s] # NoJob /\ inf[s] \in done
        /\ dat[s] = IF svc.pc = "unlinkdat" THEN inf[s] ELSE NoJob

\* Beside an inf file lies the data of its job, or of none when that job is
\* done with.
DataInPlace ==
    \A s \in Files : dat[s] = inf[s] \/ (dat[s] = NoJob /\ inf[s] \in done)

\* A job has one inf file at most, and none while ppr has still to create it.
JobsDistinct ==
    /\ \A s \in Files : inf[s] <= lastJob
    /\ \A s, t \in Files : inf[s] = inf[t] => s = t
    /\ \A c \in Clients : ppr[c].pc \in {"inf", "write"} => ppr[c].job \in 1 .. lastJob
    /\ \A c \in Clients : ppr[c].pc = "inf" => /\ dat[ppr[c].slot] = ppr[c].job
                                               /\ ppr[c].job \notin HeldJobs
    /\ NoJob \notin written

\* A job has come out of the printers once for each crash and, when it has
\* been printed since the last one, once more.
PrintsBounded ==
    /\ \A j \in Jobs : prints[j] <= crashes + 1 /\ (j > lastJob => prints[j] = 0)
    /\ \A s \in Files \ Finished : prints[inf[s]] <= crashes
    /\ \A c \in Clients : ppr[c].pc = "inf" => prints[ppr[c].job] = 0

TableInv ==
    /\ EntriesSound /\ PrintingFilesInPlace /\ ChargedToOwner /\ NothingAbandoned
    /\ ReapedInPlace /\ DataInPlace /\ JobsDistinct /\ PrintsBounded

\* The inf file that is open is the one named inf<tail>.
OpenedInPlace ==
    svc.pc \in {"lockinf", "opendat"} =>
        svc.opened # NoJob /\ inf[svc.tail] = svc.opened

BeforeAdvance == {"topause", "paused", "openinf", "lockinf", "opendat", "awake",
                  "harvest", "unlinkdat", "unlinkinf", "advance"}

\* The number that is looked at next.
NextTail == IF svc.pc \in BeforeAdvance THEN TailAfterSend ELSE svc.tail

\* The jobs that have been sent lie behind the tail, and no further than the
\* window is long: so the tail never comes round to one of them again, whose
\* inf file the queue child could lock once more, the lock being its own.
TailBehind ==
    /\ \A b \in Taken : Dist(b, NextTail) \in 1 .. QUEUE_LENGTH
    /\ svc.pc \in {"openinf", "lockinf", "opendat"} => svc.jobSent /\ svc.tail \notin Taken
    /\ svc.pc = "loop" => \A b \in Taken : Dist(b, svc.head) < QUEUE_LENGTH

CourseInv == OpenedInPlace /\ TailBehind

QueueInv == SpoolInv /\ Counted /\ TableInv /\ CourseInv

-----------------------------------------------------------------------------
(* Distances.                                                              *)

\* A sent job is less than a window behind a tail that has not passed the head.
LEMMA SentIsNear ==
    ASSUME NEW b \in Slots, NEW t \in Slots, NEW h \in Slots,
           Dist(b, t) \in 1 .. QUEUE_LENGTH, Dist(t, h) < QUEUE_LENGTH,
           Dist(b, h) < QUEUE_LENGTH
    PROVE  Dist(b, t) < QUEUE_LENGTH /\ b # t
  BY SpaceFacts DEF Dist

\* The tail steps past a job, and the one before it is left one behind.
LEMMA StepPast ==
    ASSUME NEW b \in Slots, NEW t \in Slots,
           Dist(b, t) < QUEUE_LENGTH
    PROVE  Dist(b, NextIndex(t)) \in 1 .. QUEUE_LENGTH
  <1>1. Dist(b, NextIndex(t)) = Dist(b, t) + 1
    BY NextIndexDist
  <1>2. Dist(b, t) \in Int /\ Dist(b, t) >= 0
    BY DistType
  <1>3. QED
    BY <1>1, <1>2, SpaceFacts

-----------------------------------------------------------------------------
\* The parts of the invariant whose types are needed all the time.
LEMMA QueueTypes ==
    ASSUME TypeOK
    PROVE  /\ inf \in [Slots -> Jobs \cup {NoJob}] /\ dat \in [Slots -> Jobs \cup {NoJob}]
           /\ Files \in SUBSET Slots /\ \A s \in Files : inf[s] \in Jobs
           /\ ppr \in [Clients -> ClientState] /\ svc \in ServiceState
           /\ entry \in [Printers -> EntryState] /\ Taken \in SUBSET Slots
           /\ prints \in [Jobs -> Nat] /\ lastJob \in 0 .. MaxJobs /\ crashes \in Nat
           /\ svc.tail \in Slots /\ svc.head \in Slots /\ NextTail \in Slots
           /\ NoJob \notin Jobs /\ Jobs \subseteq Nat
           /\ Busy \in SUBSET Printers /\ Zombies \in SUBSET Busy
  <1>1. svc \in ServiceState /\ entry \in [Printers -> EntryState]
    BY DEF TypeOK
  <1>2. svc.tail \in Slots /\ svc.head \in Slots /\ svc.reaping \in Slots
    BY <1>1 DEF ServiceState
  <1>3. NextTail \in Slots
    BY <1>2, SlotFacts DEF NextTail, TailAfterSend
  <1>4. Taken \in SUBSET Slots
    BY <1>1, <1>2 DEF Taken, Reaped, Busy, EntryState
  <1>5. NoJob \notin Jobs /\ Jobs \subseteq Nat
    BY SpoolAssumption DEF Jobs, NoJob
  <1>6. crashes \in Nat
    BY SpoolAssumption DEF TypeOK, BoundsType
  <1>7. /\ inf \in [Slots -> Jobs \cup {NoJob}] /\ dat \in [Slots -> Jobs \cup {NoJob}]
        /\ Files \in SUBSET Slots /\ \A s \in Files : inf[s] \in Jobs
    BY DEF TypeOK, SpoolType, Files
  <1>8. Busy \in SUBSET Printers /\ Zombies \in SUBSET Busy
    BY DEF Busy, Zombies
  <1>9. prints \in [Jobs -> Nat] /\ lastJob \in 0 .. MaxJobs
    BY DEF TypeOK, HistoryType
  <1>10. QED
    BY <1>1, <1>2, <1>3, <1>4, <1>5, <1>6, <1>7, <1>8, <1>9 DEF TypeOK

\* While nothing is done to the files, the table and the printers, what the
\* queue child does elsewhere disturbs neither.
LEMMA TableUndisturbed ==
    ASSUME TableInv,
           UNCHANGED <<spool, ppr, entry, orphans, history, crashes>>,
           Reaped' = Reaped, svc'.pc = "unlinkdat" <=> svc.pc = "unlinkdat"
    PROVE  TableInv'
  <1> USE DEF TableInv, spool, history
  <1>1. Busy' = Busy /\ Zombies' = Zombies /\ Files' = Files /\ HeldJobs' = HeldJobs
        /\ Finished' = Finished
    BY DEF Busy, Zombies, Files, HeldJobs, Finished
  <1>2. EntriesSound'
    BY <1>1 DEF EntriesSound
  <1>3. PrintingFilesInPlace' /\ ChargedToOwner' /\ NothingAbandoned'
    BY <1>1 DEF PrintingFilesInPlace, ChargedToOwner, NothingAbandoned
  <1>4. ReapedInPlace'
    BY DEF ReapedInPlace
  <1>5. DataInPlace' /\ JobsDistinct' /\ PrintsBounded'
    BY <1>1 DEF DataInPlace, JobsDistinct, PrintsBounded
  <1>6. QED
    BY <1>2, <1>3, <1>4, <1>5

\* While the queue child stays where it is, the course does not change as long
\* as no more jobs are sent and the file it looks at stays.
LEMMA CourseUndisturbed ==
    ASSUME CourseInv, svc' = svc, Taken' \subseteq Taken,
           svc.pc \in {"lockinf", "opendat"} => inf'[svc.tail] = inf[svc.tail]
    PROVE  CourseInv'
  <1>1. OpenedInPlace'
    BY DEF CourseInv, OpenedInPlace
  <1>2. NextTail' = NextTail
    BY DEF NextTail, TailAfterSend
  <1>3. TailBehind'
    BY <1>2 DEF CourseInv, TailBehind
  <1>4. QED
    BY <1>1, <1>3 DEF CourseInv

\* The table and the courses of the jobs are in order in an empty queue.
LEMMA QueueInit == Init => TableInv /\ CourseInv
  <1> SUFFICES ASSUME Init
               PROVE  TableInv /\ CourseInv
    OBVIOUS
  <1>1. Busy = {} /\ Zombies = {} /\ Files = {} /\ HeldJobs = {} /\ svc.pc = "none"
    BY DEF Init, Busy, Zombies, Files, HeldJobs, IdleEntry, NoService
  <1>2. Taken = {} /\ Finished = {} /\ Reaped = {}
    BY <1>1 DEF Taken, Finished, Reaped
  <1>3. EntriesSound /\ PrintingFilesInPlace /\ ChargedToOwner /\ NothingAbandoned
    BY <1>1, <1>2 DEF Init, EntriesSound, PrintingFilesInPlace, ChargedToOwner,
       NothingAbandoned
  <1>4. ReapedInPlace /\ DataInPlace /\ JobsDistinct
    BY <1>1, <1>2 DEF Init, ReapedInPlace, DataInPlace, JobsDistinct, IdleClient
  <1>5. PrintsBounded
    BY <1>1 DEF Init, PrintsBounded, IdleClient
  <1>6. CourseInv
    BY <1>1, <1>2 DEF CourseInv, OpenedInPlace, TailBehind
  <1>7. QED
    BY <1>3, <1>4, <1>5, <1>6 DEF TableInv

-----------------------------------------------------------------------------
(* ppr's steps.                                                            *)

\* What a ppr may count on while it creates its two files.
LEMMA ClientAlone ==
    ASSUME SpoolInv, NEW c \in Clients, ppr[c].pc \in {"dat", "inf"}
    PROVE  /\ ppr[c].slot \in Slots \ Files
           /\ \A d \in Clients : d # c => ppr[d].pc \notin {"inf", "write"}
  <1>1. ppr[c].slot \in Slots \ Files
    BY DEF SpoolInv, ClientsPlaced, TypeOK, ClientState
  <1>2. \A d \in Clients : d # c => ~ClientCritical(d)
    BY DEF SpoolInv, LockExclusion, ClientCritical
  <1>3. QED
    BY <1>1, <1>2 DEF ClientCritical

\* The numbers in the table and in the harvester's hands are those of inf files.
LEMMA TakenHaveFiles ==
    ASSUME TypeOK, TableInv
    PROVE  /\ \A p \in Busy : entry[p].jobnum \in Files
           /\ Reaped \subseteq Files
           /\ Taken \subseteq Files
  <1>1. \A p \in Busy : entry[p].jobnum \in Files
    <2> TAKE p \in Busy
    <2>1. inf[entry[p].jobnum] = entry[p].inf /\ entry[p].inf # NoJob
      BY DEF TableInv, EntriesSound, PrintingFilesInPlace
    <2>2. entry[p].jobnum \in Slots
      BY DEF TypeOK, EntryState, Busy
    <2>3. QED
      BY <2>1, <2>2 DEF Files
  <1>2. Reaped \subseteq Files
    BY DEF TableInv, ReapedInPlace, Reaped, Files, TypeOK, ServiceState
  <1>3. QED
    BY <1>1, <1>2 DEF Taken

\* Steps of ppr that do not touch the two files.
LEMMA QuietClient ==
    ASSUME TypeOK, TableInv, CourseInv, NEW c \in Clients,
           \/ PprStart(c) \/ PprLock(c) \/ PprLockBusy(c) \/ PprCalculateHead(c)
           \/ PprCalculateTail(c) \/ PprFull(c) \/ PprNotify(c) \/ PprWriteInf(c)
    PROVE  TableInv' /\ CourseInv'
  <1>1. /\ UNCHANGED <<inf, dat, svc, entry, orphans, prints, done, lastJob, crashes>>
        /\ written' \in {written, written \cup {ppr[c].job}}
        /\ ppr[c].pc # "write" => written' = written
        /\ \A d \in Clients : d # c => ppr'[d] = ppr[d]
        /\ ppr'[c].pc \notin {"inf", "write"}
    BY DEF PprStart, PprLock, PprLockBusy, PprCalculateHead, PprCalculateTail, PprFull,
       PprNotify, PprWriteInf, IdleClient, spool, history, bounds, TypeOK, ClientState
  <1>2. /\ Busy' = Busy /\ Zombies' = Zombies /\ Files' = Files /\ HeldJobs' = HeldJobs
        /\ Reaped' = Reaped
    BY <1>1 DEF Busy, Zombies, Files, HeldJobs, Reaped
  <1>3. Finished' = Finished /\ Taken' = Taken
    BY <1>1, <1>2 DEF Finished, Taken
  <1> USE DEF TableInv
  <1>4. EntriesSound' /\ PrintingFilesInPlace' /\ ChargedToOwner' /\ NothingAbandoned'
    BY <1>1, <1>2 DEF EntriesSound, PrintingFilesInPlace, ChargedToOwner, NothingAbandoned
  <1>5. ReapedInPlace' /\ DataInPlace'
    BY <1>1, <1>2 DEF ReapedInPlace, DataInPlace
  <1>6. JobsDistinct'
    <2>1. NoJob \notin written'
      <3>1. CASE ppr[c].pc = "write"
        <4>1. ppr[c].job \in 1 .. lastJob
          BY <3>1 DEF JobsDistinct
        <4>2. NoJob \notin 1 .. lastJob
          BY QueueTypes DEF NoJob
        <4>3. QED
          BY <1>1, <4>1, <4>2 DEF JobsDistinct
      <3>2. QED
        BY <1>1, <3>1 DEF JobsDistinct
    <2>2. QED
      BY <1>1, <1>2, <2>1 DEF JobsDistinct
  <1>7. PrintsBounded'
    BY <1>1, <1>2, <1>3 DEF PrintsBounded
  <1>8. CourseInv'
    BY <1>1, <1>3, CourseUndisturbed
  <1>9. QED
    BY <1>4, <1>5, <1>6, <1>7, <1>8

\* The data goes into a file no queued job uses.
LEMMA CreateDatStep ==
    ASSUME SpoolInv, TableInv, CourseInv, NEW c \in Clients, PprCreateDat(c)
    PROVE  TableInv' /\ CourseInv'
  <1> DEFINE s == ppr[c].slot
  <1>1. /\ UNCHANGED <<inf, written, svc, entry, orphans, prints, done, crashes>>
        /\ dat' = [dat EXCEPT ![s] = lastJob + 1]
        /\ lastJob' = lastJob + 1
        /\ ppr' = [ppr EXCEPT ![c].pc = "inf", ![c].job = lastJob + 1]
        /\ ppr[c].pc = "dat"
    BY DEF PprCreateDat, bounds
  <1>2. /\ TypeOK /\ s \in Slots \ Files
        /\ \A d \in Clients : d # c => ppr[d].pc \notin {"inf", "write"}
    BY <1>1, ClientAlone DEF SpoolInv
  <1>3. /\ \A d \in Clients : d # c => ppr'[d] = ppr[d]
        /\ ppr'[c].pc = "inf" /\ ppr'[c].job = lastJob + 1 /\ ppr'[c].slot = s
    BY <1>1, <1>2, QueueTypes DEF ClientState
  <1>4. /\ Busy' = Busy /\ Zombies' = Zombies /\ Files' = Files /\ HeldJobs' = HeldJobs
        /\ Reaped' = Reaped
    BY <1>1 DEF Busy, Zombies, Files, HeldJobs, Reaped
  <1>5. Finished' = Finished /\ Taken' = Taken
    BY <1>1, <1>4 DEF Finished, Taken
  <1>6. /\ dat'[s] = lastJob + 1
        /\ \A t \in Slots : t # s => dat'[t] = dat[t]
        /\ \A t \in Files : dat'[t] = dat[t]
    BY <1>1, <1>2, QueueTypes
  <1> USE DEF TableInv
  <1>7. EntriesSound' /\ ChargedToOwner' /\ NothingAbandoned'
    BY <1>1, <1>4 DEF EntriesSound, ChargedToOwner, NothingAbandoned
  <1>8. PrintingFilesInPlace'
    BY <1>1, <1>2, <1>4, <1>6, TakenHaveFiles DEF PrintingFilesInPlace
  <1>9. ReapedInPlace' /\ DataInPlace'
    BY <1>1, <1>2, <1>4, <1>6, TakenHaveFiles DEF ReapedInPlace, DataInPlace
  <1>10. lastJob + 1 \in Jobs /\ lastJob \in Nat
    BY <1>1, <1>2, QueueTypes, JobFacts DEF PprCreateDat
  <1>11. JobsDistinct'
    <2>1. lastJob + 1 \notin HeldJobs
      BY <1>2, <1>10, QueueTypes DEF JobsDistinct, HeldJobs
    <2>2. \A t \in Files : inf[t] <= lastJob + 1
      BY <1>2, <1>10, QueueTypes DEF JobsDistinct
    <2>3. \A d \in Clients : ppr'[d].pc \in {"inf", "write"} => ppr'[d].job \in 1 .. lastJob'
      <3>1. lastJob + 1 \in 1 .. lastJob'
        BY <1>1, <1>10
      <3>2. QED
        BY <1>2, <1>3, <3>1
    <2>4. \A d \in Clients : ppr'[d].pc = "inf" => /\ dat'[ppr'[d].slot] = ppr'[d].job
                                                   /\ ppr'[d].job \notin HeldJobs'
      BY <1>2, <1>3, <1>4, <1>6, <2>1
    <2>5. QED
      BY <1>1, <1>4, <2>2, <2>3, <2>4 DEF JobsDistinct
  <1>12. PrintsBounded'
    <2>1. prints[lastJob + 1] = 0
      BY <1>10 DEF PrintsBounded
    <2>2. \A j \in Jobs : j > lastJob + 1 => prints[j] = 0
      BY <1>2, <1>10, QueueTypes DEF PrintsBounded
    <2>3. QED
      BY <1>1, <1>2, <1>3, <1>4, <1>5, <2>1, <2>2 DEF PrintsBounded
  <1>13. CourseInv'
    BY <1>1, <1>5, CourseUndisturbed
  <1>14. QED
    BY <1>7, <1>8, <1>9, <1>11, <1>12, <1>13

\* The inf file appears under a number that no queued job has, beside its data.
LEMMA OpenInfStep ==
    ASSUME SpoolInv, TableInv, CourseInv, NEW c \in Clients, PprOpenInf(c)
    PROVE  TableInv' /\ CourseInv'
  <1> DEFINE s == ppr[c].slot
             j == ppr[c].job
  <1>1. /\ UNCHANGED <<dat, written, svc, entry, orphans, prints, done, lastJob, crashes>>
        /\ inf' = [inf EXCEPT ![s] = j]
        /\ ppr' = [ppr EXCEPT ![c].pc = "write"]
        /\ ppr[c].pc = "inf"
    BY DEF PprOpenInf, history, bounds
  <1>2. /\ TypeOK /\ s \in Slots \ Files
        /\ \A d \in Clients : d # c => ppr[d].pc \notin {"inf", "write"}
    BY <1>1, ClientAlone DEF SpoolInv
  <1>3. /\ \A d \in Clients : d # c => ppr'[d] = ppr[d]
        /\ ppr'[c].pc = "write" /\ ppr'[c].job = j
    BY <1>1, <1>2, QueueTypes DEF ClientState
  <1> USE DEF TableInv
  <1>4. /\ j \in 1 .. lastJob /\ j \notin HeldJobs /\ dat[s] = j /\ prints[j] = 0
        /\ j # NoJob
    <2>1. j \in 1 .. lastJob /\ j \notin HeldJobs /\ dat[s] = j /\ prints[j] = 0
      BY <1>1 DEF JobsDistinct, PrintsBounded
    <2>2. QED
      BY <1>2, <2>1, QueueTypes DEF NoJob
  <1>5. /\ inf'[s] = j
        /\ \A t \in Slots : t # s => inf'[t] = inf[t]
        /\ \A t \in Files : inf'[t] = inf[t]
        /\ Files' = Files \cup {s}
    BY <1>1, <1>2, <1>4, QueueTypes DEF Files
  <1>6. Busy' = Busy /\ Zombies' = Zombies /\ Reaped' = Reaped
    BY <1>1 DEF Busy, Zombies, Reaped
  <1>7. Finished' = Finished /\ Taken' = Taken
    BY <1>1, <1>6 DEF Finished, Taken
  <1>8. EntriesSound' /\ ChargedToOwner' /\ NothingAbandoned'
    BY <1>1, <1>6 DEF EntriesSound, ChargedToOwner, NothingAbandoned
  <1>9. PrintingFilesInPlace'
    BY <1>1, <1>2, <1>5, <1>6, TakenHaveFiles DEF PrintingFilesInPlace
  <1>10. ReapedInPlace'
    BY <1>1, <1>2, <1>5, <1>6, TakenHaveFiles DEF ReapedInPlace
  <1>11. DataInPlace'
    BY <1>1, <1>4, <1>5 DEF DataInPlace
  <1>12. JobsDistinct'
    <2>1. \A t \in Files : inf[t] # j
      BY <1>4 DEF HeldJobs
    <2>2. \A t, u \in Files' : inf'[t] = inf'[u] => t = u
      BY <1>5, <2>1 DEF JobsDistinct
    <2>3. \A t \in Files' : inf'[t] <= lastJob
      BY <1>2, <1>4, <1>5, QueueTypes DEF JobsDistinct
    <2>4. \A d \in Clients : ppr'[d].pc \in {"inf", "write"} => ppr'[d].job \in 1 .. lastJob'
      BY <1>1, <1>3, <1>4 DEF JobsDistinct
    <2>5. \A d \in Clients : ppr'[d].pc # "inf"
      BY <1>2, <1>3
    <2>6. QED
      BY <1>1, <2>2, <2>3, <2>4, <2>5 DEF JobsDistinct
  <1>13. PrintsBounded'
    <2>1. 0 <= crashes
      BY <1>2, QueueTypes
    <2>2. \A t \in Files' \ Finished' : prints'[inf'[t]] <= crashes
      BY <1>1, <1>4, <1>5, <1>7, <2>1 DEF PrintsBounded
    <2>3. \A d \in Clients : ppr'[d].pc # "inf"
      BY <1>2, <1>3
    <2>4. QED
      BY <1>1, <2>2, <2>3 DEF PrintsBounded
  <1>14. CourseInv'
    <2>1. svc.pc \in {"lockinf", "opendat"} => inf'[svc.tail] = inf[svc.tail]
      <3>1. svc.pc \in {"lockinf", "opendat"} => svc.tail \in Files
        BY <1>2, QueueTypes DEF CourseInv, OpenedInPlace, Files
      <3>2. QED
        BY <1>5, <3>1
    <2>2. QED
      BY <1>1, <1>7, <2>1, CourseUndisturbed
  <1>15. QED
    BY <1>8, <1>9, <1>10, <1>11, <1>12, <1>13, <1>14

-----------------------------------------------------------------------------
(* Signals, exits and crashes.                                             *)

\* While the harvester is where it was and the table is, the taken jobs are
\* those it has been.
LEMMA TakenUndisturbed ==
    ASSUME entry' = entry, Reaped' = Reaped
    PROVE  Taken' = Taken /\ Finished' = Finished /\ Busy' = Busy /\ Zombies' = Zombies
  BY DEF Taken, Finished, Busy, Zombies

\* Nothing is taken when there is no queue child, nor before its first loop.
LEMMA NothingTaken ==
    ASSUME Counted, svc.pc \in {"none", "init", "exiting"}
    PROVE  Busy = {} /\ Reaped = {} /\ Taken = {}
  BY DEF Counted, NoneLeft, Reaped, Taken

\* A signal wakes the queue child up at two places, neither of them with files
\* in its hands, or ends it before it has begun.
LEMMA SignalStep ==
    ASSUME TypeOK, Counted, CourseInv,
           NEW s \in ServiceState, svc' \in AfterSignal(s),
           s.pc = svc.pc, s.tail = svc.tail, s.head = svc.head, s.opened = svc.opened,
           s.jobSent = svc.jobSent, s.reaping = svc.reaping,
           inf' = inf, Taken' = {entry[p].jobnum : p \in Busy} \cup Reaped'
    PROVE  Reaped' = Reaped /\ (svc'.pc = "unlinkdat" <=> svc.pc = "unlinkdat") /\ CourseInv'
  <1>1. \/ svc' = s
        \/ s.pc = "paused" /\ svc' = [s EXCEPT !.pc = "awake"]
        \/ s.pc = "relock" /\ svc' = [s EXCEPT !.pc = "recalc"]
        \/ s.pc = "init" /\ svc' = NoService
    BY SignalEffect
  <1>2. CASE s.pc = "init" /\ svc' = NoService
    <2>1. Reaped = {} /\ Reaped' = {} /\ Busy = {}
      BY <1>2, NothingTaken DEF Reaped, NoService
    <2>2. Taken' = {}
      BY <2>1
    <2>3. CourseInv'
      BY <1>2, <2>2 DEF CourseInv, OpenedInPlace, TailBehind, NoService
    <2>4. QED
      BY <1>2, <2>1, <2>3 DEF NoService
  <1>3. CASE ~(s.pc = "init" /\ svc' = NoService)
    <2>1. /\ svc'.tail = svc.tail /\ svc'.head = svc.head /\ svc'.opened = svc.opened
          /\ svc'.jobSent = svc.jobSent /\ svc'.reaping = svc.reaping
          /\ \/ svc'.pc = svc.pc
             \/ svc.pc = "paused" /\ svc'.pc = "awake"
             \/ svc.pc = "relock" /\ svc'.pc = "recalc"
      BY <1>1, <1>3 DEF ServiceState
    <2>2. Reaped' = Reaped
      BY <2>1 DEF Reaped
    <2>3. NextTail' = NextTail
      BY <2>1 DEF NextTail, BeforeAdvance, TailAfterSend
    <2>4. Taken' = Taken
      BY <2>2 DEF Taken
    <2>5. OpenedInPlace'
      BY <2>1 DEF CourseInv, OpenedInPlace
    <2>6. TailBehind'
      BY <2>1, <2>3, <2>4 DEF CourseInv, TailBehind
    <2>7. QED
      BY <2>1, <2>2, <2>5, <2>6 DEF CourseInv
  <1>4. QED
    BY <1>2, <1>3

\* The daemon's main process starts or signals the queue child.
LEMMA ServeStep ==
    ASSUME TypeOK, Counted, TableInv, CourseInv, DaemonServe
    PROVE  TableInv' /\ CourseInv'
  <1>1. /\ UNCHANGED <<spool, ppr, entry, orphans, history, crashes>>
        /\ inf' = inf /\ Busy' = Busy
        /\ \/ svc' = svc
           \/ svc' \in AfterSignal(svc)
           \/ svc.pc = "none" /\ svc' = NewService(TRUE)
    BY DEF DaemonServe, bounds, spool, Busy
  <1>2. Taken' = {entry[p].jobnum : p \in Busy} \cup Reaped'
    BY <1>1 DEF Taken
  <1>3. CASE svc' = svc
    <2>1. Reaped' = Reaped /\ svc'.pc = svc.pc
      BY <1>3 DEF Reaped
    <2>2. QED
      BY <1>1, <1>2, <1>3, <2>1, TableUndisturbed, CourseUndisturbed DEF Taken
  <1>4. CASE svc' \in AfterSignal(svc)
    <2>1. Reaped' = Reaped /\ (svc'.pc = "unlinkdat" <=> svc.pc = "unlinkdat") /\ CourseInv'
      BY <1>1, <1>2, <1>4, SignalStep, QueueTypes
    <2>2. QED
      BY <1>1, <2>1, TableUndisturbed
  <1>5. CASE svc.pc = "none" /\ svc' = NewService(TRUE)
    <2>1. svc'.pc = "init"
      BY <1>5 DEF NewService, NoService
    <2>2. Reaped' = Reaped /\ Taken' = {} /\ (svc'.pc = "unlinkdat" <=> svc.pc = "unlinkdat")
      BY <1>2, <1>5, <2>1, NothingTaken DEF Reaped
    <2>3. CourseInv'
      BY <2>1, <2>2 DEF CourseInv, OpenedInPlace, TailBehind
    <2>4. QED
      BY <1>1, <2>2, <2>3, TableUndisturbed
  <1>6. QED
    BY <1>1, <1>3, <1>4, <1>5

\* The administrator downs or ups the queue and signals the queue child.
LEMMA SetStatusStep ==
    ASSUME TypeOK, Counted, TableInv, CourseInv, AdminSetStatus
    PROVE  TableInv' /\ CourseInv'
  <1> DEFINE s == [svc EXCEPT !.reload = TRUE]
  <1>1. /\ UNCHANGED <<spool, ppr, entry, orphans, history, crashes>>
        /\ inf' = inf /\ Busy' = Busy
        /\ svc' = svc \/ svc' \in AfterSignal(s)
    BY DEF AdminSetStatus, spool, Busy
  <1>2. /\ s \in ServiceState
        /\ s.pc = svc.pc /\ s.tail = svc.tail /\ s.head = svc.head /\ s.opened = svc.opened
        /\ s.jobSent = svc.jobSent /\ s.reaping = svc.reaping
    BY QueueTypes DEF ServiceState
  <1>3. Taken' = {entry[p].jobnum : p \in Busy} \cup Reaped'
    BY <1>1 DEF Taken
  <1>4. CASE svc' = svc
    <2>1. Reaped' = Reaped /\ svc'.pc = svc.pc
      BY <1>4 DEF Reaped
    <2>2. QED
      BY <1>1, <1>3, <1>4, <2>1, TableUndisturbed, CourseUndisturbed DEF Taken
  <1>5. CASE svc' \in AfterSignal(s)
    <2>1. Reaped' = Reaped /\ (svc'.pc = "unlinkdat" <=> svc.pc = "unlinkdat") /\ CourseInv'
      BY <1>1, <1>2, <1>3, <1>5, SignalStep
    <2>2. QED
      BY <1>1, <2>1, TableUndisturbed
  <1>6. QED
    BY <1>1, <1>4, <1>5

\* Whatever empties the table, with no child left to print behind it, leaves
\* files that are sound.
LEMMA EmptyTable ==
    ASSUME TypeOK, TableInv, UNCHANGED <<inf, dat, written, prints, done, lastJob>>,
           entry' = [p \in Printers |-> IdleEntry], orphans' = {},
           \A c \in Clients : ppr'[c] = ppr[c] \/ ppr'[c] = IdleClient,
           svc'.pc \in {"none", "init"},
           \/ crashes' = crashes /\ Finished = {}
           \/ crashes' = crashes + 1
    PROVE  TableInv' /\ CourseInv'
  <1>1. Busy' = {} /\ Zombies' = {} /\ Files' = Files /\ HeldJobs' = HeldJobs /\ Reaped' = {}
    BY DEF Busy, Zombies, Files, HeldJobs, Reaped, IdleEntry
  <1>2. Taken' = {} /\ Finished' = {}
    BY <1>1 DEF Taken, Finished
  <1> USE DEF TableInv
  <1>3. EntriesSound' /\ PrintingFilesInPlace' /\ ChargedToOwner' /\ NothingAbandoned'
    BY <1>1 DEF EntriesSound, PrintingFilesInPlace, ChargedToOwner, NothingAbandoned
  <1>4. ReapedInPlace' /\ DataInPlace'
    BY <1>1 DEF ReapedInPlace, DataInPlace
  <1>5. JobsDistinct'
    BY <1>1 DEF JobsDistinct, IdleClient
  <1>6. PrintsBounded'
    <2>1. /\ crashes \in Nat /\ prints \in [Jobs -> Nat]
          /\ \A s \in Files : inf[s] \in Jobs
      BY QueueTypes
    <2>2. \A j \in Jobs : prints[j] <= crashes' + 1
      BY <2>1 DEF PrintsBounded
    <2>3. \A s \in Files : prints[inf[s]] <= crashes'
      BY <2>1 DEF PrintsBounded
    <2>4. QED
      BY <1>1, <1>2, <2>1, <2>2, <2>3 DEF PrintsBounded, IdleClient
  <1>7. CourseInv'
    BY <1>2 DEF CourseInv, OpenedInPlace, TailBehind
  <1>8. QED
    BY <1>3, <1>4, <1>5, <1>6, <1>7

\* The spool directory is fit to start from wherever the machine crashed.
LEMMA CrashStep ==
    ASSUME TypeOK, TableInv, CrashAndRestart
    PROVE  TableInv' /\ CourseInv'
  <1>1. /\ UNCHANGED <<inf, dat, written, prints, done, lastJob>>
        /\ entry' = [p \in Printers |-> IdleEntry] /\ orphans' = {}
        /\ \A c \in Clients : ppr'[c] = IdleClient
        /\ svc'.pc = "init" /\ crashes' = crashes + 1
    BY DEF CrashAndRestart, spool, history, NewService, NoService
  <1>2. QED
    BY <1>1, EmptyTable

\* The queue child's last step, with the count of its children at zero.
LEMMA ExitStep ==
    ASSUME TypeOK, Counted, TableInv, SvcExit
    PROVE  TableInv' /\ CourseInv'
  <1>1. /\ UNCHANGED <<inf, dat, written, prints, done, lastJob, ppr, crashes>>
        /\ entry' = [p \in Printers |-> IdleEntry]
        /\ svc' = NoService /\ svc.pc = "exiting"
        /\ \E S \in SUBSET {p \in Printers : entry[p].state = "starting"} :
             orphans' = orphans \cup {entry[p].dat : p \in
                        S \cup {q \in Printers : entry[q].state = "printing"}}
    BY DEF SvcExit, ServiceExits, history, bounds
  <1>2. Busy = {} /\ Reaped = {}
    BY <1>1, NothingTaken
  <1>3. orphans' = {}
    <2>1. \A p \in Printers : entry[p].state = "idle"
      BY <1>2 DEF Busy
    <2>2. QED
      BY <1>1, <2>1 DEF TableInv, NothingAbandoned
  <1>4. Finished = {}
    BY <1>2 DEF Finished, Zombies, Busy
  <1>5. svc'.pc = "none"
    BY <1>1 DEF NoService
  <1>6. QED
    BY <1>1, <1>3, <1>4, <1>5, EmptyTable

-----------------------------------------------------------------------------
(* The queue child's steps.                                                *)

\* Steps of the loop that only move the queue child along.
LEMMA LoopStep ==
    ASSUME TypeOK, TableInv, CourseInv,
           \/ SvcPause \/ SvcOpenInf \/ SvcLockInf \/ SvcInfLocked \/ SvcForkFails
           \/ SvcTestChildExited \/ SvcHarvestEnds \/ SvcSendNothing
           \/ SvcAdvance \/ SvcRelock
    PROVE  TableInv' /\ CourseInv'
  <1>1. /\ UNCHANGED <<spool, ppr, entry, orphans, history, crashes>>
        /\ inf' = inf
    BY DEF SvcPause, SvcOpenInf, SvcLockInf, SvcInfLocked, SvcForkFails, SvcTestChildExited,
       SvcHarvestEnds, SvcSendNothing, SvcAdvance, SvcRelock, bounds, spool
  <1>2. /\ svc.pc \notin {"unlinkdat", "unlinkinf"} /\ svc'.pc \notin {"unlinkdat", "unlinkinf"}
        /\ svc'.pc # "loop"
    <2>1. CASE SvcPause \/ SvcLockInf \/ SvcInfLocked \/ SvcForkFails \/ SvcHarvestEnds
      BY <2>1, QueueTypes DEF SvcPause, SvcLockInf, SvcInfLocked, SvcForkFails, SvcHarvestEnds,
         ServiceState
    <2>2. CASE SvcOpenInf \/ SvcTestChildExited
      <3>1. /\ svc.pc \in {"openinf", "awake"}
            /\ \/ svc' = [svc EXCEPT !.pc = "awake"]
               \/ svc' = [svc EXCEPT !.pc = "lockinf", !.opened = inf[svc.tail]]
               \/ svc' = [svc EXCEPT !.pc = "harvest", !.childExited = FALSE]
               \/ svc' = [svc EXCEPT !.pc = "advance"]
        BY <2>2 DEF SvcOpenInf, SvcTestChildExited
      <3>2. QED
        BY <3>1, QueueTypes DEF ServiceState
    <2>3. CASE SvcSendNothing \/ SvcAdvance \/ SvcRelock
      BY <2>3, QueueTypes DEF SvcSendNothing, SvcAdvance, SvcRelock, ServiceState
    <2>4. QED
      BY <2>1, <2>2, <2>3
  <1>3. Reaped' = Reaped
    BY <1>2 DEF Reaped
  <1>4. Taken' = Taken
    BY <1>1, <1>3, TakenUndisturbed
  <1>5. NextTail' = NextTail
    <2>1. CASE SvcAdvance
      BY <2>1, QueueTypes DEF SvcAdvance, NextTail, BeforeAdvance, TailAfterSend, ServiceState
    <2>2. CASE SvcSendNothing
      BY <2>2, QueueTypes DEF SvcSendNothing, NextTail, BeforeAdvance, TailAfterSend,
         ServiceState
    <2>3. CASE SvcRelock
      BY <2>3, QueueTypes DEF SvcRelock, NextTail, BeforeAdvance, ServiceState
    <2>4. CASE \/ SvcPause \/ SvcOpenInf \/ SvcLockInf \/ SvcInfLocked \/ SvcForkFails
               \/ SvcTestChildExited \/ SvcHarvestEnds
      BY <2>4, QueueTypes DEF SvcPause, SvcOpenInf, SvcLockInf, SvcInfLocked, SvcForkFails,
         SvcTestChildExited, SvcHarvestEnds, NextTail, BeforeAdvance, TailAfterSend,
         ServiceState
    <2>5. QED
      BY <2>1, <2>2, <2>3, <2>4
  <1>6. OpenedInPlace'
    BY <1>1, QueueTypes DEF CourseInv, OpenedInPlace, SvcPause, SvcOpenInf, SvcLockInf,
       SvcInfLocked, SvcForkFails, SvcTestChildExited, SvcHarvestEnds, SvcSendNothing, SvcAdvance,
       SvcRelock, ServiceState
  <1>7. svc'.pc \in {"openinf", "lockinf", "opendat"} =>
            /\ svc.pc \in {"openinf", "lockinf", "opendat"}
            /\ svc'.jobSent = svc.jobSent /\ svc'.tail = svc.tail
    <2>1. CASE SvcOpenInf \/ SvcLockInf
      BY <2>1, QueueTypes DEF SvcOpenInf, SvcLockInf, ServiceState
    <2>2. CASE ~(SvcOpenInf \/ SvcLockInf)
      <3>1. svc'.pc \notin {"openinf", "lockinf", "opendat"}
        BY <2>2, QueueTypes DEF SvcPause, SvcInfLocked, SvcForkFails, SvcTestChildExited,
           SvcHarvestEnds, SvcSendNothing, SvcAdvance, SvcRelock, ServiceState
      <3>2. QED
        BY <3>1
    <2>3. QED
      BY <2>1, <2>2
  <1>8. TailBehind'
    BY <1>2, <1>4, <1>5, <1>7 DEF CourseInv, TailBehind
  <1>9. QED
    BY <1>1, <1>2, <1>3, <1>6, <1>8, TableUndisturbed DEF CourseInv

\* The first reading of the directory, with nothing sent yet.
LEMMA StartStep ==
    ASSUME TypeOK, Counted, TableInv, CourseInv, SvcGetHeadTail \/ SvcNothingQueued
    PROVE  TableInv' /\ CourseInv'
  <1>1. /\ UNCHANGED <<spool, ppr, entry, orphans, history, crashes>>
        /\ svc.pc = "init" /\ svc'.pc \in {"none", "loop"}
    <2>1. /\ UNCHANGED <<spool, ppr, entry, orphans, history, crashes>>
          /\ svc.pc = "init"
      BY DEF SvcGetHeadTail, SvcNothingQueued, bounds
    <2>2. CASE SvcGetHeadTail
      BY <2>1, <2>2, QueueTypes DEF SvcGetHeadTail, ServiceState
    <2>3. CASE SvcNothingQueued
      BY <2>1, <2>3 DEF SvcNothingQueued, NoService
    <2>4. QED
      BY <2>2, <2>3
  <1>2. Taken = {} /\ Reaped = {} /\ Reaped' = {}
    BY <1>1, NothingTaken DEF Reaped
  <1>3. Taken' = {}
    BY <1>1, <1>2, TakenUndisturbed
  <1>4. CourseInv'
    BY <1>1, <1>3 DEF CourseInv, OpenedInPlace, TailBehind
  <1>5. QED
    BY <1>1, <1>2, <1>4, TableUndisturbed

\* There is a job left: the jobs sent before it are near enough behind it not
\* to be passed again.
LEMMA SendStep ==
    ASSUME TypeOK, TableInv, CourseInv, SvcSend
    PROVE  TableInv' /\ CourseInv'
  <1>1. /\ UNCHANGED <<spool, ppr, entry, orphans, history, crashes>>
        /\ svc.pc = "loop" /\ JobsLeft(svc.head, svc.tail)
        /\ svc'.pc = "openinf" /\ svc'.jobSent = TRUE
        /\ svc'.tail = svc.tail
    BY QueueTypes DEF SvcSend, CanSend, bounds, ServiceState
  <1>2. Reaped' = Reaped /\ Reaped = {}
    BY <1>1 DEF Reaped
  <1>3. Taken' = Taken
    BY <1>1, <1>2, TakenUndisturbed
  <1>4. NextTail = svc.tail /\ NextTail' = NextIndex(svc.tail)
    BY <1>1 DEF NextTail, BeforeAdvance, TailAfterSend
  <1>5. ASSUME NEW b \in Taken
        PROVE  Dist(b, NextTail') \in 1 .. QUEUE_LENGTH /\ b # svc.tail
    <2>1. b \in Slots /\ svc.tail \in Slots /\ svc.head \in Slots
      BY QueueTypes
    <2>2. Dist(b, svc.tail) \in 1 .. QUEUE_LENGTH /\ Dist(b, svc.head) < QUEUE_LENGTH
      BY <1>1, <1>4 DEF CourseInv, TailBehind
    <2>3. Dist(svc.tail, svc.head) < QUEUE_LENGTH
      BY <1>1, <2>1, TestsAreDistances
    <2>4. Dist(b, svc.tail) < QUEUE_LENGTH /\ b # svc.tail
      BY <2>1, <2>2, <2>3, SentIsNear
    <2>5. QED
      BY <1>4, <2>1, <2>4, StepPast
  <1>6. CourseInv'
    BY <1>1, <1>3, <1>5 DEF CourseInv, OpenedInPlace, TailBehind
  <1>7. QED
    BY <1>1, <1>2, <1>6, TableUndisturbed

\* The new head is ahead of all jobs that have been sent, whose inf files are
\* still there.
LEMMA RecalculateStep ==
    ASSUME SpoolInv, TableInv, CourseInv, SvcRecalculate
    PROVE  TableInv' /\ CourseInv'
  <1> DEFINE head == IF Files = {} THEN svc.head ELSE CalculateHead(Files)
  <1>1. /\ UNCHANGED <<spool, ppr, entry, orphans, history, crashes>>
        /\ svc.pc = "recalc"
        /\ svc'.pc \in {"loop", "exiting"} /\ svc'.tail = svc.tail /\ svc'.head = head
    BY QueueTypes DEF SpoolInv, SvcRecalculate, bounds, ServiceState
  <1>2. Reaped' = Reaped
    BY <1>1 DEF Reaped
  <1>3. Taken' = Taken
    BY <1>1, <1>2, TakenUndisturbed
  <1>4. NextTail' = NextTail
    BY <1>1 DEF NextTail, BeforeAdvance
  <1>5. \A b \in Taken : Dist(b, head) < QUEUE_LENGTH
    <2>1. Taken \subseteq Files /\ Files \in SUBSET Slots
      BY TakenHaveFiles, QueueTypes DEF SpoolInv
    <2>2. Files # {} => IsNewest(head, Files)
      BY <2>1, ScansFindEnds DEF SpoolInv, InfFilesWindowed
    <2>3. QED
      BY <2>1, <2>2 DEF IsNewest
  <1>6. CourseInv'
    BY <1>1, <1>3, <1>4, <1>5 DEF CourseInv, OpenedInPlace, TailBehind
  <1>7. QED
    BY <1>1, <1>2, <1>6, TableUndisturbed

\* A job is sent: it is at the tail, where no job sent before it is, and its
\* data lies beside its inf file.
LEMMA PrintJobStep ==
    ASSUME TypeOK, TableInv, CourseInv, SvcPrintJob
    PROVE  TableInv' /\ CourseInv'
  <1>1. PICK p \in Printers \ Busy :
          entry' = [entry EXCEPT ![p] =
             [state |-> "starting", jobnum |-> svc.tail,
              inf |-> svc.opened, dat |-> dat[svc.tail]]]
    BY DEF SvcPrintJob
  <1>2. /\ UNCHANGED <<inf, dat, written, ppr, orphans, prints, done, lastJob, crashes>>
        /\ svc.pc = "opendat" /\ svc'.pc = "awake"
        /\ svc'.jobSent = svc.jobSent /\ svc'.tail = svc.tail
        /\ dat[svc.tail] # NoJob
    BY QueueTypes DEF SvcPrintJob, spool, history, bounds, ServiceState
  <1>3. /\ svc.opened # NoJob /\ inf[svc.tail] = svc.opened /\ dat[svc.tail] = svc.opened
        /\ svc.tail \in Files /\ svc.tail \notin Taken /\ svc.jobSent
    <2>1. /\ svc.opened # NoJob /\ inf[svc.tail] = svc.opened
          /\ svc.tail \notin Taken /\ svc.jobSent
      BY <1>2 DEF CourseInv, OpenedInPlace, TailBehind
    <2>2. svc.tail \in Files
      BY <2>1, QueueTypes DEF Files
    <2>3. QED
      BY <1>2, <2>1, <2>2 DEF TableInv, DataInPlace
  <1>4. /\ entry'[p].state = "starting" /\ entry'[p].jobnum = svc.tail
        /\ entry'[p].inf = svc.opened /\ entry'[p].dat = svc.opened
        /\ \A q \in Printers : q # p => entry'[q] = entry[q]
    BY <1>1, <1>3, QueueTypes
  <1>5. /\ Busy' = Busy \cup {p} /\ Zombies' = Zombies /\ Files' = Files
        /\ HeldJobs' = HeldJobs /\ Reaped' = Reaped /\ Reaped = {}
    BY <1>1, <1>2, <1>4 DEF Busy, Zombies, Files, HeldJobs, Reaped
  <1>6. Finished' = Finished /\ Taken' = Taken \cup {svc.tail}
    <2>1. {entry'[q].jobnum : q \in Zombies} = {entry[q].jobnum : q \in Zombies}
      BY <1>1, <1>4 DEF Zombies, Busy
    <2>2. {entry'[q].jobnum : q \in Busy \cup {p}}
             = {entry[q].jobnum : q \in Busy} \cup {svc.tail}
      BY <1>1, <1>4 DEF Busy
    <2>3. QED
      BY <1>5, <2>1, <2>2 DEF Finished, Taken
  <1> USE DEF TableInv
  <1>7. EntriesSound'
    <2>1. \A q \in Busy : entry[q].jobnum # svc.tail
      BY <1>3 DEF Taken
    <2>2. \A q, r \in Busy \cup {p} : entry'[q].jobnum = entry'[r].jobnum => q = r
      BY <1>1, <1>4, <2>1 DEF EntriesSound, Busy
    <2>3. \A q \in Zombies : q # p
      BY <1>1 DEF Zombies, Busy
    <2>4. QED
      BY <1>1, <1>2, <1>3, <1>4, <1>5, <2>2, <2>3 DEF EntriesSound, Busy
  <1>8. PrintingFilesInPlace'
    BY <1>1, <1>2, <1>3, <1>4, <1>5 DEF PrintingFilesInPlace, Busy
  <1>9. ChargedToOwner' /\ NothingAbandoned'
    BY <1>1, <1>2, <1>4, <1>5 DEF ChargedToOwner, NothingAbandoned, Busy
  <1>10. ReapedInPlace' /\ DataInPlace' /\ JobsDistinct' /\ PrintsBounded'
    BY <1>2, <1>5, <1>6 DEF ReapedInPlace, DataInPlace, JobsDistinct, PrintsBounded
  <1>11. NextTail' = NextTail /\ NextTail = NextIndex(svc.tail)
    BY <1>2, <1>3 DEF NextTail, BeforeAdvance, TailAfterSend
  <1>12. Dist(svc.tail, NextIndex(svc.tail)) \in 1 .. QUEUE_LENGTH
    <2>1. svc.tail \in Slots /\ Dist(svc.tail, svc.tail) < QUEUE_LENGTH
      BY QueueTypes, SpaceFacts DEF Dist
    <2>2. QED
      BY <2>1, StepPast
  <1>13. CourseInv'
    BY <1>2, <1>6, <1>11, <1>12 DEF CourseInv, OpenedInPlace, TailBehind
  <1>14. QED
    BY <1>7, <1>8, <1>9, <1>10, <1>13

\* What may go with an inf file that is unlinked: the file is of a job that is
\* done with, and no printer has it.
LEMMA UnlinkedInf ==
    ASSUME TypeOK, TableInv, NEW s \in Files,
           UNCHANGED <<dat, written, ppr, entry, orphans, prints, done, lastJob, crashes>>,
           inf' = [inf EXCEPT ![s] = NoJob],
           s \notin {entry[p].jobnum : p \in Busy},
           Reaped' = {}, Reaped \subseteq {s}
    PROVE  /\ TableInv' /\ Taken' \subseteq Taken
           /\ Files' = Files \ {s} /\ \A t \in Files' : inf'[t] = inf[t]
  <1>1. /\ inf'[s] = NoJob /\ \A t \in Slots : t # s => inf'[t] = inf[t]
        /\ Files' = Files \ {s}
    BY QueueTypes DEF Files
  <1>2. /\ Busy' = Busy /\ Zombies' = Zombies /\ HeldJobs' \subseteq HeldJobs
        /\ \A t \in Files' : inf'[t] = inf[t]
    BY <1>1 DEF Busy, Zombies, HeldJobs, Files
  <1>3. Taken' \subseteq Taken /\ Finished \subseteq Finished' \cup {s}
    BY <1>2 DEF Taken, Finished
  <1> USE DEF TableInv
  <1>4. EntriesSound' /\ ChargedToOwner' /\ NothingAbandoned' /\ ReapedInPlace'
    BY <1>2 DEF EntriesSound, ChargedToOwner, NothingAbandoned, ReapedInPlace
  <1>5. PrintingFilesInPlace'
    BY <1>1, <1>2, TakenHaveFiles, QueueTypes DEF PrintingFilesInPlace
  <1>6. DataInPlace' /\ JobsDistinct'
    BY <1>1, <1>2 DEF DataInPlace, JobsDistinct
  <1>7. PrintsBounded'
    <2>1. \A t \in Files' \ Finished' : t \in Files \ Finished /\ inf'[t] = inf[t]
      BY <1>1, <1>2, <1>3
    <2>2. QED
      BY <2>1 DEF PrintsBounded
  <1>8. QED
    BY <1>1, <1>2, <1>3, <1>4, <1>5, <1>6, <1>7

\* An inf file without data is taken away.
LEMMA DropStep ==
    ASSUME TypeOK, TableInv, CourseInv, SvcDropInf
    PROVE  TableInv' /\ CourseInv'
  <1>1. /\ UNCHANGED <<dat, written, ppr, entry, orphans, prints, done, lastJob, crashes>>
        /\ inf' = [inf EXCEPT ![svc.tail] = NoJob]
        /\ svc.pc = "opendat" /\ svc'.pc = "awake"
        /\ svc'.jobSent = svc.jobSent /\ svc'.tail = svc.tail
        /\ svc.tail \in Files
    BY QueueTypes DEF SvcDropInf, history, bounds, ServiceState, Files
  <1>2. Reaped = {} /\ Reaped' = {}
    BY <1>1 DEF Reaped
  <1>3. svc.tail \notin {entry[p].jobnum : p \in Busy}
    BY <1>1 DEF CourseInv, TailBehind, Taken
  <1>4. TableInv' /\ Taken' \subseteq Taken
    BY <1>1, <1>2, <1>3, UnlinkedInf
  <1>5. NextTail' = NextTail
    BY <1>1 DEF NextTail, BeforeAdvance, TailAfterSend
  <1>6. CourseInv'
    BY <1>1, <1>4, <1>5 DEF CourseInv, OpenedInPlace, TailBehind
  <1>7. QED
    BY <1>4, <1>6

\* A zombie's entry is cleared, and its number is in the harvester's hands.
LEMMA HarvestStep ==
    ASSUME TypeOK, TableInv, CourseInv, SvcHarvest
    PROVE  TableInv' /\ CourseInv'
  <1>1. PICK p \in Printers :
            /\ entry[p].state = "zombie"
            /\ entry' = [entry EXCEPT ![p] = IdleEntry]
            /\ svc' = [svc EXCEPT !.pc = "unlinkdat", !.reaping = entry[p].jobnum,
                                  !.numChildren = @ - 1]
    BY DEF SvcHarvest
  <1> DEFINE s == entry[p].jobnum
  <1>2. /\ UNCHANGED <<inf, dat, written, ppr, orphans, prints, done, lastJob, crashes>>
        /\ svc.pc = "harvest" /\ svc'.pc = "unlinkdat" /\ svc'.reaping = s
        /\ svc'.jobSent = svc.jobSent /\ svc'.tail = svc.tail
    <2>1. UNCHANGED <<inf, dat, written, ppr, orphans, prints, done, lastJob, crashes>>
          /\ svc.pc = "harvest"
      BY DEF SvcHarvest, spool, history, bounds
    <2>2. QED
      BY <1>1, <2>1, QueueTypes DEF ServiceState
  <1>3. Reaped = {} /\ Reaped' = {s}
    BY <1>2 DEF Reaped
  <1>4. /\ entry'[p] = IdleEntry
        /\ \A q \in Printers : q # p => entry'[q] = entry[q]
        /\ p \in Zombies /\ p \in Busy
    BY <1>1, QueueTypes DEF Zombies, Busy
  <1>5. Busy' = Busy \ {p} /\ Zombies' = Zombies \ {p} /\ Files' = Files /\ HeldJobs' = HeldJobs
    BY <1>2, <1>4 DEF Busy, Zombies, Files, HeldJobs, IdleEntry
  <1>6. Finished' = Finished /\ Taken' = Taken
    <2>1. {entry'[q].jobnum : q \in Busy \ {p}} = {entry[q].jobnum : q \in Busy \ {p}}
      BY <1>4 DEF Busy
    <2>2. {entry'[q].jobnum : q \in Zombies \ {p}} = {entry[q].jobnum : q \in Zombies \ {p}}
      BY <1>4 DEF Zombies
    <2>3. {entry[q].jobnum : q \in Busy} = {entry[q].jobnum : q \in Busy \ {p}} \cup {s}
      BY <1>4
    <2>4. {entry[q].jobnum : q \in Zombies} = {entry[q].jobnum : q \in Zombies \ {p}} \cup {s}
      BY <1>4
    <2>5. QED
      BY <1>3, <1>5, <2>1, <2>2, <2>3, <2>4 DEF Finished, Taken
  <1> USE DEF TableInv
  <1>7. EntriesSound'
    <2>1. \A q \in Busy \ {p} : entry[q].jobnum # s
      BY <1>4 DEF EntriesSound
    <2>2. QED
      BY <1>2, <1>3, <1>4, <1>5, <2>1 DEF EntriesSound, Busy, Zombies
  <1>8. PrintingFilesInPlace' /\ ChargedToOwner' /\ NothingAbandoned'
    BY <1>2, <1>4, <1>5 DEF PrintingFilesInPlace, ChargedToOwner, NothingAbandoned, Busy
  <1>9. ReapedInPlace'
    <2>1. /\ inf[s] = entry[p].inf /\ dat[s] = inf[s]
          /\ entry[p].inf # NoJob /\ entry[p].inf \in done
      BY <1>4 DEF PrintingFilesInPlace, ChargedToOwner, EntriesSound
    <2>2. QED
      BY <1>2, <1>3, <2>1 DEF ReapedInPlace
  <1>10. DataInPlace' /\ JobsDistinct' /\ PrintsBounded'
    BY <1>2, <1>5, <1>6 DEF DataInPlace, JobsDistinct, PrintsBounded
  <1>11. NextTail' = NextTail
    BY <1>2 DEF NextTail, BeforeAdvance, TailAfterSend
  <1>12. CourseInv'
    BY <1>2, <1>6, <1>11 DEF CourseInv, OpenedInPlace, TailBehind
  <1>13. QED
    BY <1>7, <1>8, <1>9, <1>10, <1>12

\* The data of a job that is done with is unlinked.
LEMMA UnlinkDatStep ==
    ASSUME TypeOK, TableInv, CourseInv, SvcUnlinkDat
    PROVE  TableInv' /\ CourseInv'
  <1> DEFINE s == svc.reaping
  <1>1. /\ UNCHANGED <<inf, written, ppr, entry, orphans, prints, done, lastJob, crashes>>
        /\ dat' = [dat EXCEPT ![s] = NoJob]
        /\ svc.pc = "unlinkdat" /\ svc'.pc = "unlinkinf" /\ svc'.reaping = s
        /\ svc'.jobSent = svc.jobSent /\ svc'.tail = svc.tail
    BY QueueTypes DEF SvcUnlinkDat, history, bounds, ServiceState
  <1>2. Reaped = {s} /\ Reaped' = {s} /\ s \in Slots
    BY <1>1, QueueTypes DEF Reaped, ServiceState
  <1>3. dat'[s] = NoJob /\ \A t \in Slots : t # s => dat'[t] = dat[t]
    BY <1>1, <1>2, QueueTypes
  <1>4. Busy' = Busy /\ Zombies' = Zombies /\ Files' = Files /\ HeldJobs' = HeldJobs
    BY <1>1 DEF Busy, Zombies, Files, HeldJobs
  <1>5. Finished' = Finished /\ Taken' = Taken
    BY <1>1, <1>2, <1>4 DEF Finished, Taken
  <1> USE DEF TableInv
  <1>6. EntriesSound' /\ ChargedToOwner' /\ NothingAbandoned'
    BY <1>1, <1>2, <1>4 DEF EntriesSound, ChargedToOwner, NothingAbandoned
  <1>7. PrintingFilesInPlace'
    <2>1. \A q \in Busy : entry[q].jobnum \in Slots /\ entry[q].jobnum # s
      BY <1>2, QueueTypes DEF EntriesSound, Busy, EntryState
    <2>2. QED
      BY <1>1, <1>3, <1>4, <2>1 DEF PrintingFilesInPlace
  <1>8. s \in Files /\ inf[s] # NoJob /\ inf[s] \in done
    BY <1>2 DEF ReapedInPlace, Files
  <1>9. ReapedInPlace'
    BY <1>1, <1>2, <1>3, <1>8 DEF ReapedInPlace
  <1>10. DataInPlace'
    BY <1>1, <1>3, <1>4, <1>8, QueueTypes DEF DataInPlace
  <1>11. JobsDistinct'
    <2>1. \A c \in Clients : ppr[c].pc = "inf" => ppr[c].slot # s
      <3>1. ASSUME NEW c \in Clients, ppr[c].pc = "inf", ppr[c].slot = s
            PROVE  FALSE
        <4>1. dat[s] = ppr[c].job /\ dat[s] = inf[s]
          BY <1>1, <1>2, <3>1 DEF JobsDistinct, ReapedInPlace
        <4>2. QED
          BY <1>8, <3>1, <4>1 DEF JobsDistinct, HeldJobs
      <3>2. QED
        BY <3>1
    <2>2. \A c \in Clients : ppr[c].slot \in Slots
      BY QueueTypes DEF ClientState
    <2>3. QED
      BY <1>1, <1>3, <1>4, <2>1, <2>2 DEF JobsDistinct
  <1>12. PrintsBounded'
    BY <1>1, <1>4, <1>5 DEF PrintsBounded
  <1>13. NextTail' = NextTail
    BY <1>1 DEF NextTail, BeforeAdvance, TailAfterSend
  <1>14. CourseInv'
    BY <1>1, <1>5, <1>13 DEF CourseInv, OpenedInPlace, TailBehind
  <1>15. QED
    BY <1>6, <1>7, <1>9, <1>10, <1>11, <1>12, <1>14

\* The inf file follows, and the number may be used again.
LEMMA UnlinkInfStep ==
    ASSUME TypeOK, TableInv, CourseInv, SvcUnlinkInf
    PROVE  TableInv' /\ CourseInv'
  <1>1. /\ UNCHANGED <<dat, written, ppr, entry, orphans, prints, done, lastJob, crashes>>
        /\ inf' = [inf EXCEPT ![svc.reaping] = NoJob]
        /\ svc.pc = "unlinkinf" /\ svc'.pc = "harvest"
        /\ svc'.jobSent = svc.jobSent /\ svc'.tail = svc.tail
        /\ svc.reaping \in Files
    BY QueueTypes DEF SvcUnlinkInf, history, bounds, ServiceState, Files
  <1>2. Reaped = {svc.reaping} /\ Reaped' = {}
    BY <1>1 DEF Reaped
  <1>3. svc.reaping \notin {entry[p].jobnum : p \in Busy}
    BY <1>2 DEF TableInv, EntriesSound
  <1>4. TableInv' /\ Taken' \subseteq Taken
    BY <1>1, <1>2, <1>3, UnlinkedInf
  <1>5. NextTail' = NextTail
    BY <1>1 DEF NextTail, BeforeAdvance, TailAfterSend
  <1>6. CourseInv'
    BY <1>1, <1>4, <1>5 DEF CourseInv, OpenedInPlace, TailBehind
  <1>7. QED
    BY <1>4, <1>6

\* The queue child never finds a file missing that it means to unlink.
LEMMA NoUnlinkFails ==
    ASSUME TypeOK, TableInv, CourseInv
    PROVE  ~SvcDropFails /\ ~SvcUnlinkFails
  <1>1. ~SvcDropFails
    BY DEF SvcDropFails, CourseInv, OpenedInPlace
  <1>2. ~SvcUnlinkFails
    BY DEF SvcUnlinkFails, TableInv, ReapedInPlace, Reaped
  <1>3. QED
    BY <1>1, <1>2

-----------------------------------------------------------------------------
(* The printing children's steps.                                          *)

\* An entry changes its state only; the files and the numbers stay.
LEMMA EntryMoves ==
    ASSUME TypeOK, TableInv, NEW p \in Busy, NEW st \in {"printing", "zombie"},
           entry' = [entry EXCEPT ![p].state = st],
           UNCHANGED <<spool, ppr, orphans, lastJob, crashes>>,
           Reaped' = Reaped, svc'.pc = "unlinkdat" <=> svc.pc = "unlinkdat",
           done \subseteq done', st = "zombie" => entry[p].inf \in done',
           entry[p].state # "zombie"
    PROVE  /\ EntriesSound' /\ PrintingFilesInPlace' /\ ChargedToOwner' /\ NothingAbandoned'
           /\ ReapedInPlace' /\ DataInPlace' /\ JobsDistinct'
           /\ Busy' = Busy /\ Taken' = Taken
           /\ Finished' = IF st = "zombie" THEN Finished \cup {entry[p].jobnum} ELSE Finished
  <1> USE DEF TableInv, spool
  <1>1. /\ \A q \in Printers : q # p => entry'[q] = entry[q]
        /\ entry'[p].state = st /\ entry'[p].jobnum = entry[p].jobnum
        /\ entry'[p].inf = entry[p].inf /\ entry'[p].dat = entry[p].dat
        /\ p \in Printers /\ p \notin Zombies
    BY QueueTypes DEF EntryState, Busy, Zombies
  <1>2. /\ Busy' = Busy /\ Files' = Files /\ HeldJobs' = HeldJobs
        /\ Zombies' = IF st = "zombie" THEN Zombies \cup {p} ELSE Zombies
    BY <1>1 DEF Busy, Zombies, Files, HeldJobs
  <1>3. \A q \in Busy : /\ entry'[q].jobnum = entry[q].jobnum
                        /\ entry'[q].inf = entry[q].inf /\ entry'[q].dat = entry[q].dat
    BY <1>1 DEF Busy
  <1>4. Taken' = Taken
    BY <1>2, <1>3 DEF Taken
  <1>5. Finished' = IF st = "zombie" THEN Finished \cup {entry[p].jobnum} ELSE Finished
    <2>1. \A q \in Zombies : entry'[q].jobnum = entry[q].jobnum
      BY <1>3, QueueTypes
    <2>2. QED
      BY <1>1, <1>2, <2>1 DEF Finished
  <1>6. EntriesSound'
    <2>1. \A q \in Printers : entry'[q].state = "idle" => entry'[q] = IdleEntry
      BY <1>1 DEF EntriesSound
    <2>2. \A q \in Busy : entry'[q].inf # NoJob /\ entry'[q].jobnum \notin Reaped
      BY <1>3 DEF EntriesSound
    <2>3. \A q \in Zombies' : entry'[q].inf \in done'
      BY <1>1, <1>2, <1>3, QueueTypes DEF EntriesSound
    <2>4. \A q, r \in Busy : entry'[q].jobnum = entry'[r].jobnum => q = r
      BY <1>3 DEF EntriesSound
    <2>5. QED
      BY <1>2, <2>1, <2>2, <2>3, <2>4 DEF EntriesSound
  <1>7. PrintingFilesInPlace' /\ ChargedToOwner' /\ NothingAbandoned'
    BY <1>2, <1>3 DEF PrintingFilesInPlace, ChargedToOwner, NothingAbandoned
  <1>8. ReapedInPlace' /\ DataInPlace' /\ JobsDistinct'
    BY <1>2 DEF ReapedInPlace, DataInPlace, JobsDistinct
  <1>9. QED
    BY <1>2, <1>4, <1>5, <1>6, <1>7, <1>8

\* A child prints, refuses or finishes its job.
LEMMA ChildrenStep ==
    ASSUME TypeOK, Counted, TableInv, CourseInv, NEW p \in Printers, ChildStep(p)
    PROVE  TableInv' /\ CourseInv'
  <1> DEFINE j == entry[p].inf
             s == entry[p].jobnum
             w == [svc EXCEPT !.childExited = TRUE]
  <1>1. CASE ChildBegin(p)
    <2>1. /\ UNCHANGED <<spool, ppr, orphans, lastJob, crashes, svc, prints, done>>
          /\ entry' = [entry EXCEPT ![p].state = "printing"]
          /\ inf' = inf /\ Reaped' = Reaped
          /\ p \in Busy /\ entry[p].state # "zombie"
      BY <1>1 DEF ChildBegin, history, bounds, spool, Reaped, Busy
    <2>2. /\ EntriesSound' /\ PrintingFilesInPlace' /\ ChargedToOwner' /\ NothingAbandoned'
          /\ ReapedInPlace' /\ DataInPlace' /\ JobsDistinct'
          /\ Taken' = Taken /\ Finished' = Finished
      BY <2>1, EntryMoves
    <2>3. Files' = Files
      BY <2>1 DEF Files
    <2>4. PrintsBounded'
      BY <2>1, <2>2, <2>3 DEF TableInv, PrintsBounded
    <2>5. CourseInv'
      BY <2>1, <2>2, CourseUndisturbed
    <2>6. QED
      BY <2>2, <2>4, <2>5 DEF TableInv
  <1>2. CASE ChildRefuse(p) \/ ChildFinish(p)
    <2>1. /\ UNCHANGED <<spool, ppr, orphans, lastJob, crashes>>
          /\ entry' = [entry EXCEPT ![p].state = "zombie"]
          /\ inf' = inf /\ p \in Busy /\ entry[p].state # "zombie"
          /\ svc' \in AfterSignal(w)
          /\ done' = done \cup {j}
          /\ prints' = prints \/ prints' = [prints EXCEPT ![entry[p].dat] = @ + 1]
      BY <1>2 DEF ChildRefuse, ChildFinish, ChildExits, bounds, spool, Busy
    <2>2. /\ w \in ServiceState
          /\ w.pc = svc.pc /\ w.tail = svc.tail /\ w.head = svc.head
          /\ w.opened = svc.opened /\ w.jobSent = svc.jobSent /\ w.reaping = svc.reaping
      BY QueueTypes DEF ServiceState
    <2>3. Taken' = {entry[q].jobnum : q \in Busy} \cup Reaped'
      <3>1. \A q \in Printers : /\ entry'[q].jobnum = entry[q].jobnum
                                /\ entry'[q].state = "idle" <=> entry[q].state = "idle"
        BY <2>1, QueueTypes DEF EntryState, Busy
      <3>2. Busy' = Busy
        BY <3>1 DEF Busy
      <3>3. \A q \in Busy : entry'[q].jobnum = entry[q].jobnum
        BY <3>1, QueueTypes
      <3>4. QED
        BY <3>2, <3>3 DEF Taken
    <2>4. Reaped' = Reaped /\ (svc'.pc = "unlinkdat" <=> svc.pc = "unlinkdat") /\ CourseInv'
      BY <2>1, <2>2, <2>3, SignalStep
    <2>5. /\ EntriesSound' /\ PrintingFilesInPlace' /\ ChargedToOwner' /\ NothingAbandoned'
          /\ ReapedInPlace' /\ DataInPlace' /\ JobsDistinct'
          /\ Finished' = Finished \cup {s}
      BY <2>1, <2>4, EntryMoves
    <2>6. Files' = Files
      BY <2>1 DEF Files
    <2>7. PrintsBounded'
      <3>1. CASE prints' = prints
        BY <2>1, <2>5, <2>6, <3>1 DEF TableInv, PrintsBounded
      <3>2. CASE prints' = [prints EXCEPT ![entry[p].dat] = @ + 1]
        <4>1. /\ inf[s] = j /\ entry[p].dat = j /\ s \in Files /\ j \in Jobs
              /\ j <= lastJob /\ \A t \in Files : inf[t] = j => t = s
          <5>1. inf[s] = j /\ entry[p].dat = j
            BY <2>1 DEF TableInv, PrintingFilesInPlace, ChargedToOwner
          <5>2. s \in Files
            BY <2>1, TakenHaveFiles
          <5>3. QED
            BY <5>1, <5>2, QueueTypes DEF TableInv, JobsDistinct
        <4>2. s \notin Finished
          <5>1. \A q \in Zombies : entry[q].jobnum # s
            BY <2>1, QueueTypes DEF TableInv, EntriesSound, Zombies
          <5>2. s \notin Reaped
            BY <2>1 DEF TableInv, EntriesSound
          <5>3. QED
            BY <5>1, <5>2 DEF Finished
        <4>3. prints[j] <= crashes
          BY <4>1, <4>2 DEF TableInv, PrintsBounded
        <4>4. prints'[j] = prints[j] + 1 /\ \A k \in Jobs : k # j => prints'[k] = prints[k]
          BY <3>2, <4>1, QueueTypes
        <4>5. \A k \in Jobs : prints'[k] <= crashes + 1 /\ (k > lastJob => prints'[k] = 0)
          <5>1. prints[j] \in Nat /\ crashes \in Nat /\ j \in Nat /\ lastJob \in Nat
            BY <4>1, QueueTypes
          <5>2. prints'[j] <= crashes + 1 /\ ~(j > lastJob)
            BY <4>1, <4>3, <4>4, <5>1
          <5>3. QED
            BY <4>4, <5>2 DEF TableInv, PrintsBounded
        <4>6. \A t \in Files \ (Finished \cup {s}) : prints'[inf[t]] <= crashes
          <5>1. \A t \in Files \ (Finished \cup {s}) : inf[t] # j /\ inf[t] \in Jobs
            BY <4>1, QueueTypes
          <5>2. QED
            BY <4>4, <5>1 DEF TableInv, PrintsBounded
        <4>7. \A c \in Clients : ppr[c].pc = "inf" => prints'[ppr[c].job] = 0
          <5>1. ASSUME NEW c \in Clients, ppr[c].pc = "inf"
                PROVE  prints'[ppr[c].job] = 0
            <6>1. ppr[c].job \in 1 .. lastJob /\ ppr[c].job \notin HeldJobs
              BY <5>1 DEF TableInv, JobsDistinct
            <6>2. ppr[c].job # j
              BY <4>1, <6>1 DEF HeldJobs
            <6>3. ppr[c].job \in Jobs
              BY <6>1, QueueTypes, SpoolAssumption DEF Jobs
            <6>4. QED
              BY <4>4, <5>1, <6>2, <6>3 DEF TableInv, PrintsBounded
          <5>2. QED
            BY <5>1
        <4>8. QED
          BY <2>1, <2>5, <2>6, <4>5, <4>6, <4>7 DEF PrintsBounded
      <3>3. QED
        BY <2>1, <3>1, <3>2
    <2>8. QED
      BY <2>4, <2>5, <2>7 DEF TableInv
  <1>3. QED
    BY <1>1, <1>2 DEF ChildStep

-----------------------------------------------------------------------------
(* The invariant.                                                          *)

\* The invariant holds at the start.
LEMMA QueueInvInit == Init => QueueInv
  BY SpoolInvInit, CountInit, QueueInit DEF QueueInv

\* Every step keeps the invariant, as long as nobody removes jobs.
LEMMA QueueInvStep ==
    ASSUME NobodyInterferes
    PROVE  QueueInv /\ [Next]_vars => QueueInv'
  <1> SUFFICES ASSUME QueueInv, [Next]_vars
               PROVE  QueueInv'
    OBVIOUS
  <1> USE DEF QueueInv
  <1>1. TypeOK
    BY DEF SpoolInv
  <1>2. SpoolInv' /\ Counted'
    BY <1>1, SpoolInvStep, CountStep
  <1>3. ASSUME NEW c \in Clients, PprStart(c) \/ PprStep(c)
        PROVE  TableInv' /\ CourseInv'
    <2>1. ~PprUnknownUser(c)
      BY DEF PprUnknownUser, NobodyInterferes
    <2>2. QED
      BY <1>1, <1>3, <2>1, QuietClient, CreateDatStep, OpenInfStep DEF PprStep
  <1>4. CASE SvcStep
    <2>1. CASE \/ SvcPause \/ SvcOpenInf \/ SvcLockInf \/ SvcInfLocked \/ SvcForkFails
               \/ SvcTestChildExited \/ SvcHarvestEnds \/ SvcSendNothing
               \/ SvcAdvance \/ SvcRelock
      BY <1>1, <1>2, <2>1, LoopStep
    <2>2. CASE SvcGetHeadTail \/ SvcNothingQueued
      BY <1>1, <1>2, <2>2, StartStep
    <2>3. CASE SvcSend \/ SvcRecalculate \/ SvcPrintJob
      BY <1>1, <1>2, <2>3, SendStep, RecalculateStep, PrintJobStep
    <2>4. CASE SvcDropInf \/ SvcHarvest \/ SvcUnlinkDat \/ SvcUnlinkInf \/ SvcExit
      BY <1>1, <1>2, <2>4, DropStep, HarvestStep, UnlinkDatStep, UnlinkInfStep, ExitStep
    <2>5. ~SvcDropFails /\ ~SvcUnlinkFails
      BY <1>1, NoUnlinkFails
    <2>6. QED
      BY <1>4, <2>1, <2>2, <2>3, <2>4, <2>5 DEF SvcStep
  <1>5. ASSUME NEW j \in Jobs, OrphanFinish(j)
        PROVE  FALSE
    BY <1>5 DEF OrphanFinish, TableInv, NothingAbandoned
  <1>6. CASE UNCHANGED vars
    <2>1. /\ UNCHANGED <<spool, ppr, entry, orphans, history, crashes, svc>>
          /\ Reaped' = Reaped /\ inf' = inf /\ svc'.pc = svc.pc
      BY <1>6 DEF vars, bounds, Reaped, spool
    <2>2. TableInv'
      BY <2>1, TableUndisturbed
    <2>3. Taken' = Taken
      BY <2>1, TakenUndisturbed
    <2>4. QED
      BY <1>2, <2>1, <2>2, <2>3, CourseUndisturbed
  <1>7. ~\E r \in Removers : RmStart(r) \/ RmStep(r)
    BY DEF NobodyInterferes
  <1>8. QED
    BY <1>1, <1>2, <1>3, <1>4, <1>5, <1>6, <1>7, ServeStep, SetStatusStep, CrashStep,
       ChildrenStep DEF Next

\* The invariant holds in every behaviour in which nobody removes jobs.
LEMMA QueueInvariant ==
    ASSUME NobodyInterferes
    PROVE  Spec => []QueueInv
  <1>1. QueueInv /\ [Next]_vars => QueueInv'
    BY QueueInvStep
  <1>2. QED
    BY <1>1, QueueInvInit, PTL DEF Spec

-----------------------------------------------------------------------------
(* What the queue promises about single jobs.                              *)

\* While a job is at a printer its two files are in place under its number, and
\* the printing child has those files open (ppd.c 655-672), through every crash.
THEOREM FilesStayWhilePrinting ==
    ASSUME NobodyInterferes
    PROVE  Spec => []PrintingFilesInPlace
  <1>1. QueueInv => PrintingFilesInPlace
    BY DEF QueueInv, TableInv
  <1>2. QED
    BY <1>1, QueueInvariant, PTL

\* A job is charged to the user who is named beside its own data, never to the
\* owner of a job that had or gets its number (ppd.c 655-668, 1193-1238).
THEOREM OwnerIsCharged ==
    ASSUME NobodyInterferes
    PROVE  Spec => []ChargedToOwner
  <1>1. QueueInv => ChargedToOwner
    BY DEF QueueInv, TableInv
  <1>2. QED
    BY <1>1, QueueInvariant, PTL

\* The queue child never dies with a child still printing: every file it goes
\* to unlink is there (ppd.c 711, 1053-1066).
THEOREM NoChildAbandoned ==
    ASSUME NobodyInterferes
    PROVE  Spec => []NothingAbandoned
  <1>1. QueueInv => NothingAbandoned
    BY DEF QueueInv, TableInv
  <1>2. QED
    BY <1>1, QueueInvariant, PTL

\* A job is printed once, and once more for each crash at most: the tail never
\* comes round to a job that has been sent (ppd.c 703, 803-806).
THEOREM JobPrintedOnce ==
    ASSUME NobodyInterferes
    PROVE  Spec => []PrintedOnce
  <1>1. QueueInv => PrintedOnce
    <2> SUFFICES ASSUME QueueInv, NEW j \in Jobs
                 PROVE  prints[j] <= 1 + crashes
      BY DEF PrintedOnce
    <2>1. prints[j] <= crashes + 1 /\ crashes \in Nat
      BY QueueTypes DEF QueueInv, SpoolInv, TableInv, PrintsBounded
    <2>2. QED
      BY <2>1
  <1>2. QED
    BY <1>1, QueueInvariant, PTL

\* The steps after which an inf file is no longer as it was.
LEMMA InfChanges ==
    ASSUME NobodyInterferes, [Next]_vars
    PROVE  \/ inf' = inf
           \/ \E c \in Clients : PprOpenInf(c)
           \/ SvcDropInf
           \/ SvcUnlinkInf
  <1> USE DEF spool
  <1>1. ASSUME NEW c \in Clients, PprStart(c) \/ PprStep(c)
        PROVE  inf' = inf \/ PprOpenInf(c)
    BY <1>1 DEF PprStart, PprStep, PprLock, PprLockBusy, PprCalculateHead,
       PprCalculateTail, PprFull, PprCreateDat, PprWriteInf, PprUnknownUser, PprNotify
  <1>2. CASE SvcStep
    BY <1>2 DEF SvcStep, SvcGetHeadTail, SvcNothingQueued, SvcSend,
       SvcSendNothing, SvcPause, SvcOpenInf, SvcLockInf, SvcInfLocked, SvcForkFails,
       SvcPrintJob, SvcDropFails, SvcTestChildExited, SvcHarvest,
       SvcHarvestEnds, SvcUnlinkDat, SvcUnlinkFails, SvcAdvance,
       SvcRelock, SvcRecalculate, SvcExit
  <1>3. ASSUME NEW p \in Printers, ChildStep(p)
        PROVE  inf' = inf
    BY <1>3 DEF ChildStep, ChildBegin, ChildRefuse, ChildFinish
  <1>4. CASE \/ \E j \in Jobs : OrphanFinish(j)
             \/ DaemonServe \/ AdminSetStatus \/ CrashAndRestart \/ UNCHANGED vars
    BY <1>4 DEF OrphanFinish, DaemonServe, AdminSetStatus, CrashAndRestart, vars
  <1>5. ~\E r \in Removers : RmStart(r) \/ RmStep(r)
    BY DEF NobodyInterferes
  <1>6. QED
    BY <1>1, <1>2, <1>3, <1>4, <1>5 DEF Next

\* A submitted job keeps its inf file, under its own number, until a printing
\* child has finished with that very job (ppd.c 711, 1053-1066, ppr.c 153).
THEOREM JobStaysQueued ==
    ASSUME NobodyInterferes
    PROVE  Spec => QueuedJobStays
  <1>1. ASSUME QueueInv, [Next]_vars, NEW s \in Slots, inf[s] \in written, inf'[s] # inf[s]
        PROVE  inf[s] \in done
    <2> USE DEF QueueInv, TableInv
    <2>1. inf[s] # NoJob /\ s \in Files
      BY <1>1 DEF JobsDistinct, Files
    <2>2. ASSUME NEW c \in Clients, PprOpenInf(c)
          PROVE  FALSE
      <3>1. ppr[c].slot \in Slots \ Files
        BY <1>1, <2>2, ClientAlone DEF PprOpenInf
      <3>2. inf' = [inf EXCEPT ![ppr[c].slot] = ppr[c].job]
        BY <2>2 DEF PprOpenInf
      <3>3. QED
        BY <1>1, <2>1, <3>1, <3>2, QueueTypes DEF SpoolInv
    <2>3. CASE SvcDropInf
      <3>1. s = svc.tail /\ dat[s] = NoJob
        BY <1>1, <2>3, QueueTypes DEF SvcDropInf, SpoolInv
      <3>2. QED
        BY <1>1, <2>1, <3>1 DEF DataInPlace
    <2>4. CASE SvcUnlinkInf
      <3>1. s = svc.reaping /\ svc.pc = "unlinkinf"
        BY <1>1, <2>4, QueueTypes DEF SvcUnlinkInf, SpoolInv
      <3>2. QED
        BY <1>1, <3>1 DEF ReapedInPlace, Reaped
    <2>5. QED
      BY <1>1, <2>2, <2>3, <2>4, InfChanges
  <1>2. QueueInv /\ [Next]_vars =>
          [\A s \in Slots :
             /\ inf[s] \in written
             /\ inf'[s] # inf[s]
             => \/ inf[s] \in done
                \/ \E r \in Removers : lock = r /\ rm[r].slot = s]_vars
    BY <1>1
  <1>3. QED
    BY <1>2, QueueInvariant, PTL DEF QueuedJobStays, Spec

-----------------------------------------------------------------------------
(* The refinement of PrintSpool.                                           *)

\* A listing that lies in one window names at most QUEUE_LENGTH jobs.
LEMMA WindowHoldsQueue ==
    ASSUME NEW S \in SUBSET Slots, Windowed(S)
    PROVE  IsFiniteSet(S) /\ Cardinality(S) <= QUEUE_LENGTH
  <1>1. CASE S = {}
    BY <1>1, FS_EmptySet, SpaceFacts
  <1>2. CASE S # {}
    <2>1. PICK base \in S : \A s \in S : Dist(base, s) < QUEUE_LENGTH
      BY <1>2 DEF Windowed, InWindowFrom
    <2> DEFINE T == 0 .. (QUEUE_LENGTH - 1)
               f == [s \in S |-> Dist(base, s)]
    <2>2. f \in [S -> T]
      <3>1. \A s \in S : Dist(base, s) \in Int /\ Dist(base, s) >= 0
        BY DistType
      <3>2. \A s \in S : Dist(base, s) \in T
        BY <2>1, <3>1, SpaceFacts
      <3>3. QED
        BY <3>2
    <2>3. \A a, b \in S : f[a] = f[b] => a = b
      BY SpaceFacts DEF Dist
    <2>4. f \in Injection(S, T)
      BY <2>2, <2>3, Fun_IsInj
    <2>5. IsFiniteSet(T) /\ Cardinality(T) = QUEUE_LENGTH
      <3>1. 0 \in Int /\ QUEUE_LENGTH - 1 \in Int /\ ~(0 > QUEUE_LENGTH - 1)
        BY SpaceFacts
      <3>2. IsFiniteSet(T) /\ Cardinality(T) = QUEUE_LENGTH - 1 - 0 + 1
        BY <3>1, FS_Interval
      <3>3. QED
        BY <3>2, SpaceFacts
    <2> HIDE DEF f, T
    <2>6. QED
      BY <2>4, <2>5, FS_Injection
  <1>3. QED
    BY <1>1, <1>2

\* There are no more jobs held than inf files.
LEMMA HeldFit ==
    ASSUME IsFiniteSet(Files)
    PROVE  IsFiniteSet(HeldJobs) /\ Cardinality(HeldJobs) <= Cardinality(Files)
  <1> DEFINE f == [s \in Files |-> inf[s]]
  <1>1. f \in [Files -> HeldJobs] /\ \A j \in HeldJobs : \E s \in Files : f[s] = j
    BY DEF HeldJobs
  <1>2. f \in Surjection(Files, HeldJobs)
    BY <1>1, Fun_IsSurj
  <1> HIDE DEF f
  <1>3. QED
    BY <1>2, FS_Surjection

\* The two copies of FiniteSets that are in use say the same.
LEMMA SameCardinality == \A S : Spool!Cardinality(S) = Cardinality(S)
  BY DEF Spool!Cardinality, Cardinality

\* ppr adds a job to fewer than QUEUE_LENGTH.
LEMMA RoomForOne ==
    ASSUME SpoolInv, NEW c \in Clients, ppr[c].pc = "inf"
    PROVE  Cardinality(HeldJobs) < QUEUE_LENGTH
  <1> DEFINE s == ppr[c].slot
  <1>1. s \in Slots \ Files /\ Windowed(Files \cup {s}) /\ Files \in SUBSET Slots
    BY ClientAlone, QueueTypes DEF SpoolInv, ClientsPlaced
  <1>2. IsFiniteSet(Files \cup {s}) /\ Cardinality(Files \cup {s}) <= QUEUE_LENGTH
    BY <1>1, WindowHoldsQueue
  <1>3. IsFiniteSet(Files)
    BY <1>2, FS_Subset
  <1>4. Cardinality(Files \cup {s}) = Cardinality(Files) + 1
    BY <1>1, <1>3, FS_AddElement
  <1>5. Cardinality(HeldJobs) <= Cardinality(Files) /\ IsFiniteSet(HeldJobs)
    BY <1>3, HeldFit
  <1>6. Cardinality(Files) \in Nat /\ Cardinality(HeldJobs) \in Nat
    BY <1>3, <1>5, FS_CardinalityType
  <1>7. QED
    BY <1>2, <1>4, <1>5, <1>6, SpaceFacts

AtJobs == {entry[p].inf : p \in Busy}
Waiting == HeldJobs \ (AtJobs \cup BeingReaped \cup Half)

\* What PrintSpool sees of a state.
LEMMA Shown ==
    ASSUME TypeOK, TableInv
    PROVE  /\ AtJobs \subseteq HeldJobs /\ BeingReaped \subseteq HeldJobs
           /\ Half \subseteq HeldJobs
           /\ Spool!AtPrinters = AtJobs /\ Spool!Held = HeldJobs
           /\ PastJobs \cap HeldJobs = {} /\ HeldJobs \subseteq Jobs
           /\ BeingReaped = {inf[s] : s \in Reaped}
           /\ \A p \in Printers : AtPrinter[p] = NoJob <=> p \notin Busy
  <1>1. AtJobs \subseteq HeldJobs
    BY TakenHaveFiles DEF TableInv, PrintingFilesInPlace, AtJobs, HeldJobs
  <1>2. BeingReaped = {inf[s] : s \in Reaped}
    BY DEF BeingReaped, Reaped
  <1>3. BeingReaped \subseteq HeldJobs /\ Half \subseteq HeldJobs
    BY <1>2, TakenHaveFiles DEF HeldJobs, Half
  <1>4. \A p \in Printers : AtPrinter[p] = NoJob <=> p \notin Busy
    BY DEF TableInv, EntriesSound, AtPrinter, Busy, IdleEntry
  <1>5. Spool!AtPrinters = AtJobs
    <2>1. \A p \in Printers : AtPrinter[p] = entry[p].inf
      BY DEF AtPrinter
    <2>2. QED
      BY <1>4, <2>1, QueueTypes DEF Spool!AtPrinters, AtJobs
  <1>6. Spool!Held = HeldJobs
    BY <1>1, <1>3, <1>5 DEF Spool!Held, AtJobs
  <1>7. PastJobs \cap HeldJobs = {} /\ HeldJobs \subseteq Jobs
    BY QueueTypes DEF PastJobs, HeldJobs
  <1>8. QED
    BY <1>1, <1>2, <1>3, <1>4, <1>5, <1>6, <1>7

\* What shows none of itself to PrintSpool.
LEMMA NothingShown ==
    ASSUME HeldJobs' = HeldJobs, AtJobs' = AtJobs, AtPrinter' = AtPrinter,
           BeingReaped' \cup Half' = BeingReaped \cup Half, PastJobs' = PastJobs,
           crashes' = crashes
    PROVE  UNCHANGED Spool!vars
  <1>1. (HeldJobs \ ({entry[p].inf : p \in Busy} \cup BeingReaped \cup Half))'
            = HeldJobs \ ({entry[p].inf : p \in Busy} \cup BeingReaped \cup Half)
    BY DEF AtJobs
  <1>2. QED
    BY <1>1 DEF Spool!vars

\* Steps that leave the files, the table and the submissions alone.
LEMMA QuietShown ==
    ASSUME UNCHANGED <<inf, dat, ppr, lastJob, crashes, entry>>,
           Reaped' = Reaped
    PROVE  UNCHANGED Spool!vars
  <1>1. /\ HeldJobs' = HeldJobs /\ Half' = Half /\ AtJobs' = AtJobs
        /\ AtPrinter' = AtPrinter /\ PastJobs' = PastJobs
    BY DEF HeldJobs, Files, Half, AtJobs, Busy, AtPrinter, PastJobs
  <1>2. BeingReaped = {inf[s] : s \in Reaped}
    BY DEF BeingReaped, Reaped
  <1>3. BeingReaped' = {inf'[s] : s \in Reaped'}
    BY DEF BeingReaped, Reaped
  <1>4. QED
    BY <1>1, <1>2, <1>3, NothingShown

\* An empty directory shows an empty spool.
LEMMA ShownInit == Init => Spool!Init
  <1> SUFFICES ASSUME Init
               PROVE  Spool!Init
    OBVIOUS
  <1>1. Files = {} /\ Busy = {} /\ svc.pc = "none" /\ lastJob = 0 /\ crashes = 0
    BY DEF Init, Files, Busy, IdleEntry, NoService
  <1>2. HeldJobs = {} /\ BeingReaped = {} /\ Half = {} /\ PastJobs = {}
    BY <1>1 DEF HeldJobs, BeingReaped, Half, PastJobs
  <1>3. AtPrinter = [p \in Printers |-> NoJob]
    BY DEF Init, AtPrinter, IdleEntry
  <1>4. QED
    BY <1>1, <1>2, <1>3 DEF Spool!Init

\* The job ppr creates is submitted when its inf file appears; its data file
\* shows nothing yet.
LEMMA CreateDatShown ==
    ASSUME SpoolInv, TableInv, NEW c \in Clients, PprCreateDat(c)
    PROVE  UNCHANGED Spool!vars
  <1>1. /\ UNCHANGED <<inf, svc, entry, crashes>>
        /\ dat' = [dat EXCEPT ![ppr[c].slot] = lastJob + 1]
        /\ lastJob' = lastJob + 1
        /\ ppr' = [ppr EXCEPT ![c].pc = "inf", ![c].job = lastJob + 1]
        /\ ppr[c].pc = "dat"
    BY DEF PprCreateDat, bounds
  <1>2. /\ TypeOK /\ ppr[c].slot \in Slots \ Files
        /\ \A d \in Clients : d # c => ppr[d].pc # "inf"
    BY <1>1, ClientAlone DEF SpoolInv
  <1>3. /\ \A d \in Clients : d # c => ppr'[d] = ppr[d]
        /\ ppr'[c].pc = "inf" /\ ppr'[c].job = lastJob + 1
    BY <1>1, <1>2, QueueTypes DEF ClientState
  <1>4. /\ HeldJobs' = HeldJobs /\ Files' = Files /\ AtJobs' = AtJobs
        /\ AtPrinter' = AtPrinter /\ BeingReaped' = BeingReaped
    BY <1>1 DEF HeldJobs, Files, AtJobs, Busy, AtPrinter, BeingReaped
  <1>5. Half' = Half
    <2>1. \A t \in Files : dat'[t] = dat[t]
      BY <1>1, <1>2, QueueTypes
    <2>2. QED
      BY <1>1, <1>4, <2>1 DEF Half
  <1>6. PastJobs' = PastJobs
    <2>1. lastJob \in Nat /\ 1 .. lastJob' = (1 .. lastJob) \cup {lastJob + 1}
      BY <1>1, <1>2, QueueTypes
    <2>2. lastJob + 1 \notin 1 .. lastJob
      BY <2>1
    <2>3. PastJobs = {j \in 1 .. lastJob : j \notin HeldJobs}
      BY <1>1, <1>2 DEF PastJobs
    <2>4. \A j : (\A d \in Clients : ppr'[d].pc = "inf" => ppr'[d].job # j)
                    <=> j # lastJob + 1
      BY <1>2, <1>3
    <2>5. PastJobs' = {j \in 1 .. lastJob' : j \notin HeldJobs /\ j # lastJob + 1}
      BY <1>4, <2>4 DEF PastJobs
    <2>6. QED
      BY <2>1, <2>2, <2>3, <2>5
  <1>7. QED
    BY <1>1, <1>4, <1>5, <1>6, NothingShown

\* ppr's creation of the inf file is the submission of a job.
LEMMA OpenInfShown ==
    ASSUME SpoolInv, TableInv, NEW c \in Clients, PprOpenInf(c)
    PROVE  Spool!Next
  <1> DEFINE s == ppr[c].slot
             j == ppr[c].job
  <1>1. /\ UNCHANGED <<dat, svc, entry, lastJob, crashes>>
        /\ inf' = [inf EXCEPT ![s] = j]
        /\ ppr' = [ppr EXCEPT ![c].pc = "write"]
        /\ ppr[c].pc = "inf"
    BY DEF PprOpenInf, history, bounds
  <1>2. /\ TypeOK /\ s \in Slots \ Files
        /\ \A d \in Clients : d # c => ppr[d].pc # "inf"
    BY <1>1, ClientAlone DEF SpoolInv
  <1>3. /\ \A d \in Clients : d # c => ppr'[d] = ppr[d]
        /\ ppr'[c].pc = "write"
    BY <1>1, <1>2, QueueTypes DEF ClientState
  <1>4. j \in 1 .. lastJob /\ j \notin HeldJobs /\ dat[s] = j /\ j # NoJob /\ j \in Jobs
    <2>1. j \in 1 .. lastJob /\ j \notin HeldJobs /\ dat[s] = j
      BY <1>1 DEF TableInv, JobsDistinct
    <2>2. j # NoJob /\ j \in Jobs
      BY <1>2, <2>1, QueueTypes, SpoolAssumption DEF NoJob, Jobs
    <2>3. QED
      BY <2>1, <2>2
  <1>5. /\ Files' = Files \cup {s} /\ inf'[s] = j
        /\ \A t \in Files : inf'[t] = inf[t]
    BY <1>1, <1>2, <1>4, QueueTypes DEF Files
  <1>6. HeldJobs' = HeldJobs \cup {j}
    BY <1>5 DEF HeldJobs
  <1>7. Half' = Half
    BY <1>1, <1>4, <1>5 DEF Half
  <1>8. AtJobs' = AtJobs /\ AtPrinter' = AtPrinter
    BY <1>1 DEF AtJobs, Busy, AtPrinter
  <1>9. BeingReaped' = BeingReaped
    <2>1. svc.pc \in {"unlinkdat", "unlinkinf"} => svc.reaping \in Files
      BY <1>2, TakenHaveFiles DEF Reaped
    <2>2. QED
      BY <1>1, <1>5, <2>1 DEF BeingReaped
  <1>10. j \notin PastJobs /\ PastJobs' = PastJobs
    <2>1. \A k : (\A d \in Clients : ppr[d].pc = "inf" => ppr[d].job # k) <=> k # j
      BY <1>1, <1>2
    <2>2. PastJobs = {k \in 1 .. lastJob : k \notin HeldJobs /\ k # j}
      BY <2>1 DEF PastJobs
    <2>3. \A d \in Clients : ppr'[d].pc # "inf"
      BY <1>2, <1>3
    <2>4. PastJobs' = {k \in 1 .. lastJob : k \notin HeldJobs'}
      BY <1>1, <2>3 DEF PastJobs
    <2>5. QED
      BY <1>6, <2>2, <2>4
  <1>11. Cardinality(Spool!Held) < QUEUE_LENGTH /\ j \notin Spool!Held \cup PastJobs
    BY <1>1, <1>2, <1>4, <1>10, RoomForOne, Shown
  <1>12. Waiting' = Waiting \cup {j}
    BY <1>2, <1>4, <1>6, <1>7, <1>8, <1>9, Shown DEF Waiting
  <1>13. PICK k \in Jobs : k = j
    BY <1>4
  <1>14. Spool!Submit(k)
    <2>1. k \notin Spool!Held \cup PastJobs /\ Cardinality(Spool!Held) < QUEUE_LENGTH
      BY <1>11, <1>13
    <2>2. (HeldJobs \ ({entry[p].inf : p \in Busy} \cup BeingReaped \cup Half))'
            = (HeldJobs \ ({entry[p].inf : p \in Busy} \cup BeingReaped \cup Half)) \cup {k}
      BY <1>12, <1>13 DEF Waiting, AtJobs
    <2>3. /\ AtPrinter' = AtPrinter /\ PastJobs' = PastJobs /\ crashes' = crashes
          /\ (BeingReaped \cup Half)' = BeingReaped \cup Half
      BY <1>1, <1>7, <1>8, <1>9, <1>10
    <2>4. QED
      BY <2>1, <2>2, <2>3, SameCardinality DEF Spool!Submit
  <1>15. QED
    BY <1>14 DEF Spool!Next

\* The fork of a printing child is the start of the job's printing.
LEMMA PrintJobShown ==
    ASSUME TypeOK, TableInv, CourseInv, SvcPrintJob
    PROVE  Spool!Next
  <1>1. PICK p \in Printers \ Busy :
          entry' = [entry EXCEPT ![p] =
             [state |-> "starting", jobnum |-> svc.tail,
              inf |-> svc.opened, dat |-> dat[svc.tail]]]
    BY DEF SvcPrintJob
  <1> DEFINE j == svc.opened
  <1>2. /\ UNCHANGED <<inf, dat, ppr, lastJob, crashes>>
        /\ svc.pc = "opendat" /\ svc'.pc = "awake"
        /\ dat[svc.tail] # NoJob
    BY QueueTypes DEF SvcPrintJob, spool, history, bounds, ServiceState
  <1>3. j # NoJob /\ inf[svc.tail] = j /\ svc.tail \in Files /\ svc.tail \notin Taken
    BY <1>2, QueueTypes DEF CourseInv, OpenedInPlace, TailBehind, Files
  <1>4. /\ entry'[p].state = "starting" /\ entry'[p].inf = j
        /\ \A q \in Printers : q # p => entry'[q] = entry[q]
    BY <1>1, QueueTypes
  <1>5. Busy' = Busy \cup {p}
    BY <1>1, <1>4 DEF Busy
  <1>6. AtJobs' = AtJobs \cup {j}
    <2>1. \A q \in Busy : entry'[q] = entry[q]
      BY <1>1, <1>4 DEF Busy
    <2>2. QED
      BY <1>4, <1>5, <2>1 DEF AtJobs
  <1>7. AtPrinter' = [AtPrinter EXCEPT ![p] = j]
    <2>1. \A q \in Printers : entry'[q].inf = IF q = p THEN j ELSE entry[q].inf
      BY <1>4
    <2>2. QED
      BY <2>1 DEF AtPrinter
  <1>8. /\ HeldJobs' = HeldJobs /\ Half' = Half /\ PastJobs' = PastJobs
        /\ BeingReaped = {} /\ BeingReaped' = {}
    BY <1>2 DEF HeldJobs, Files, Half, PastJobs, BeingReaped
  <1>9. j \in Waiting
    <2>1. \A t \in Files : inf[t] = j => t = svc.tail
      BY <1>3 DEF TableInv, JobsDistinct
    <2>2. j \in HeldJobs /\ j \notin Half
      BY <1>2, <1>3, <2>1 DEF HeldJobs, Half
    <2>3. ASSUME NEW q \in Busy, entry[q].inf = j
          PROVE  FALSE
      <3>1. entry[q].jobnum \in Files /\ inf[entry[q].jobnum] = j
        BY <2>3, TakenHaveFiles DEF TableInv, PrintingFilesInPlace
      <3>2. QED
        BY <1>3, <2>1, <3>1 DEF Taken
    <2>4. QED
      BY <1>8, <2>2, <2>3 DEF Waiting, AtJobs
  <1>10. AtPrinter[p] = NoJob
    BY <1>1, Shown
  <1>11. Waiting' = Waiting \ {j}
    BY <1>6, <1>8 DEF Waiting
  <1>12. Spool!Send(j, p)
    BY <1>2, <1>7, <1>8, <1>9, <1>10, <1>11 DEF Spool!Send, Waiting, AtJobs
  <1>13. j \in Jobs
    BY <1>3, QueueTypes
  <1>14. QED
    BY <1>1, <1>12, <1>13 DEF Spool!Next

\* The collection of a zombie is the end of its job.
LEMMA HarvestShown ==
    ASSUME TypeOK, TableInv, SvcHarvest
    PROVE  Spool!Next
  <1>1. PICK p \in Printers :
            /\ entry[p].state = "zombie"
            /\ entry' = [entry EXCEPT ![p] = IdleEntry]
            /\ svc' = [svc EXCEPT !.pc = "unlinkdat", !.reaping = entry[p].jobnum,
                                  !.numChildren = @ - 1]
    BY DEF SvcHarvest
  <1> DEFINE s == entry[p].jobnum
             j == entry[p].inf
  <1>2. /\ UNCHANGED <<inf, dat, ppr, lastJob, crashes>>
        /\ svc.pc = "harvest"
    BY DEF SvcHarvest, spool, history, bounds
  <1>3. svc'.pc = "unlinkdat" /\ svc'.reaping = s
    BY <1>1, QueueTypes DEF ServiceState
  <1>4. p \in Busy /\ inf[s] = j /\ j # NoJob
    BY <1>1 DEF Busy, TableInv, PrintingFilesInPlace, EntriesSound
  <1>5. BeingReaped = {} /\ BeingReaped' = {j}
    BY <1>2, <1>3, <1>4 DEF BeingReaped
  <1>6. HeldJobs' = HeldJobs /\ Half' = Half /\ PastJobs' = PastJobs
    BY <1>2 DEF HeldJobs, Files, Half, PastJobs
  <1>7. entry'[p] = IdleEntry /\ \A q \in Printers : q # p => entry'[q] = entry[q]
    BY <1>1, QueueTypes
  <1>8. AtJobs' \cup {j} = AtJobs
    <2>1. Busy' = Busy \ {p}
      BY <1>7 DEF Busy, IdleEntry
    <2>2. \A q \in Busy \ {p} : entry'[q] = entry[q]
      BY <1>7 DEF Busy
    <2>3. AtJobs' = {entry[q].inf : q \in Busy \ {p}}
      BY <2>1, <2>2 DEF AtJobs
    <2>4. QED
      BY <1>4, <2>3 DEF AtJobs
  <1>9. AtPrinter' = [AtPrinter EXCEPT ![p] = NoJob] /\ AtPrinter[p] = j
    <2>1. \A q \in Printers : entry'[q].inf = IF q = p THEN NoJob ELSE entry[q].inf
      BY <1>7 DEF IdleEntry
    <2>2. QED
      BY <1>1, <2>1 DEF AtPrinter
  <1>10. Waiting' = Waiting
    BY <1>5, <1>6, <1>8 DEF Waiting
  <1>11. Spool!Finish(p)
    BY <1>2, <1>4, <1>5, <1>6, <1>9, <1>10 DEF Spool!Finish, Waiting, AtJobs
  <1>12. QED
    BY <1>1, <1>11 DEF Spool!Next

\* An inf file of a job that is done with goes: the job is given up.
LEMMA GiveUpShown ==
    ASSUME TypeOK, TableInv, NEW s \in Files, dat[s] = NoJob,
           UNCHANGED <<dat, ppr, entry, lastJob, crashes>>,
           inf' = [inf EXCEPT ![s] = NoJob],
           Reaped' = {}, Reaped \subseteq {s}
    PROVE  Spool!Next
  <1>1. PICK j \in Jobs : j = inf[s]
    BY QueueTypes
  <1>2. /\ Files' = Files \ {s} /\ \A t \in Files \ {s} : inf'[t] = inf[t]
        /\ \A t \in Files \ {s} : inf[t] # j
    BY <1>1, QueueTypes DEF Files, TableInv, JobsDistinct
  <1>3. HeldJobs' = HeldJobs \ {j} /\ j \in HeldJobs
    BY <1>1, <1>2 DEF HeldJobs
  <1>4. Half' = Half \ {j} /\ j \in Half
    BY <1>1, <1>2 DEF Half
  <1>5. AtJobs' = AtJobs /\ AtPrinter' = AtPrinter
    BY DEF AtJobs, Busy, AtPrinter
  <1>6. BeingReaped \subseteq {j} /\ BeingReaped' = {}
    <2>1. BeingReaped = {inf[t] : t \in Reaped}
      BY DEF BeingReaped, Reaped
    <2>2. BeingReaped' = {inf'[t] : t \in Reaped'}
      BY DEF BeingReaped, Reaped
    <2>3. QED
      BY <1>1, <2>1, <2>2
  <1>7. PastJobs' = PastJobs \cup {j}
    <2>1. j \in 1 .. lastJob
      BY <1>1, QueueTypes DEF TableInv, JobsDistinct, Jobs
    <2>2. \A c \in Clients : ppr[c].pc = "inf" => ppr[c].job # j
      BY <1>3 DEF TableInv, JobsDistinct
    <2>3. QED
      BY <1>3, <2>1, <2>2 DEF PastJobs
  <1>8. Waiting' = Waiting
    BY <1>3, <1>4, <1>5, <1>6 DEF Waiting
  <1>9. (BeingReaped \cup Half)' = (BeingReaped \cup Half) \ {j} /\ j \in BeingReaped \cup Half
    BY <1>4, <1>6
  <1>10. Spool!GiveUp(j)
    BY <1>5, <1>7, <1>8, <1>9 DEF Spool!GiveUp, Waiting, AtJobs
  <1>11. QED
    BY <1>10 DEF Spool!Next

\* The held jobs survive a crash; only what ppr was about to submit is lost.
LEMMA CrashShown ==
    ASSUME TypeOK, TableInv, CrashAndRestart
    PROVE  Spool!Next
  <1>1. /\ UNCHANGED <<inf, dat, lastJob>>
        /\ entry' = [p \in Printers |-> IdleEntry]
        /\ \A c \in Clients : ppr'[c] = IdleClient
        /\ svc'.pc = "init" /\ crashes' = crashes + 1
    BY DEF CrashAndRestart, spool, history, NewService, NoService
  <1>2. HeldJobs' = HeldJobs /\ Half' = Half /\ BeingReaped' = {}
    BY <1>1 DEF HeldJobs, Files, Half, BeingReaped
  <1>3. AtJobs' = {} /\ AtPrinter' = [p \in Printers |-> NoJob]
    BY <1>1 DEF AtJobs, Busy, AtPrinter, IdleEntry
  <1>4. Waiting' = HeldJobs \ Half
    BY <1>2, <1>3 DEF Waiting
  <1>5. /\ PastJobs' = {j \in 1 .. lastJob : j \notin HeldJobs}
        /\ PastJobs \subseteq PastJobs'
        /\ PastJobs' \subseteq Jobs
    <2>1. \A c \in Clients : ppr'[c].pc # "inf"
      BY <1>1 DEF IdleClient
    <2>2. 1 .. lastJob \subseteq Jobs
      BY QueueTypes, SpoolAssumption DEF Jobs
    <2>3. PastJobs' = {j \in 1 .. lastJob : j \notin HeldJobs}
      BY <1>1, <1>2, <2>1 DEF PastJobs
    <2>4. PastJobs \subseteq {j \in 1 .. lastJob : j \notin HeldJobs}
      BY DEF PastJobs
    <2>5. QED
      BY <2>2, <2>3, <2>4
  <1>6. PICK cut \in SUBSET (Jobs \ (HeldJobs \cup PastJobs)) : PastJobs' = PastJobs \cup cut
    <2>1. PastJobs' \ PastJobs \in SUBSET (Jobs \ (HeldJobs \cup PastJobs))
      BY <1>5
    <2>2. PastJobs' = PastJobs \cup (PastJobs' \ PastJobs)
      BY <1>5
    <2>3. QED
      BY <2>1, <2>2
  <1>7. PICK half \in SUBSET (BeingReaped \cup Half) : half = Half
    OBVIOUS
  <1>8. Spool!Held = HeldJobs
    BY Shown
  <1>9. (BeingReaped \cup Half)' = half /\ Waiting' = Spool!Held \ half
    BY <1>2, <1>4, <1>7, <1>8
  <1>10. Spool!Crash
    <2>1. (HeldJobs \ ({entry[p].inf : p \in Busy} \cup BeingReaped \cup Half))'
             = Spool!Held \ half
      BY <1>9 DEF Waiting, AtJobs
    <2>2. \E h \in SUBSET (BeingReaped \cup Half) :
             /\ (BeingReaped \cup Half)' = h
             /\ (HeldJobs \ ({entry[p].inf : p \in Busy} \cup BeingReaped \cup Half))'
                    = Spool!Held \ h
      BY <1>9, <2>1
    <2>3. \E d \in SUBSET (Jobs \ (Spool!Held \cup PastJobs)) : PastJobs' = PastJobs \cup d
      BY <1>6, <1>8
    <2>4. QED
      BY <1>1, <1>3, <2>2, <2>3 DEF Spool!Crash
  <1>11. QED
    BY <1>10 DEF Spool!Next

\* A signal takes the harvester nowhere.
LEMMA SignalKeepsReaped ==
    ASSUME NEW s \in ServiceState, svc' \in AfterSignal(s),
           s.pc = svc.pc, s.reaping = svc.reaping
    PROVE  Reaped' = Reaped
  <1>1. \/ svc' = s
        \/ s.pc = "paused" /\ svc' = [s EXCEPT !.pc = "awake"]
        \/ s.pc = "relock" /\ svc' = [s EXCEPT !.pc = "recalc"]
        \/ s.pc = "init" /\ svc' = NoService
    BY SignalEffect
  <1>2. \/ svc'.pc = svc.pc /\ svc'.reaping = svc.reaping
        \/ svc'.pc \in {"awake", "recalc", "none"} /\ svc.pc \in {"paused", "relock", "init"}
    BY <1>1 DEF NoService, ServiceState
  <1>3. QED
    BY <1>2 DEF Reaped

\* The queue child's steps, and those of its masters, that PrintSpool does not see.
LEMMA ServiceUnseen ==
    ASSUME TypeOK, Counted, TableInv,
           \/ DaemonServe \/ AdminSetStatus \/ SvcExit \/ UNCHANGED vars
           \/ SvcPause \/ SvcOpenInf \/ SvcLockInf \/ SvcInfLocked \/ SvcForkFails
           \/ SvcTestChildExited \/ SvcHarvestEnds \/ SvcSendNothing
           \/ SvcAdvance \/ SvcRelock \/ SvcGetHeadTail \/ SvcNothingQueued
           \/ SvcSend \/ SvcRecalculate
    PROVE  UNCHANGED Spool!vars
  <1> USE DEF spool, history, bounds
  <1>1. CASE DaemonServe
    <2>1. UNCHANGED <<inf, dat, ppr, lastJob, crashes, entry>>
      BY <1>1 DEF DaemonServe
    <2>2. Reaped' = Reaped
      <3>1. CASE svc' \in AfterSignal(svc)
        BY <3>1, QueueTypes, SignalKeepsReaped
      <3>2. CASE svc' = svc \/ (svc.pc = "none" /\ svc' = NewService(TRUE))
        BY <3>2 DEF Reaped, NewService, NoService
      <3>3. QED
        BY <1>1, <3>1, <3>2 DEF DaemonServe
    <2>3. QED
      BY <2>1, <2>2, QuietShown
  <1>2. CASE AdminSetStatus
    <2>1. /\ UNCHANGED <<inf, dat, ppr, lastJob, crashes, entry>>
          /\ svc' = svc \/ svc' \in AfterSignal([svc EXCEPT !.reload = TRUE])
      BY <1>2 DEF AdminSetStatus
    <2>2. /\ [svc EXCEPT !.reload = TRUE] \in ServiceState
          /\ [svc EXCEPT !.reload = TRUE].pc = svc.pc
          /\ [svc EXCEPT !.reload = TRUE].reaping = svc.reaping
      BY QueueTypes DEF ServiceState
    <2>3. Reaped' = Reaped
      BY <2>1, <2>2, SignalKeepsReaped DEF Reaped
    <2>4. QED
      BY <2>1, <2>3, QuietShown
  <1>3. CASE SvcExit
    <2>1. /\ UNCHANGED <<inf, dat, ppr, lastJob, crashes>>
          /\ entry' = [p \in Printers |-> IdleEntry]
          /\ svc' = NoService /\ svc.pc = "exiting"
      BY <1>3 DEF SvcExit, ServiceExits
    <2>2. Reaped' = Reaped /\ Busy = {}
      BY <2>1, NothingTaken DEF Reaped, NoService
    <2>3. \A p \in Printers : entry[p] = IdleEntry
      BY <2>2 DEF Busy, TableInv, EntriesSound
    <2>4. entry' = entry
      BY <2>1, <2>3, QueueTypes
    <2>5. QED
      BY <2>1, <2>2, <2>4, QuietShown
  <1>4. CASE UNCHANGED vars
    BY <1>4, QuietShown DEF vars, Reaped
  <1>5. CASE \/ SvcPause \/ SvcOpenInf \/ SvcLockInf \/ SvcInfLocked \/ SvcForkFails
             \/ SvcTestChildExited \/ SvcHarvestEnds \/ SvcSendNothing
             \/ SvcAdvance \/ SvcRelock \/ SvcGetHeadTail \/ SvcNothingQueued
             \/ SvcSend \/ SvcRecalculate
    <2>1. UNCHANGED <<inf, dat, ppr, lastJob, crashes, entry>>
      BY <1>5 DEF SvcPause, SvcOpenInf, SvcLockInf, SvcInfLocked, SvcForkFails,
         SvcTestChildExited, SvcHarvestEnds, SvcSendNothing, SvcAdvance, SvcRelock,
         SvcGetHeadTail, SvcNothingQueued, SvcSend, SvcRecalculate
    <2>2. /\ svc.pc \notin {"unlinkdat", "unlinkinf"}
          /\ svc'.pc \notin {"unlinkdat", "unlinkinf"}
      <3>1. svc.pc \notin {"unlinkdat", "unlinkinf"}
        BY <1>5 DEF SvcPause, SvcOpenInf, SvcLockInf, SvcInfLocked, SvcForkFails,
           SvcTestChildExited, SvcHarvestEnds, SvcSendNothing, SvcAdvance, SvcRelock,
           SvcGetHeadTail, SvcNothingQueued, SvcSend, SvcRecalculate
      <3>2. CASE SvcPause \/ SvcOpenInf \/ SvcLockInf \/ SvcInfLocked \/ SvcForkFails
        BY <3>2, QueueTypes DEF SvcPause, SvcOpenInf, SvcLockInf, SvcInfLocked, SvcForkFails, ServiceState
      <3>3. CASE SvcTestChildExited \/ SvcHarvestEnds \/ SvcSendNothing \/ SvcAdvance
        <4>1. CASE SvcTestChildExited
          <5>1. \/ svc' = [svc EXCEPT !.pc = "harvest", !.childExited = FALSE]
                \/ svc' = [svc EXCEPT !.pc = "advance"]
            BY <4>1 DEF SvcTestChildExited
          <5>2. svc'.pc \in {"harvest", "advance"}
            BY <5>1, QueueTypes DEF ServiceState
          <5>3. QED
            BY <3>1, <5>2
        <4>2. CASE SvcHarvestEnds \/ SvcSendNothing \/ SvcAdvance
          BY <4>2, QueueTypes DEF SvcHarvestEnds, SvcSendNothing, SvcAdvance, ServiceState
        <4>3. QED
          BY <3>3, <4>1, <4>2
      <3>4. CASE SvcRelock \/ SvcGetHeadTail \/ SvcSend \/ SvcRecalculate
        BY <3>4, QueueTypes DEF SvcRelock, SvcGetHeadTail, SvcSend, SvcRecalculate,
           ServiceState
      <3>5. CASE SvcNothingQueued
        BY <3>5 DEF SvcNothingQueued, NoService
      <3>6. QED
        BY <1>5, <3>1, <3>2, <3>3, <3>4, <3>5
    <2>3. QED
      BY <2>1, <2>2, QuietShown DEF Reaped
  <1>6. QED
    BY <1>1, <1>2, <1>3, <1>4, <1>5

\* The data goes first, and the job is leaving still.
LEMMA UnlinkDatUnseen ==
    ASSUME TypeOK, TableInv, SvcUnlinkDat
    PROVE  UNCHANGED Spool!vars
  <1> DEFINE s == svc.reaping
  <1>1. /\ UNCHANGED <<inf, ppr, entry, lastJob, crashes>>
        /\ dat' = [dat EXCEPT ![s] = NoJob]
        /\ svc.pc = "unlinkdat" /\ svc'.pc = "unlinkinf" /\ svc'.reaping = s
    BY QueueTypes DEF SvcUnlinkDat, history, bounds, ServiceState
  <1>2. s \in Files
    BY <1>1, TakenHaveFiles DEF Reaped
  <1>3. BeingReaped = {inf[s]} /\ BeingReaped' = {inf[s]}
    BY <1>1 DEF BeingReaped
  <1>4. /\ HeldJobs' = HeldJobs /\ AtJobs' = AtJobs /\ AtPrinter' = AtPrinter
        /\ PastJobs' = PastJobs /\ Files' = Files
    BY <1>1 DEF HeldJobs, AtJobs, Busy, AtPrinter, PastJobs, Files
  <1>5. Half' = Half \cup {inf[s]}
    <2>1. \A t \in Files : dat'[t] = NoJob <=> dat[t] = NoJob \/ t = s
      BY <1>1, <1>2, QueueTypes
    <2>2. {t \in Files : dat'[t] = NoJob} = {t \in Files : dat[t] = NoJob} \cup {s}
      BY <1>2, <2>1
    <2>3. QED
      BY <1>1, <1>4, <2>2 DEF Half
  <1>6. QED
    BY <1>1, <1>3, <1>4, <1>5, NothingShown

\* ppr before and after the moment its inf file appears.
LEMMA ClientUnseen ==
    ASSUME TypeOK, NEW c \in Clients,
           \/ PprStart(c) \/ PprLock(c) \/ PprLockBusy(c) \/ PprCalculateHead(c)
           \/ PprCalculateTail(c) \/ PprFull(c) \/ PprNotify(c) \/ PprWriteInf(c)
    PROVE  UNCHANGED Spool!vars
  <1>1. /\ UNCHANGED <<inf, dat, svc, entry, lastJob, crashes>>
        /\ \A d \in Clients : d # c => ppr'[d] = ppr[d]
        /\ ppr[c].pc # "inf" /\ ppr'[c].pc # "inf"
    BY QueueTypes DEF PprStart, PprLock, PprLockBusy, PprCalculateHead, PprCalculateTail,
       PprFull, PprNotify, PprWriteInf, IdleClient, spool, history, bounds, ClientState
  <1>2. /\ HeldJobs' = HeldJobs /\ Half' = Half /\ AtJobs' = AtJobs
        /\ AtPrinter' = AtPrinter /\ BeingReaped' = BeingReaped
    BY <1>1 DEF HeldJobs, Files, Half, AtJobs, Busy, AtPrinter, BeingReaped
  <1>3. PastJobs' = PastJobs
    <2>1. \A j : (\A d \in Clients : ppr'[d].pc = "inf" => ppr'[d].job # j)
                   <=> (\A d \in Clients : ppr[d].pc = "inf" => ppr[d].job # j)
      BY <1>1
    <2>2. QED
      BY <1>1, <1>2, <2>1 DEF PastJobs
  <1>4. QED
    BY <1>1, <1>2, <1>3, NothingShown

\* A job that has been printed is at the printer until its child is reaped.
LEMMA ChildUnseen ==
    ASSUME TypeOK, NEW p \in Printers, ChildStep(p)
    PROVE  UNCHANGED Spool!vars
  <1>1. /\ UNCHANGED <<inf, dat, ppr, lastJob, crashes>>
        /\ \E st \in {"printing", "zombie"} : entry' = [entry EXCEPT ![p].state = st]
        /\ p \in Busy
        /\ svc' = svc \/ svc' \in AfterSignal([svc EXCEPT !.childExited = TRUE])
    BY DEF ChildStep, ChildBegin, ChildRefuse, ChildFinish, ChildExits, Busy, spool, bounds,
       history
  <1>2. /\ [svc EXCEPT !.childExited = TRUE] \in ServiceState
        /\ [svc EXCEPT !.childExited = TRUE].pc = svc.pc
        /\ [svc EXCEPT !.childExited = TRUE].reaping = svc.reaping
    BY QueueTypes DEF ServiceState
  <1>3. Reaped' = Reaped
    BY <1>1, <1>2, SignalKeepsReaped DEF Reaped
  <1>4. \A q \in Printers : /\ entry'[q].inf = entry[q].inf
                            /\ entry'[q].state = "idle" <=> entry[q].state = "idle"
    BY <1>1, QueueTypes DEF EntryState, Busy
  <1>5. AtJobs' = AtJobs /\ AtPrinter' = AtPrinter
    <2>1. Busy' = Busy
      BY <1>4 DEF Busy
    <2>2. \A q \in Busy : entry'[q].inf = entry[q].inf
      BY <1>4, QueueTypes
    <2>3. AtJobs' = AtJobs
      BY <2>1, <2>2 DEF AtJobs
    <2>4. AtPrinter' = AtPrinter
      BY <1>4 DEF AtPrinter
    <2>5. QED
      BY <2>3, <2>4
  <1>6. HeldJobs' = HeldJobs /\ Half' = Half /\ PastJobs' = PastJobs
    BY <1>1 DEF HeldJobs, Files, Half, PastJobs
  <1>7. BeingReaped = {inf[s] : s \in Reaped} /\ BeingReaped' = {inf'[s] : s \in Reaped'}
    BY DEF BeingReaped, Reaped
  <1>8. QED
    BY <1>1, <1>3, <1>5, <1>6, <1>7, NothingShown

\* Every step of the queue is a step of the spool, or shows nothing.
LEMMA ShownStep ==
    ASSUME NobodyInterferes, QueueInv, [Next]_vars
    PROVE  [Spool!Next]_Spool!vars
  <1> USE DEF QueueInv
  <1>1. TypeOK /\ SpoolInv /\ Counted /\ TableInv /\ CourseInv
    BY DEF SpoolInv
  <1>2. ASSUME NEW c \in Clients, PprStart(c) \/ PprStep(c)
        PROVE  [Spool!Next]_Spool!vars
    <2>1. ~PprUnknownUser(c)
      BY DEF PprUnknownUser, NobodyInterferes
    <2>2. QED
      BY <1>1, <1>2, <2>1, ClientUnseen, CreateDatShown, OpenInfShown DEF PprStep
  <1>3. CASE SvcDropInf
    <2>1. /\ UNCHANGED <<dat, ppr, entry, lastJob, crashes>>
          /\ inf' = [inf EXCEPT ![svc.tail] = NoJob]
          /\ svc.tail \in Files /\ dat[svc.tail] = NoJob
          /\ Reaped = {} /\ Reaped' = {}
      BY <1>1, <1>3, QueueTypes DEF SvcDropInf, history, bounds, ServiceState, Files, Reaped
    <2>2. QED
      BY <1>1, <2>1, GiveUpShown
  <1>4. CASE SvcUnlinkInf
    <2>1. /\ UNCHANGED <<dat, ppr, entry, lastJob, crashes>>
          /\ inf' = [inf EXCEPT ![svc.reaping] = NoJob]
          /\ svc.pc = "unlinkinf" /\ svc.reaping \in Files
          /\ Reaped = {svc.reaping} /\ Reaped' = {}
      BY <1>1, <1>4, QueueTypes DEF SvcUnlinkInf, history, bounds, ServiceState, Files, Reaped
    <2>2. dat[svc.reaping] = NoJob
      BY <2>1 DEF TableInv, ReapedInPlace
    <2>3. QED
      BY <1>1, <2>1, <2>2, GiveUpShown
  <1>5. CASE SvcPrintJob \/ SvcHarvest \/ SvcUnlinkDat
    BY <1>1, <1>5, PrintJobShown, HarvestShown, UnlinkDatUnseen
  <1>6. ~SvcDropFails /\ ~SvcUnlinkFails
    BY <1>1, NoUnlinkFails
  <1>7. CASE \/ DaemonServe \/ AdminSetStatus \/ SvcExit \/ UNCHANGED vars
             \/ SvcPause \/ SvcOpenInf \/ SvcLockInf \/ SvcInfLocked \/ SvcForkFails
             \/ SvcTestChildExited \/ SvcHarvestEnds \/ SvcSendNothing
             \/ SvcAdvance \/ SvcRelock \/ SvcGetHeadTail \/ SvcNothingQueued
             \/ SvcSend \/ SvcRecalculate
    BY <1>1, <1>7, ServiceUnseen
  <1>8. CASE CrashAndRestart
    BY <1>1, <1>8, CrashShown
  <1>9. ASSUME NEW p \in Printers, ChildStep(p)
        PROVE  [Spool!Next]_Spool!vars
    BY <1>1, <1>9, ChildUnseen
  <1>10. ~(\E r \in Removers : RmStart(r) \/ RmStep(r)) /\ ~(\E j \in Jobs : OrphanFinish(j))
    BY <1>1 DEF NobodyInterferes, OrphanFinish, TableInv, NothingAbandoned
  <1>11. QED
    BY <1>2, <1>3, <1>4, <1>5, <1>6, <1>7, <1>8, <1>9, <1>10 DEF Next, SvcStep

\* The processes, with their files, locks, signals and crashes, implement
\* PrintSpool: at most QUEUE_LENGTH jobs are held, none is held twice, at two
\* printers or lost, and each is given up only after it has been at a printer.
THEOREM QueueIsPrintSpool ==
    ASSUME NobodyInterferes
    PROVE  Spec => ImplementsPrintSpool
  <1>1. QueueInv /\ [Next]_vars => [Spool!Next]_Spool!vars
    BY ShownStep
  <1>2. Spec => []QueueInv
    BY QueueInvariant
  <1>3. QED
    BY <1>1, <1>2, ShownInit, PTL DEF Spec, Spool!Spec, ImplementsPrintSpool
-----------------------------------------------------------------------------
(* The directory scans find the ends of the queue, for every listing that  *)
(* fits in one window and every order of the listing.                      *)

VARIABLES unread, seen, head, tail

Scan == INSTANCE DirScan

\* The numbers that the scans speak of are these.
LEMMA ScanNumbers ==
    /\ Scan!Slots = Slots
    /\ \A S : Scan!Windowed(S) <=> Windowed(S)
    /\ \A h, S : Scan!IsNewest(h, S) <=> IsNewest(h, S)
    /\ \A t, S : Scan!IsOldest(t, S) <=> IsOldest(t, S)
    /\ \A v, h : Scan!NewerThan(v, h) <=> NewerThan(v, h)
    /\ \A v, t : Scan!OlderThan(v, t) <=> OlderThan(v, t)
    /\ \A h : Scan!NextIndex(h) = NextIndex(h)
    /\ \A n, t : Scan!QueueFull(n, t) <=> QueueFull(n, t)
  BY DEF Scan!Slots, Slots, Scan!IndexSpace, IndexSpace, Scan!Dist, Dist,
         Scan!InWindowFrom, InWindowFrom, Scan!Windowed, Windowed,
         Scan!IsNewest, IsNewest, Scan!IsOldest, IsOldest,
         Scan!NewerThan, NewerThan, Scan!OlderThan, OlderThan,
         Scan!NextIndex, NextIndex, Scan!QueueFull, QueueFull

\* What a scan knows part way through: the listing still fits in one window,
\* and the locals are -1 exactly until the first entry has been read.
ScanInv ==
    /\ Scan!TypeOK
    /\ Scan!ListingWindowed
    /\ seen = {} => head = -1 /\ tail = -1
    /\ Scan!ScanFindsEnds

\* The invariant holds when the directory has just been opened.
LEMMA ScanInvInit == Scan!Init => ScanInv
  BY DEF Scan!Init, ScanInv, Scan!TypeOK, Scan!ListingWindowed, Scan!ScanFindsEnds, Slots

\* Reading another entry, or the end of the directory, keeps it.
LEMMA ScanInvStep == ScanInv /\ [Scan!Next]_Scan!vars => ScanInv'
  <1> SUFFICES ASSUME ScanInv, [Scan!Next]_Scan!vars
               PROVE  ScanInv'
    OBVIOUS
  <1> USE DEF ScanInv
  <1>1. CASE UNCHANGED Scan!vars
    BY <1>1 DEF Scan!vars, Scan!TypeOK, Scan!ListingWindowed, Scan!ScanFindsEnds
  <1>2. ASSUME NEW val \in unread, Scan!ReadEntry(val)
        PROVE  ScanInv'
    <2> DEFINE S == seen \cup unread
    <2>1. /\ S \in SUBSET Slots /\ seen \in SUBSET S /\ val \in S
          /\ Windowed(S) /\ val \in Slots
      BY ScanNumbers DEF Scan!TypeOK, Scan!ListingWindowed
    <2>2. (seen \cup unread)' = S /\ seen' = seen \cup {val}
      BY <1>2 DEF Scan!ReadEntry
    <2>3. Scan!TypeOK'
      BY <1>2, <2>1, ScanNumbers
         DEF Scan!TypeOK, Scan!ReadEntry, Scan!ScanHead, Scan!ScanTail
    <2>4. Scan!ListingWindowed'
      BY <2>1, <2>2, ScanNumbers DEF Scan!ListingWindowed
    <2>5. IsNewest(head', seen') /\ IsOldest(tail', seen')
      <3>1. CASE seen = {}
        <4>1. head' = val /\ tail' = val /\ seen' = {val}
          BY <1>2, <3>1 DEF Scan!ReadEntry, Scan!ScanHead, Scan!ScanTail
        <4>2. Dist(val, val) < QUEUE_LENGTH
          BY <2>1, SpaceFacts DEF Dist
        <4>3. QED
          BY <4>1, <4>2 DEF IsNewest, IsOldest, InWindowFrom
      <3>2. CASE seen # {}
        <4>1. IsNewest(head, seen) /\ IsOldest(tail, seen)
          BY <3>2, ScanNumbers DEF Scan!ScanFindsEnds
        <4>2. head # -1 /\ tail # -1
          <5>1. head \in Slots /\ tail \in Slots
            BY <4>1, <2>1 DEF IsNewest, IsOldest
          <5>2. QED
            BY <5>1, SpaceFacts
        <4>3. /\ head' = IF NewerThan(val, head) THEN val ELSE head
              /\ tail' = IF OlderThan(val, tail) THEN val ELSE tail
          BY <1>2, <4>2, ScanNumbers DEF Scan!ReadEntry, Scan!ScanHead, Scan!ScanTail
        <4>4. QED
          BY <2>1, <2>2, <4>1, <4>3, ScanStep
      <3>3. QED
        BY <3>1, <3>2
    <2>6. QED
      BY <2>2, <2>3, <2>4, <2>5, ScanNumbers DEF Scan!ScanFindsEnds
  <1>3. QED
    BY <1>1, <1>2 DEF Scan!Next

\* The strengthened invariant holds throughout a scan.
LEMMA ScanInvariant == Scan!Spec => []ScanInv
  BY ScanInvInit, ScanInvStep, PTL DEF Scan!Spec

\* calculate_head and calculate_tail return the newest and the oldest job,
\* in whatever order readdir lists them.
THEOREM ScanCorrect == Scan!Spec => []Scan!ScanFindsEnds
  <1>1. ScanInv => Scan!ScanFindsEnds
    BY DEF ScanInv
  <1>2. QED
    BY <1>1, ScanInvariant, PTL

\* ppr's placement rule, applied to what the scans return, never reuses a
\* number in use and keeps the directory scannable.
THEOREM PlacementSafe == Scan!Spec => []Scan!NextIndexIsFree
  <1>1. ScanInv => Scan!NextIndexIsFree
    <2> SUFFICES ASSUME ScanInv, unread = {}, seen # {},
                        ~QueueFull(NextIndex(head), tail)
                 PROVE  /\ NextIndex(head) \notin seen
                        /\ Windowed(seen \cup {NextIndex(head)})
      BY ScanNumbers DEF Scan!NextIndexIsFree
    <2>1. seen \in SUBSET Slots /\ IsNewest(head, seen) /\ IsOldest(tail, seen)
      BY ScanNumbers DEF ScanInv, Scan!TypeOK, Scan!ScanFindsEnds
    <2>2. /\ NextIndex(head) \notin seen
          /\ IsOldest(tail, seen \cup {NextIndex(head)})
      BY <2>1, PlacementKeepsWindow
    <2>3. QED
      BY <2>2 DEF Windowed, IsOldest
  <1>2. QED
    BY <1>1, ScanInvariant, PTL
=============================================================================
