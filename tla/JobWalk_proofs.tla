--------------------------- MODULE JobWalk_proofs ---------------------------
(***************************************************************************)
(* The walks through a spool directory miss no job that waits, for any     *)
(* QUEUE_LENGTH, number of printers and jobs submitted meanwhile, though   *)
(* the directory changes at every step.                                    *)
(*                                                                         *)
(* The argument has two halves.  The scans: whatever comes and goes, the   *)
(* jobs that stay lie from tail on to head when they are over, as long as  *)
(* one job came meanwhile at most.  The walk: it goes from tail to head    *)
(* one number after the other, and what it passes over without a look is   *)
(* in printing_jobs, which means that it has been shown.                   *)
(***************************************************************************)
EXTENDS JobWalk, WellFoundedInduction, TLAPS

Numbers == Slots \cup {-1}

WalkPcs == {"idle", "queue", "printers", "readstatus", "readinf", "opentail",
            "tailscan", "openhead", "headscan", "show", "rm", "rmlock",
            "rminf", "rmdat"} \cup Ends

SpoolTypes ==
    /\ inf \in [Slots -> {"none", "empty", "whole"}]
    /\ dat \in SUBSET Slots
    /\ status \in [Printers -> Numbers]
    /\ locked \in SUBSET Printers
    /\ leaving \in Numbers

ProgramTypes ==
    /\ prog \in {"ppq", "lpq", "pprm"} /\ pc \in WalkPcs
    /\ printing \in [Printers -> Nat \cup {-1}]
    /\ x \in 0 .. NumPrinters /\ num \in Numbers
    /\ head \in Numbers /\ tail \in Numbers
    /\ known \in BOOLEAN /\ arrivals \in Nat
    /\ pc \in {"readstatus", "readinf"} => x \in Printers
    /\ pc = "readinf" => num \in Slots
    /\ pc \in {"rm", "rmlock", "rminf", "rmdat", "stopped", "denied"} => prog = "pprm"
    /\ pc \in {"queue", "printers", "readstatus", "readinf", "show"} => prog # "pprm"
    /\ pc \in {"openhead", "headscan", "show", "rm", "rmlock", "rminf", "rmdat"} => tail \in Slots
    /\ pc \in {"show", "rm", "rmlock", "rminf", "rmdat"} => head \in Slots
    /\ pc \in {"rm", "rmlock", "rminf", "rmdat"} => jobnum \in Slots
    /\ pc \in {"idle", "queue"} => \A p \in Printers : printing[p] = -1
    /\ pc \in {"idle", "queue", "printers", "readstatus", "readinf", "opentail"} => tail = -1
    /\ pc \in {"idle", "queue", "printers", "readstatus", "readinf", "opentail",
               "tailscan", "openhead"} => head = -1
    /\ pc \in {"idle", "queue", "printers", "readstatus", "readinf", "opentail",
               "tailscan", "openhead", "headscan"} => jobnum = -1

\* The steady jobs are in the directory, whole and with their data; for pprm
\* they are at no printer.  The stream has no file that is gone.
DirectorySound ==
    /\ Windowed(Files)
    /\ steady \subseteq dat /\ \A s \in steady : inf[s] = "whole"
    /\ shown \subseteq steady /\ listed \subseteq steady
    /\ unread \subseteq Files /\ fresh \subseteq Files
    /\ pc \notin Scans => unread = {} /\ fresh = {}
    /\ pc = "rmdat" => jobnum \notin Files
    /\ prog = "pprm" => steady \cap AtPrinter = {} /\ shown = {} /\ listed = {}
    /\ pc = "idle" => steady = {}

-----------------------------------------------------------------------------
(* The scans.                                                              *)

\* The files, and the end that a scan has found, lie near the number o: within
\* a window from it, or, when a job came that would not have fitted in if o
\* were still there, just behind o.
NearBase(o, end) ==
    \/ /\ \A f \in Files : Dist(o, f) < QUEUE_LENGTH
       /\ end # -1 => Dist(o, end) < QUEUE_LENGTH
    \/ /\ arrivals = 1
       /\ \A f \in Files : Dist(o, f) >= 1 /\ Dist(o, f) <= QUEUE_LENGTH
       /\ end # -1 => Dist(o, end) <= QUEUE_LENGTH

\* Every steady job is still to be read or has been taken account of.
TailBase(o) ==
    /\ NearBase(o, tail)
    /\ \A s \in steady : /\ Dist(o, s) < QUEUE_LENGTH
                         /\ s \in unread \/ (tail # -1 /\ Dist(o, tail) <= Dist(o, s))

HeadBase(o) ==
    /\ NearBase(o, head)
    /\ \A s \in steady : /\ Dist(o, s) < QUEUE_LENGTH
                         /\ s \in unread \/ (head # -1 /\ Dist(o, s) <= Dist(o, head))

ScansRight ==
    arrivals <= 1 /\ steady # {} =>
        /\ pc = "tailscan" => \E o \in Slots : TailBase(o)
        /\ pc = "headscan" => \E o \in Slots : HeadBase(o)
        /\ pc \in {"openhead", "headscan"} => \A s \in steady : Dist(tail, s) < QUEUE_LENGTH
        /\ pc \in {"show", "rm", "rmlock", "rminf", "rmdat"} =>
               \A s \in steady : Dist(tail, s) <= Dist(tail, head)

-----------------------------------------------------------------------------
(* The walks.                                                              *)

Walked == 0 .. (PpqModulus - 1)

\* How far ppq's walk from tail has to go to j.
Place(j) == Steps(tail, j, PpqModulus)

\* What printing_jobs says of a steady job has been shown, but for the printer
\* being looked at.
PrintingShown ==
    known /\ pc # "error" => \A y \in Printers :
        printing[y] \in steady /\ ~(pc = "readinf" /\ y = x) => printing[y] \in shown

\* What was shown is in printing_jobs, at a printer already visited.
ShownPrinting ==
    /\ pc \in {"idle", "queue"} => shown = {}
    /\ pc \in {"printers", "readstatus", "readinf"} =>
           \A s \in shown : \E p \in Printers : p < x /\ printing[p] = s
    /\ pc \in {"opentail", "tailscan", "openhead", "headscan", "show"} =>
           \A s \in shown : \E p \in Printers : printing[p] = s
    /\ pc \notin {"show", "done", "error", "stopped", "denied"} => listed = {}

ListedBehind ==
    pc \in {"show", "done"} =>
        \A s \in shown \cap listed :
            \E p, q \in Printers :
                p < q /\ printing[p] = s /\ (printing[q] + 1) % PpqModulus = s

WalkRight ==
    /\ pc = "show" => /\ jobnum \in Walked
                      /\ Place(jobnum) <= Place(head)
    /\ pc = "show" /\ arrivals <= 1 /\ known =>
           \A s \in steady \ (shown \cup listed) : Place(jobnum) <= Place(s)
    /\ EveryJobShown /\ RemovedUpToHere

WalkInv ==
    /\ SpoolTypes /\ ProgramTypes /\ DirectorySound
    /\ ScansRight /\ PrintingShown /\ ShownPrinting /\ ListedBehind /\ WalkRight
-----------------------------------------------------------------------------
(* Numbers.                                                                *)

\* The slots and the space they are in are what they look like.
LEMMA SpaceFacts ==
    /\ QUEUE_LENGTH \in Nat /\ QUEUE_LENGTH >= 1
    /\ IndexSpace \in Nat /\ IndexSpace = QUEUE_LENGTH + QUEUE_LENGTH
    /\ Slots = 0 .. (IndexSpace - 1) /\ -1 \notin Slots
    /\ PpqModulus \in Nat /\ PpqModulus >= IndexSpace
    /\ NumPrinters \in Nat /\ Printers = 0 .. (NumPrinters - 1)
  BY QueueLengthAssumption, JobWalkAssumption DEF IndexSpace, Slots, Printers

\* A remainder below twice the divisor.
LEMMA SmallRemainder ==
    ASSUME NEW n \in Nat, NEW m \in Nat, m > 0, n < m + m
    PROVE  n % m = IF n < m THEN n ELSE n - m
  OBVIOUS

\* Distances from anywhere tell the distance between two numbers, and what
\* the tests of the scans say of them.
LEMMA Positions ==
    ASSUME NEW o \in Slots, NEW a \in Slots, NEW b \in Slots
    PROVE  /\ Dist(o, a) \in Nat /\ Dist(o, a) < IndexSpace
           /\ Dist(o, b) \in Nat /\ Dist(o, b) < IndexSpace
           /\ Dist(a, b) = IF Dist(o, a) <= Dist(o, b) THEN Dist(o, b) - Dist(o, a)
                           ELSE Dist(o, b) - Dist(o, a) + IndexSpace
           /\ Dist(o, a) = Dist(o, b) => a = b
           /\ Dist(o, o) = 0
           /\ NewerThan(b, a) <=> a # b /\ Dist(a, b) < QUEUE_LENGTH
           /\ OlderThan(a, b) <=> a # b /\ Dist(a, b) < QUEUE_LENGTH
  BY SpaceFacts DEF Dist, NewerThan, OlderThan

\* The number after a is one step further, except from the number after it.
LEMMA OneFurther ==
    ASSUME NEW o \in Slots, NEW a \in Slots
    PROVE  /\ NextIndex(a) \in Slots
           /\ Dist(o, a) # IndexSpace - 1 => Dist(o, NextIndex(a)) = Dist(o, a) + 1
  <1>1. NextIndex(a) = IF a + 1 < IndexSpace THEN a + 1 ELSE a + 1 - IndexSpace
    <2> DEFINE n == a + 1
               m == IndexSpace
    <2>1. n \in Nat /\ m \in Nat /\ m > 0 /\ n < m + m
      BY SpaceFacts
    <2>2. n % m = IF n < m THEN n ELSE n - m
      <3> HIDE DEF n, m
      <3>1. QED
        BY <2>1, SmallRemainder
    <2>3. QED
      BY <2>2, SpaceFacts DEF NextIndex
  <1>2. a + 1 < IndexSpace => Dist(o, a + 1) = IF a + 1 >= o THEN a + 1 - o ELSE a + 1 - o + IndexSpace
    BY SpaceFacts DEF Dist
  <1>3. QED
    BY <1>1, SpaceFacts DEF Dist

\* ppr's test of a full queue.
LEMMA FullAtDistance ==
    ASSUME NEW s \in Slots, NEW t \in Slots, Dist(t, s) = QUEUE_LENGTH
    PROVE  QueueFull(s, t)
  <1> DEFINE n == s + QUEUE_LENGTH
             m == IndexSpace
  <1>1. n \in Nat /\ m \in Nat /\ m > 0 /\ n < m + m
    BY SpaceFacts
  <1>2. n % m = IF n < m THEN n ELSE n - m
    <2> HIDE DEF n, m
    <2>1. QED
      BY <1>1, SmallRemainder
  <1>3. QED
    BY <1>2, SpaceFacts DEF QueueFull, Dist

\* A nonempty set of naturals has a least element.
LEMMA Least ==
    ASSUME NEW T \in SUBSET Nat, T # {}
    PROVE  \E i \in T : \A j \in T : i <= j
  <1>1. PICK i \in T : \A j \in T : <<j, i>> \notin OpToRel(<, Nat)
    BY NatLessThanWellFounded, WFMin
  <1>2. ASSUME NEW j \in T
        PROVE  i <= j
    <2>1. i \in Nat /\ j \in Nat /\ ~(j < i)
      BY <1>1 DEF OpToRel
    <2>2. QED
      BY <2>1
  <1>3. QED
    BY <1>2

\* Of any set of numbers one is nearest to o, and one farthest from it.
LEMMA EndsExist ==
    ASSUME NEW S \in SUBSET Slots, S # {}, NEW o \in Slots
    PROVE  /\ \E t \in S : \A v \in S : Dist(o, t) <= Dist(o, v)
           /\ \E h \in S : \A v \in S : Dist(o, v) <= Dist(o, h)
  <1> DEFINE T == {Dist(o, v) : v \in S}
             U == {IndexSpace - Dist(o, v) : v \in S}
  <1>1. \A v \in S : /\ Dist(o, v) \in Nat /\ IndexSpace - Dist(o, v) \in Nat
    <2>1. \A v \in S : Dist(o, v) \in Nat /\ Dist(o, v) < IndexSpace
      BY Positions
    <2>2. QED
      BY <2>1, SpaceFacts
  <1>2. T \in SUBSET Nat /\ T # {} /\ U \in SUBSET Nat /\ U # {}
    BY <1>1
  <1>3. PICK i \in T : \A j \in T : i <= j
    <2> HIDE DEF T
    <2>1. QED
      BY <1>2, Least
  <1>4. PICK k \in U : \A j \in U : k <= j
    <2> HIDE DEF U
    <2>1. QED
      BY <1>2, Least
  <1>5. PICK t \in S : i = Dist(o, t)
    OBVIOUS
  <1>6. PICK h \in S : k = IndexSpace - Dist(o, h)
    OBVIOUS
  <1>7. \A v \in S : Dist(o, t) <= Dist(o, v)
    BY <1>3, <1>5
  <1>8. ASSUME NEW v \in S
        PROVE  Dist(o, v) <= Dist(o, h)
    <2>1. IndexSpace - Dist(o, h) <= IndexSpace - Dist(o, v)
      BY <1>4, <1>6
    <2>2. \A n, a, b \in Nat : n - a <= n - b => b <= a
      OBVIOUS
    <2>3. IndexSpace \in Nat /\ Dist(o, h) \in Nat /\ Dist(o, v) \in Nat
      BY <1>1, SpaceFacts
    <2>4. QED
      BY <2>1, <2>2, <2>3
  <1>9. QED
    BY <1>7, <1>8

\* Removing files leaves the others in one window.
LEMMA RemovalKeepsWindow ==
    ASSUME NEW S \in SUBSET Slots, Windowed(S), NEW T \in SUBSET S
    PROVE  Windowed(T)
  <1>1. CASE T = {}
    BY <1>1 DEF Windowed
  <1>2. CASE T # {}
    <2>1. PICK o \in S : \A s \in S : Dist(o, s) < QUEUE_LENGTH
      BY <1>2 DEF Windowed, InWindowFrom
    <2>2. PICK t \in T : \A v \in T : Dist(o, t) <= Dist(o, v)
      BY <1>2, EndsExist
    <2>3. ASSUME NEW v \in T
          PROVE  Dist(t, v) < QUEUE_LENGTH
      <3>1. Dist(t, v) = Dist(o, v) - Dist(o, t) /\ Dist(o, t) \in Nat /\ Dist(o, v) \in Nat
        BY <2>2, Positions
      <3>2. QED
        BY <2>1, <3>1, SpaceFacts
    <2>4. QED
      BY <2>3 DEF Windowed, InWindowFrom
  <1>3. QED
    BY <1>1, <1>2

\* In a directory that lies in one window ppr finds the newest and the oldest.
LEMMA PprFindsEnds ==
    ASSUME NEW S \in SUBSET Slots, S # {}, Windowed(S)
    PROVE  IsNewest(Newest(S), S) /\ IsOldest(Oldest(S), S)
  <1>1. PICK o \in S : \A s \in S : Dist(o, s) < QUEUE_LENGTH
    BY DEF Windowed, InWindowFrom
  <1>2. ASSUME NEW a \in S, NEW b \in S
        PROVE  /\ Dist(o, a) \in Nat /\ Dist(o, b) \in Nat
               /\ Dist(a, b) < QUEUE_LENGTH <=> Dist(o, a) <= Dist(o, b)
               /\ NewerThan(b, a) <=> Dist(o, a) < Dist(o, b)
               /\ OlderThan(a, b) <=> Dist(o, a) < Dist(o, b)
    <2>1. /\ Dist(o, a) \in Nat /\ Dist(o, b) \in Nat
          /\ Dist(o, a) < QUEUE_LENGTH /\ Dist(o, b) < QUEUE_LENGTH
          /\ Dist(a, b) = IF Dist(o, a) <= Dist(o, b) THEN Dist(o, b) - Dist(o, a)
                          ELSE Dist(o, b) - Dist(o, a) + IndexSpace
          /\ Dist(o, a) = Dist(o, b) <=> a = b
          /\ NewerThan(b, a) <=> a # b /\ Dist(a, b) < QUEUE_LENGTH
          /\ OlderThan(a, b) <=> a # b /\ Dist(a, b) < QUEUE_LENGTH
      BY <1>1, Positions
    <2>2. QED
      BY <2>1, SpaceFacts
  <1>3. PICK t \in S : \A v \in S : Dist(o, t) <= Dist(o, v)
    BY EndsExist
  <1>4. PICK h \in S : \A v \in S : Dist(o, v) <= Dist(o, h)
    BY EndsExist
  <1>5. (\A v \in S : ~OlderThan(v, t)) /\ (\A v \in S : ~NewerThan(v, h))
    BY <1>2, <1>3, <1>4
  <1>6. /\ Oldest(S) \in S /\ \A v \in S : ~OlderThan(v, Oldest(S))
        /\ Newest(S) \in S /\ \A v \in S : ~NewerThan(v, Newest(S))
    BY <1>5 DEF Oldest, Newest
  <1>7. \A v \in S : Dist(v, Newest(S)) < QUEUE_LENGTH /\ Dist(Oldest(S), v) < QUEUE_LENGTH
    BY <1>2, <1>6
  <1>8. QED
    BY <1>6, <1>7 DEF IsNewest, IsOldest, InWindowFrom

\* Where a new file comes to lie: seen from a number o that has all others in
\* its window, in that window too or just behind it, and then o is free.
LEMMA Arrival ==
    ASSUME NEW S \in SUBSET Slots, NEW o \in Slots, \A f \in S : Dist(o, f) < QUEUE_LENGTH,
           NEW h, NEW t, IsNewest(h, S), IsOldest(t, S), ~QueueFull(NextIndex(h), t)
    PROVE  LET s == NextIndex(h)
           IN  /\ s \in Slots /\ s \notin S
               /\ \/ Dist(o, s) < QUEUE_LENGTH
                  \/ Dist(o, s) = QUEUE_LENGTH /\ \A f \in S : Dist(o, f) >= 1
  <1> DEFINE s == NextIndex(h)
  <1>1. h \in S /\ t \in S /\ h \in Slots /\ t \in Slots
    BY DEF IsNewest, IsOldest
  <1>2. \A f \in S : Dist(o, f) \in Nat /\ Dist(o, f) < QUEUE_LENGTH
    BY Positions
  <1>3. s \in Slots /\ Dist(o, s) = Dist(o, h) + 1
    BY <1>1, <1>2, OneFurther, SpaceFacts
  <1> HIDE DEF s
  <1>4. ASSUME NEW f \in S
        PROVE  Dist(o, f) <= Dist(o, h) /\ Dist(o, t) <= Dist(o, f)
    <2>1. Dist(f, h) < QUEUE_LENGTH /\ Dist(t, f) < QUEUE_LENGTH
      BY DEF IsNewest, IsOldest, InWindowFrom
    <2>2. Dist(f, h) = IF Dist(o, f) <= Dist(o, h) THEN Dist(o, h) - Dist(o, f)
                       ELSE Dist(o, h) - Dist(o, f) + IndexSpace
      BY <1>1, Positions
    <2>3. Dist(t, f) = IF Dist(o, t) <= Dist(o, f) THEN Dist(o, f) - Dist(o, t)
                       ELSE Dist(o, f) - Dist(o, t) + IndexSpace
      BY <1>1, Positions
    <2>4. QED
      BY <1>1, <1>2, <2>1, <2>2, <2>3, SpaceFacts
  <1>5. s \notin S
    BY <1>1, <1>2, <1>3, <1>4
  <1>6. CASE Dist(o, s) = QUEUE_LENGTH
    <2>1. Dist(t, s) # QUEUE_LENGTH
      BY <1>1, <1>3, FullAtDistance DEF s
    <2>2. Dist(t, s) = Dist(o, s) - Dist(o, t)
      BY <1>1, <1>2, <1>3, <1>4, Positions
    <2>3. Dist(o, t) >= 1
      BY <1>1, <1>2, <1>6, <2>1, <2>2, SpaceFacts
    <2>4. \A f \in S : Dist(o, f) >= 1
      BY <1>1, <1>2, <1>4, <2>3
    <2>5. QED
      BY <1>3, <1>5, <1>6, <2>4 DEF s
  <1>7. CASE Dist(o, s) # QUEUE_LENGTH
    BY <1>1, <1>2, <1>3, <1>5, <1>7, SpaceFacts DEF s
  <1>8. QED
    BY <1>6, <1>7

\* And the directory stays in one window.
LEMMA ArrivalKeepsWindow ==
    ASSUME NEW S \in SUBSET Slots, S # {}, Windowed(S),
           ~QueueFull(NextIndex(Newest(S)), Oldest(S))
    PROVE  Windowed(S \cup {NextIndex(Newest(S))})
  <1> DEFINE t == Oldest(S)
             s == NextIndex(Newest(S))
  <1>1. IsNewest(Newest(S), S) /\ IsOldest(t, S)
    BY PprFindsEnds
  <1>2. t \in S /\ t \in Slots /\ \A f \in S : Dist(t, f) < QUEUE_LENGTH
    BY <1>1 DEF IsOldest, InWindowFrom
  <1>3. Dist(t, s) < QUEUE_LENGTH \/ \A f \in S : Dist(t, f) >= 1
    BY <1>1, <1>2, Arrival
  <1>4. Dist(t, t) = 0
    BY <1>2, Positions
  <1>5. Dist(t, s) < QUEUE_LENGTH
    <2> HIDE DEF t, s
    <2>1. QED
      BY <1>2, <1>3, <1>4
  <1>6. QED
    BY <1>2, <1>5 DEF Windowed, InWindowFrom

-----------------------------------------------------------------------------
(* What a step of the queue around the program does to what it sees.       *)

\* Files are only taken away, and the stream with them.
Shrinks ==
    /\ Files' \subseteq Files
    /\ unread' = unread \cap Files' /\ fresh' = fresh \cap Files'
    /\ arrivals' = arrivals

\* A new file is there, which the stream may have or not.
Grows(s) ==
    /\ Files' = Files \cup {s}
    /\ Files # {} => s = NextIndex(Newest(Files)) /\ ~QueueFull(s, Oldest(Files))
    /\ unread' = unread
    /\ IF pc \in Scans
       THEN fresh' = fresh \cup {s} /\ arrivals' = arrivals + 1
       ELSE fresh' = fresh /\ arrivals' = arrivals
    /\ pc # "rmdat"

LEMMA QueueTypes ==
    ASSUME SpoolTypes, Queue
    PROVE  /\ SpoolTypes'
           /\ UNCHANGED <<prog, printing, x, num, head, tail, jobnum, known, pc>>
           /\ pc \notin Ends
  <1> USE SpaceFacts DEF SpoolTypes, Numbers
  <1>1. pc \notin Ends
    BY DEF Queue
  <1>2. CASE \E s \in Slots : PprCreate(s)
    BY <1>1, <1>2 DEF PprCreate, local
  <1>3. CASE \E s \in Slots : PprWrite(s)
    BY <1>1, <1>3 DEF PprWrite, local
  <1>4. CASE \E s \in Slots : OtherRemoves(s)
    BY <1>1, <1>4 DEF OtherRemoves, local
  <1>5. CASE \E p \in Printers : SvcTruncateStatus(p)
    BY <1>1, <1>5 DEF SvcTruncateStatus, local
  <1>6. CASE \E p \in Printers : SvcSend(p)
    <2>1. PICK p \in Printers : SvcSend(p)
      BY <1>6
    <2>2. Oldest(Waiting) \in Slots
      BY <2>1 DEF SvcSend
    <2>3. QED
      BY <1>1, <2>1, <2>2 DEF SvcSend, local
  <1>7. CASE \E p \in Printers : SvcHarvest(p)
    BY <1>1, <1>7 DEF SvcHarvest, local
  <1>8. CASE SvcUnlinkDat
    BY <1>1, <1>8 DEF SvcUnlinkDat, local
  <1>9. CASE SvcUnlinkInf
    BY <1>1, <1>9 DEF SvcUnlinkInf, local
  <1>10. QED
    BY <1>2, <1>3, <1>4, <1>5, <1>6, <1>7, <1>8, <1>9 DEF Queue

LEMMA QueueFacts ==
    ASSUME SpoolTypes, DirectorySound, Queue
    PROVE  /\ Shrinks \/ \E s \in Slots : Grows(s)
           /\ steady' \subseteq steady
           /\ shown' = shown \cap steady' /\ listed' = listed \cap steady'
           /\ arrivals' = arrivals \/ (pc \in Scans /\ arrivals' = arrivals + 1)
  <1> USE SpaceFacts DEF SpoolTypes, Numbers, DirectorySound, Files, Shrinks, Grows,
                         report, history, directory
  <1>1. CASE \E s \in Slots : PprCreate(s)
    <2>1. PICK s \in Slots : PprCreate(s)
      BY <1>1
    <2>2. Files' = Files \cup {s}
      BY <2>1 DEF PprCreate
    <2>3. Grows(s)
      BY <2>1, <2>2 DEF PprCreate, Removing
    <2>4. steady' = steady /\ shown' = shown /\ listed' = listed
      BY <2>1 DEF PprCreate
    <2>5. arrivals' = arrivals \/ (pc \in Scans /\ arrivals' = arrivals + 1)
      BY <2>1 DEF PprCreate
    <2>6. QED
      BY <2>3, <2>4, <2>5
  <1>2. CASE \E s \in Slots : PprWrite(s)
    <2>1. PICK s \in Slots : PprWrite(s)
      BY <1>2
    <2>2. Files' = Files
      BY <2>1 DEF PprWrite
    <2>3. QED
      BY <2>1, <2>2 DEF PprWrite
  <1>3. CASE \E s \in Slots : OtherRemoves(s)
    <2>1. PICK s \in Slots : OtherRemoves(s)
      BY <1>3
    <2>2. Files' = Files \ {s}
      BY <2>1 DEF OtherRemoves
    <2>3. QED
      BY <2>1, <2>2 DEF OtherRemoves, Forget
  <1>4. CASE \E p \in Printers : SvcTruncateStatus(p)
    BY <1>4 DEF SvcTruncateStatus
  <1>5. CASE \E p \in Printers : SvcSend(p)
    BY <1>5 DEF SvcSend
  <1>6. CASE \E p \in Printers : SvcHarvest(p)
    BY <1>6 DEF SvcHarvest
  <1>7. CASE SvcUnlinkDat
    BY <1>7 DEF SvcUnlinkDat, Forget
  <1>8. CASE SvcUnlinkInf
    BY <1>8 DEF SvcUnlinkInf
  <1>9. QED
    BY <1>1, <1>2, <1>3, <1>4, <1>5, <1>6, <1>7, <1>8 DEF Queue

\* A job that stays keeps its data, its filled in file, and for pprm its place
\* in the queue.
LEMMA QueueSparesSteady ==
    ASSUME SpoolTypes, DirectorySound, Queue
    PROVE  /\ steady' \subseteq dat' /\ \A s \in steady' : inf'[s] = "whole"
           /\ prog = "pprm" => steady' \cap AtPrinter' = {}
  <1> USE SpaceFacts DEF SpoolTypes, Numbers, DirectorySound
  <1>0. prog' = prog
    BY QueueTypes DEF DirectorySound
  <1>1. CASE \E s \in Slots : PprCreate(s)
    <2>1. PICK s \in Slots : PprCreate(s)
      BY <1>1
    <2>2. s \notin steady
      <3>1. CASE Files = {}
        BY <3>1 DEF Files
      <3>2. CASE Files # {}
        <4>1. /\ s = NextIndex(Newest(Files)) /\ ~QueueFull(s, Oldest(Files))
              /\ Files \in SUBSET Slots /\ Windowed(Files)
          BY <2>1, <3>2 DEF PprCreate, Files
        <4>2. IsNewest(Newest(Files), Files) /\ IsOldest(Oldest(Files), Files)
          BY <3>2, <4>1, PprFindsEnds
        <4>3. PICK o \in Files : \A f \in Files : Dist(o, f) < QUEUE_LENGTH
          BY <3>2, <4>1 DEF Windowed, InWindowFrom
        <4>4. s \notin Files
          BY <4>1, <4>2, <4>3, Arrival
        <4>5. QED
          BY <4>4 DEF Files
      <3>3. QED
        BY <3>1, <3>2
    <2>3. steady' = steady /\ dat' = dat \cup {s} /\ AtPrinter' = AtPrinter
          /\ \A v \in steady : inf'[v] = inf[v]
      BY <2>1, <2>2 DEF PprCreate, history, AtPrinter
    <2>4. QED
      BY <2>3
  <1>2. CASE \E s \in Slots : PprWrite(s)
    BY <1>2 DEF PprWrite, history, AtPrinter
  <1>3. CASE \E s \in Slots : OtherRemoves(s)
    BY <1>3 DEF OtherRemoves, Forget, AtPrinter
  <1>4. CASE \E p \in Printers : SvcTruncateStatus(p)
    BY <1>4 DEF SvcTruncateStatus, history, AtPrinter
  <1>5. CASE \E p \in Printers : SvcSend(p)
    <2>1. PICK p \in Printers : SvcSend(p)
      BY <1>5
    <2>2. AtPrinter' \subseteq AtPrinter \cup {Oldest(Waiting)}
      BY <2>1 DEF SvcSend, AtPrinter
    <2>3. QED
      BY <2>1, <2>2 DEF SvcSend
  <1>6. CASE \E p \in Printers : SvcHarvest(p)
    <2>1. PICK p \in Printers : SvcHarvest(p)
      BY <1>6
    <2>2. AtPrinter' \subseteq AtPrinter
      BY <2>1 DEF SvcHarvest, AtPrinter
    <2>3. QED
      BY <2>1, <2>2 DEF SvcHarvest, history
  <1>7. CASE SvcUnlinkDat
    BY <1>7 DEF SvcUnlinkDat, Forget, AtPrinter
  <1>8. CASE SvcUnlinkInf
    BY <1>8 DEF SvcUnlinkInf, history, AtPrinter
  <1>9. QED
    BY <1>1, <1>2, <1>3, <1>4, <1>5, <1>6, <1>7, <1>8 DEF Queue

LEMMA QueueKeepsDirectory ==
    ASSUME SpoolTypes, DirectorySound, Queue
    PROVE  DirectorySound'
  <1>1. UNCHANGED <<prog, jobnum, pc>>
    BY QueueTypes
  <1>2. Files \in SUBSET Slots /\ Files' \in SUBSET Slots
    BY DEF Files
  <1>3. Windowed(Files)'
    <2>1. CASE Shrinks
      BY <1>2, <2>1, RemovalKeepsWindow DEF Shrinks, DirectorySound
    <2>2. ASSUME NEW s \in Slots, Grows(s), Files = {}
          PROVE  Windowed({s})
      BY Positions, SpaceFacts DEF Windowed, InWindowFrom
    <2>3. ASSUME NEW s \in Slots, Grows(s)
          PROVE  Windowed(Files')
      <3>1. CASE Files = {}
        <4>1. Files' = {s}
          BY <2>3, <3>1 DEF Grows
        <4>2. QED
          BY <2>2, <2>3, <3>1, <4>1
      <3>2. CASE Files # {}
        BY <1>2, <2>3, <3>2, ArrivalKeepsWindow DEF Grows, DirectorySound
      <3>3. QED
        BY <3>1, <3>2
    <2>4. Windowed(Files')
      BY <2>1, <2>3, QueueFacts DEF Shrinks, DirectorySound
    <2>5. QED
      BY <2>4 DEF Windowed, InWindowFrom, Dist
  <1>4. /\ unread' \subseteq Files' /\ fresh' \subseteq Files'
        /\ pc' \notin Scans => unread' = {} /\ fresh' = {}
        /\ pc' = "rmdat" => jobnum' \notin Files'
    <2>1. CASE Shrinks
      BY <1>1, <2>1 DEF Shrinks, DirectorySound
    <2>2. CASE \E s \in Slots : Grows(s)
      BY <1>1, <2>2 DEF Grows, DirectorySound
    <2>3. QED
      BY <2>1, <2>2, QueueFacts
  <1>5. /\ steady' \subseteq dat' /\ \A s \in steady' : inf'[s] = "whole"
        /\ prog' = "pprm" => steady' \cap AtPrinter' = {}
    BY <1>1, QueueSparesSteady
  <1>6. steady' \subseteq steady /\ shown' = shown \cap steady' /\ listed' = listed \cap steady'
    BY QueueFacts
  <1>7. QED
    BY <1>1, <1>3, <1>4, <1>5, <1>6 DEF DirectorySound

-----------------------------------------------------------------------------
(* The program's steps.                                                    *)

LEMMA ProgramSpool ==
    ASSUME SpoolTypes, ProgramTypes, Program
    PROVE  SpoolTypes'
  <1> USE DEF SpoolTypes, Numbers, spool
  <1>1. CASE Start
    BY <1>1 DEF Start
  <1>2. CASE \E active \in BOOLEAN : ShowQueueStatus(active)
    BY <1>2 DEF ShowQueueStatus
  <1>3. CASE PrintersShown \/ TestStatusFile \/ ReadStatus \/ ShowPrinter
    BY <1>3 DEF PrintersShown, TestStatusFile, ReadStatus, ShowPrinter
  <1>4. CASE \/ OpenDirectory \/ CloseTail \/ CloseHead \/ ShowWaitingJob
             \/ \E val \in unread \cup fresh : ReadEntry(val)
    BY <1>4 DEF OpenDirectory, CloseTail, CloseHead, ShowWaitingJob, ReadEntry
  <1>5. CASE RmCheckAccess \/ RmLockInf
    BY <1>5 DEF RmCheckAccess, RmLockInf
  <1>6. CASE RmUnlinkInf
    BY <1>6 DEF RmUnlinkInf
  <1>7. CASE RmUnlinkDat
    BY <1>7 DEF RmUnlinkDat
  <1>8. QED
    BY <1>1, <1>2, <1>3, <1>4, <1>5, <1>6, <1>7 DEF Program

\* The tests of the scans on this program's variables.
LEMMA ScanTests ==
    ASSUME NEW val
    PROVE  /\ Scan!ScanTail(val) = IF tail = -1 \/ OlderThan(val, tail) THEN val ELSE tail
           /\ Scan!ScanHead(val) = IF head = -1 \/ NewerThan(val, head) THEN val ELSE head
  BY DEF Scan!ScanTail, Scan!ScanHead, Scan!OlderThan, Scan!NewerThan, OlderThan, NewerThan

LEMMA RmNextSlot ==
    ASSUME jobnum \in Slots
    PROVE  RmNext \in Slots /\ RmNext = NextIndex(jobnum)
  BY OneFurther DEF RmNext, NextIndex

LEMMA ProgramOwnTypes ==
    ASSUME SpoolTypes, ProgramTypes, DirectorySound, Program
    PROVE  ProgramTypes'
  <1> USE SpaceFacts DEF ProgramTypes, SpoolTypes, Numbers, WalkPcs, Ends, Scans, spool, history
  <1>1. CASE Start
    BY <1>1 DEF Start
  <1>2. CASE \E active \in BOOLEAN : ShowQueueStatus(active)
    BY <1>2, JobWalkAssumption DEF ShowQueueStatus
  <1>3. CASE PrintersShown
    BY <1>3 DEF PrintersShown
  <1>4. CASE TestStatusFile
    BY <1>4 DEF TestStatusFile, NextPrinter
  <1>5. CASE ReadStatus
    <2>1. x \in Printers /\ status[x] \in Numbers /\ prog \in {"ppq", "lpq"}
      BY <1>5 DEF ReadStatus
    <2>2. CASE status[x] # -1
      <3>1. /\ pc = "readstatus" /\ pc' = "readinf" /\ num' = status[x]
            /\ UNCHANGED <<prog, x, head, tail, jobnum, known, arrivals>>
            /\ printing' = printing \/ printing' = [printing EXCEPT ![x] = status[x]]
        BY <1>5, <2>2 DEF ReadStatus
      <3>2. printing' \in [Printers -> Nat \cup {-1}]
        BY <2>1, <3>1
      <3>3. QED
        BY <2>1, <2>2, <3>1, <3>2
    <2>3. CASE status[x] = -1 /\ prog = "ppq"
      BY <1>5, <2>1, <2>3 DEF ReadStatus
    <2>4. CASE status[x] = -1 /\ prog = "lpq"
      <3>1. PICK garbage \in Garbage : printing' = [printing EXCEPT ![x] = garbage]
        BY <1>5, <2>4 DEF ReadStatus
      <3>2. printing' \in [Printers -> Nat \cup {-1}]
        BY <2>1, <3>1, JobWalkAssumption
      <3>3. /\ pc = "readstatus" /\ pc' = "printers" /\ num' = -1 /\ x' = x + 1
            /\ known' = FALSE
            /\ UNCHANGED <<prog, head, tail, jobnum, arrivals>>
        BY <1>5, <2>4 DEF ReadStatus, NextPrinter
      <3>4. x + 1 \in 0 .. NumPrinters
        BY <2>1
      <3>5. x' \in 0 .. NumPrinters /\ num' \in Numbers /\ known' \in BOOLEAN
        BY <3>3, <3>4
      <3>6. QED
        BY <2>1, <3>2, <3>3, <3>5
    <2>5. QED
      BY <2>1, <2>2, <2>3, <2>4
  <1>6. CASE ShowPrinter
    BY <1>6 DEF ShowPrinter, NextPrinter
  <1>7. CASE OpenDirectory
    BY <1>7 DEF OpenDirectory, local
  <1>8. CASE \E val \in unread \cup fresh : ReadEntry(val)
    <2>1. PICK val \in unread \cup fresh : ReadEntry(val)
      BY <1>8
    <2>2. val \in Slots
      BY DEF DirectorySound, Files
    <2>3. QED
      BY <2>1, <2>2, ScanTests DEF ReadEntry
  <1>9. CASE CloseTail
    BY <1>9 DEF CloseTail, local
  <1>10. CASE CloseHead
    BY <1>10 DEF CloseHead
  <1>11. CASE ShowWaitingJob
    BY <1>11 DEF ShowWaitingJob
  <1>12. CASE RmCheckAccess
    BY <1>12 DEF RmCheckAccess, local
  <1>13. CASE RmLockInf
    BY <1>13, RmNextSlot DEF RmLockInf, RmGoOn
  <1>14. CASE RmUnlinkInf
    BY <1>14 DEF RmUnlinkInf, local
  <1>15. CASE RmUnlinkDat
    BY <1>15, RmNextSlot DEF RmUnlinkDat, RmGoOn
  <1>16. QED
    BY <1>1, <1>2, <1>3, <1>4, <1>5, <1>6, <1>7, <1>8, <1>9, <1>10, <1>11, <1>12,
       <1>13, <1>14, <1>15 DEF Program

LEMMA ProgramKeepsDirectory ==
    ASSUME SpoolTypes, ProgramTypes, DirectorySound, Program
    PROVE  DirectorySound'
  <1> USE SpaceFacts DEF Scans, Ends
  <1>0. Files \in SUBSET Slots
    BY DEF Files
  <1>1. CASE UNCHANGED <<inf, dat, status, locked, steady, prog, unread, fresh, jobnum>>
             /\ shown' \subseteq steady /\ listed' \subseteq steady
             /\ (prog = "pprm" => shown' = {} /\ listed' = {})
             /\ (pc' \in Scans <=> pc \in Scans) /\ pc' # "rmdat" /\ pc' # "idle"
    <2>1. Files' = Files /\ AtPrinter' = AtPrinter
      BY <1>1 DEF Files, AtPrinter
    <2>2. Windowed(Files)'
      BY <2>1 DEF DirectorySound, Windowed, InWindowFrom, Dist
    <2>3. QED
      BY <1>1, <2>1, <2>2 DEF DirectorySound
  <1>2. CASE Start
    <2>1. Files' = Files /\ AtPrinter' = AtPrinter /\ Windowed(Files)'
      BY <1>2 DEF Start, spool, Files, AtPrinter, DirectorySound, Windowed, InWindowFrom, Dist
    <2>2. /\ pc = "idle" /\ pc' \in {"queue", "printers", "opentail"}
          /\ UNCHANGED <<inf, dat, prog, unread, fresh, shown, listed, jobnum>>
      BY <1>2 DEF Start, spool, report, directory, ProgramTypes
    <2>3. /\ steady' \subseteq dat' /\ \A s \in steady' : inf'[s] = "whole"
          /\ prog = "pprm" => steady' \cap AtPrinter' = {}
      BY <1>2, <2>1, <2>2 DEF Start, Waiting
    <2>4. shown = {} /\ listed = {} /\ unread = {} /\ fresh = {}
      BY <2>2 DEF DirectorySound
    <2>5. QED
      BY <2>1, <2>2, <2>3, <2>4 DEF DirectorySound
  <1>3. CASE \E active \in BOOLEAN : ShowQueueStatus(active)
    BY <1>1, <1>3 DEF ShowQueueStatus, spool, report, history, directory, DirectorySound
  <1>4. CASE PrintersShown \/ TestStatusFile
    BY <1>1, <1>4 DEF PrintersShown, TestStatusFile, NextPrinter, spool, report, history,
                      directory, DirectorySound
  <1>5. CASE ReadStatus
    <2>1. pc = "readstatus" /\ pc' \in {"readinf", "error", "printers"}
      BY <1>5 DEF ReadStatus, NextPrinter, ProgramTypes
    <2>2. UNCHANGED <<spool, report, history, directory, prog, jobnum>>
      BY <1>5 DEF ReadStatus
    <2>3. QED
      BY <1>1, <2>1, <2>2 DEF spool, report, history, directory, DirectorySound
  <1>6. CASE ShowPrinter
    <2>1. pc = "readinf" /\ pc' \in {"error", "printers"} /\ prog # "pprm"
      BY <1>6 DEF ShowPrinter, NextPrinter, ProgramTypes
    <2>2. UNCHANGED <<spool, listed, history, directory, prog, jobnum>>
      BY <1>6 DEF ShowPrinter
    <2>3. shown' \subseteq steady
      BY <1>6 DEF ShowPrinter, DirectorySound
    <2>4. QED
      BY <1>1, <2>1, <2>2, <2>3 DEF spool, history, directory, DirectorySound
  <1>7. CASE OpenDirectory
    <2>1. /\ Files' = Files /\ AtPrinter' = AtPrinter /\ Windowed(Files)'
      BY <1>7 DEF OpenDirectory, spool, Files, AtPrinter, DirectorySound, Windowed,
                  InWindowFrom, Dist
    <2>2. QED
      BY <1>7, <2>1 DEF OpenDirectory, spool, report, history, local, DirectorySound
  <1>8. CASE \E val \in unread \cup fresh : ReadEntry(val)
    <2>1. /\ Files' = Files /\ AtPrinter' = AtPrinter /\ Windowed(Files)'
      BY <1>8 DEF ReadEntry, spool, Files, AtPrinter, DirectorySound, Windowed,
                  InWindowFrom, Dist
    <2>2. QED
      BY <1>8, <2>1 DEF ReadEntry, spool, report, history, DirectorySound
  <1>9. CASE CloseTail \/ CloseHead
    <2>1. /\ Files' = Files /\ AtPrinter' = AtPrinter /\ Windowed(Files)'
      BY <1>9 DEF CloseTail, CloseHead, spool, Files, AtPrinter, DirectorySound, Windowed,
                  InWindowFrom, Dist
    <2>2. /\ pc' \in {"openhead", "stopped", "done", "error", "rm", "show"}
          /\ unread' = {} /\ fresh' = {}
          /\ UNCHANGED <<inf, dat, steady, shown, listed, prog>>
      BY <1>9 DEF CloseTail, CloseHead, spool, report, history, local
    <2>3. QED
      BY <2>1, <2>2 DEF DirectorySound
  <1>10. CASE ShowWaitingJob
    <2>1. /\ Files' = Files /\ AtPrinter' = AtPrinter /\ Windowed(Files)'
      BY <1>10 DEF ShowWaitingJob, spool, Files, AtPrinter, DirectorySound, Windowed,
                   InWindowFrom, Dist
    <2>2. /\ pc = "show" /\ pc' \in {"error", "done", "show"} /\ listed' \subseteq steady
          /\ UNCHANGED <<inf, dat, steady, shown, prog, unread, fresh>>
      BY <1>10 DEF ShowWaitingJob, spool, history, directory, DirectorySound
    <2>3. prog # "pprm"
      BY <2>2 DEF ProgramTypes
    <2>4. QED
      BY <2>1, <2>2, <2>3 DEF DirectorySound
  <1>11. CASE RmCheckAccess
    BY <1>1, <1>11 DEF RmCheckAccess, spool, report, history, directory, local, DirectorySound
  <1>12. CASE RmLockInf
    <2>1. /\ Files' = Files /\ AtPrinter' = AtPrinter /\ Windowed(Files)'
      BY <1>12 DEF RmLockInf, spool, Files, AtPrinter, DirectorySound, Windowed,
                   InWindowFrom, Dist
    <2>2. QED
      BY <1>12, <2>1 DEF RmLockInf, RmGoOn, spool, report, history, directory, DirectorySound
  <1>13. CASE RmUnlinkInf
    <2>1. pc = "rminf" /\ jobnum \in Slots /\ pc' \in {"rmdat", "stopped"}
      BY <1>13 DEF RmUnlinkInf, ProgramTypes
    <2>2. Files' = Files \ {jobnum} /\ AtPrinter' = AtPrinter
      BY <1>13 DEF RmUnlinkInf, Files, AtPrinter, SpoolTypes
    <2>3. Windowed(Files')
      BY <1>0, <2>2, RemovalKeepsWindow DEF DirectorySound
    <2>4. Windowed(Files)'
      BY <2>3 DEF Windowed, InWindowFrom, Dist
    <2>5. /\ UNCHANGED <<dat, unread, fresh, prog, jobnum>>
          /\ steady' = steady \ {jobnum} /\ shown' = shown \ {jobnum}
          /\ listed' = listed \ {jobnum}
          /\ \A s \in Slots \ {jobnum} : inf'[s] = inf[s]
      BY <1>13 DEF RmUnlinkInf, Forget, directory, local, SpoolTypes
    <2>6. \A s \in steady' : inf'[s] = "whole"
      BY <2>5 DEF DirectorySound, SpoolTypes
    <2>7. QED
      BY <2>1, <2>2, <2>4, <2>5, <2>6 DEF DirectorySound
  <1>14. CASE RmUnlinkDat
    <2>1. /\ Files' = Files /\ AtPrinter' = AtPrinter /\ Windowed(Files)'
      BY <1>14 DEF RmUnlinkDat, spool, Files, AtPrinter, DirectorySound, Windowed,
                   InWindowFrom, Dist
    <2>2. jobnum \notin steady
      BY <1>14 DEF RmUnlinkDat, DirectorySound, Files, SpoolTypes
    <2>3. /\ pc = "rmdat" /\ pc' \in {"rm", "done", "stopped"} /\ dat' = dat \ {jobnum}
          /\ UNCHANGED <<inf, unread, fresh, steady, shown, listed, prog>>
      BY <1>14 DEF RmUnlinkDat, RmGoOn, report, history, directory
    <2>4. QED
      BY <2>1, <2>2, <2>3 DEF DirectorySound
  <1>15. QED
    BY <1>2, <1>3, <1>4, <1>5, <1>6, <1>7, <1>8, <1>9, <1>10, <1>11, <1>12,
       <1>13, <1>14 DEF Program

-----------------------------------------------------------------------------
(* The scans find the ends of what stays.                                  *)

\* The scan for the tail moves to the nearer of the two numbers.
LEMMA TailMovesNearer ==
    ASSUME NEW o \in Slots, NEW val \in Slots, NEW end \in Slots,
           Dist(o, val) <= QUEUE_LENGTH, Dist(o, end) <= QUEUE_LENGTH,
           Dist(o, val) >= 1 \/ Dist(o, end) < QUEUE_LENGTH
    PROVE  OlderThan(val, end) <=> Dist(o, val) < Dist(o, end)
  <1>1. /\ Dist(o, val) \in Nat /\ Dist(o, end) \in Nat
        /\ Dist(val, end) = IF Dist(o, val) <= Dist(o, end) THEN Dist(o, end) - Dist(o, val)
                            ELSE Dist(o, end) - Dist(o, val) + IndexSpace
        /\ Dist(o, val) = Dist(o, end) => val = end
        /\ OlderThan(val, end) <=> val # end /\ Dist(val, end) < QUEUE_LENGTH
    BY Positions
  <1>2. QED
    BY <1>1, SpaceFacts

\* The scan for the head never moves nearer, and it moves to what lies farther
\* in the window.
LEMMA HeadMovesFarther ==
    ASSUME NEW o \in Slots, NEW val \in Slots, NEW end \in Slots,
           Dist(o, val) <= QUEUE_LENGTH, Dist(o, end) <= QUEUE_LENGTH
    PROVE  /\ NewerThan(val, end) => Dist(o, end) < Dist(o, val)
           /\ Dist(o, end) < Dist(o, val) /\ Dist(o, val) < QUEUE_LENGTH => NewerThan(val, end)
  <1>1. /\ Dist(o, val) \in Nat /\ Dist(o, end) \in Nat
        /\ Dist(end, val) = IF Dist(o, end) <= Dist(o, val) THEN Dist(o, val) - Dist(o, end)
                            ELSE Dist(o, val) - Dist(o, end) + IndexSpace
        /\ Dist(o, val) = Dist(o, end) => val = end
        /\ NewerThan(val, end) <=> val # end /\ Dist(end, val) < QUEUE_LENGTH
    BY Positions
  <1>2. QED
    BY <1>1, SpaceFacts

\* A directory that changes under the scan stays near the number o.
LEMMA QueueKeepsBase ==
    ASSUME SpoolTypes, DirectorySound, Queue, arrivals \in Nat, arrivals' <= 1,
           pc \in Scans, Files # {},
           NEW o \in Slots, NEW end \in Numbers, NearBase(o, end)
    PROVE  \/ /\ \A f \in Files' : Dist(o, f) < QUEUE_LENGTH
              /\ end # -1 => Dist(o, end) < QUEUE_LENGTH
           \/ /\ arrivals' = 1
              /\ \A f \in Files' : Dist(o, f) >= 1 /\ Dist(o, f) <= QUEUE_LENGTH
              /\ end # -1 => Dist(o, end) <= QUEUE_LENGTH
  <1>1. CASE Shrinks
    BY <1>1 DEF Shrinks, NearBase
  <1>2. ASSUME NEW s \in Slots, Grows(s)
        PROVE  \/ /\ \A f \in Files' : Dist(o, f) < QUEUE_LENGTH
                  /\ end # -1 => Dist(o, end) < QUEUE_LENGTH
               \/ /\ arrivals' = 1
                  /\ \A f \in Files' : Dist(o, f) >= 1 /\ Dist(o, f) <= QUEUE_LENGTH
                  /\ end # -1 => Dist(o, end) <= QUEUE_LENGTH
    <2>1. arrivals = 0 /\ arrivals' = 1 /\ Files' = Files \cup {s}
      BY <1>2 DEF Grows
    <2>2. /\ \A f \in Files : Dist(o, f) < QUEUE_LENGTH
          /\ end # -1 => Dist(o, end) < QUEUE_LENGTH
      BY <2>1 DEF NearBase
    <2>3. /\ Files \in SUBSET Slots /\ Windowed(Files)
          /\ s = NextIndex(Newest(Files)) /\ ~QueueFull(s, Oldest(Files))
      BY <1>2 DEF Files, DirectorySound, Grows
    <2>4. IsNewest(Newest(Files), Files) /\ IsOldest(Oldest(Files), Files)
      BY <2>3, PprFindsEnds
    <2>5. \/ Dist(o, s) < QUEUE_LENGTH
          \/ Dist(o, s) = QUEUE_LENGTH /\ \A f \in Files : Dist(o, f) >= 1
      BY <2>2, <2>3, <2>4, Arrival
    <2>6. /\ \A f \in Files \cup {s} : Dist(o, f) \in Nat
          /\ end # -1 => Dist(o, end) \in Nat
      BY <2>3, Positions DEF Numbers
    <2>7. QED
      BY <2>1, <2>2, <2>5, <2>6, SpaceFacts
  <1>3. QED
    BY <1>1, <1>2, QueueFacts

LEMMA QueueKeepsScans ==
    ASSUME SpoolTypes, ProgramTypes, DirectorySound, ScansRight, Queue
    PROVE  ScansRight'
  <1> SUFFICES ASSUME arrivals' <= 1, steady' # {}
               PROVE  /\ pc' = "tailscan" => \E o \in Slots : TailBase(o)'
                      /\ pc' = "headscan" => \E o \in Slots : HeadBase(o)'
                      /\ pc' \in {"openhead", "headscan"} =>
                             \A s \in steady' : Dist(tail', s) < QUEUE_LENGTH
                      /\ pc' \in {"show", "rm", "rmlock", "rminf", "rmdat"} =>
                             \A s \in steady' : Dist(tail', s) <= Dist(tail', head')
    BY DEF ScansRight, Dist
  <1>1. /\ UNCHANGED <<prog, head, tail, pc>> /\ steady' \subseteq steady
        /\ arrivals \in Nat /\ arrivals <= 1 /\ steady # {}
    BY QueueTypes, QueueFacts DEF ProgramTypes
  <1>2. /\ pc = "tailscan" => \E o \in Slots : TailBase(o)
        /\ pc = "headscan" => \E o \in Slots : HeadBase(o)
        /\ pc \in {"openhead", "headscan"} => \A s \in steady : Dist(tail, s) < QUEUE_LENGTH
        /\ pc \in {"show", "rm", "rmlock", "rminf", "rmdat"} =>
               \A s \in steady : Dist(tail, s) <= Dist(tail, head)
    BY <1>1 DEF ScansRight
  <1>3. Files # {} /\ \A s \in steady' \cap unread : s \in unread'
    <2>1. \A s \in steady' : s \in Files /\ s \in Files'
      BY <1>1, QueueSparesSteady, SpaceFacts DEF DirectorySound, Files, SpoolTypes
    <2>2. Files # {}
      BY <2>1
    <2>3. CASE Shrinks
      BY <2>1, <2>2, <2>3 DEF Shrinks
    <2>4. CASE \E s \in Slots : Grows(s)
      BY <2>2, <2>4 DEF Grows
    <2>5. QED
      BY <2>3, <2>4, QueueFacts
  <1>4. ASSUME pc = "tailscan"
        PROVE  \E o \in Slots : TailBase(o)'
    <2>1. PICK o \in Slots : TailBase(o)
      BY <1>2, <1>4
    <2>2. NearBase(o, tail) /\ tail \in Numbers
      BY <2>1 DEF TailBase, ProgramTypes
    <2>3. \/ /\ \A f \in Files' : Dist(o, f) < QUEUE_LENGTH
             /\ tail # -1 => Dist(o, tail) < QUEUE_LENGTH
          \/ /\ arrivals' = 1
             /\ \A f \in Files' : Dist(o, f) >= 1 /\ Dist(o, f) <= QUEUE_LENGTH
             /\ tail # -1 => Dist(o, tail) <= QUEUE_LENGTH
      BY <1>1, <1>3, <1>4, <2>2, QueueKeepsBase DEF Scans
    <2>4. NearBase(o, tail)'
      BY <1>1, <2>3 DEF NearBase, Dist
    <2>5. \A s \in steady' : /\ Dist(o, s) < QUEUE_LENGTH
                             /\ s \in unread' \/ (tail' # -1 /\ Dist(o, tail') <= Dist(o, s))
      BY <1>1, <1>3, <2>1 DEF TailBase
    <2>6. TailBase(o)'
      BY <2>4, <2>5 DEF TailBase
    <2>7. QED
      BY <2>6
  <1>5. ASSUME pc = "headscan"
        PROVE  \E o \in Slots : HeadBase(o)'
    <2>1. PICK o \in Slots : HeadBase(o)
      BY <1>2, <1>5
    <2>2. NearBase(o, head) /\ head \in Numbers
      BY <2>1 DEF HeadBase, ProgramTypes
    <2>3. \/ /\ \A f \in Files' : Dist(o, f) < QUEUE_LENGTH
             /\ head # -1 => Dist(o, head) < QUEUE_LENGTH
          \/ /\ arrivals' = 1
             /\ \A f \in Files' : Dist(o, f) >= 1 /\ Dist(o, f) <= QUEUE_LENGTH
             /\ head # -1 => Dist(o, head) <= QUEUE_LENGTH
      BY <1>1, <1>3, <1>5, <2>2, QueueKeepsBase DEF Scans
    <2>4. NearBase(o, head)'
      BY <1>1, <2>3 DEF NearBase, Dist
    <2>5. \A s \in steady' : /\ Dist(o, s) < QUEUE_LENGTH
                             /\ s \in unread' \/ (head' # -1 /\ Dist(o, s) <= Dist(o, head'))
      BY <1>1, <1>3, <2>1 DEF HeadBase
    <2>6. HeadBase(o)'
      BY <2>4, <2>5 DEF HeadBase
    <2>7. QED
      BY <2>6
  <1>6. QED
    BY <1>1, <1>2, <1>4, <1>5

\* Opening a directory, any of its files can be the number to look from.
LEMMA OpenedRight ==
    ASSUME SpoolTypes, ProgramTypes, DirectorySound, ScansRight, OpenDirectory,
           arrivals <= 1, steady # {}
    PROVE  ScansRight'
  <1>1. /\ UNCHANGED <<inf, steady, arrivals, head, tail>> /\ unread' = Files
        /\ \/ pc = "opentail" /\ pc' = "tailscan"
           \/ pc = "openhead" /\ pc' = "headscan"
    BY DEF OpenDirectory, spool, history, local
  <1>2. Files' = Files /\ steady \subseteq Files /\ Files \in SUBSET Slots
    BY <1>1, SpaceFacts DEF Files, DirectorySound, SpoolTypes
  <1>3. PICK o \in Slots : \A f \in Files : Dist(o, f) < QUEUE_LENGTH
    BY <1>2 DEF DirectorySound, Windowed, InWindowFrom
  <1>4. CASE pc = "opentail"
    <2>1. tail' = -1
      BY <1>1, <1>4 DEF ProgramTypes
    <2>2. NearBase(o, tail)'
      BY <1>2, <1>3, <2>1 DEF NearBase, Dist
    <2>3. \A s \in steady' : Dist(o, s) < QUEUE_LENGTH /\ s \in unread'
      BY <1>1, <1>2, <1>3
    <2>4. TailBase(o)'
      BY <2>2, <2>3 DEF TailBase
    <2>5. QED
      BY <1>1, <1>4, <2>4 DEF ScansRight
  <1>5. CASE pc = "openhead"
    <2>1. head' = -1
      BY <1>1, <1>5 DEF ProgramTypes
    <2>2. NearBase(o, head)'
      BY <1>2, <1>3, <2>1 DEF NearBase, Dist
    <2>3. \A s \in steady' : Dist(o, s) < QUEUE_LENGTH /\ s \in unread'
      BY <1>1, <1>2, <1>3
    <2>4. HeadBase(o)'
      BY <2>2, <2>3 DEF HeadBase
    <2>5. \A s \in steady' : Dist(tail', s) < QUEUE_LENGTH
      BY <1>1, <1>5 DEF ScansRight
    <2>6. QED
      BY <1>1, <1>5, <2>4, <2>5 DEF ScansRight
  <1>6. QED
    BY <1>1, <1>4, <1>5

\* What the files and an end of NearBase satisfy in both cases.
LEMMA BaseBounds ==
    ASSUME NEW o \in Slots, NEW end \in Numbers, NearBase(o, end), NEW val \in Files
    PROVE  /\ Dist(o, val) <= QUEUE_LENGTH /\ Dist(o, val) \in Nat
           /\ end # -1 => /\ Dist(o, end) <= QUEUE_LENGTH /\ Dist(o, end) \in Nat
                          /\ Dist(o, val) >= 1 \/ Dist(o, end) < QUEUE_LENGTH
           /\ NearBase(o, val)
  <1>1. val \in Slots /\ Dist(o, val) \in Nat
    BY Positions DEF Files
  <1>2. end # -1 => end \in Slots /\ Dist(o, end) \in Nat
    BY Positions DEF Numbers
  <1>3. QED
    BY <1>1, <1>2, SpaceFacts DEF NearBase

LEMMA ReadEntryRight ==
    ASSUME SpoolTypes, ProgramTypes, DirectorySound, ScansRight,
           NEW val \in unread \cup fresh, ReadEntry(val), arrivals <= 1, steady # {}
    PROVE  ScansRight'
  <1>1. /\ UNCHANGED <<inf, steady, arrivals, pc>> /\ unread' = unread \ {val}
        /\ pc = "tailscan" => tail' = Scan!ScanTail(val) /\ head' = head
        /\ pc = "headscan" => head' = Scan!ScanHead(val) /\ tail' = tail
        /\ pc \in Scans
    BY DEF ReadEntry, spool, history, Scans
  <1>2. Files' = Files /\ steady \subseteq Files /\ Files \in SUBSET Slots /\ val \in Files
    BY <1>1, SpaceFacts DEF Files, DirectorySound, SpoolTypes
  <1>3. CASE pc = "tailscan"
    <2>1. PICK o \in Slots : TailBase(o)
      BY <1>3 DEF ScansRight
    <2>2. /\ NearBase(o, tail) /\ tail \in Numbers /\ val \in Slots
          /\ tail' = IF tail = -1 \/ OlderThan(val, tail) THEN val ELSE tail
      BY <1>1, <1>2, <1>3, <2>1, ScanTests DEF TailBase, ProgramTypes
    <2>3. /\ Dist(o, val) <= QUEUE_LENGTH /\ Dist(o, val) \in Nat /\ NearBase(o, val)
          /\ tail # -1 => /\ Dist(o, tail) <= QUEUE_LENGTH /\ Dist(o, tail) \in Nat
                          /\ Dist(o, val) >= 1 \/ Dist(o, tail) < QUEUE_LENGTH
      BY <1>2, <2>2, BaseBounds
    <2>4. tail # -1 => (OlderThan(val, tail) <=> Dist(o, val) < Dist(o, tail))
      BY <2>2, <2>3, TailMovesNearer DEF Numbers
    <2>5. /\ tail' # -1 /\ Dist(o, tail') <= Dist(o, val)
          /\ tail # -1 => Dist(o, tail') <= Dist(o, tail)
      BY <2>2, <2>3, <2>4, SpaceFacts
    <2>6. tail' = tail \/ tail' = val
      BY <2>2
    <2>7. NearBase(o, tail')
      BY <2>2, <2>3, <2>6
    <2>8. NearBase(o, tail)'
      BY <1>1, <1>2, <2>7 DEF NearBase, Dist
    <2>9. \A s \in steady' : /\ Dist(o, s) < QUEUE_LENGTH
                             /\ s \in unread' \/ (tail' # -1 /\ Dist(o, tail') <= Dist(o, s))
      <3>1. TAKE s \in steady'
      <3>2. /\ s \in steady /\ Dist(o, s) < QUEUE_LENGTH /\ Dist(o, s) \in Nat
            /\ s \in unread \/ (tail # -1 /\ Dist(o, tail) <= Dist(o, s))
        BY <1>1, <1>2, <2>1, Positions DEF TailBase
      <3>3. tail' \in Slots /\ Dist(o, tail') \in Nat
        BY <2>2, <2>6, <2>5, Positions DEF Numbers
      <3>4. QED
        BY <1>1, <2>3, <2>5, <3>2, <3>3
    <2>10. TailBase(o)'
      BY <2>8, <2>9 DEF TailBase
    <2>11. QED
      BY <1>1, <1>3, <2>10 DEF ScansRight
  <1>4. CASE pc = "headscan"
    <2>1. PICK o \in Slots : HeadBase(o)
      BY <1>4 DEF ScansRight
    <2>2. /\ NearBase(o, head) /\ head \in Numbers /\ val \in Slots
          /\ head' = IF head = -1 \/ NewerThan(val, head) THEN val ELSE head
      BY <1>1, <1>2, <1>4, <2>1, ScanTests DEF HeadBase, ProgramTypes
    <2>3. /\ Dist(o, val) <= QUEUE_LENGTH /\ Dist(o, val) \in Nat /\ NearBase(o, val)
          /\ head # -1 => Dist(o, head) <= QUEUE_LENGTH /\ Dist(o, head) \in Nat
      BY <1>2, <2>2, BaseBounds
    <2>4. head # -1 =>
             /\ NewerThan(val, head) => Dist(o, head) < Dist(o, val)
             /\ Dist(o, head) < Dist(o, val) /\ Dist(o, val) < QUEUE_LENGTH => NewerThan(val, head)
      BY <2>2, <2>3, HeadMovesFarther DEF Numbers
    <2>5. /\ head' # -1 /\ Dist(o, val) < QUEUE_LENGTH => Dist(o, val) <= Dist(o, head')
          /\ head # -1 => Dist(o, head) <= Dist(o, head')
      BY <2>2, <2>3, <2>4, SpaceFacts
    <2>6. (head' = head \/ head' = val) /\ head' \in Slots
      BY <2>2, SpaceFacts DEF Numbers
    <2>7. NearBase(o, head')
      BY <2>2, <2>3, <2>6
    <2>8. NearBase(o, head)'
      BY <1>1, <1>2, <2>7 DEF NearBase, Dist
    <2>9. \A s \in steady' : /\ Dist(o, s) < QUEUE_LENGTH
                             /\ s \in unread' \/ (head' # -1 /\ Dist(o, s) <= Dist(o, head'))
      <3>1. TAKE s \in steady'
      <3>2. /\ s \in steady /\ Dist(o, s) < QUEUE_LENGTH /\ Dist(o, s) \in Nat
            /\ s \in unread \/ (head # -1 /\ Dist(o, s) <= Dist(o, head))
        BY <1>1, <1>2, <2>1, Positions DEF HeadBase
      <3>3. Dist(o, head') \in Nat /\ head' # -1
        <4>1. head' # -1
          BY <2>6, SpaceFacts
        <4>2. QED
          BY <2>6, <4>1, Positions
      <3>4. CASE s \in unread /\ s # val
        <4>1. unread' = unread \ {val}
          BY <1>1
        <4>2. s \in unread'
          BY <3>4, <4>1
        <4>3. QED
          BY <3>2, <4>2
      <3>5. CASE s = val
        BY <2>5, <3>2, <3>3, <3>5
      <3>6. CASE head # -1 /\ Dist(o, s) <= Dist(o, head)
        BY <2>3, <2>5, <3>2, <3>3, <3>6
      <3>7. QED
        BY <3>2, <3>4, <3>5, <3>6
    <2>10. HeadBase(o)'
      BY <2>8, <2>9 DEF HeadBase
    <2>11. \A s \in steady' : Dist(tail', s) < QUEUE_LENGTH
      BY <1>1, <1>4 DEF ScansRight
    <2>12. QED
      BY <1>1, <1>4, <2>10, <2>11 DEF ScansRight
  <1>5. QED
    BY <1>1, <1>3, <1>4 DEF Scans

LEMMA CloseTailRight ==
    ASSUME SpoolTypes, ProgramTypes, DirectorySound, ScansRight, CloseTail,
           arrivals <= 1, steady # {}
    PROVE  /\ tail # -1
           /\ \A s \in steady : Dist(tail, s) < QUEUE_LENGTH
  <1>1. pc = "tailscan" /\ unread = {} /\ tail \in Numbers
    BY DEF CloseTail, ProgramTypes
  <1>2. PICK o \in Slots : TailBase(o)
    BY <1>1 DEF ScansRight
  <1>3. \A s \in steady : /\ Dist(o, s) < QUEUE_LENGTH
                          /\ tail # -1 /\ Dist(o, tail) <= Dist(o, s)
    BY <1>1, <1>2 DEF TailBase
  <1>4. tail # -1 /\ tail \in Slots
    BY <1>1, <1>3 DEF Numbers
  <1>5. ASSUME NEW s \in steady
        PROVE  Dist(tail, s) < QUEUE_LENGTH
    <2>1. s \in Slots
      BY DEF DirectorySound, SpoolTypes
    <2>2. /\ Dist(tail, s) = Dist(o, s) - Dist(o, tail)
          /\ Dist(o, s) \in Nat /\ Dist(o, tail) \in Nat
      BY <1>3, <1>4, <2>1, Positions
    <2>3. QED
      BY <1>3, <2>2, SpaceFacts
  <1>6. QED
    BY <1>4, <1>5

LEMMA CloseHeadRight ==
    ASSUME SpoolTypes, ProgramTypes, DirectorySound, ScansRight, CloseHead,
           arrivals <= 1, steady # {}
    PROVE  \A s \in steady : Dist(tail, s) <= Dist(tail, head)
  <1>1. pc = "headscan" /\ unread = {} /\ head \in Numbers /\ tail \in Slots
    BY DEF CloseHead, ProgramTypes
  <1>2. PICK o \in Slots : HeadBase(o)
    BY <1>1 DEF ScansRight
  <1>3. \A s \in steady : /\ Dist(tail, s) < QUEUE_LENGTH
                          /\ head # -1 /\ Dist(o, s) <= Dist(o, head)
    BY <1>1, <1>2 DEF HeadBase, ScansRight
  <1>4. head # -1 /\ head \in Slots
    BY <1>1, <1>3 DEF Numbers
  <1>5. Dist(o, head) <= QUEUE_LENGTH /\ Dist(o, head) \in Nat
    <2>1. Dist(o, head) \in Nat
      BY <1>4, Positions
    <2>2. Dist(o, head) < QUEUE_LENGTH \/ Dist(o, head) <= QUEUE_LENGTH
      BY <1>2, <1>4 DEF HeadBase, NearBase
    <2>3. QED
      BY <2>1, <2>2, SpaceFacts
  <1>6. ASSUME NEW s \in steady
        PROVE  Dist(tail, s) <= Dist(tail, head)
    <2>1. s \in Slots
      BY DEF DirectorySound, SpoolTypes
    <2>2. /\ Dist(tail, s) \in Nat /\ Dist(tail, head) \in Nat
          /\ Dist(s, head) = IF Dist(tail, s) <= Dist(tail, head)
                             THEN Dist(tail, head) - Dist(tail, s)
                             ELSE Dist(tail, head) - Dist(tail, s) + IndexSpace
      BY <1>1, <1>4, <2>1, Positions
    <2>3. Dist(s, head) = Dist(o, head) - Dist(o, s) /\ Dist(o, s) \in Nat
      BY <1>3, <1>4, <2>1, Positions
    <2>4. QED
      BY <1>3, <1>5, <2>2, <2>3, SpaceFacts
  <1>7. QED
    BY <1>6

LEMMA ProgramKeepsScans ==
    ASSUME SpoolTypes, ProgramTypes, DirectorySound, ScansRight, Program
    PROVE  ScansRight'
  <1> DEFINE walking == {"show", "rm", "rmlock", "rminf", "rmdat"}
  <1>1. ASSUME pc' \notin {"tailscan", "headscan", "openhead"} \cup walking
        PROVE  ScansRight'
    BY <1>1 DEF ScansRight
  <1>2. ASSUME pc \in walking, UNCHANGED <<head, tail, arrivals>>, steady' \subseteq steady,
               pc' \in walking \cup Ends
        PROVE  ScansRight'
    <2> SUFFICES ASSUME arrivals' <= 1, steady' # {}
                 PROVE  \A s \in steady' : Dist(tail', s) <= Dist(tail', head')
      BY <1>2 DEF ScansRight, Ends
    <2>1. QED
      BY <1>2 DEF ScansRight
  <1>3. CASE Start
    BY <1>1, <1>3 DEF Start, ProgramTypes
  <1>4. CASE \E active \in BOOLEAN : ShowQueueStatus(active)
    BY <1>1, <1>4 DEF ShowQueueStatus
  <1>5. CASE PrintersShown \/ TestStatusFile \/ ReadStatus \/ ShowPrinter
    <2>1. pc' \in {"opentail", "readstatus", "printers", "readinf", "error"}
      BY <1>5 DEF PrintersShown, TestStatusFile, NextPrinter, ReadStatus, ShowPrinter,
                  ProgramTypes
    <2>2. QED
      BY <1>1, <2>1
  <1>6. CASE OpenDirectory
    BY <1>6, OpenedRight DEF OpenDirectory, history, ScansRight
  <1>7. CASE \E val \in unread \cup fresh : ReadEntry(val)
    BY <1>7, ReadEntryRight DEF ReadEntry, history, ScansRight
  <1>8. CASE CloseTail
    <2>1. UNCHANGED <<steady, arrivals, tail>> /\ pc' \in {"openhead", "stopped", "done"}
      BY <1>8 DEF CloseTail, history, local
    <2>2. QED
      BY <1>8, <2>1, CloseTailRight DEF ScansRight
  <1>9. CASE CloseHead
    <2>1. UNCHANGED <<steady, arrivals, tail, head>> /\ pc' \in {"error", "rm", "show"}
      BY <1>9 DEF CloseHead, history
    <2>2. QED
      BY <1>9, <2>1, CloseHeadRight DEF ScansRight
  <1>10. CASE ShowWaitingJob
    BY <1>2, <1>10 DEF ShowWaitingJob, history, Ends
  <1>11. CASE RmCheckAccess
    BY <1>2, <1>11 DEF RmCheckAccess, history, local, Ends
  <1>12. CASE RmLockInf
    BY <1>2, <1>12 DEF RmLockInf, RmGoOn, history, Ends
  <1>13. CASE RmUnlinkInf
    BY <1>2, <1>13 DEF RmUnlinkInf, Forget, local, Ends
  <1>14. CASE RmUnlinkDat
    BY <1>2, <1>14 DEF RmUnlinkDat, RmGoOn, history, Ends
  <1>15. QED
    BY <1>3, <1>4, <1>5, <1>6, <1>7, <1>8, <1>9, <1>10, <1>11, <1>12, <1>13, <1>14
    DEF Program

-----------------------------------------------------------------------------
(* The walk of ppq and lpq.                                                *)

\* One printer of the loop in PastPrinting.
PastOne(i) ==
    [y \in Printers |->
        IF i = printing[y]
        THEN IF i = head THEN Done ELSE (i + 1) % PpqModulus
        ELSE i]

NextPast(j, f, y) == IF y = 0 THEN j ELSE PastOne(f[y - 1])[y - 1]

Past(j, n, f) == f = [y \in 0 .. n |-> NextPast(j, f, y)]

LEMMA PastStep ==
    ASSUME NEW j, NEW n \in Nat, NEW f, Past(j, n, f), NEW y \in 0 .. n
    PROVE  f[y] = NextPast(j, f, y)
  <1> DEFINE Rhs(g) == [k \in 0 .. n |-> NextPast(j, g, k)]
  <1>1. f = Rhs(f)
    BY DEF Past
  <1>2. Rhs(f)[y] = NextPast(j, f, y)
    OBVIOUS
  <1> HIDE DEF Rhs
  <1>3. QED
    BY <1>1, <1>2

LEMMA PastExists ==
    ASSUME NEW j, NEW m \in Nat
    PROVE  \E f : Past(j, m, f)
  <1> DEFINE Bad == {n \in Nat : ~ \E f : Past(j, n, f)}
  <1>1. SUFFICES ASSUME Bad # {} PROVE FALSE
    OBVIOUS
  <1>2. PICK n \in Bad : \A k \in Bad : n <= k
    BY <1>1, Least
  <1>3. n # 0
    <2> DEFINE f == [y \in 0 .. 0 |-> j]
    <2>1. f = [y \in 0 .. 0 |-> NextPast(j, f, y)]
      BY DEF NextPast
    <2>2. Past(j, 0, f)
      BY <2>1 DEF Past
    <2>3. QED
      BY <2>2
  <1>4. n - 1 \in Nat /\ n - 1 \notin Bad
    BY <1>2, <1>3
  <1>5. PICK g : Past(j, n - 1, g)
    BY <1>4
  <1> DEFINE f == [y \in 0 .. n |-> IF y = n THEN NextPast(j, g, n) ELSE g[y]]
  <1>6. ASSUME NEW y \in 0 .. n
        PROVE  f[y] = NextPast(j, f, y)
    <2>1. CASE y = n
      BY <1>3, <2>1 DEF NextPast
    <2>2. CASE y # n
      <3>1. y \in 0 .. n - 1 /\ f[y] = g[y] /\ (y # 0 => f[y - 1] = g[y - 1])
        BY <1>4, <2>2
      <3>2. g[y] = NextPast(j, g, y)
        BY <1>4, <1>5, <3>1, PastStep
      <3> HIDE DEF f
      <3>3. QED
        BY <3>1, <3>2 DEF NextPast
    <2>3. QED
      BY <2>1, <2>2
  <1>7. f = [y \in 0 .. n |-> NextPast(j, f, y)]
    BY <1>6
  <1>8. Past(j, n, f)
    BY <1>7 DEF Past
  <1>9. QED
    BY <1>2, <1>8

\* PastPrinting goes from printer to printer.
LEMMA PastPrinters ==
    ASSUME NEW j
    PROVE  \E f : /\ f[0] = j /\ PastPrinting(j) = f[NumPrinters]
                  /\ \A y \in Printers :
                       f[y + 1] = IF f[y] = printing[y]
                                  THEN IF f[y] = head THEN Done ELSE (f[y] + 1) % PpqModulus
                                  ELSE f[y]
  <1> USE SpaceFacts
  <1> DEFINE Loop(f) == [y \in 0 .. NumPrinters |->
                           IF y = 0 THEN j
                           ELSE IF f[y - 1] = printing[y - 1]
                                THEN IF f[y - 1] = head THEN Done ELSE (f[y - 1] + 1) % PpqModulus
                                ELSE f[y - 1]]
             past == CHOOSE f : f = Loop(f)
  <1>1. ASSUME NEW f
        PROVE  Past(j, NumPrinters, f) <=> f = Loop(f)
    <2>1. \A y \in 0 .. NumPrinters : y # 0 => y - 1 \in Printers
      OBVIOUS
    <2>2. \A y \in 0 .. NumPrinters : NextPast(j, f, y) = Loop(f)[y]
      BY <2>1 DEF NextPast, PastOne
    <2>3. [y \in 0 .. NumPrinters |-> NextPast(j, f, y)] = Loop(f)
      BY <2>2
    <2> HIDE DEF Loop
    <2>4. QED
      BY <2>3 DEF Past
  <1>2. \E f : f = Loop(f)
    <2>1. PICK f : Past(j, NumPrinters, f)
      BY PastExists
    <2> HIDE DEF Loop
    <2>2. QED
      BY <1>1, <2>1
  <1>3. past = Loop(past)
    <2> HIDE DEF Loop
    <2>1. QED
      BY <1>2
  <1>4. PastPrinting(j) = past[NumPrinters]
    BY DEF PastPrinting
  <1>5. Past(j, NumPrinters, past)
    BY <1>1, <1>3
  <1> HIDE DEF past
  <1>6. past[0] = j
    BY <1>5, PastStep DEF NextPast
  <1>7. ASSUME NEW y \in Printers
        PROVE  past[y + 1] = IF past[y] = printing[y]
                             THEN IF past[y] = head THEN Done ELSE (past[y] + 1) % PpqModulus
                             ELSE past[y]
    <2>1. y + 1 \in 0 .. NumPrinters /\ y + 1 # 0 /\ (y + 1) - 1 = y
      OBVIOUS
    <2>2. past[y + 1] = NextPast(j, past, y + 1)
      BY <1>5, <2>1, PastStep
    <2>3. NextPast(j, past, y + 1) = PastOne(past[y])[y]
      BY <2>1 DEF NextPast
    <2>4. QED
      BY <2>2, <2>3 DEF PastOne
  <1>8. QED
    BY <1>4, <1>6, <1>7

\* Places tell numbers apart, the next number is one place further, and slots
\* are passed in the order of the distances.
LEMMA Places ==
    ASSUME tail \in Slots, NEW k \in Walked, NEW v \in Walked
    PROVE  /\ Place(k) \in Nat /\ Place(k) < PpqModulus
           /\ Place(v) \in Nat /\ Place(v) < PpqModulus
           /\ Place(k) = Place(v) => k = v
           /\ Place(tail) = 0
  BY SpaceFacts DEF Place, Steps, Walked

LEMMA NextPlace ==
    ASSUME tail \in Slots, NEW v \in Walked
    PROVE  /\ (v + 1) % PpqModulus \in Walked
           /\ Place(v) # PpqModulus - 1 => Place((v + 1) % PpqModulus) = Place(v) + 1
           /\ (v + 1) % PpqModulus # v
  <1> DEFINE n == v + 1
             m == PpqModulus
  <1>1. n \in Nat /\ m \in Nat /\ m > 0 /\ n < m + m
    BY SpaceFacts DEF Walked
  <1>2. n % m = IF n < m THEN n ELSE n - m
    <2> HIDE DEF n, m
    <2>1. QED
      BY <1>1, SmallRemainder
  <1>3. (v + 1) % PpqModulus = IF v + 1 < PpqModulus THEN v + 1 ELSE v + 1 - PpqModulus
    BY <1>1, <1>2 DEF Walked
  <1>4. QED
    BY <1>3, SpaceFacts DEF Place, Steps, Walked

LEMMA PlaceOnSlots ==
    ASSUME tail \in Slots, NEW k \in Slots, NEW v \in Slots, Dist(tail, k) <= Dist(tail, v)
    PROVE  k \in Walked /\ v \in Walked /\ Place(k) <= Place(v)
  BY SpaceFacts DEF Place, Steps, Dist, Walked

\* What PastPrinting passes is in printing_jobs, and so is the head when it
\* comes to the end.
LEMMA PastWalk ==
    ASSUME ProgramTypes, tail \in Slots, head \in Slots, NEW j \in Walked, Place(j) <= Place(head)
    PROVE  LET r == PastPrinting(j)
               over(n) == \A k \in Walked : Place(j) <= Place(k) /\ Place(k) < n
                             => \E y \in Printers : printing[y] = k
           IN  \/ r = Done /\ over(Place(head) + 1)
               \/ /\ r \in Walked /\ Place(j) <= Place(r) /\ Place(r) <= Place(head)
                  /\ over(Place(r))
  <1> DEFINE over(n) == \A k \in Walked : Place(j) <= Place(k) /\ Place(k) < n
                           => \E y \in Printers : printing[y] = k
             Right(v) == \/ v = Done /\ over(Place(head) + 1)
                         \/ /\ v \in Walked /\ Place(j) <= Place(v) /\ Place(v) <= Place(head)
                            /\ over(Place(v))
  <1>1. PICK f : /\ f[0] = j /\ PastPrinting(j) = f[NumPrinters]
                 /\ \A y \in Printers :
                      f[y + 1] = IF f[y] = printing[y]
                                 THEN IF f[y] = head THEN Done ELSE (f[y] + 1) % PpqModulus
                                 ELSE f[y]
    BY PastPrinters
  <1>2. head \in Walked /\ Done \notin Walked
    BY SpaceFacts DEF Walked, Done
  <1>3. \A k \in Walked : Place(k) \in Nat /\ Place(k) < PpqModulus
    BY Places
  <1>4. \A k \in Walked : \A v \in Walked : Place(k) = Place(v) => k = v
    BY Places
  <1>5. Right(j)
    BY <1>3
  <1>6. ASSUME NEW y \in Printers, Right(f[y])
        PROVE  Right(f[y + 1])
    <2> DEFINE v == f[y]
    <2>1. f[y + 1] = IF v = printing[y]
                     THEN IF v = head THEN Done ELSE (v + 1) % PpqModulus
                     ELSE v
      BY <1>1
    <2>2. CASE v # printing[y]
      BY <1>6, <2>1, <2>2
    <2>3. CASE v = printing[y] /\ v = head
      <3>1. \A k \in Walked : Place(k) < Place(head) + 1 => Place(k) < Place(v) \/ k = v
        BY <1>2, <1>3, <1>4, <2>3
      <3>2. over(Place(v))
        BY <1>2, <1>6, <2>3
      <3>3. over(Place(head) + 1)
        BY <2>3, <3>1, <3>2
      <3>4. QED
        BY <2>1, <2>3, <3>3
    <2>4. CASE v = printing[y] /\ v # head
      <3>1. v # Done
        BY <2>4, SpaceFacts DEF ProgramTypes, Done
      <3>2. v \in Walked /\ Place(j) <= Place(v) /\ Place(v) <= Place(head) /\ over(Place(v))
        BY <1>6, <3>1
      <3>3. Place(v) < Place(head) /\ Place(v) # PpqModulus - 1
        <4>1. Place(v) # Place(head)
          BY <1>2, <1>4, <2>4, <3>2
        <4>2. /\ Place(v) \in Nat /\ Place(head) \in Nat /\ Place(head) < PpqModulus
              /\ Place(v) <= Place(head)
          BY <1>2, <1>3, <3>2
        <4>3. QED
          BY <4>1, <4>2, SpaceFacts
      <3>4. /\ (v + 1) % PpqModulus \in Walked
            /\ Place((v + 1) % PpqModulus) = Place(v) + 1
        BY <3>2, <3>3, NextPlace
      <3>5. \A k \in Walked : Place(k) < Place(v) + 1 => Place(k) < Place(v) \/ k = v
        BY <1>3, <1>4, <3>2
      <3>6. over(Place(v) + 1)
        BY <2>4, <3>2, <3>5
      <3>7. Place(j) <= Place(v) + 1 /\ Place(v) + 1 <= Place(head)
        BY <1>2, <1>3, <3>2, <3>3
      <3>8. Right((v + 1) % PpqModulus)
        BY <3>4, <3>6, <3>7
      <3>9. QED
        BY <2>1, <2>4, <3>8
    <2>5. QED
      BY <2>2, <2>3, <2>4
  <1> HIDE DEF Right
  <1> DEFINE Bad == {n \in Nat : n <= NumPrinters /\ ~Right(f[n])}
  <1>7. Bad = {}
    <2>1. SUFFICES ASSUME Bad # {} PROVE FALSE
      OBVIOUS
    <2>2. PICK n \in Bad : \A k \in Bad : n <= k
      BY <2>1, Least
    <2>3. n # 0
      BY <1>1, <1>5, <2>2
    <2>4. n - 1 \in Printers /\ n - 1 \notin Bad /\ n - 1 \in Nat /\ n - 1 <= NumPrinters
      BY <2>2, <2>3, SpaceFacts
    <2>5. Right(f[n - 1])
      BY <2>4
    <2>6. Right(f[(n - 1) + 1])
      BY <1>6, <2>4, <2>5
    <2>7. QED
      BY <2>2, <2>6
  <1>8. Right(PastPrinting(j))
    BY <1>1, <1>7, SpaceFacts
  <1>9. QED
    BY <1>8 DEF Right

\* If it comes to a job that is at a printer, then from the number before, and
\* that one is at a printer further on.
LEMMA PastBehind ==
    ASSUME tail \in Slots, NEW i, NEW j \in Walked, PastPrinting(i) = j,
           NEW p \in Printers, printing[p] = j
    PROVE  \E q \in Printers : p < q /\ (printing[q] + 1) % PpqModulus = j
  <1>1. PICK f : /\ f[0] = i /\ PastPrinting(i) = f[NumPrinters]
                 /\ \A y \in Printers :
                      f[y + 1] = IF f[y] = printing[y]
                                 THEN IF f[y] = head THEN Done ELSE (f[y] + 1) % PpqModulus
                                 ELSE f[y]
    BY PastPrinters
  <1>2. j # Done /\ (j + 1) % PpqModulus # j
    BY NextPlace, SpaceFacts DEF Walked, Done
  <1>3. f[p + 1] # j
    BY <1>1, <1>2
  <1> DEFINE There == {n \in Nat : p + 1 <= n /\ n <= NumPrinters /\ f[n] = j}
  <1>4. NumPrinters \in There
    BY <1>1, SpaceFacts
  <1>5. PICK n \in There : \A k \in There : n <= k
    BY <1>4, Least
  <1>6. n # p + 1 /\ n - 1 \in Nat /\ p < n - 1 /\ n - 1 <= NumPrinters /\ n - 1 \notin There
    BY <1>3, <1>5, SpaceFacts
  <1>7. n - 1 \in Printers /\ f[n - 1] # j /\ f[(n - 1) + 1] = j
    BY <1>5, <1>6, SpaceFacts
  <1>8. f[n - 1] = printing[n - 1] /\ (f[n - 1] + 1) % PpqModulus = j
    BY <1>1, <1>2, <1>7
  <1>9. QED
    BY <1>6, <1>7, <1>8

-----------------------------------------------------------------------------
(* What has been shown, and what printing_jobs says.                       *)

LEMMA PrintingKept ==
    ASSUME SpoolTypes, ProgramTypes, DirectorySound, PrintingShown, Next
    PROVE  PrintingShown'
  <1> USE DEF PrintingShown
  <1>1. CASE Queue
    <2>1. UNCHANGED <<known, printing, pc, x>> /\ pc \notin Ends
      BY <1>1, QueueTypes
    <2>2. steady' \subseteq steady /\ shown' = shown \cap steady'
      BY <1>1, QueueFacts
    <2>3. QED
      BY <2>1, <2>2 DEF Ends
  <1>2. CASE Start
    <2>1. /\ \A y \in Printers : printing[y] = -1
          /\ printing' = printing /\ steady' \subseteq Slots
      BY <1>2 DEF Start, ProgramTypes, SpoolTypes
    <2>2. QED
      BY <2>1, SpaceFacts
  <1>3. CASE \E active \in BOOLEAN : ShowQueueStatus(active)
    <2>1. /\ \A y \in Printers : printing[y] = -1
          /\ steady' \subseteq Slots
          /\ known' = FALSE \/ printing' = printing
      BY <1>3 DEF ShowQueueStatus, history, ProgramTypes, DirectorySound, SpoolTypes
    <2>2. QED
      BY <2>1, SpaceFacts
  <1>4. CASE PrintersShown
    BY <1>4 DEF PrintersShown, report, history
  <1>5. CASE TestStatusFile
    <2>1. /\ \A y \in Printers : printing'[y] = printing[y] \/ printing'[y] = -1
          /\ UNCHANGED <<known, steady, shown>> /\ pc = "printers"
      BY <1>5 DEF TestStatusFile, NextPrinter, report, history, ProgramTypes
    <2>2. -1 \notin steady
      BY SpaceFacts DEF DirectorySound, SpoolTypes
    <2>3. QED
      BY <2>1, <2>2
  <1>6. CASE ReadStatus
    <2>1. /\ UNCHANGED <<steady, shown>> /\ pc = "readstatus"
          /\ \/ known' = FALSE
             \/ pc' = "error"
             \/ /\ pc' = "readinf" /\ x' = x /\ known' = known
                /\ \A y \in Printers : y # x => printing'[y] = printing[y]
      BY <1>6 DEF ReadStatus, report, history, ProgramTypes
    <2>2. QED
      BY <2>1
  <1>7. CASE ShowPrinter
    <2>1. /\ pc = "readinf" /\ x \in Printers /\ num \in Slots
          /\ UNCHANGED <<steady, known>>
      BY <1>7 DEF ShowPrinter, history, ProgramTypes
    <2>2. CASE pc' = "error"
      BY <2>2
    <2>3. CASE pc' # "error"
      <3>1. printing' = [printing EXCEPT ![x] = num]
        BY <1>7, <2>3 DEF ShowPrinter, NextPrinter
      <3>2. num \in steady => shown' = shown \cup {num}
        BY <1>7 DEF ShowPrinter, DirectorySound
      <3>3. shown \subseteq shown'
        BY <1>7 DEF ShowPrinter
      <3>4. \A y \in Printers : printing'[y] = IF y = x THEN num ELSE printing[y]
        BY <2>1, <3>1 DEF ProgramTypes
      <3>5. QED
        BY <2>1, <3>2, <3>3, <3>4
    <2>4. QED
      BY <2>2, <2>3
  <1>8. CASE OpenDirectory
    BY <1>8 DEF OpenDirectory, report, history, local
  <1>9. CASE \E val \in unread \cup fresh : ReadEntry(val)
    BY <1>9 DEF ReadEntry, report, history, Scans
  <1>10. CASE CloseTail \/ CloseHead
    BY <1>10 DEF CloseTail, CloseHead, report, history, local
  <1>11. CASE ShowWaitingJob
    BY <1>11 DEF ShowWaitingJob, history
  <1>12. CASE RmCheckAccess \/ RmLockInf \/ RmUnlinkDat
    BY <1>12 DEF RmCheckAccess, RmLockInf, RmUnlinkDat, report, history, local
  <1>13. CASE RmUnlinkInf
    BY <1>13 DEF RmUnlinkInf, Forget, local
  <1>14. QED
    BY <1>1, <1>2, <1>3, <1>4, <1>5, <1>6, <1>7, <1>8, <1>9, <1>10, <1>11, <1>12, <1>13
    DEF Next, Program

LEMMA ShownKept ==
    ASSUME SpoolTypes, ProgramTypes, DirectorySound, ShownPrinting, Next
    PROVE  ShownPrinting'
  <1> DEFINE visiting == {"printers", "readstatus", "readinf"}
             after == {"opentail", "tailscan", "openhead", "headscan", "show"}
  <1>1. CASE Queue
    <2>1. UNCHANGED <<printing, pc, x>> /\ shown' \subseteq shown /\ listed' \subseteq listed
      BY <1>1, QueueTypes, QueueFacts
    <2>2. QED
      BY <2>1 DEF ShownPrinting
  <1>2. CASE Start
    <2>1. /\ shown' = shown /\ listed' = listed /\ pc = "idle"
      BY <1>2 DEF Start, report
    <2>2. shown = {} /\ listed = {}
      BY <2>1 DEF ShownPrinting
    <2>3. QED
      BY <2>1, <2>2 DEF ShownPrinting
  <1>3. CASE \E active \in BOOLEAN : ShowQueueStatus(active)
    <2>1. /\ shown' = shown /\ listed' = listed /\ pc = "queue"
      BY <1>3 DEF ShowQueueStatus, report
    <2>2. shown = {} /\ listed = {}
      BY <2>1 DEF ShownPrinting
    <2>3. QED
      BY <2>1, <2>2 DEF ShownPrinting
  <1>4. CASE PrintersShown
    BY <1>4 DEF PrintersShown, report, ShownPrinting
  <1>5. CASE TestStatusFile
    <2>1. /\ UNCHANGED <<shown, listed>> /\ pc = "printers" /\ x \in Printers
          /\ \/ pc' = "readstatus" /\ UNCHANGED <<x, printing>>
             \/ pc' = "printers" /\ x' = x + 1 /\ printing' = [printing EXCEPT ![x] = -1]
      BY <1>5, SpaceFacts DEF TestStatusFile, NextPrinter, report, ProgramTypes
    <2>2. \A s \in shown : \E p \in Printers : p < x' /\ printing'[p] = s
      <3>1. TAKE s \in shown
      <3>2. PICK p \in Printers : p < x /\ printing[p] = s
        BY <2>1 DEF ShownPrinting
      <3>3. p < x' /\ printing'[p] = s
        BY <2>1, <3>2, SpaceFacts DEF ProgramTypes
      <3>4. QED
        BY <3>3
    <2>3. QED
      BY <2>1, <2>2 DEF ShownPrinting
  <1>6. CASE ReadStatus
    <2>1. /\ UNCHANGED <<shown, listed>> /\ pc = "readstatus" /\ x \in Printers
          /\ pc' \in {"readinf", "error", "printers"}
      BY <1>6 DEF ReadStatus, NextPrinter, report, ProgramTypes
    <2>2. /\ x' = x \/ x' = x + 1
          /\ \A p \in Printers : p # x => printing'[p] = printing[p]
      BY <1>6 DEF ReadStatus, NextPrinter, ProgramTypes
    <2>3. \A s \in shown : \E p \in Printers : p < x' /\ printing'[p] = s
      <3>1. TAKE s \in shown
      <3>2. PICK p \in Printers : p < x /\ printing[p] = s
        BY <2>1 DEF ShownPrinting
      <3>3. p < x' /\ printing'[p] = s
        BY <2>1, <2>2, <3>2, SpaceFacts
      <3>4. QED
        BY <3>3
    <2>4. QED
      BY <2>1, <2>3 DEF ShownPrinting
  <1>7. CASE ShowPrinter
    <2>1. /\ listed' = listed /\ pc = "readinf" /\ x \in Printers /\ listed = {}
      BY <1>7 DEF ShowPrinter, ShownPrinting, ProgramTypes, Ends
    <2>2. CASE pc' = "error"
      BY <2>2 DEF ShownPrinting
    <2>3. CASE pc' # "error"
      <3>1. /\ pc' = "printers" /\ x' = x + 1 /\ printing' = [printing EXCEPT ![x] = num]
            /\ shown' \subseteq shown \cup {num}
        BY <1>7, <2>3 DEF ShowPrinter, NextPrinter
      <3>2. ASSUME NEW s \in shown'
            PROVE  \E p \in Printers : p < x' /\ printing'[p] = s
        <4>1. CASE s = num
          <5>1. x < x' /\ printing'[x] = s
            BY <2>1, <3>1, <4>1, SpaceFacts DEF ProgramTypes
          <5>2. QED
            BY <2>1, <5>1
        <4>2. CASE s # num
          <5>1. PICK p \in Printers : p < x /\ printing[p] = s
            BY <2>1, <3>1, <4>2 DEF ShownPrinting
          <5>2. p < x' /\ printing'[p] = s
            BY <2>1, <3>1, <5>1, SpaceFacts DEF ProgramTypes
          <5>3. QED
            BY <5>2
        <4>3. QED
          BY <4>1, <4>2
      <3>3. QED
        BY <2>1, <3>1, <3>2 DEF ShownPrinting
    <2>4. QED
      BY <2>2, <2>3
  <1>8. CASE OpenDirectory
    BY <1>8 DEF OpenDirectory, report, local, ShownPrinting
  <1>9. CASE \E val \in unread \cup fresh : ReadEntry(val)
    BY <1>9 DEF ReadEntry, report, ShownPrinting, Scans
  <1>10. CASE CloseTail
    BY <1>10 DEF CloseTail, report, local, ShownPrinting
  <1>11. CASE CloseHead
    BY <1>11 DEF CloseHead, report, ShownPrinting
  <1>12. CASE ShowWaitingJob
    <2>1. pc = "show" /\ pc' \in {"show", "done", "error"} /\ UNCHANGED <<shown, printing>>
      BY <1>12 DEF ShowWaitingJob
    <2>2. QED
      BY <2>1 DEF ShownPrinting
  <1>13. CASE RmCheckAccess \/ RmLockInf \/ RmUnlinkDat
    BY <1>13 DEF RmCheckAccess, RmLockInf, RmUnlinkDat, RmGoOn, report, local, ShownPrinting
  <1>14. CASE RmUnlinkInf
    BY <1>14 DEF RmUnlinkInf, Forget, local, ShownPrinting
  <1>15. QED
    BY <1>1, <1>2, <1>3, <1>4, <1>5, <1>6, <1>7, <1>8, <1>9, <1>10, <1>11, <1>12, <1>13, <1>14
    DEF Next, Program

LEMMA ListedBehindKept ==
    ASSUME SpoolTypes, ProgramTypes, DirectorySound, ShownPrinting, ListedBehind, Next
    PROVE  ListedBehind'
  <1>1. CASE Queue
    <2>1. UNCHANGED <<printing, pc>> /\ shown' \subseteq shown /\ listed' \subseteq listed
      BY <1>1, QueueTypes, QueueFacts
    <2>2. QED
      BY <2>1 DEF ListedBehind
  <1>2. CASE /\ Program /\ ~ShowWaitingJob /\ ~RmUnlinkInf
    <2>1. pc' \in {"show", "done"} => shown' \cap listed' = {}
      <3>1. CASE Start \/ \E active \in BOOLEAN : ShowQueueStatus(active)
        BY <3>1 DEF Start, ShowQueueStatus, ProgramTypes
      <3>2. CASE PrintersShown \/ TestStatusFile \/ ReadStatus \/ ShowPrinter
        BY <3>2 DEF PrintersShown, TestStatusFile, ReadStatus, ShowPrinter, NextPrinter,
                    ProgramTypes
      <3>3. CASE OpenDirectory \/ \E val \in unread \cup fresh : ReadEntry(val)
        BY <3>3 DEF OpenDirectory, ReadEntry, Scans
      <3>4. CASE CloseTail \/ CloseHead
        BY <3>4 DEF CloseTail, CloseHead, report, ShownPrinting
      <3>5. CASE RmCheckAccess \/ RmLockInf \/ RmUnlinkDat
        <4>1. prog = "pprm" /\ UNCHANGED <<shown, listed>>
          BY <3>5 DEF RmCheckAccess, RmLockInf, RmUnlinkDat, report, ProgramTypes
        <4>2. QED
          BY <4>1 DEF DirectorySound
      <3>6. QED
        BY <1>2, <3>1, <3>2, <3>3, <3>4, <3>5 DEF Program
    <2>2. QED
      BY <2>1 DEF ListedBehind
  <1>3. CASE RmUnlinkInf
    BY <1>3 DEF RmUnlinkInf, ListedBehind
  <1>4. CASE ShowWaitingJob
    <2> DEFINE j == PastPrinting(jobnum)
    <2>1. /\ pc = "show" /\ UNCHANGED <<shown, printing>> /\ tail \in Slots
          /\ listed' = listed \/ (IsWhole(j) /\ listed' = listed \cup ({j} \cap steady))
      BY <1>4 DEF ShowWaitingJob, ProgramTypes
    <2>2. ASSUME NEW s \in shown' \cap listed'
          PROVE  \E p, q \in Printers :
                     p < q /\ printing[p] = s /\ (printing[q] + 1) % PpqModulus = s
      <3>1. CASE s \in listed
        BY <2>1, <2>2, <3>1 DEF ListedBehind
      <3>2. CASE s \notin listed
        <4>1. s = j /\ s \in Walked
          BY <2>1, <2>2, <3>2, SpaceFacts DEF IsWhole, Walked
        <4>2. PICK p \in Printers : printing[p] = s
          BY <2>1, <2>2 DEF ShownPrinting
        <4>3. QED
          BY <2>1, <4>1, <4>2, PastBehind
      <3>3. QED
        BY <3>1, <3>2
    <2>3. QED
      BY <2>1, <2>2 DEF ListedBehind
  <1>5. QED
    BY <1>1, <1>2, <1>3, <1>4 DEF Next

-----------------------------------------------------------------------------
(* No job that waits is left behind.                                       *)

\* One turn of the loop of ppq and lpq.
LEMMA ShowTurn ==
    ASSUME SpoolTypes, ProgramTypes, DirectorySound, ScansRight, PrintingShown, WalkRight,
           ShowWaitingJob
    PROVE  /\ pc' = "show" => /\ jobnum' \in Walked
                              /\ Place(jobnum') <= Place(head)
           /\ pc' = "show" /\ arrivals <= 1 /\ known =>
                 \A s \in steady \ (shown \cup listed') : Place(jobnum') <= Place(s)
           /\ pc' = "done" /\ arrivals <= 1 /\ known => steady \subseteq shown \cup listed'
  <1> DEFINE j == PastPrinting(jobnum)
             broken == prog = "ppq" /\ j \in Files /\ ~IsWhole(j)
             over(n) == \A k \in Walked : Place(jobnum) <= Place(k) /\ Place(k) < n
                           => \E y \in Printers : printing[y] = k
  <1>1. /\ pc = "show" /\ tail \in Slots /\ head \in Slots /\ head \in Walked
        /\ jobnum \in Walked /\ Place(jobnum) <= Place(head)
    BY SpaceFacts DEF ShowWaitingJob, ProgramTypes, WalkRight, Walked
  <1>2. \/ j = Done /\ over(Place(head) + 1)
        \/ /\ j \in Walked /\ Place(jobnum) <= Place(j) /\ Place(j) <= Place(head)
           /\ over(Place(j))
    BY <1>1, PastWalk
  <1>3. /\ listed' = IF IsWhole(j) /\ (prog = "lpq" => j \in dat)
                     THEN listed \cup ({j} \cap steady) ELSE listed
        /\ pc' = "show" => j # Done /\ j # head /\ jobnum' = (j + 1) % PpqModulus
        /\ pc' = "done" => j = Done \/ j = head
    <2>1. /\ listed' = IF IsWhole(j) /\ (prog = "lpq" => j \in dat)
                       THEN listed \cup ({j} \cap steady) ELSE listed
          /\ pc' = CASE broken -> "error"
                     [] ~broken /\ (j = Done \/ GoOn(j) = Done) -> "done"
                     [] OTHER -> "show"
          /\ jobnum' = IF broken \/ (j = Done \/ GoOn(j) = Done) THEN jobnum ELSE GoOn(j)
      BY DEF ShowWaitingJob
    <2>2. j \in Walked => (j + 1) % PpqModulus # Done
      BY <1>1, NextPlace, SpaceFacts DEF Walked, Done
    <2>3. j # Done => (GoOn(j) = Done <=> j = head)
      BY <1>2, <2>2 DEF GoOn
    <2> HIDE DEF j, broken
    <2>4. QED
      BY <2>1, <2>3 DEF GoOn
  <1> HIDE DEF j
  <1>4. \A k \in Walked : Place(k) \in Nat /\ Place(k) < PpqModulus
    BY <1>1, Places
  <1>5. \A k \in Walked : \A v \in Walked : Place(k) = Place(v) => k = v
    BY <1>1, Places
  <1>6. CASE pc' = "show"
    <2>1. /\ j \in Walked /\ j # head /\ Place(j) <= Place(head) /\ over(Place(j))
          /\ jobnum' = (j + 1) % PpqModulus
      BY <1>2, <1>3, <1>6
    <2>2. Place(j) # Place(head)
      BY <1>1, <1>5, <2>1
    <2>3. Place(j) < Place(head) /\ Place(j) # PpqModulus - 1
      BY <1>1, <1>4, <2>1, <2>2, SpaceFacts
    <2>4. jobnum' \in Walked /\ Place(jobnum') = Place(j) + 1
      BY <1>1, <2>1, <2>3, NextPlace
    <2>5. Place(jobnum') <= Place(head)
      BY <1>1, <1>4, <2>1, <2>3, <2>4
    <2>6. ASSUME arrivals <= 1, known, NEW s \in steady \ (shown \cup listed')
          PROVE  Place(jobnum') <= Place(s)
      <3>1. s \in Walked /\ inf[s] = "whole" /\ s \in dat /\ s \in Slots
        BY <2>6, SpaceFacts DEF DirectorySound, SpoolTypes, Walked
      <3>2. s \notin listed /\ s # j
        BY <1>3, <2>6, <3>1 DEF IsWhole
      <3>3. Place(jobnum) <= Place(s)
        BY <1>1, <2>6, <3>2 DEF WalkRight
      <3>4. \A y \in Printers : printing[y] # s
        BY <1>1, <2>6 DEF PrintingShown
      <3>5. ~(Place(s) < Place(j))
        BY <2>1, <3>1, <3>3, <3>4
      <3>6. Place(s) # Place(j)
        BY <1>5, <2>1, <3>1, <3>2
      <3>7. QED
        BY <1>4, <2>1, <2>4, <3>1, <3>5, <3>6
    <2>7. QED
      BY <1>6, <2>4, <2>5, <2>6
  <1>7. CASE pc' = "done"
    <2>1. ASSUME arrivals <= 1, known, NEW s \in steady, s \notin shown, s \notin listed'
          PROVE  FALSE
      <3>1. s \in Walked /\ inf[s] = "whole" /\ s \in dat /\ s \in Slots
        BY <2>1, SpaceFacts DEF DirectorySound, SpoolTypes, Walked
      <3>2. s \notin listed /\ s # j
        BY <1>3, <2>1, <3>1 DEF IsWhole
      <3>3. Place(jobnum) <= Place(s)
        BY <1>1, <2>1, <3>2 DEF WalkRight
      <3>4. \A y \in Printers : printing[y] # s
        BY <1>1, <2>1 DEF PrintingShown
      <3>5. Place(s) <= Place(head)
        <4>1. Dist(tail, s) <= Dist(tail, head)
          BY <1>1, <2>1 DEF ScansRight
        <4>2. QED
          BY <1>1, <3>1, <4>1, PlaceOnSlots
      <3>6. CASE j = Done
        <4>1. over(Place(head) + 1)
          BY <1>2, <3>6, SpaceFacts DEF Walked, Done
        <4>2. Place(s) < Place(head) + 1
          BY <1>1, <1>4, <3>1, <3>5
        <4>3. QED
          BY <3>1, <3>3, <3>4, <4>1, <4>2
      <3>7. CASE j = head
        <4>1. over(Place(head))
          BY <1>1, <1>2, <3>7, SpaceFacts DEF Walked, Done
        <4>2. ~(Place(s) < Place(head))
          BY <3>1, <3>3, <3>4, <4>1
        <4>3. Place(s) # Place(head)
          BY <1>1, <1>5, <3>1, <3>2, <3>7
        <4>4. QED
          BY <1>1, <1>4, <3>1, <3>5, <4>2, <4>3
      <3>8. QED
        BY <1>3, <1>7, <3>6, <3>7
    <2>2. QED
      BY <1>7, <2>1
  <1>8. QED
    BY <1>6, <1>7

\* Going on from jobnum, which has none of the waiting jobs, pprm leaves none
\* behind.
LEMMA RmTurn ==
    ASSUME SpoolTypes, ProgramTypes, DirectorySound, ScansRight, WalkRight,
           pc \in {"rmlock", "rmdat"}, RmGoOn, jobnum \notin steady, arrivals <= 1
    PROVE  \A s \in steady : pc' # "done" /\ Dist(tail, s) >= Dist(tail, jobnum')
  <1> SUFFICES ASSUME NEW s \in steady
               PROVE  pc' # "done" /\ Dist(tail, s) >= Dist(tail, jobnum')
    OBVIOUS
  <1>1. /\ prog = "pprm" /\ tail \in Slots /\ head \in Slots /\ jobnum \in Slots /\ s \in Slots
        /\ jobnum # -1
    BY SpaceFacts DEF ProgramTypes, DirectorySound, SpoolTypes
  <1>2. Dist(tail, s) >= Dist(tail, jobnum)
    BY <1>1 DEF WalkRight, RemovedUpToHere, Steps, Dist
  <1>3. Dist(tail, s) <= Dist(tail, head)
    BY DEF ScansRight
  <1>4. /\ Dist(tail, s) \in Nat /\ Dist(tail, s) < IndexSpace
        /\ Dist(tail, jobnum) \in Nat /\ Dist(tail, head) \in Nat
        /\ Dist(tail, s) # Dist(tail, jobnum)
    BY <1>1, Positions
  <1>5. jobnum # head
    BY <1>2, <1>3, <1>4
  <1>6. pc' = "rm" /\ jobnum' = NextIndex(jobnum)
    BY <1>1, <1>5, RmNextSlot DEF RmGoOn
  <1>7. Dist(tail, jobnum') = Dist(tail, jobnum) + 1
    BY <1>1, <1>2, <1>4, <1>6, OneFurther, SpaceFacts
  <1>8. QED
    BY <1>2, <1>4, <1>6, <1>7

LEMMA WalkRightKept ==
    ASSUME SpoolTypes, ProgramTypes, DirectorySound, ScansRight, PrintingShown, WalkRight, Next
    PROVE  WalkRight'
  <1> USE SpaceFacts
  <1>1. CASE Queue
    <2>1. UNCHANGED <<prog, head, tail, jobnum, known, pc>> /\ pc \notin Ends
      BY <1>1, QueueTypes
    <2>2. /\ steady' \subseteq steady /\ shown' = shown \cap steady'
          /\ listed' = listed \cap steady' /\ (arrivals' <= 1 => arrivals <= 1)
      BY <1>1, QueueFacts DEF ProgramTypes
    <2>3. /\ pc' = "show" => jobnum' \in Walked /\ Place(jobnum)' <= Place(head)'
          /\ pc' = "show" /\ arrivals' <= 1 /\ known' =>
                 \A s \in steady' \ (shown' \cup listed') : Place(jobnum)' <= Steps(tail', s, PpqModulus)
      BY <2>1, <2>2 DEF WalkRight, Place, Steps
    <2>4. EveryJobShown'
      BY <2>1 DEF EveryJobShown, Ends
    <2>5. RemovedUpToHere'
      BY <2>1, <2>2 DEF WalkRight, RemovedUpToHere, Steps
    <2>6. QED
      BY <2>3, <2>4, <2>5 DEF WalkRight, Place, Steps
  <1>2. ASSUME pc' \notin {"show", "done"}, jobnum' = -1
        PROVE  WalkRight'
    BY <1>2 DEF WalkRight, EveryJobShown, RemovedUpToHere
  <1>3. CASE Start \/ \E active \in BOOLEAN : ShowQueueStatus(active)
    BY <1>2, <1>3 DEF Start, ShowQueueStatus, ProgramTypes
  <1>4. CASE PrintersShown \/ TestStatusFile \/ ReadStatus \/ ShowPrinter
    <2>1. jobnum' = -1
      BY <1>4 DEF PrintersShown, TestStatusFile, ReadStatus, ShowPrinter, ProgramTypes
    <2>2. pc' \notin {"show", "done"}
      BY <1>4 DEF PrintersShown, TestStatusFile, NextPrinter, ReadStatus, ShowPrinter,
                  ProgramTypes
    <2>3. QED
      BY <1>2, <2>1, <2>2
  <1>5. CASE OpenDirectory \/ \E val \in unread \cup fresh : ReadEntry(val)
    BY <1>2, <1>5 DEF OpenDirectory, ReadEntry, Scans, local, ProgramTypes
  <1>6. CASE CloseTail
    <2>1. /\ jobnum' = -1 /\ pc' \in {"openhead", "stopped", "done"}
          /\ UNCHANGED <<steady, arrivals, prog>>
          /\ pc' = "done" => tail = -1
      BY <1>6 DEF CloseTail, history, local, ProgramTypes
    <2>2. EveryJobShown'
      BY <1>6, <2>1, CloseTailRight DEF EveryJobShown
    <2>3. QED
      BY <2>1, <2>2 DEF WalkRight, RemovedUpToHere
  <1>7. CASE CloseHead
    <2>1. /\ pc' \in {"error", "rm", "show"} /\ jobnum' = tail /\ tail \in Slots
          /\ pc' = "show" => head \in Slots
          /\ UNCHANGED <<steady, shown, listed, tail, head, prog>>
      BY <1>7 DEF CloseHead, report, history, ProgramTypes, Numbers
    <2>2. tail \in Walked /\ (head \in Slots => head \in Walked) /\ \A s \in steady : s \in Walked
      BY <2>1 DEF Walked, DirectorySound, SpoolTypes
    <2>3. /\ Place(tail) = 0 /\ (head \in Slots => Place(head) \in Nat)
          /\ \A s \in steady : Place(s) \in Nat
      BY <2>1, <2>2, Places
    <2>4. \A s \in steady : Dist(tail, s) \in Nat /\ Dist(tail, tail) = 0
      BY <2>1, Positions DEF DirectorySound, SpoolTypes
    <2>5. RemovedUpToHere'
      BY <2>1, <2>4 DEF RemovedUpToHere, Steps, Dist
    <2>6. /\ pc' = "show" => jobnum' \in Walked /\ Place(jobnum)' <= Place(head)'
          /\ \A s \in steady' : Place(jobnum)' <= Steps(tail', s, PpqModulus)
      BY <2>1, <2>2, <2>3 DEF Place
    <2>7. EveryJobShown'
      BY <2>1 DEF EveryJobShown
    <2>8. QED
      BY <2>5, <2>6, <2>7 DEF WalkRight, Place, Steps
  <1>8. CASE ShowWaitingJob
    <2>1. /\ UNCHANGED <<steady, shown, arrivals, known, tail, head, prog>> /\ prog # "pprm"
      BY <1>8 DEF ShowWaitingJob, history, ProgramTypes
    <2>2. /\ pc' = "show" => /\ jobnum' \in Walked
                             /\ Place(jobnum') <= Place(head)
          /\ pc' = "show" /\ arrivals <= 1 /\ known =>
                \A s \in steady \ (shown \cup listed') : Place(jobnum') <= Place(s)
          /\ pc' = "done" /\ arrivals <= 1 /\ known => steady \subseteq shown \cup listed'
      BY <1>8, ShowTurn
    <2>3. EveryJobShown' /\ RemovedUpToHere'
      BY <2>1, <2>2 DEF EveryJobShown, RemovedUpToHere
    <2>4. /\ pc' = "show" => jobnum' \in Walked /\ Place(jobnum)' <= Place(head)'
          /\ pc' = "show" /\ arrivals' <= 1 /\ known' =>
                 \A s \in steady' \ (shown' \cup listed') : Place(jobnum)' <= Steps(tail', s, PpqModulus)
      BY <2>1, <2>2 DEF Place
    <2>5. QED
      BY <2>3, <2>4 DEF WalkRight, Place, Steps
  <1>9. CASE RmCheckAccess
    <2>1. /\ UNCHANGED <<steady, arrivals, prog, tail, jobnum>> /\ prog = "pprm"
          /\ pc' \in {"rmlock", "denied", "stopped"}
      BY <1>9 DEF RmCheckAccess, history, local, ProgramTypes
    <2>2. EveryJobShown' /\ RemovedUpToHere'
      BY <2>1 DEF WalkRight, EveryJobShown, RemovedUpToHere, Steps
    <2>3. QED
      BY <2>1, <2>2 DEF WalkRight
  <1>10. CASE RmLockInf \/ RmUnlinkDat
    <2>1. /\ UNCHANGED <<steady, arrivals, prog, tail>> /\ prog = "pprm"
          /\ pc \in {"rmlock", "rmdat"} /\ jobnum \in Slots
      BY <1>10 DEF RmLockInf, RmUnlinkDat, history, ProgramTypes
    <2>2. \/ RmGoOn /\ jobnum \notin steady
          \/ jobnum' = jobnum /\ pc' \in {"rminf", "stopped"}
      <3>1. CASE RmLockInf
        <4>1. steady \subseteq Files \ AtPrinter
          BY <2>1 DEF DirectorySound, Files, SpoolTypes
        <4>2. QED
          BY <3>1, <4>1 DEF RmLockInf
      <3>2. CASE RmUnlinkDat
        <4>1. jobnum \notin steady
          BY <2>1, <3>2 DEF RmUnlinkDat, DirectorySound, Files, SpoolTypes
        <4>2. QED
          BY <3>2, <4>1 DEF RmUnlinkDat
      <3>3. QED
        BY <1>10, <3>1, <3>2
    <2>3. arrivals <= 1 => \A s \in steady : pc' # "done" /\ Dist(tail, s) >= Dist(tail, jobnum')
      <3>1. CASE RmGoOn /\ jobnum \notin steady
        BY <2>1, <3>1, RmTurn
      <3>2. CASE jobnum' = jobnum /\ pc' \in {"rminf", "stopped"}
        BY <2>1, <3>2 DEF WalkRight, RemovedUpToHere, Steps, Dist
      <3>3. QED
        BY <2>2, <3>1, <3>2
    <2>4. RemovedUpToHere'
      BY <2>1, <2>3 DEF RemovedUpToHere, Steps, Dist
    <2>5. pc' # "show" /\ EveryJobShown'
      BY <2>1, <2>2 DEF EveryJobShown, RmGoOn
    <2>6. QED
      BY <2>4, <2>5 DEF WalkRight
  <1>11. CASE RmUnlinkInf
    <2>1. /\ UNCHANGED <<arrivals, prog, tail, jobnum>> /\ prog = "pprm"
          /\ steady' \subseteq steady /\ pc' \in {"rmdat", "stopped"}
      BY <1>11 DEF RmUnlinkInf, Forget, local, ProgramTypes
    <2>2. EveryJobShown' /\ RemovedUpToHere'
      BY <2>1 DEF WalkRight, EveryJobShown, RemovedUpToHere, Steps
    <2>3. QED
      BY <2>1, <2>2 DEF WalkRight
  <1>12. QED
    BY <1>1, <1>3, <1>4, <1>5, <1>6, <1>7, <1>8, <1>9, <1>10, <1>11 DEF Next, Program

-----------------------------------------------------------------------------
LEMMA WalkInit == Init => WalkInv
  <1> SUFFICES ASSUME Init PROVE WalkInv
    OBVIOUS
  <1> USE SpaceFacts
  <1>1. PICK oldest \in OldestJobs :
          LET queued == {(oldest + i) % IndexSpace : i \in 0 .. (QUEUE_LENGTH - 1)}
          IN  /\ inf = [s \in Slots |-> IF s \in queued THEN "whole" ELSE "none"]
              /\ dat = queued
    BY DEF Init
  <1>2. oldest \in Slots
    BY JobWalkAssumption
  <1> DEFINE queued == {(oldest + i) % IndexSpace : i \in 0 .. (QUEUE_LENGTH - 1)}
  <1>3. ASSUME NEW i \in 0 .. (QUEUE_LENGTH - 1)
        PROVE  /\ (oldest + i) % IndexSpace \in Slots
               /\ Dist(oldest, (oldest + i) % IndexSpace) < QUEUE_LENGTH
    <2> DEFINE n == oldest + i
               m == IndexSpace
    <2>1. n \in Nat /\ m \in Nat /\ m > 0 /\ n < m + m
      BY <1>2
    <2>2. n % m = IF n < m THEN n ELSE n - m
      <3> HIDE DEF n, m
      <3>1. QED
        BY <2>1, SmallRemainder
    <2>3. QED
      BY <1>2, <2>1, <2>2 DEF Dist
  <1>4. queued \subseteq Slots /\ \A s \in queued : Dist(oldest, s) < QUEUE_LENGTH
    BY <1>3
  <1>5. oldest \in queued
    <2>1. oldest % IndexSpace = oldest
      BY <1>2, SmallRemainder
    <2>2. 0 \in 0 .. (QUEUE_LENGTH - 1) /\ oldest + 0 = oldest
      BY <1>2
    <2>3. QED
      BY <2>1, <2>2
  <1> HIDE DEF queued
  <1>6. Files = queued
    BY <1>1, <1>4 DEF Files, queued
  <1>7. SpoolTypes
    BY <1>1, <1>4 DEF Init, SpoolTypes, Numbers, queued
  <1>8. ProgramTypes
    <2>1. prog \in {"ppq", "lpq", "pprm"}
      BY JobWalkAssumption DEF Init
    <2>2. printing \in [Printers -> Nat \cup {-1}] /\ \A p \in Printers : printing[p] = -1
      BY DEF Init
    <2>3. x \in 0 .. NumPrinters /\ num \in Numbers /\ head \in Numbers /\ tail \in Numbers
      BY DEF Init, Numbers
    <2>4. QED
      BY <2>1, <2>2, <2>3 DEF Init, ProgramTypes, WalkPcs
  <1>9. DirectorySound
    BY <1>4, <1>5, <1>6 DEF Init, DirectorySound, Windowed, InWindowFrom, Scans, AtPrinter
  <1>10. ScansRight /\ PrintingShown /\ ShownPrinting /\ ListedBehind /\ WalkRight
    BY DEF Init, ScansRight, PrintingShown, ShownPrinting, ListedBehind, WalkRight,
           EveryJobShown, RemovedUpToHere
  <1>11. QED
    BY <1>7, <1>8, <1>9, <1>10 DEF WalkInv

LEMMA WalkStep == WalkInv /\ [Next]_vars => WalkInv'
  <1> SUFFICES ASSUME WalkInv, [Next]_vars PROVE WalkInv'
    OBVIOUS
  <1> USE DEF WalkInv
  <1>1. CASE Next
    <2>1. SpoolTypes' /\ ProgramTypes'
      <3>1. CASE Queue
        <4>1. /\ UNCHANGED <<prog, printing, x, num, head, tail, jobnum, known, pc>>
              /\ SpoolTypes'
          BY <3>1, QueueTypes
        <4>2. arrivals' \in Nat
          BY <3>1, QueueFacts DEF ProgramTypes
        <4>3. QED
          BY <4>1, <4>2 DEF ProgramTypes
      <3>2. CASE Program
        BY <3>2, ProgramSpool, ProgramOwnTypes
      <3>3. QED
        BY <1>1, <3>1, <3>2 DEF Next
    <2>2. DirectorySound'
      BY <1>1, QueueKeepsDirectory, ProgramKeepsDirectory DEF Next
    <2>3. ScansRight'
      BY <1>1, QueueKeepsScans, ProgramKeepsScans DEF Next
    <2>4. PrintingShown' /\ ShownPrinting' /\ ListedBehind' /\ WalkRight'
      BY <1>1, PrintingKept, ShownKept, ListedBehindKept, WalkRightKept
    <2>5. QED
      BY <2>1, <2>2, <2>3, <2>4
  <1>2. CASE UNCHANGED vars
    <2> USE <1>2 DEF vars, spool, report, history, directory, local
    <2>1. SpoolTypes' /\ ProgramTypes'
      BY DEF SpoolTypes, ProgramTypes
    <2>2. Files' = Files /\ AtPrinter' = AtPrinter
      BY DEF Files, AtPrinter
    <2>3. DirectorySound'
      BY <2>2 DEF DirectorySound, Windowed, InWindowFrom, Dist
    <2>4. ScansRight'
      BY <2>2 DEF ScansRight, TailBase, HeadBase, NearBase, Dist
    <2>5. PrintingShown' /\ ShownPrinting' /\ ListedBehind'
      BY DEF PrintingShown, ShownPrinting, ListedBehind
    <2>6. WalkRight'
      BY DEF WalkRight, EveryJobShown, RemovedUpToHere, Place, Steps
    <2>7. QED
      BY <2>1, <2>3, <2>4, <2>5, <2>6
  <1>3. QED
    BY <1>1, <1>2

LEMMA WalkInvariant == Spec => []WalkInv
  BY WalkInit, WalkStep, PTL DEF Spec

\* ppq and lpq show every job that has been in the directory since they began,
\* though jobs come and go while they scan it and walk, unless two came during
\* the scans or the array of the printers' jobs was not filled in (ppq.c 1097).
THEOREM EveryJobIsShown == Spec => []EveryJobShown
  <1>1. WalkInv => EveryJobShown
    BY DEF WalkInv, WalkRight
  <1>2. QED
    BY <1>1, WalkInvariant, PTL

\* What the inner loop over the printers does to "we don't report it again":
\* it is broken in one way only (ppq.c 1118).
THEOREM ReportedAgainOneWay == Spec => []ReportedAgainBehindLater
  <1>1. WalkInv => ReportedAgainBehindLater
    BY DEF WalkInv, ListedBehind, ReportedAgainBehindLater
  <1>2. QED
    BY <1>1, WalkInvariant, PTL

\* pprm - leaves no waiting job behind it, and none at all when it ends at the
\* head (pprm.c 768).
THEOREM AllRemovedUpToHere == Spec => []RemovedUpToHere
  <1>1. WalkInv => RemovedUpToHere
    BY DEF WalkInv, WalkRight
  <1>2. QED
    BY <1>1, WalkInvariant, PTL

=============================================================================
