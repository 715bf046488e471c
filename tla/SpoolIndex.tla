----------------------------- MODULE SpoolIndex -----------------------------
(***************************************************************************)
(* The job numbers of one queue.  A queue holds at most QUEUE_LENGTH jobs, *)
(* numbered in a circular space twice that size, so that the oldest and    *)
(* the newest job can be told from a listing of the spool directory alone, *)
(* with no counter stored anywhere.  ppr, pprm, ppq and ppd each carry     *)
(* their own copy of these computations; they are stated once here.        *)
(***************************************************************************)
EXTENDS Integers

CONSTANT QUEUE_LENGTH       \* pps.h: the most jobs a queue holds

ASSUME QueueLengthAssumption == QUEUE_LENGTH \in Nat \ {0}

IndexSpace == 2 * QUEUE_LENGTH
Slots == 0 .. (IndexSpace - 1)

\* A faulty variant: the wrap forgotten.
NextIndexNoWrap(s) == s + 1

\* The number that follows s: (head + 1) % (2*QUEUE_LENGTH).
NextIndex(s) == (s + 1) % IndexSpace

\* A faulty variant: one job more than the queue holds.
QueueFullLate(next, tail) == (next + QUEUE_LENGTH - 1) % IndexSpace = tail

\* ppr's test that the queue is full, given the number the new job would get
\* and the oldest job's number (-1 in an empty directory).
QueueFull(next, tail) == (next + QUEUE_LENGTH) % IndexSpace = tail

\* The test of the head scan: val replaces head as the newest job seen.
NewerThan(val, head) ==
    \/ val > head /\ val - head < QUEUE_LENGTH
    \/ val < head /\ head - val > QUEUE_LENGTH

\* The test of the tail scan: val replaces tail as the oldest job seen.
OlderThan(val, tail) ==
    \/ val < tail /\ tail - val < QUEUE_LENGTH
    \/ val > tail /\ val - tail > QUEUE_LENGTH

\* service_queue's test that there is something left to print.
JobsLeft(head, tail) ==
    \/ head >= tail /\ head - tail < QUEUE_LENGTH
    \/ head < tail /\ tail - head > QUEUE_LENGTH

-----------------------------------------------------------------------------
(* Reference notions, independent of the code's case distinctions.         *)

\* How many times NextIndex leads from a to b.
Dist(a, b) == IF b >= a THEN b - a ELSE b - a + IndexSpace

\* Every number of S is less than QUEUE_LENGTH steps after base.
InWindowFrom(base, S) == \A s \in S : Dist(base, s) < QUEUE_LENGTH

\* The listing S fits in one window: what the scans rely on.
Windowed(S) == S = {} \/ \E base \in S : InWindowFrom(base, S)

IsOldest(t, S) == t \in S /\ InWindowFrom(t, S)
IsNewest(h, S) == h \in S /\ \A s \in S : Dist(s, h) < QUEUE_LENGTH
=============================================================================
