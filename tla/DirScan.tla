------------------------------ MODULE DirScan -------------------------------
(***************************************************************************)
(* The two directory scans, calculate_head and calculate_tail, as they     *)
(* run: readdir hands out the inf files in whatever order the file system  *)
(* keeps them, and each scan remembers one number.  The scans are correct  *)
(* when what they remember at the end does not depend on that order.       *)
(***************************************************************************)
EXTENDS SpoolIndex

VARIABLES unread,   \* numbers of the inf files readdir has still to return
          seen,     \* numbers it has returned
          head,     \* calculate_head's local variable, -1 before the first
          tail      \* calculate_tail's local variable, -1 before the first

vars == <<unread, seen, head, tail>>

Init ==
    /\ unread \in {S \in SUBSET Slots : Windowed(S)}
    /\ seen = {}
    /\ head = -1
    /\ tail = -1

\* Faulty variant: the largest number instead of the newest.
ScanHeadLargest(val) == IF val > head THEN val ELSE head

ScanHead(val) == IF head = -1 \/ NewerThan(val, head) THEN val ELSE head

ScanTail(val) == IF tail = -1 \/ OlderThan(val, tail) THEN val ELSE tail

\* One turn of each loop: the next directory entry is inf<val>.
ReadEntry(val) ==
    /\ val \in unread
    /\ unread' = unread \ {val}
    /\ seen' = seen \cup {val}
    /\ head' = ScanHead(val)
    /\ tail' = ScanTail(val)

Next == \E val \in unread : ReadEntry(val)

Spec == Init /\ [][Next]_vars

-----------------------------------------------------------------------------
TypeOK ==
    /\ unread \subseteq Slots
    /\ seen \subseteq Slots
    /\ head \in Slots \cup {-1}
    /\ tail \in Slots \cup {-1}

\* Whatever the order of the directory, once a file has been returned the
\* scans hold the newest and the oldest of the numbers returned so far: the
\* wrap-around case distinctions of calculate_head (ppd.c 1585) and
\* calculate_tail (ppd.c 1639) never mistake a job before the wrap for a
\* later one.
ScanFindsEnds ==
    seen # {} => IsNewest(head, seen) /\ IsOldest(tail, seen)

\* The whole listing always fits in one window.
ListingWindowed == Windowed(seen \cup unread)

\* ppr's use of the two results (ppr.c 130-137): in a directory that is not
\* full the number after the newest job is free, and taking it keeps the
\* directory in one window, so that the next scan is right again.
NextIndexIsFree ==
    LET new == NextIndex(head)
    IN  unread = {} /\ seen # {} /\ ~QueueFull(new, tail)
            => new \notin seen /\ Windowed(seen \cup {new})
=============================================================================
