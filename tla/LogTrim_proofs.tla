---------------------------- MODULE LogTrim_proofs ----------------------------
(***************************************************************************)
(* A log with a high watermark above the low one stays within one cell of  *)
(* the high watermark, for any number of processes, entries and kills and  *)
(* for any watermarks.                                                     *)
(*                                                                         *)
(* The bound is not inductive: it says nothing of the room a trim has made *)
(* by the time the entry is written, nor that only one process is at it.   *)
(* Room says, for each place in check_log_size and after it, how long the  *)
(* log and the part set aside can be there; HolderWorks, that whoever is   *)
(* at such a place has the lock, so that a step disturbs nobody else's.    *)
(***************************************************************************)
EXTENDS LogTrim, SequenceTheorems, WellFoundedInduction, TLAPS

Cells == [kind : {Text, End, Note}, id : Nat]

Places == {"idle", "lock", "check", "search", "copy", "back", "write", "newline",
           "blank"}

LogTypes ==
    /\ low \in Nat /\ high \in Nat
    /\ log \in Seq(Cells) /\ tmp \in Seq(Cells)
    /\ pos \in Nat /\ used \in Nat
    /\ pc \in [Writers -> Places]
    /\ id \in [Writers -> Nat]

HolderWorks == \A w \in Writers : pc[w] \notin {"idle", "lock"} => lock = w

RoomOf(w) ==
    /\ pc[w] = "search" => pos = Len(log) - low
    /\ pc[w] = "copy" => pos <= Len(log) /\ Len(log) - pos <= low - 1
    /\ pc[w] = "back" => Len(log) + Len(tmp) <= low - 1
    /\ pc[w] = "write" => Len(log) <= high - 1
    /\ pc[w] \in {"newline", "blank"} => Len(log) <= high

Room ==
    high > low /\ low > 0 =>
        /\ Len(log) <= high + 1
        /\ \A w \in Writers : RoomOf(w)

LogInv == LogTypes /\ HolderWorks /\ Room

\* k is what was written last of b, from the beginning of a line.
NewestLines(k, b, mark) ==
    /\ Len(k) <= Len(b)
    /\ \A i \in 1 .. Len(k) : k[i] = b[Len(b) - Len(k) + i]
    /\ k = b \/ mark = 0 \/ b[Len(b) - Len(k)].kind = End

\* The log and what is set aside are together the newest lines of the book.
Newest == ~cut => NewestLines(WithoutNotes(log) \o WithoutNotes(tmp), book, low)

\* Something is set aside only while a process is putting it back.
SetAside == tmp # <<>> => \E w \in Writers : pc[w] = "back"

\* The place a trim cuts at is the end of a line.
CutPoint ==
    \A w \in Writers :
        /\ pc[w] = "search" => pos <= Len(log) /\ (pos = Len(log) => low = 0)
        /\ pc[w] = "copy" =>
              pos <= Len(log) /\ (low = 0 \/ (pos > 0 /\ log[pos].kind = End))

KeptInv == book \in Seq(Cells) /\ SetAside /\ CutPoint /\ Newest

-----------------------------------------------------------------------------
\* The cells that are written are cells.
LEMMA CellsWritten ==
    ASSUME NEW n \in Nat
    PROVE  Cell(Text, n) \in Cells /\ Cell(End, n) \in Cells /\ NoteCell \in Cells
BY DEF Cell, Cells, NoteCell

\* What CopyAside sets aside is as long as the log is behind the offset.
LEMMA RestOfLog ==
    ASSUME NEW s \in Seq(Cells), NEW p \in Nat
    PROVE  /\ SubSeq(s, p + 1, Len(s)) \in Seq(Cells)
           /\ p <= Len(s) => Len(SubSeq(s, p + 1, Len(s))) = Len(s) - p
<1>1. Len(s) \in Nat
  BY LenProperties
<1>2. \A i \in (p + 1) .. Len(s) : s[i] \in Cells
  BY <1>1, ElementOfSeq
<1>3. p + 1 \in Int /\ Len(s) \in Int
  BY <1>1
<1>4. /\ SubSeq(s, p + 1, Len(s)) \in Seq(Cells)
      /\ Len(SubSeq(s, p + 1, Len(s)))
            = IF p + 1 <= Len(s) THEN Len(s) - (p + 1) + 1 ELSE 0
  BY <1>2, <1>3, SubSeqProperties
<1> QED
  BY <1>1, <1>4

\* An entry adds its text, its newline or both, and each is one cell.
LEMMA EntryGrows ==
    ASSUME NEW s \in Seq(Cells), NEW n \in Nat
    PROVE  /\ s \o <<Cell(Text, n), Cell(End, n)>> \in Seq(Cells)
           /\ Len(s \o <<Cell(Text, n), Cell(End, n)>>) = Len(s) + 2
           /\ \A kind \in {Text, End} :
                 /\ s \o <<Cell(kind, n)>> \in Seq(Cells)
                 /\ Len(s \o <<Cell(kind, n)>>) = Len(s) + 1
<1>1. /\ <<Cell(Text, n), Cell(End, n)>> \in Seq(Cells)
      /\ Len(<<Cell(Text, n), Cell(End, n)>>) = 2
  BY CellsWritten
<1>2. \A kind \in {Text, End} :
        <<Cell(kind, n)>> \in Seq(Cells) /\ Len(<<Cell(kind, n)>>) = 1
  BY CellsWritten
<1> QED
  BY <1>1, <1>2, ConcatProperties

\* A step of w that leaves what it relies on to every other process.
LEMMA OthersUndisturbed ==
    ASSUME LogInv, NEW w \in Writers, NEW where \in Places, Goto(w, where),
           lock = w \/ UNCHANGED <<log, pos, tmp>>,
           UNCHANGED <<low, high>>, high > low, low > 0
    PROVE  \A v \in Writers \ {w} : RoomOf(v)'
<1> SUFFICES ASSUME NEW v \in Writers \ {w} PROVE RoomOf(v)'
  OBVIOUS
<1>1. pc'[v] = pc[v]
  BY DEF Goto, LogInv, LogTypes
<1>2. RoomOf(v)
  BY DEF LogInv, Room
<1>3. CASE lock = w
  <2>1. pc[v] \in {"idle", "lock"}
    BY <1>3 DEF LogInv, HolderWorks
  <2> QED
    BY <1>1, <2>1 DEF RoomOf
<1>4. CASE UNCHANGED <<log, pos, tmp>>
  BY <1>1, <1>2, <1>4 DEF RoomOf
<1> QED
  BY <1>3, <1>4

-----------------------------------------------------------------------------
\* An empty log has room for everything.
LEMMA LogInitially == Init => LogInv
<1> SUFFICES ASSUME Init PROVE LogInv
  OBVIOUS
<1>1. low \in Nat /\ high \in Nat
  BY LogAssumption DEF Init
<1>2. LogTypes
  BY <1>1 DEF Init, LogTypes, Places
<1>3. HolderWorks
  BY DEF Init, HolderWorks
<1>4. Room
  BY <1>1 DEF Init, Room, RoomOf
<1> QED
  BY <1>2, <1>3, <1>4 DEF LogInv

\* The types, action by action.
LEMMA TypesKept == LogInv /\ [Next]_vars => LogTypes'
<1> SUFFICES ASSUME LogInv, [Next]_vars PROVE LogTypes'
  OBVIOUS
<1> USE DEF LogInv, LogTypes, Places
<1>1. CASE UNCHANGED vars
  BY <1>1 DEF vars
<1>2. ASSUME NEW w \in Writers, Open(w) PROVE LogTypes'
  BY <1>2 DEF Open, Goto
<1>3. ASSUME NEW w \in Writers,
             WaitLock(w) \/ WaitInterrupted(w) \/ DiskLow(w) \/ NoTrim(w)
                 \/ SkipUnread(w) \/ WriteFails(w)
      PROVE  LogTypes'
  BY <1>3 DEF WaitLock, WaitInterrupted, DiskLow, NoTrim, SkipUnread, WriteFails,
              Close, Goto
<1>4. ASSUME NEW w \in Writers, Trim(w) PROVE LogTypes'
  <2>1. Len(log) \in Nat
    BY LenProperties
  <2>2. Len(log) - low \in Nat
    BY <1>4, <2>1 DEF Trim, TooLarge, Unchecked
  <2> QED
    BY <1>4, <2>2 DEF Trim, SeekPoint, Goto
<1>5. ASSUME NEW w \in Writers, SkipToLine(w) PROVE LogTypes'
  <2>1. Len(log) \in Nat
    BY LenProperties
  <2>2. pos' \in Nat
    BY <1>5, <2>1 DEF SkipToLine, LineAfter, NewlinesAfter
  <2> QED
    BY <1>5, <2>2 DEF SkipToLine, Goto
<1>6. ASSUME NEW w \in Writers, CopyAside(w) \/ CopyAsideFails(w) PROVE LogTypes'
  <2>1. SubSeq(log, pos + 1, Len(log)) \in Seq(Cells) /\ <<>> \in Seq(Cells)
    BY RestOfLog, EmptySeq
  <2>2. log' \in Seq(Cells) /\ tmp' \in Seq(Cells)
    BY <1>6, <2>1 DEF CopyAside, CopyAsideFails
  <2>3. pc' \in [Writers -> Places]
    BY <1>6 DEF CopyAside, CopyAsideFails, Close, Goto
  <2> QED
    BY <1>6, <2>2, <2>3 DEF CopyAside, CopyAsideFails
<1>7. ASSUME NEW w \in Writers, CopyBack(w) PROVE LogTypes'
  <2>1. Head(tmp) \in Cells /\ Tail(tmp) \in Seq(Cells)
    BY <1>7, HeadTailProperties DEF CopyBack
  <2>2. Append(log, Head(tmp)) \in Seq(Cells)
    BY <2>1, AppendProperties
  <2> QED
    BY <1>7, <2>1, <2>2 DEF CopyBack
<1>8. ASSUME NEW w \in Writers, CopyBackFails(w) \/ Killed(w) PROVE LogTypes'
  <2>1. <<>> \in Seq(Cells)
    BY EmptySeq
  <2>2. log' \in Seq(Cells) /\ tmp' \in Seq(Cells) /\ pos' \in Nat
    <3>1. CASE CopyBackFails(w)
      BY <2>1, <3>1 DEF CopyBackFails
    <3>2. CASE Killed(w) /\ lock = w
      BY <2>1, <3>2 DEF Killed
    <3>3. CASE Killed(w) /\ lock # w
      BY <3>3 DEF Killed
    <3> QED
      BY <1>8, <3>1, <3>2, <3>3
  <2>3. pc' \in [Writers -> Places]
    BY <1>8 DEF CopyBackFails, Killed, Close, Goto
  <2> QED
    BY <1>8, <2>2, <2>3 DEF CopyBackFails, Killed
<1>9. ASSUME NEW w \in Writers, NoteTrimmed(w) PROVE LogTypes'
  <2>1. Append(log, NoteCell) \in Seq(Cells)
    BY CellsWritten, AppendProperties
  <2> QED
    BY <1>9, <2>1 DEF NoteTrimmed, Goto
<1>10. ASSUME NEW w \in Writers, WriteLine(w) \/ WriteText(w) \/ WriteNewline(w)
       PROVE  LogTypes'
  <2>1. log' \in Seq(Cells)
    BY <1>10, EntryGrows DEF WriteLine, WriteText, WriteNewline, Enter
  <2> QED
    BY <1>10, <2>1 DEF WriteLine, WriteText, WriteNewline, Close, Goto
<1> QED
  BY <1>1, <1>2, <1>3, <1>4, <1>5, <1>6, <1>7, <1>8, <1>9, <1>10 DEF Next, Write

\* Only the process at work lets go of the lock, and it stops working then.
LEMMA HolderKept == LogInv /\ [Next]_vars => HolderWorks'
<1> SUFFICES ASSUME LogInv, [Next]_vars PROVE HolderWorks'
  OBVIOUS
<1> USE DEF LogInv, LogTypes, HolderWorks
<1>1. CASE UNCHANGED vars
  BY <1>1 DEF vars
<1>2. ASSUME NEW w \in Writers, Open(w) \/ WaitInterrupted(w) PROVE HolderWorks'
  BY <1>2 DEF Open, WaitInterrupted, Goto
<1>3. ASSUME NEW w \in Writers, WaitLock(w) PROVE HolderWorks'
  BY <1>3, LogAssumption DEF WaitLock, Goto
<1>4. ASSUME NEW w \in Writers,
             DiskLow(w) \/ CopyAsideFails(w) \/ CopyBackFails(w) \/ WriteLine(w)
                 \/ WriteNewline(w) \/ WriteFails(w)
      PROVE  HolderWorks'
  BY <1>4, LogAssumption DEF DiskLow, CopyAsideFails, CopyBackFails, WriteLine,
     WriteNewline, WriteFails, Close, Goto
<1>5. ASSUME NEW w \in Writers,
             NoTrim(w) \/ Trim(w) \/ SkipToLine(w) \/ SkipUnread(w) \/ CopyAside(w)
                 \/ CopyBack(w) \/ NoteTrimmed(w) \/ WriteText(w)
      PROVE  HolderWorks'
  BY <1>5 DEF NoTrim, Trim, SkipToLine, SkipUnread, CopyAside, CopyBack,
     NoteTrimmed, WriteText, Goto
<1>6. ASSUME NEW w \in Writers, Killed(w) PROVE HolderWorks'
  BY <1>6, LogAssumption DEF Killed, Goto
<1> QED
  BY <1>1, <1>2, <1>3, <1>4, <1>5, <1>6 DEF Next, Write

\* Each place hands the next one the room it relies on.
LEMMA RoomKept == LogInv /\ [Next]_vars => Room'
<1> SUFFICES ASSUME LogInv, [Next]_vars, high' > low', low' > 0
             PROVE  Len(log)' <= high' + 1 /\ \A w \in Writers : RoomOf(w)'
  BY DEF Room
<1>1. CASE UNCHANGED vars
  BY <1>1 DEF vars, LogInv, Room, RoomOf
<1> SUFFICES ASSUME NEW w \in Writers,
                    Open(w) \/ Write(w) \/ SkipUnread(w) \/ WaitInterrupted(w)
                        \/ Killed(w)
             PROVE  Len(log)' <= high' + 1 /\ \A v \in Writers : RoomOf(v)'
  BY <1>1 DEF Next
<1>2. UNCHANGED <<low, high>>
  BY DEF Write, Open, SkipUnread, WaitInterrupted, Killed, WaitLock, DiskLow, NoTrim,
     Trim, SkipToLine, CopyAside, CopyAsideFails, CopyBack, CopyBackFails, NoteTrimmed,
     WriteLine, WriteText, WriteNewline, WriteFails
<1>3. /\ low \in Nat /\ high \in Nat /\ high > low /\ low > 0 /\ pos \in Nat
      /\ log \in Seq(Cells) /\ tmp \in Seq(Cells) /\ id[w] \in Nat
      /\ pc \in [Writers -> Places]
  BY <1>2 DEF LogInv, LogTypes
<1>4. Len(log) \in Nat /\ Len(tmp) \in Nat
  BY <1>3, LenProperties
<1>5. Len(log) <= high + 1 /\ RoomOf(w)
  BY <1>2, <1>3 DEF LogInv, Room
<1>6. ASSUME NEW where \in Places, Goto(w, where),
             lock = w \/ UNCHANGED <<log, pos, tmp>>,
             Len(log)' <= high' + 1, RoomOf(w)'
      PROVE  Len(log)' <= high' + 1 /\ \A v \in Writers : RoomOf(v)'
  BY <1>2, <1>3, <1>6, OthersUndisturbed
<1>7. pc[w] \notin {"idle", "lock"} => lock = w
  BY DEF LogInv, HolderWorks
<1>8. ASSUME NEW where \in Places, Goto(w, where) PROVE pc'[w] = where
  BY <1>3, <1>8 DEF Goto
<1> USE DEF Places
<1>9. CASE Open(w)
  <2>1. Goto(w, "lock") /\ UNCHANGED <<log, pos, tmp>>
    BY <1>9 DEF Open
  <2>2. RoomOf(w)'
    BY <2>1, <1>8 DEF RoomOf
  <2> QED
    BY <2>1, <2>2, <1>2, <1>5, <1>6
<1>10. CASE WaitLock(w)
  <2>1. Goto(w, "check") /\ UNCHANGED <<log, pos, tmp>>
    BY <1>10 DEF WaitLock
  <2>2. RoomOf(w)'
    BY <2>1, <1>8 DEF RoomOf
  <2> QED
    BY <2>1, <2>2, <1>2, <1>5, <1>6
<1>11. CASE WaitInterrupted(w) \/ DiskLow(w)
  <2>1. Goto(w, "idle") /\ UNCHANGED <<log, pos, tmp>>
    BY <1>11 DEF WaitInterrupted, DiskLow, Close
  <2>2. RoomOf(w)'
    BY <2>1, <1>8 DEF RoomOf
  <2> QED
    BY <2>1, <2>2, <1>2, <1>5, <1>6
<1>12. CASE NoTrim(w)
  <2>1. Goto(w, "write") /\ UNCHANGED <<log, pos, tmp>>
    BY <1>12 DEF NoTrim
  <2>2. Len(log) < high
    BY <1>12, <1>3, <1>4 DEF NoTrim, TooLarge, Unchecked
  <2>3. RoomOf(w)'
    BY <2>1, <2>2, <1>2, <1>3, <1>4, <1>8 DEF RoomOf
  <2> QED
    BY <2>1, <2>3, <1>2, <1>5, <1>6
<1>13. CASE Trim(w)
  <2>1. Goto(w, "search") /\ lock = w /\ log' = log
    BY <1>13, <1>7 DEF Trim
  <2>2. RoomOf(w)'
    BY <2>1, <1>2, <1>8, <1>13 DEF Trim, SeekPoint, RoomOf
  <2> QED
    BY <2>1, <2>2, <1>2, <1>5, <1>6
<1>14. CASE SkipToLine(w)
  <2>1. Goto(w, "copy") /\ lock = w /\ log' = log /\ pos = Len(log) - low
    BY <1>14, <1>5, <1>7 DEF SkipToLine, RoomOf
  <2>2. pos' \in (pos + 1) .. Len(log)
    BY <1>14 DEF SkipToLine, LineAfter, NewlinesAfter
  <2>3. pos' <= Len(log) /\ Len(log) - pos' <= low - 1
    BY <2>1, <2>2, <1>3, <1>4
  <2>4. RoomOf(w)'
    BY <2>1, <2>3, <1>2, <1>8 DEF RoomOf
  <2> QED
    BY <2>1, <2>4, <1>2, <1>5, <1>6
<1>15. CASE SkipUnread(w)
  <2>1. Goto(w, "copy") /\ lock = w /\ log' = log /\ pos' = Len(log)
    BY <1>15, <1>7 DEF SkipUnread
  <2>2. RoomOf(w)'
    BY <2>1, <1>2, <1>3, <1>4, <1>8 DEF RoomOf
  <2> QED
    BY <2>1, <2>2, <1>2, <1>5, <1>6
<1>16. CASE CopyAside(w)
  <2>1. Goto(w, "back") /\ lock = w /\ log' = <<>>
    BY <1>16, <1>7 DEF CopyAside
  <2>2. pos <= Len(log) /\ Len(log) - pos <= low - 1
    BY <1>16, <1>5 DEF CopyAside, RoomOf
  <2>3. Len(tmp') = Len(log) - pos
    BY <2>2, <1>3, <1>16, RestOfLog DEF CopyAside
  <2>4. Len(log') = 0
    BY <2>1, EmptySeq
  <2>5. RoomOf(w)'
    BY <2>1, <2>2, <2>3, <2>4, <1>2, <1>3, <1>4, <1>8 DEF RoomOf
  <2> QED
    BY <2>1, <2>4, <2>5, <1>2, <1>3, <1>6
<1>17. CASE CopyAsideFails(w)
  <2>1. Goto(w, "idle") /\ lock = w /\ log' = log
    BY <1>17, <1>7 DEF CopyAsideFails, Close
  <2>2. RoomOf(w)'
    BY <2>1, <1>8 DEF RoomOf
  <2> QED
    BY <2>1, <2>2, <1>2, <1>5, <1>6
<1>18. CASE CopyBack(w)
  <2>1. pc[w] = "back" /\ pc' = pc /\ lock = w /\ tmp # <<>>
    BY <1>18, <1>7 DEF CopyBack
  <2>2. Head(tmp) \in Cells /\ Len(Tail(tmp)) = Len(tmp) - 1
    BY <2>1, <1>3, HeadTailProperties
  <2>3. Len(log') = Len(log) + 1 /\ Len(tmp') = Len(tmp) - 1
    BY <2>2, <1>3, <1>18, AppendProperties DEF CopyBack
  <2>4. Len(log) + Len(tmp) <= low - 1 /\ tmp \in Seq(Cells)
    BY <2>1, <1>3, <1>5 DEF RoomOf
  <2>5. Len(tmp) >= 1
    BY <2>1, <1>3, EmptySeq
  <2>6. RoomOf(w)' /\ Len(log)' <= high' + 1
    BY <2>1, <2>3, <2>4, <2>5, <1>2, <1>3, <1>4 DEF RoomOf
  <2>7. Goto(w, "back")
    BY <2>1, <1>3 DEF Goto
  <2> QED
    BY <2>1, <2>6, <2>7, <1>6
<1>19. CASE CopyBackFails(w)
  <2>1. Goto(w, "idle") /\ lock = w /\ log' = log
    BY <1>19, <1>7 DEF CopyBackFails, Close
  <2>2. RoomOf(w)'
    BY <2>1, <1>8 DEF RoomOf
  <2> QED
    BY <2>1, <2>2, <1>2, <1>5, <1>6
<1>20. CASE NoteTrimmed(w)
  <2>1. Goto(w, "write") /\ lock = w /\ tmp = <<>> /\ pc[w] = "back"
    BY <1>20, <1>7 DEF NoteTrimmed
  <2>2. Len(log) <= low - 1
    BY <2>1, <1>3, <1>4, <1>5 DEF RoomOf
  <2>3. Len(log') = Len(log) \/ Len(log') = Len(log) + 1
    BY <1>3, <1>20, CellsWritten, AppendProperties DEF NoteTrimmed
  <2>4. RoomOf(w)' /\ Len(log)' <= high' + 1
    BY <2>1, <2>2, <2>3, <1>2, <1>3, <1>4, <1>8 DEF RoomOf
  <2> QED
    BY <2>1, <2>4, <1>6
<1>21. CASE WriteLine(w)
  <2>1. Goto(w, "idle") /\ lock = w /\ pc[w] = "write"
    BY <1>21, <1>7 DEF WriteLine, Close
  <2>2. Len(log') = Len(log) + 2
    BY <1>3, <1>21, EntryGrows DEF WriteLine, Enter
  <2>3. Len(log)' <= high' + 1
    BY <2>1, <2>2, <1>2, <1>3, <1>4, <1>5 DEF RoomOf
  <2>4. RoomOf(w)'
    BY <2>1, <1>8 DEF RoomOf
  <2> QED
    BY <2>1, <2>3, <2>4, <1>6
<1>22. CASE WriteText(w)
  <2>1. Goto(w, "newline") /\ lock = w /\ pc[w] = "write"
    BY <1>22, <1>7 DEF WriteText
  <2>2. Len(log') = Len(log) + 1
    BY <1>3, <1>22, EntryGrows DEF WriteText, Enter
  <2>3. Len(log)' <= high' + 1 /\ RoomOf(w)'
    BY <2>1, <2>2, <1>2, <1>3, <1>4, <1>5, <1>8 DEF RoomOf
  <2> QED
    BY <2>1, <2>3, <1>6
<1>23. CASE WriteNewline(w)
  <2>1. Goto(w, "idle") /\ lock = w /\ pc[w] \in {"newline", "blank"}
    BY <1>23, <1>7 DEF WriteNewline, Close
  <2>2. Len(log') = Len(log) + 1 \/ log' = log
    BY <1>3, <1>23, EntryGrows DEF WriteNewline, Enter
  <2>3. Len(log)' <= high' + 1
    BY <2>1, <2>2, <1>2, <1>3, <1>4, <1>5 DEF RoomOf
  <2>4. RoomOf(w)'
    BY <2>1, <1>8 DEF RoomOf
  <2> QED
    BY <2>1, <2>3, <2>4, <1>6
<1>24. CASE Killed(w)
  <2>1. Goto(w, "idle") /\ log' = log /\ (lock = w \/ UNCHANGED <<log, pos, tmp>>)
    BY <1>24 DEF Killed
  <2>2. RoomOf(w)'
    BY <2>1, <1>8 DEF RoomOf
  <2> QED
    BY <2>1, <2>2, <1>2, <1>5, <1>6
<1>25. CASE WriteFails(w)
  <2>1. PICK where \in {"blank", "idle"} : Goto(w, where)
    BY <1>25 DEF WriteFails, Close
  <2>2. UNCHANGED <<log, pos, tmp>> /\ pc[w] = "write"
    BY <1>25 DEF WriteFails
  <2>3. RoomOf(w)'
    BY <2>1, <2>2, <1>2, <1>3, <1>4, <1>5, <1>8 DEF RoomOf
  <2> QED
    BY <2>1, <2>2, <2>3, <1>2, <1>5, <1>6
<1> QED
  BY <1>9, <1>10, <1>11, <1>12, <1>13, <1>14, <1>15, <1>16, <1>17, <1>18, <1>19, <1>20,
     <1>21, <1>22, <1>23, <1>24, <1>25 DEF Write

\* The invariant, from the three facts.
LEMMA LogInvariant == Spec => []LogInv
<1>1. LogInv /\ [Next]_vars => LogInv'
  BY TypesKept, HolderKept, RoomKept DEF LogInv
<1> QED
  BY <1>1, LogInitially, PTL DEF Spec

\* A log whose high watermark is above its low one never has more than the high
\* watermark and one cell, whoever writes to it and whatever happens to them.
THEOREM LogStaysBounded == Spec => []LogBounded
<1>1. LogInv => LogBounded
  BY DEF LogInv, Room, LogBounded
<1> QED
  BY <1>1, LogInvariant, PTL

-----------------------------------------------------------------------------
(* What a log is without the notes.                                        *)

\* A nonempty set of naturals has a least element.
LEMMA Least ==
    ASSUME NEW T \in SUBSET Nat, T # {}
    PROVE  \E i \in T : \A j \in T : i <= j
  <1>1. PICK i \in T : \A j \in T : <<j, i>> \notin OpToRel(<, Nat)
    BY NatLessThanWellFounded, WFMin
  <1>2. ASSUME NEW j \in T
        PROVE  i <= j
    <2>1. i \in Nat /\ j \in Nat
      OBVIOUS
    <2>2. ~(j < i)
      BY <1>1, <2>1 DEF OpToRel
    <2>3. QED
      BY <2>1, <2>2
  <1>3. QED
    BY <1>2

\* The step of the recursion in WithoutNotes.
NextUpTo(file, f, i) ==
    IF i = 0 THEN << >>
    ELSE IF file[i].kind = Note THEN f[i - 1] ELSE Append(f[i - 1], file[i])

UpTo(file, n, f) == f = [i \in 0 .. n |-> NextUpTo(file, f, i)]

LEMMA UpToExists ==
    ASSUME NEW file, NEW m \in Nat
    PROVE  \E f : UpTo(file, m, f)
<1> DEFINE Bad == {n \in Nat : ~ \E f : UpTo(file, n, f)}
<1>1. SUFFICES ASSUME Bad # {} PROVE FALSE
  OBVIOUS
<1>2. PICK n \in Bad : \A j \in Bad : n <= j
  BY <1>1, Least
<1>3. n # 0
  <2> DEFINE f == [i \in 0 .. 0 |-> << >>]
  <2>1. f = [i \in 0 .. 0 |-> NextUpTo(file, f, i)]
    BY DEF NextUpTo
  <2>2. UpTo(file, 0, f)
    BY <2>1 DEF UpTo
  <2> QED
    BY <2>2
<1>4. n - 1 \in Nat /\ n - 1 \notin Bad
  BY <1>2, <1>3
<1>5. PICK g : UpTo(file, n - 1, g)
  BY <1>4
<1> DEFINE f == [i \in 0 .. n |-> IF i = n THEN NextUpTo(file, g, n) ELSE g[i]]
<1>6. ASSUME NEW i \in 0 .. n PROVE f[i] = NextUpTo(file, f, i)
  <2>1. CASE i = n
    BY <1>3, <2>1 DEF NextUpTo
  <2>2. CASE i # n
    <3>1. i \in 0 .. n - 1 /\ f[i] = g[i] /\ (i # 0 => f[i - 1] = g[i - 1])
      BY <1>4, <2>2
    <3>2. g[i] = NextUpTo(file, g, i)
      <4> DEFINE Rhs(h) == [k \in 0 .. n - 1 |-> NextUpTo(file, h, k)]
      <4>1. g = Rhs(g)
        BY <1>5 DEF UpTo
      <4>2. Rhs(g)[i] = NextUpTo(file, g, i)
        BY <3>1
      <4> HIDE DEF Rhs
      <4> QED
        BY <4>1, <4>2
    <3> HIDE DEF f
    <3> QED
      BY <3>1, <3>2 DEF NextUpTo
  <2> QED
    BY <2>1, <2>2
<1>7. f = [i \in 0 .. n |-> NextUpTo(file, f, i)]
  BY <1>6
<1>8. UpTo(file, n, f)
  BY <1>7 DEF UpTo
<1> QED
  BY <1>8, <1>2

LEMMA NotesUpTo ==
    ASSUME NEW file, Len(file) \in Nat
    PROVE  \E f : UpTo(file, Len(file), f) /\ WithoutNotes(file) = f[Len(file)]
<1> DEFINE up == CHOOSE f : f = [i \in 0 .. Len(file) |->
                     IF i = 0 THEN << >>
                     ELSE IF file[i].kind = Note THEN f[i - 1]
                     ELSE Append(f[i - 1], file[i])]
<1>1. \E f : f = [i \in 0 .. Len(file) |->
                     IF i = 0 THEN << >>
                     ELSE IF file[i].kind = Note THEN f[i - 1]
                     ELSE Append(f[i - 1], file[i])]
  BY UpToExists DEF UpTo, NextUpTo
<1>2. up = [i \in 0 .. Len(file) |->
                     IF i = 0 THEN << >>
                     ELSE IF file[i].kind = Note THEN up[i - 1]
                     ELSE Append(up[i - 1], file[i])]
  BY <1>1
<1>3. WithoutNotes(file) = up[Len(file)]
  BY DEF WithoutNotes
<1>4. UpTo(file, Len(file), up)
  BY <1>2 DEF UpTo, NextUpTo
<1> QED
  BY <1>3, <1>4

\* One step of the recursion.
LEMMA UpToStep ==
    ASSUME NEW file, NEW m \in Nat, NEW f, UpTo(file, m, f), NEW i \in 0 .. m
    PROVE  f[i] = NextUpTo(file, f, i)
<1> DEFINE Rhs(h) == [k \in 0 .. m |-> NextUpTo(file, h, k)]
<1>1. f = Rhs(f)
  BY DEF UpTo
<1>2. Rhs(f)[i] = NextUpTo(file, f, i)
  OBVIOUS
<1> HIDE DEF Rhs
<1> QED
  BY <1>1, <1>2

\* Files that begin alike come to the same up to there.
LEMMA UpToUnique ==
    ASSUME NEW a, NEW b, NEW m \in Nat, NEW n \in Nat, m <= n,
           NEW f, NEW g, UpTo(a, m, f), UpTo(b, n, g),
           \A i \in 1 .. m : a[i] = b[i]
    PROVE  f[m] = g[m]
<1> DEFINE Bad == {i \in Nat : i <= m /\ f[i] # g[i]}
<1>1. SUFFICES ASSUME Bad # {} PROVE FALSE
  OBVIOUS
<1>2. PICK i \in Bad : \A j \in Bad : i <= j
  BY <1>1, Least
<1>3. f[i] = NextUpTo(a, f, i) /\ g[i] = NextUpTo(b, g, i)
  BY <1>2, UpToStep
<1>4. CASE i = 0
  BY <1>2, <1>3, <1>4 DEF NextUpTo
<1>5. CASE i # 0
  <2>1. i - 1 \in Nat /\ i - 1 <= m /\ i - 1 \notin Bad /\ i \in 1 .. m
    BY <1>2, <1>5
  <2>2. f[i - 1] = g[i - 1] /\ a[i] = b[i]
    BY <2>1
  <2> QED
    BY <1>2, <1>3, <1>5, <2>2 DEF NextUpTo
<1> QED
  BY <1>4, <1>5

\* Nothing is left of an empty file, and a cell is added unless it is a note.
LEMMA NotesEmpty == WithoutNotes(<< >>) = << >>
<1>1. Len(<< >>) = 0
  OBVIOUS
<1>2. PICK f : UpTo(<< >>, 0, f) /\ WithoutNotes(<< >>) = f[0]
  BY <1>1, NotesUpTo
<1>3. f[0] = NextUpTo(<< >>, f, 0)
  BY <1>2, UpToStep
<1> QED
  BY <1>2, <1>3 DEF NextUpTo

LEMMA NotesAppend ==
    ASSUME NEW l \in Seq(Cells), NEW c \in Cells
    PROVE  WithoutNotes(Append(l, c))
             = IF c.kind = Note THEN WithoutNotes(l) ELSE Append(WithoutNotes(l), c)
<1> DEFINE k == Append(l, c)
           n == Len(l)
<1>1. n \in Nat /\ Len(k) = n + 1 /\ k[n + 1] = c /\ \A i \in 1 .. n : l[i] = k[i]
  OBVIOUS
<1>2. PICK f : UpTo(l, n, f) /\ WithoutNotes(l) = f[n]
  BY <1>1, NotesUpTo
<1> HIDE DEF k, n
<1>3. PICK g : UpTo(k, n + 1, g) /\ WithoutNotes(k) = g[n + 1]
  <2>1. Len(k) \in Nat
    BY <1>1
  <2>2. PICK g : UpTo(k, Len(k), g) /\ WithoutNotes(k) = g[Len(k)]
    BY <2>1, NotesUpTo
  <2> QED
    BY <1>1, <2>2
<1>4. f[n] = g[n]
  BY <1>1, <1>2, <1>3, UpToUnique
<1>5. g[n + 1] = NextUpTo(k, g, n + 1)
  BY <1>1, <1>3, UpToStep
<1> QED
  BY <1>1, <1>2, <1>3, <1>4, <1>5 DEF NextUpTo, k

\* What is left is cells, and taking the notes out of two parts of a file is
\* taking them out of the file.
LEMMA NotesTypes ==
    ASSUME NEW l \in Seq(Cells)
    PROVE  WithoutNotes(l) \in Seq(Cells)
<1> DEFINE Bad == {n \in Nat : \E k \in Seq(Cells) : Len(k) = n /\ WithoutNotes(k) \notin Seq(Cells)}
<1>1. SUFFICES ASSUME Bad # {} PROVE FALSE
  BY LenProperties
<1>2. PICK n \in Bad : \A j \in Bad : n <= j
  BY <1>1, Least
<1>3. PICK k \in Seq(Cells) : Len(k) = n /\ WithoutNotes(k) \notin Seq(Cells)
  BY <1>2
<1>4. k # << >>
  BY <1>3, NotesEmpty
<1>5. PICK s \in Seq(Cells), c \in Cells : k = Append(s, c)
  BY <1>4, SequenceEmptyOrAppend
<1>6. Len(s) \in Nat /\ Len(s) < n /\ Len(s) \notin Bad
  BY <1>2, <1>3, <1>5, LenProperties, AppendProperties
<1>7. WithoutNotes(s) \in Seq(Cells)
  BY <1>6
<1>8. WithoutNotes(k) \in Seq(Cells)
  <2>1. Append(WithoutNotes(s), c) \in Seq(Cells)
    BY <1>7, AppendProperties
  <2>2. WithoutNotes(k) \in {WithoutNotes(s), Append(WithoutNotes(s), c)}
    BY <1>5, NotesAppend
  <2> QED
    BY <1>7, <2>1, <2>2
<1> QED
  BY <1>3, <1>8

LEMMA NotesConcat ==
    ASSUME NEW a \in Seq(Cells), NEW b \in Seq(Cells)
    PROVE  WithoutNotes(a \o b) = WithoutNotes(a) \o WithoutNotes(b)
<1> DEFINE Apart(k) == WithoutNotes(a \o k) = WithoutNotes(a) \o WithoutNotes(k)
           Bad == {n \in Nat : \E k \in Seq(Cells) : Len(k) = n /\ ~Apart(k)}
<1>1. SUFFICES ASSUME Bad # {} PROVE FALSE
  BY LenProperties
<1>2. PICK n \in Bad : \A j \in Bad : n <= j
  BY <1>1, Least
<1>3. PICK k \in Seq(Cells) : Len(k) = n /\ ~Apart(k)
  BY <1>2
<1>4. WithoutNotes(a) \in Seq(Cells)
  BY NotesTypes
<1>5. k # << >>
  <2>1. Apart(<< >>)
    BY <1>4, NotesEmpty, ConcatEmptySeq
  <2> QED
    BY <1>3, <2>1
<1>6. PICK s \in Seq(Cells), c \in Cells : k = Append(s, c)
  BY <1>5, SequenceEmptyOrAppend
<1>7. Len(s) \in Nat /\ Len(s) < n /\ Len(s) \notin Bad
  BY <1>2, <1>3, <1>6, LenProperties, AppendProperties
<1>8. Apart(s)
  BY <1>7
<1>9. a \o s \in Seq(Cells) /\ a \o k = Append(a \o s, c)
  BY <1>6
<1>10. WithoutNotes(s) \in Seq(Cells)
  BY NotesTypes
<1>11. CASE c.kind = Note
  BY <1>3, <1>6, <1>8, <1>9, <1>11, NotesAppend
<1>12. CASE c.kind # Note
  <2>1. WithoutNotes(a \o k) = Append(WithoutNotes(a) \o WithoutNotes(s), c)
    BY <1>8, <1>9, <1>12, NotesAppend
  <2>2. WithoutNotes(k) = Append(WithoutNotes(s), c)
    BY <1>6, <1>12, NotesAppend
  <2>3. WithoutNotes(a) \o Append(WithoutNotes(s), c)
            = Append(WithoutNotes(a) \o WithoutNotes(s), c)
    BY <1>4, <1>10
  <2> QED
    BY <1>3, <2>1, <2>2, <2>3
<1> QED
  BY <1>11, <1>12

-----------------------------------------------------------------------------
(* The newest lines.                                                       *)

\* They are a suffix of what was written.
LEMMA NewestIsSuffix ==
    ASSUME NEW mark, NEW k \in Seq(Cells), NEW b \in Seq(Cells), NewestLines(k, b, mark)
    PROVE  IsSuffix(k, b)
<1> DEFINE r == [i \in 1 .. Len(k) |-> k[Len(k) - i + 1]]
           q == [i \in 1 .. Len(b) |-> b[Len(b) - i + 1]]
<1>1. Len(k) \in Nat /\ Len(b) \in Nat /\ Len(k) <= Len(b)
  BY LenProperties DEF NewestLines
<1>2. r \in Seq(Cells) /\ q \in Seq(Cells) /\ Len(r) = Len(k) /\ Len(q) = Len(b)
  BY <1>1
<1>3. \A i \in 1 .. Len(k) : r[i] = q[i]
  <2> TAKE i \in 1 .. Len(k)
  <2>1. Len(k) - i + 1 \in 1 .. Len(k)
    BY <1>1
  <2>2. k[Len(k) - i + 1] = b[Len(b) - Len(k) + (Len(k) - i + 1)]
    BY <2>1 DEF NewestLines
  <2>3. Len(b) - Len(k) + (Len(k) - i + 1) = Len(b) - i + 1
    BY <1>1
  <2> QED
    BY <1>1, <2>2, <2>3
<1>4. r = Reverse(k) /\ q = Reverse(b)
  BY DEF Reverse
<1> HIDE DEF r, q
<1>5. SubSeq(r, 1, Len(r)) = SubSeq(q, 1, Len(r))
  <2>1. /\ SubSeq(r, 1, Len(r)) \in Seq(Cells) /\ SubSeq(q, 1, Len(r)) \in Seq(Cells)
        /\ Len(SubSeq(r, 1, Len(r))) = Len(k) /\ Len(SubSeq(q, 1, Len(r))) = Len(k)
        /\ \A i \in 1 .. Len(k) : SubSeq(r, 1, Len(r))[i] = r[i] /\ SubSeq(q, 1, Len(r))[i] = q[i]
    BY <1>1, <1>2
  <2> QED
    BY <1>3, <2>1, SeqEqual
<1> QED
  BY <1>1, <1>2, <1>4, <1>5 DEF IsSuffix, IsPrefix

\* An entry goes to the end of both.
LEMMA NewestGrows ==
    ASSUME NEW mark, NEW k \in Seq(Cells), NEW b \in Seq(Cells), NEW e \in Seq(Cells),
           NewestLines(k, b, mark)
    PROVE  NewestLines(k \o e, b \o e, mark)
<1>1. Len(k) \in Nat /\ Len(b) \in Nat /\ Len(e) \in Nat /\ Len(k) <= Len(b)
  BY LenProperties DEF NewestLines
<1>2. Len(k \o e) = Len(k) + Len(e) /\ Len(b \o e) = Len(b) + Len(e)
  OBVIOUS
<1>3. ASSUME NEW i \in 1 .. Len(k \o e)
      PROVE  (k \o e)[i] = (b \o e)[Len(b \o e) - Len(k \o e) + i]
  <2>1. Len(b \o e) - Len(k \o e) + i = Len(b) - Len(k) + i
    BY <1>1, <1>2
  <2>2. CASE i <= Len(k)
    <3>1. k[i] = b[Len(b) - Len(k) + i] /\ Len(b) - Len(k) + i \in 1 .. Len(b)
      BY <1>1, <1>2, <2>2 DEF NewestLines
    <3> QED
      BY <1>1, <1>2, <2>1, <2>2, <3>1, ConcatProperties
  <2>3. CASE i > Len(k)
    <3>1. (k \o e)[i] = e[i - Len(k)]
      BY <1>1, <1>2, <2>3, ConcatProperties
    <3>2. Len(b) - Len(k) + i \in 1 .. (Len(b) + Len(e)) /\ ~(Len(b) - Len(k) + i <= Len(b))
      BY <1>1, <1>2, <2>3
    <3>3. (b \o e)[Len(b) - Len(k) + i] = e[Len(b) - Len(k) + i - Len(b)]
      BY <1>1, <3>2, ConcatProperties
    <3>4. Len(b) - Len(k) + i - Len(b) = i - Len(k)
      BY <1>1, <1>2
    <3> QED
      BY <2>1, <3>1, <3>3, <3>4
  <2> QED
    BY <1>1, <1>2, <2>2, <2>3
<1>4. k \o e = b \o e \/ mark = 0 \/ (b \o e)[Len(b \o e) - Len(k \o e)].kind = End
  <2>1. SUFFICES ASSUME k # b, mark # 0
                 PROVE  (b \o e)[Len(b \o e) - Len(k \o e)].kind = End
    OBVIOUS
  <2>2. b[Len(b) - Len(k)].kind = End
    BY <2>1 DEF NewestLines
  <2>3. Len(k) # Len(b)
    <3>1. SUFFICES ASSUME Len(k) = Len(b) PROVE FALSE
      OBVIOUS
    <3>2. \A i \in 1 .. Len(k) : k[i] = b[i]
      BY <1>1, <3>1 DEF NewestLines
    <3> QED
      BY <2>1, <3>1, <3>2, SeqEqual
  <2>4. Len(b) - Len(k) \in 1 .. Len(b) /\ Len(b \o e) - Len(k \o e) = Len(b) - Len(k)
    BY <1>1, <1>2, <2>3
  <2> QED
    BY <1>1, <2>2, <2>4, ConcatProperties
<1>5. Len(k \o e) <= Len(b \o e)
  BY <1>1, <1>2
<1> HIDE DEF NewestLines
<1> QED
  <2> DEFINE ke == k \o e
             be == b \o e
  <2>1. /\ Len(ke) <= Len(be)
        /\ \A i \in 1 .. Len(ke) : ke[i] = be[Len(be) - Len(ke) + i]
        /\ ke = be \/ mark = 0 \/ be[Len(be) - Len(ke)].kind = End
    BY <1>3, <1>4, <1>5
  <2> HIDE DEF ke, be
  <2>2. NewestLines(ke, be, mark)
    BY <2>1 DEF NewestLines
  <2> QED
    BY <2>2 DEF ke, be

\* Cutting off lines at the old end.
LEMMA NewestCut ==
    ASSUME NEW mark, NEW u \in Seq(Cells), NEW k \in Seq(Cells), NEW b \in Seq(Cells),
           NewestLines(u \o k, b, mark),
           mark = 0 \/ (Len(u) > 0 /\ u[Len(u)].kind = End)
    PROVE  NewestLines(k, b, mark)
<1>1. Len(k) \in Nat /\ Len(b) \in Nat /\ Len(u) \in Nat /\ Len(u \o k) = Len(u) + Len(k)
  BY LenProperties
<1>2. Len(u) + Len(k) <= Len(b)
  BY <1>1 DEF NewestLines
<1>3. \A i \in 1 .. Len(u) + Len(k) : (u \o k)[i] = b[Len(b) - (Len(u) + Len(k)) + i]
  BY <1>1 DEF NewestLines
<1>4. ASSUME NEW i \in 1 .. Len(k)
      PROVE  k[i] = b[Len(b) - Len(k) + i]
  <2>1. Len(u) + i \in 1 .. Len(u) + Len(k) /\ ~(Len(u) + i <= Len(u)) /\ Len(u) + i - Len(u) = i
    BY <1>1
  <2>2. (u \o k)[Len(u) + i] = k[i]
    BY <2>1, ConcatProperties
  <2>3. Len(b) - (Len(u) + Len(k)) + (Len(u) + i) = Len(b) - Len(k) + i
    BY <1>1
  <2> QED
    BY <1>3, <2>1, <2>2, <2>3
<1>5. CASE mark # 0
  <2>1. Len(u) > 0 /\ u[Len(u)].kind = End
    BY <1>5
  <2>2. Len(u) \in 1 .. Len(u) + Len(k)
    BY <1>1, <2>1
  <2>3. (u \o k)[Len(u)] = u[Len(u)]
    BY <1>1, <2>2, ConcatProperties
  <2>4. Len(b) - (Len(u) + Len(k)) + Len(u) = Len(b) - Len(k)
    BY <1>1
  <2>5. b[Len(b) - Len(k)].kind = End
    BY <1>3, <2>1, <2>2, <2>3, <2>4
  <2> QED
    BY <1>1, <1>2, <1>4, <2>5 DEF NewestLines
<1> QED
  BY <1>1, <1>2, <1>4, <1>5 DEF NewestLines

\* What is behind the end of a line is the newest part of a file.
LEMMA RestIsNewest ==
    ASSUME NEW mark, NEW l \in Seq(Cells), NEW p \in Nat, p <= Len(l), NEW b \in Seq(Cells),
           NewestLines(WithoutNotes(l), b, mark),
           mark = 0 \/ (p > 0 /\ l[p].kind = End)
    PROVE  NewestLines(WithoutNotes(SubSeq(l, p + 1, Len(l))), b, mark)
<1> DEFINE u == SubSeq(l, 1, p)
           r == SubSeq(l, p + 1, Len(l))
<1>1. Len(l) \in Nat
  BY LenProperties
<1>2. u \in Seq(Cells) /\ r \in Seq(Cells)
  BY <1>1
<1>3. l = u \o r
  <2>0. 1 \in 1 .. Len(l) + 1 /\ p \in 1 - 1 .. Len(l) /\ Len(l) \in p .. Len(l)
    BY <1>1
  <2>1. u \o r = SubSeq(l, 1, Len(l))
    BY <2>0, ConcatAdjacentSubSeq
  <2> QED
    BY <2>1, SubSeqFull
<1>4. WithoutNotes(l) = WithoutNotes(u) \o WithoutNotes(r)
  BY <1>2, <1>3, NotesConcat
<1>5. WithoutNotes(u) \in Seq(Cells) /\ WithoutNotes(r) \in Seq(Cells)
  BY <1>2, NotesTypes
<1>6. CASE mark = 0
  BY <1>4, <1>5, <1>6, NewestCut
<1>7. CASE p > 0 /\ l[p].kind = End
  <2> DEFINE v == SubSeq(l, 1, p - 1)
             c == l[p]
  <2>1. v \in Seq(Cells) /\ c \in Cells /\ u \in Seq(Cells)
    BY <1>1, <1>7
  <2>2. Append(v, c) = u
    <3>1. Len(v) = p - 1 /\ Len(u) = p /\ Len(Append(v, c)) = p
      BY <1>1, <1>7
    <3>2. ASSUME NEW i \in 1 .. p PROVE Append(v, c)[i] = u[i]
      BY <1>1, <1>7
    <3>3. Append(v, c) \in Seq(Cells)
      BY <2>1
    <3> QED
      BY <2>1, <3>1, <3>2, <3>3, SeqEqual
  <2>3. c.kind = End /\ c.kind # Note
    BY <1>7 DEF End, Note
  <2> HIDE DEF v, c, u
  <2>4. WithoutNotes(u) = Append(WithoutNotes(v), c)
    BY <2>1, <2>2, <2>3, NotesAppend
  <2>5. WithoutNotes(v) \in Seq(Cells)
    BY <2>1, NotesTypes
  <2>6. Len(WithoutNotes(u)) > 0 /\ WithoutNotes(u)[Len(WithoutNotes(u))] = c
    BY <2>1, <2>4, <2>5
  <2> QED
    BY <1>4, <1>5, <2>3, <2>6, NewestCut
<1> QED
  BY <1>6, <1>7

\* The cells of an entry are all of them entered.
LEMMA EntryNotes ==
    ASSUME NEW n \in Nat, NEW cells,
           cells \in {<<Cell(Text, n), Cell(End, n)>>, <<Cell(Text, n)>>, <<Cell(End, n)>>}
    PROVE  cells \in Seq(Cells) /\ WithoutNotes(cells) = cells
<1>1. /\ Cell(Text, n) \in Cells /\ Cell(Text, n).kind # Note
      /\ Cell(End, n) \in Cells /\ Cell(End, n).kind # Note
  BY CellsWritten DEF Cell, Text, End, Note
<1>2. << >> \in Seq(Cells)
  BY EmptySeq
<1>3. ASSUME NEW c \in Cells, c.kind # Note
      PROVE  <<c>> \in Seq(Cells) /\ WithoutNotes(<<c>>) = <<c>>
  <2>1. <<c>> = Append(<< >>, c)
    OBVIOUS
  <2>2. WithoutNotes(Append(<< >>, c)) = Append(WithoutNotes(<< >>), c)
    BY <1>2, <1>3, NotesAppend
  <2> QED
    BY <2>1, <2>2, NotesEmpty
<1>4. CASE cells \in {<<Cell(Text, n)>>, <<Cell(End, n)>>}
  BY <1>1, <1>3, <1>4
<1>5. CASE cells = <<Cell(Text, n), Cell(End, n)>>
  <2>1. cells = Append(<<Cell(Text, n)>>, Cell(End, n))
    BY <1>5
  <2>2. <<Cell(Text, n)>> \in Seq(Cells) /\ WithoutNotes(<<Cell(Text, n)>>) = <<Cell(Text, n)>>
    BY <1>1, <1>3
  <2>3. WithoutNotes(Append(<<Cell(Text, n)>>, Cell(End, n)))
            = Append(WithoutNotes(<<Cell(Text, n)>>), Cell(End, n))
    BY <1>1, <2>2, NotesAppend
  <2>4. Append(<<Cell(Text, n)>>, Cell(End, n)) \in Seq(Cells)
    BY <1>1, <2>2, AppendProperties
  <2> QED
    BY <2>1, <2>2, <2>3, <2>4
<1> QED
  BY <1>4, <1>5

-----------------------------------------------------------------------------
(* The newest lines are kept.                                              *)

LEMMA KeptInitially == Init => KeptInv
<1> SUFFICES ASSUME Init PROVE KeptInv
  OBVIOUS
<1>1. book = << >> /\ log = << >> /\ tmp = << >> /\ << >> \in Seq(Cells)
  BY EmptySeq DEF Init
<1>2. << >> \o << >> = << >> /\ Len(<< >>) = 0
  OBVIOUS
<1>3. WithoutNotes(log) \o WithoutNotes(tmp) = << >>
  BY <1>1, <1>2, NotesEmpty
<1>4. NewestLines(<< >>, << >>, low)
  BY <1>2 DEF NewestLines
<1>5. Newest
  BY <1>1, <1>3, <1>4 DEF Newest
<1>6. CutPoint /\ SetAside
  BY <1>1 DEF Init, CutPoint, SetAside
<1> QED
  BY <1>1, <1>5, <1>6 DEF KeptInv

\* A place that only one process can be at, and what is set aside.
LEMMA SetAsideKept == LogInv /\ KeptInv /\ [Next]_vars => SetAside'
<1> SUFFICES ASSUME LogInv, KeptInv, [Next]_vars PROVE SetAside'
  OBVIOUS
<1>1. SetAside /\ HolderWorks /\ pc \in [Writers -> Places]
  BY DEF LogInv, LogTypes, KeptInv
<1>2. CASE UNCHANGED vars
  BY <1>1, <1>2 DEF vars, SetAside
<1> SUFFICES ASSUME NEW w \in Writers,
                    Open(w) \/ Write(w) \/ SkipUnread(w) \/ WaitInterrupted(w) \/ Killed(w)
             PROVE  SetAside'
  BY <1>2 DEF Next
<1>3. ASSUME NEW where \in Places, Goto(w, where), tmp' = tmp, pc[w] # "back"
      PROVE  SetAside'
  <2>1. \A v \in Writers : pc[v] = "back" => pc'[v] = "back"
    BY <1>1, <1>3 DEF Goto
  <2> QED
    BY <1>1, <1>3, <2>1 DEF SetAside
<1> USE DEF Places
<1>4. CASE Open(w) \/ WaitLock(w) \/ WaitInterrupted(w) \/ DiskLow(w) \/ NoTrim(w) \/ Trim(w)
  BY <1>3, <1>4 DEF Open, WaitLock, WaitInterrupted, DiskLow, NoTrim, Trim, Close
<1>5. CASE SkipToLine(w) \/ SkipUnread(w) \/ CopyAsideFails(w)
  BY <1>3, <1>5 DEF SkipToLine, SkipUnread, CopyAsideFails, Close
<1>6. CASE WriteLine(w) \/ WriteText(w) \/ WriteNewline(w) \/ WriteFails(w)
  BY <1>3, <1>6 DEF WriteLine, WriteText, WriteNewline, WriteFails, Close
<1>7. CASE CopyAside(w)
  BY <1>1, <1>7 DEF CopyAside, Goto, SetAside
<1>8. CASE CopyBack(w)
  BY <1>8 DEF CopyBack, SetAside
<1>9. CASE CopyBackFails(w) \/ NoteTrimmed(w)
  BY <1>9 DEF CopyBackFails, NoteTrimmed, SetAside
<1>10. CASE Killed(w)
  <2>1. CASE lock = w
    BY <1>10, <2>1 DEF Killed, SetAside
  <2>2. CASE lock # w
    <3>1. pc[w] # "back" /\ tmp' = tmp /\ Goto(w, "idle")
      BY <1>1, <1>10, <2>2 DEF Killed, HolderWorks
    <3> QED
      BY <1>3, <3>1
  <2> QED
    BY <2>1, <2>2
<1> QED
  BY <1>4, <1>5, <1>6, <1>7, <1>8, <1>9, <1>10 DEF Write

\* The end of a line found in the file stays where it is, for the process that
\* has found it has the lock.
LEMMA CutPointKept == LogInv /\ KeptInv /\ [Next]_vars => CutPoint'
<1> SUFFICES ASSUME LogInv, KeptInv, [Next]_vars PROVE CutPoint'
  OBVIOUS
<1>1. /\ CutPoint /\ HolderWorks /\ pc \in [Writers -> Places]
      /\ low \in Nat /\ high \in Nat /\ log \in Seq(Cells) /\ pos \in Nat
  BY DEF LogInv, LogTypes, KeptInv
<1>2. CASE UNCHANGED vars
  BY <1>1, <1>2 DEF vars, CutPoint
<1> SUFFICES ASSUME NEW w \in Writers,
                    Open(w) \/ Write(w) \/ SkipUnread(w) \/ WaitInterrupted(w) \/ Killed(w)
             PROVE  CutPoint'
  BY <1>2 DEF Next
<1>3. UNCHANGED low /\ Len(log) \in Nat
  BY <1>1, LenProperties
     DEF Write, Open, SkipUnread, WaitInterrupted, Killed, WaitLock, DiskLow, NoTrim,
         Trim, SkipToLine, CopyAside, CopyAsideFails, CopyBack, CopyBackFails, NoteTrimmed,
         WriteLine, WriteText, WriteNewline, WriteFails
<1>4. ASSUME NEW where \in Places, Goto(w, where), lock = w \/ UNCHANGED <<log, pos>>,
             where = "search" => log' = log /\ pos' <= Len(log) /\ (pos' = Len(log) => low = 0),
             where = "copy" => /\ log' = log /\ pos' <= Len(log)
                               /\ low = 0 \/ (pos' > 0 /\ log[pos'].kind = End)
      PROVE  CutPoint'
  <2>1. pc'[w] = where /\ \A v \in Writers \ {w} : pc'[v] = pc[v]
    BY <1>1, <1>4 DEF Goto
  <2>2. ASSUME NEW v \in Writers \ {w}, pc[v] \in {"search", "copy"}
        PROVE  UNCHANGED <<log, pos>>
    BY <1>1, <1>4, <2>2 DEF HolderWorks
  <2> QED
    BY <1>1, <1>3, <1>4, <2>1, <2>2 DEF CutPoint
<1>5. pc[w] \notin {"idle", "lock"} => lock = w
  BY <1>1 DEF HolderWorks
<1> USE DEF Places
<1>6. CASE Open(w) \/ WaitLock(w) \/ WaitInterrupted(w) \/ DiskLow(w) \/ NoTrim(w)
  BY <1>4, <1>6 DEF Open, WaitLock, WaitInterrupted, DiskLow, NoTrim, Close
<1>7. CASE Trim(w)
  <2>1. Goto(w, "search") /\ lock = w /\ log' = log /\ pos' = Len(log) - low
    BY <1>5, <1>7 DEF Trim, SeekPoint
  <2>2. pos' <= Len(log) /\ (pos' = Len(log) => low = 0)
    BY <1>1, <1>3, <2>1
  <2> QED
    BY <1>4, <2>1, <2>2
<1>8. CASE SkipToLine(w)
  <2>1. Goto(w, "copy") /\ lock = w /\ log' = log
    BY <1>5, <1>8 DEF SkipToLine
  <2>2. pos' \in (pos + 1) .. Len(log) /\ log[pos'].kind = End
    BY <1>8 DEF SkipToLine, LineAfter, NewlinesAfter
  <2>3. pos' <= Len(log) /\ pos' > 0
    BY <1>1, <1>3, <2>2
  <2> QED
    BY <1>4, <2>1, <2>2, <2>3
<1>9. CASE SkipUnread(w)
  <2>1. Goto(w, "copy") /\ lock = w /\ log' = log /\ pos' = pos /\ pos = Len(log)
    BY <1>5, <1>9 DEF SkipUnread
  <2>2. low = 0
    BY <1>1, <1>9, <2>1 DEF SkipUnread, CutPoint
  <2> QED
    BY <1>3, <1>4, <2>1, <2>2
<1>10. CASE CopyAside(w) \/ CopyAsideFails(w) \/ CopyBackFails(w) \/ NoteTrimmed(w)
  <2>1. lock = w
    BY <1>5, <1>10 DEF CopyAside, CopyAsideFails, CopyBackFails, NoteTrimmed
  <2> QED
    BY <1>4, <1>10, <2>1 DEF CopyAside, CopyAsideFails, CopyBackFails, NoteTrimmed, Close
<1>11. CASE CopyBack(w)
  <2>1. Goto(w, "back") /\ lock = w
    BY <1>1, <1>5, <1>11 DEF CopyBack, Goto
  <2> QED
    BY <1>4, <2>1
<1>12. CASE WriteLine(w) \/ WriteText(w) \/ WriteNewline(w) \/ WriteFails(w)
  <2>1. lock = w
    BY <1>5, <1>12 DEF WriteLine, WriteText, WriteNewline, WriteFails
  <2> QED
    BY <1>4, <1>12, <2>1 DEF WriteLine, WriteText, WriteNewline, WriteFails, Close
<1>13. CASE Killed(w)
  <2>1. Goto(w, "idle") /\ (lock = w \/ UNCHANGED <<log, pos>>)
    BY <1>13 DEF Killed
  <2> QED
    BY <1>4, <2>1
<1> QED
  BY <1>6, <1>7, <1>8, <1>9, <1>10, <1>11, <1>12, <1>13 DEF Write

\* A trim takes away old lines and puts back the rest; an entry goes to the end
\* of the file; nothing else but a copy cut short changes what is kept.
LEMMA NewestKept == LogInv /\ KeptInv /\ [Next]_vars => book' \in Seq(Cells) /\ Newest'
<1> SUFFICES ASSUME LogInv, KeptInv, [Next]_vars PROVE book' \in Seq(Cells) /\ Newest'
  OBVIOUS
<1>1. /\ Newest /\ SetAside /\ HolderWorks /\ CutPoint /\ book \in Seq(Cells)
      /\ log \in Seq(Cells) /\ tmp \in Seq(Cells) /\ pos \in Nat /\ id \in [Writers -> Nat]
  BY DEF LogInv, LogTypes, KeptInv
<1>2. /\ WithoutNotes(log) \in Seq(Cells) /\ WithoutNotes(tmp) \in Seq(Cells)
      /\ WithoutNotes(log) \o WithoutNotes(tmp) \in Seq(Cells)
  BY <1>1, NotesTypes
<1>3. ASSUME UNCHANGED <<log, tmp, book, low>>, cut => cut'
      PROVE  book' \in Seq(Cells) /\ Newest'
  BY <1>1, <1>3 DEF Newest
<1>4. CASE UNCHANGED vars
  BY <1>3, <1>4 DEF vars
<1> SUFFICES ASSUME NEW w \in Writers,
                    Open(w) \/ Write(w) \/ SkipUnread(w) \/ WaitInterrupted(w) \/ Killed(w)
             PROVE  book' \in Seq(Cells) /\ Newest'
  BY <1>4 DEF Next
<1>5. pc[w] \in {"copy", "write", "newline", "blank"} => tmp = << >>
  <2>1. SUFFICES ASSUME pc[w] \in {"copy", "write", "newline", "blank"}, tmp # << >> PROVE FALSE
    OBVIOUS
  <2>2. PICK v \in Writers : pc[v] = "back"
    BY <1>1, <2>1 DEF SetAside
  <2>3. lock = v /\ lock = w
    BY <1>1, <2>1, <2>2 DEF HolderWorks
  <2> QED
    BY <2>1, <2>2, <2>3
<1>6. tmp = << >> => WithoutNotes(log) \o WithoutNotes(tmp) = WithoutNotes(log)
  BY <1>2, NotesEmpty, ConcatEmptySeq
<1>7. CASE Open(w) \/ WaitLock(w) \/ WaitInterrupted(w) \/ DiskLow(w) \/ NoTrim(w) \/ Trim(w)
           \/ SkipToLine(w) \/ SkipUnread(w) \/ CopyAsideFails(w) \/ WriteFails(w)
  BY <1>3, <1>7 DEF Open, WaitLock, WaitInterrupted, DiskLow, NoTrim, Trim, SkipToLine,
                    SkipUnread, CopyAsideFails, WriteFails
<1>8. CASE CopyAside(w)
  <2>1. /\ tmp' = SubSeq(log, pos + 1, Len(log)) /\ log' = << >> /\ UNCHANGED <<low, book, cut>>
        /\ pc[w] = "copy"
    BY <1>8 DEF CopyAside
  <2>2. tmp = << >> /\ pos <= Len(log) /\ (low = 0 \/ (pos > 0 /\ log[pos].kind = End))
    BY <1>1, <1>5, <2>1 DEF CutPoint
  <2>3. ASSUME ~cut PROVE NewestLines(WithoutNotes(tmp'), book, low)
    BY <1>1, <1>6, <2>1, <2>2, <2>3, RestIsNewest DEF Newest
  <2>4. tmp' \in Seq(Cells)
    BY <1>1, <2>1, RestOfLog
  <2>5. WithoutNotes(log') \o WithoutNotes(tmp') = WithoutNotes(tmp')
    BY <2>1, <2>4, NotesTypes, NotesEmpty, ConcatEmptySeq
  <2> QED
    BY <1>1, <2>1, <2>3, <2>5 DEF Newest
<1>9. CASE CopyBack(w)
  <2>1. /\ tmp # << >> /\ log' = Append(log, Head(tmp)) /\ tmp' = Tail(tmp)
        /\ UNCHANGED <<low, book, cut>>
    BY <1>9 DEF CopyBack
  <2> DEFINE h == Head(tmp)
             t == Tail(tmp)
  <2>2. h \in Cells /\ t \in Seq(Cells) /\ <<h>> \in Seq(Cells)
    BY <1>1, <2>1, HeadTailProperties
  <2>3. tmp = <<h>> \o t /\ Append(log, h) = log \o <<h>>
    <3>1. Len(tmp) \in Nat /\ Len(tmp) >= 1
      BY <1>1, <2>1, EmptySeq
    <3>2. 1 \in 1 .. Len(tmp) /\ Len(tmp) \in 1 .. Len(tmp)
      BY <3>1
    <3>3. SubSeq(tmp, 1, Len(tmp)) = <<tmp[1]>> \o SubSeq(tmp, 1 + 1, Len(tmp))
      BY <1>1, <3>2, SubSeqRecursiveFirst
    <3>4. SubSeq(tmp, 1, Len(tmp)) = tmp /\ t = SubSeq(tmp, 2, Len(tmp)) /\ h = tmp[1]
      BY <1>1, <2>1, SubSeqFull, TailIsSubSeq
    <3> HIDE DEF h, t
    <3>5. tmp = <<h>> \o t
      BY <3>3, <3>4
    <3> QED
      BY <1>1, <2>2, <3>5, AppendIsConcat
  <2> HIDE DEF h, t
  <2>4. /\ WithoutNotes(tmp) = WithoutNotes(<<h>>) \o WithoutNotes(t)
        /\ WithoutNotes(Append(log, h)) = WithoutNotes(log) \o WithoutNotes(<<h>>)
    BY <1>1, <2>2, <2>3, NotesConcat
  <2>5. WithoutNotes(<<h>>) \in Seq(Cells) /\ WithoutNotes(t) \in Seq(Cells)
    BY <2>2, NotesTypes
  <2>6. WithoutNotes(log') \o WithoutNotes(tmp') = WithoutNotes(log) \o WithoutNotes(tmp)
    <3>1. log' = Append(log, h) /\ tmp' = t
      BY <2>1 DEF h, t
    <3>2. (WithoutNotes(log) \o WithoutNotes(<<h>>)) \o WithoutNotes(t)
              = WithoutNotes(log) \o (WithoutNotes(<<h>>) \o WithoutNotes(t))
      BY <1>2, <2>5, ConcatAssociative
    <3> QED
      BY <2>4, <3>1, <3>2
  <2> QED
    BY <1>1, <2>1, <2>6 DEF Newest
<1>10. CASE CopyBackFails(w)
  BY <1>1, <1>10 DEF CopyBackFails, Newest
<1>11. CASE NoteTrimmed(w)
  <2>1. UNCHANGED <<low, book, cut, tmp>> /\ log' \in {Append(log, NoteCell), log}
    BY <1>11 DEF NoteTrimmed
  <2>2. NoteCell \in Cells /\ NoteCell.kind = Note
    BY CellsWritten DEF NoteCell
  <2>3. WithoutNotes(log') = WithoutNotes(log)
    BY <1>1, <2>1, <2>2, NotesAppend
  <2> QED
    BY <1>1, <2>1, <2>3 DEF Newest
<1>12. ASSUME NEW cells, Enter(cells), pc[w] \in {"write", "newline", "blank"},
              UNCHANGED <<low, tmp, cut>>,
              cells \in {<<Cell(Text, id[w]), Cell(End, id[w])>>, <<Cell(Text, id[w])>>,
                         <<Cell(End, id[w])>>}
       PROVE  book' \in Seq(Cells) /\ Newest'
  <2>1. cells \in Seq(Cells) /\ WithoutNotes(cells) = cells
    BY <1>1, <1>12, EntryNotes
  <2>2. log' = log \o cells /\ book' = book \o cells /\ tmp = << >>
    BY <1>5, <1>12 DEF Enter
  <2>3. WithoutNotes(log') = WithoutNotes(log) \o cells
    BY <1>1, <2>1, <2>2, NotesConcat
  <2>4. WithoutNotes(log') \in Seq(Cells)
    BY <1>2, <2>1, <2>3, ConcatProperties
  <2>5. WithoutNotes(log') \o WithoutNotes(tmp') = WithoutNotes(log')
    BY <1>12, <2>2, <2>4, NotesEmpty, ConcatEmptySeq
  <2>6. ASSUME ~cut PROVE NewestLines(WithoutNotes(log) \o cells, book \o cells, low)
    BY <1>1, <1>2, <1>6, <2>1, <2>2, <2>6, NewestGrows DEF Newest
  <2>7. book' \in Seq(Cells)
    BY <1>1, <2>1, <2>2, ConcatProperties
  <2> QED
    BY <1>12, <2>2, <2>3, <2>5, <2>6, <2>7 DEF Newest
<1>13. CASE WriteLine(w)
  BY <1>12, <1>13 DEF WriteLine
<1>14. CASE WriteText(w)
  BY <1>12, <1>14 DEF WriteText
<1>15. CASE WriteNewline(w)
  <2>1. CASE Enter(<<Cell(End, id[w])>>)
    BY <1>12, <1>15, <2>1 DEF WriteNewline
  <2>2. CASE UNCHANGED <<log, book>>
    BY <1>3, <1>15, <2>2 DEF WriteNewline
  <2> QED
    BY <1>15, <2>1, <2>2 DEF WriteNewline
<1>16. CASE Killed(w)
  <2>1. UNCHANGED <<low, log, book>> /\ (cut => cut')
    BY <1>16 DEF Killed
  <2>2. CASE tmp' = tmp
    BY <1>3, <2>1, <2>2
  <2>3. CASE tmp' # tmp
    <3>1. lock = w /\ tmp # << >>
      BY <1>16, <2>3 DEF Killed
    <3>2. pc[w] = "back"
      BY <1>1, <3>1 DEF SetAside, HolderWorks
    <3>3. cut'
      BY <1>16, <3>1, <3>2 DEF Killed
    <3> QED
      BY <1>1, <2>1, <3>3 DEF Newest
  <2> QED
    BY <2>2, <2>3
<1> QED
  BY <1>7, <1>8, <1>9, <1>10, <1>11, <1>13, <1>14, <1>15, <1>16 DEF Write

LEMMA KeptInvariant == Spec => [](LogInv /\ KeptInv)
<1>1. Init => LogInv /\ KeptInv
  BY LogInitially, KeptInitially
<1>2. LogInv /\ KeptInv /\ [Next]_vars => (LogInv /\ KeptInv)'
  <2>1. LogInv /\ [Next]_vars => LogInv'
    BY TypesKept, HolderKept, RoomKept DEF LogInv
  <2>2. LogInv /\ KeptInv /\ [Next]_vars => KeptInv'
    BY SetAsideKept, CutPointKept, NewestKept DEF KeptInv
  <2> QED
    BY <2>1, <2>2
<1> QED
  BY <1>1, <1>2, PTL DEF Spec

\* Whatever trims a log has been through, it holds the newest of what was ever
\* written to it, from the beginning of a line, unless a trim was cut short
\* while it put the lines back (logging.c 384-573).
THEOREM OldLinesGoFirst == Spec => []NewestLinesKept
<1>1. LogInv /\ KeptInv => NewestLinesKept
  <2> SUFFICES ASSUME LogInv, KeptInv, lock = Free, ~cut
               PROVE  /\ IsSuffix(Kept, book)
                      /\ Kept = book \/ low = 0 \/ book[Len(book) - Len(Kept)].kind = End
    BY DEF NewestLinesKept
  <2>1. tmp = << >>
    BY LogAssumption DEF LogInv, HolderWorks, KeptInv, SetAside
  <2>2. log \in Seq(Cells) /\ book \in Seq(Cells)
    BY DEF LogInv, LogTypes, KeptInv
  <2>3. Kept \in Seq(Cells)
    BY <2>2, NotesTypes DEF Kept
  <2>4. NewestLines(Kept, book, low)
    <3>1. WithoutNotes(log) \o WithoutNotes(tmp) = Kept
      BY <2>1, <2>3, NotesEmpty, ConcatEmptySeq DEF Kept
    <3> QED
      BY <3>1 DEF KeptInv, Newest
  <2>5. IsSuffix(Kept, book)
    BY <2>2, <2>3, <2>4, NewestIsSuffix
  <2> QED
    BY <2>4, <2>5 DEF NewestLines
<1> QED
  BY <1>1, KeptInvariant, PTL
=============================================================================
