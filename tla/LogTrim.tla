------------------------------- MODULE LogTrim -------------------------------
(***************************************************************************)
(* One log file of PPS and the processes that write to it: print_log,      *)
(* admin_log, error_log and debug_log, which differ in the line they write *)
(* and in their watermarks, and check_log_size, which cuts a log that has  *)
(* grown to its high watermark back to its newest part.                    *)
(*                                                                         *)
(* The file is a sequence of cells: the text of an entry, the newline that *)
(* ends it, and the note that the log was trimmed, which has no newline.   *)
(* Sizes and watermarks count cells.                                       *)
(***************************************************************************)
EXTENDS Integers, Sequences, SequencesExt

CONSTANTS
    Writers,        \* the processes
    Unsure,         \* those that use error_log or debug_log
    Marks,          \* pairs <<TO, AT>> of watermarks, one of them in force
    MaxEntries,     \* bound: entries anyone tries to write
    MaxKills,       \* bound: processes killed
    Free            \* nobody has the lock

ASSUME LogAssumption ==
    /\ Unsure \subseteq Writers /\ Free \notin Writers
    /\ Marks \subseteq Nat \X Nat
    /\ MaxEntries \in Nat /\ MaxKills \in Nat

Text == "text"
End == "end"
Note == "note"
NoteCell == [kind |-> Note, id |-> 0]
Cell(kind, id) == [kind |-> kind, id |-> id]

VARIABLES
    low, high,      \* the watermarks of this log, TO and AT
    log,            \* the file
    book,           \* every cell of an entry ever written to it
    lock,           \* the process that has the lock on the file
    pc, id,         \* of each process, and the entry it writes
    pos,            \* file offset of the process that trims
    tmp,            \* what is left of its temporary file
    used, kills,    \* entries begun, processes killed
    cut,            \* copying back has been cut short
    unended         \* an entry has gone without its newline

vars == <<low, high, log, book, lock, pc, id, pos, tmp, used, kills, cut, unended>>

Init ==
    /\ \E m \in Marks : low = m[1] /\ high = m[2]
    /\ log = <<>> /\ book = <<>>
    /\ lock = Free
    /\ pc = [w \in Writers |-> "idle"]
    /\ id = [w \in Writers |-> 0]
    /\ pos = 0
    /\ tmp = <<>>
    /\ used = 0 /\ kills = 0
    /\ cut = FALSE /\ unended = FALSE

Goto(w, where) == pc' = [pc EXCEPT ![w] = where]

\* Closing the file gives up the lock.
Close(w) == Goto(w, "idle") /\ lock' = Free

-----------------------------------------------------------------------------
Open(w) ==
    /\ pc[w] = "idle" /\ used < MaxEntries
    /\ used' = used + 1
    /\ id' = [id EXCEPT ![w] = used + 1]
    /\ Goto(w, "lock")
    /\ UNCHANGED <<low, high, log, book, lock, pos, tmp, kills, cut, unended>>

WaitLock(w) ==
    /\ pc[w] = "lock" /\ lock = Free
    /\ lock' = w
    /\ Goto(w, "check")
    /\ UNCHANGED <<low, high, log, book, id, pos, tmp, used, kills, cut, unended>>

\* A signal ends the wait, and the entry is not written.
WaitInterrupted(w) ==
    /\ pc[w] = "lock"
    /\ Goto(w, "idle")
    /\ UNCHANGED <<low, high, log, book, lock, id, pos, tmp, used, kills, cut, unended>>

\* The disk is full or its state cannot be read: no entry either.
DiskLow(w) ==
    /\ pc[w] = "check"
    /\ Close(w)
    /\ UNCHANGED <<low, high, log, book, id, pos, tmp, used, kills, cut, unended>>

Unchecked == high = 0 \/ high < low

\* Faulty variant: one cell too late.
TooLargeLate(size) == ~Unchecked /\ size > high

TooLarge(size) == ~Unchecked /\ size >= high

NoTrim(w) ==
    /\ pc[w] = "check" /\ ~TooLarge(Len(log))
    /\ Goto(w, "write")
    /\ UNCHANGED <<low, high, log, book, lock, id, pos, tmp, used, kills, cut, unended>>

\* Faulty variant: the offset from the end is forgotten.
SeekPointEnd(size) == size

SeekPoint(size) == size - low

Trim(w) ==
    /\ pc[w] = "check" /\ TooLarge(Len(log))
    /\ pos' = SeekPoint(Len(log))
    /\ Goto(w, "search")
    /\ UNCHANGED <<low, high, log, book, lock, id, tmp, used, kills, cut, unended>>

NewlinesAfter(p) == {i \in (p + 1) .. Len(log) : log[i].kind = End}

\* Faulty variant: no search for the beginning of a line.
LineAt(p) == {p}

\* The offset of the line after the first newline behind p, if there is one.
LineAfter(p) == {i \in NewlinesAfter(p) : \A j \in NewlinesAfter(p) : i <= j}

\* Without a newline the loop reads the end of the file again and again.
SkipToLine(w) ==
    /\ pc[w] = "search"
    /\ pos' \in LineAfter(pos)
    /\ Goto(w, "copy")
    /\ UNCHANGED <<low, high, log, book, lock, id, tmp, used, kills, cut, unended>>

\* At the end of the file the first read sets nothing, and the character that
\* is tested, never initialised, may be a newline.
SkipUnread(w) ==
    /\ pc[w] = "search" /\ pos = Len(log)
    /\ Goto(w, "copy")
    /\ UNCHANGED <<low, high, log, book, lock, id, pos, tmp, used, kills, cut, unended>>

\* The rest goes to a temporary file, and the log is truncated to nothing.
CopyAside(w) ==
    /\ pc[w] = "copy"
    /\ tmp' = SubSeq(log, pos + 1, Len(log))
    /\ log' = <<>>
    /\ pos' = 0
    /\ Goto(w, "back")
    /\ UNCHANGED <<low, high, book, lock, id, used, kills, cut, unended>>

\* An error before the truncation leaves the log as it was.
CopyAsideFails(w) ==
    /\ pc[w] = "copy"
    /\ pos' = 0
    /\ Close(w)
    /\ UNCHANGED <<low, high, log, book, id, tmp, used, kills, cut, unended>>

CopyBack(w) ==
    /\ pc[w] = "back" /\ tmp # <<>>
    /\ log' = Append(log, Head(tmp))
    /\ tmp' = Tail(tmp)
    /\ UNCHANGED <<low, high, book, lock, pc, id, pos, used, kills, cut, unended>>

\* An error during it leaves a log without its newest part.
CopyBackFails(w) ==
    /\ pc[w] = "back" /\ tmp # <<>>
    /\ tmp' = <<>>
    /\ cut' = TRUE
    /\ Close(w)
    /\ UNCHANGED <<low, high, log, book, id, pos, used, kills, unended>>

NoteTrimmed(w) ==
    /\ pc[w] = "back" /\ tmp = <<>>
    /\ log' \in {Append(log, NoteCell), log}      \* the write may fail
    /\ Goto(w, "write")
    /\ UNCHANGED <<low, high, book, lock, id, pos, tmp, used, kills, cut, unended>>

Enter(cells) == log' = log \o cells /\ book' = book \o cells

\* print_log and admin_log write line and newline in one.
WriteLine(w) ==
    /\ pc[w] = "write" /\ w \notin Unsure
    /\ Enter(<<Cell(Text, id[w]), Cell(End, id[w])>>)
    /\ Close(w)
    /\ UNCHANGED <<low, high, id, pos, tmp, used, kills, cut, unended>>

\* error_log and debug_log add the newline in a second write, after a test of
\* the wrong string, past its end: it may say that there is a newline already.
WriteText(w) ==
    /\ pc[w] = "write" /\ w \in Unsure
    /\ Enter(<<Cell(Text, id[w])>>)
    /\ Goto(w, "newline")
    /\ UNCHANGED <<low, high, lock, id, pos, tmp, used, kills, cut, unended>>

WriteNewline(w) ==
    /\ pc[w] \in {"newline", "blank"}
    /\ \/ Enter(<<Cell(End, id[w])>>) /\ UNCHANGED unended
       \/ unended' = (unended \/ pc[w] = "newline") /\ UNCHANGED <<log, book>>
    /\ Close(w)
    /\ UNCHANGED <<low, high, id, pos, tmp, used, kills, cut>>

\* A failing write returns -1, which the code takes for success: the newline
\* that is written separately may follow all the same, as a blank line.
WriteFails(w) ==
    /\ pc[w] = "write"
    /\ IF w \in Unsure THEN Goto(w, "blank") /\ lock' = lock ELSE Close(w)
    /\ UNCHANGED <<low, high, log, book, id, pos, tmp, used, kills, cut, unended>>

\* The process is killed, whatever it is at.
Killed(w) ==
    /\ pc[w] # "idle" /\ kills < MaxKills
    /\ kills' = kills + 1
    /\ Goto(w, "idle")
    /\ lock' = IF lock = w THEN Free ELSE lock
    /\ IF lock = w THEN tmp' = <<>> /\ pos' = 0 ELSE UNCHANGED <<tmp, pos>>
    /\ cut' = (cut \/ (pc[w] = "back" /\ tmp # <<>>))
    /\ unended' = (unended \/ pc[w] = "newline")
    /\ UNCHANGED <<low, high, log, book, id, used>>

Write(w) ==
    \/ WaitLock(w) \/ DiskLow(w) \/ NoTrim(w) \/ Trim(w) \/ SkipToLine(w)
    \/ CopyAside(w) \/ CopyAsideFails(w) \/ CopyBack(w) \/ CopyBackFails(w)
    \/ NoteTrimmed(w)
    \/ WriteLine(w) \/ WriteText(w) \/ WriteNewline(w) \/ WriteFails(w)

Next ==
    \E w \in Writers :
        Open(w) \/ Write(w) \/ SkipUnread(w) \/ WaitInterrupted(w) \/ Killed(w)

Spec == Init /\ [][Next]_vars

\* A process that has begun an entry is scheduled; that an uninitialised
\* character happens to be a newline is not to be counted on.
FairSpec == Spec /\ \A w \in Writers : WF_vars(Write(w))

-----------------------------------------------------------------------------
\* The cells of a file that belong to entries.
WithoutNotes(file) ==
    LET upTo[i \in 0 .. Len(file)] ==
          IF i = 0 THEN <<>>
          ELSE IF file[i].kind = Note THEN upTo[i - 1]
          ELSE Append(upTo[i - 1], file[i])
    IN  upTo[Len(file)]

\* The entries that are still in the file.
Kept == WithoutNotes(log)

\* Trimming takes whole lines from the old end and nothing else: between two
\* entries the file, without the notes, is what was written last, from the
\* beginning of a line.  Only a trim cut short in the middle, by an error or
\* a kill, breaks this: it loses the newest lines and keeps older ones.  A low
\* watermark of zero keeps nothing, if the trim ends at all.
NewestLinesKept ==
    lock = Free /\ ~cut =>
        /\ IsSuffix(Kept, book)
        /\ Kept = book \/ low = 0 \/ book[Len(book) - Len(Kept)].kind = End

\* "you may specify that the error logs are not to grow beyond 10MB"
\* (Makefile.in 19): with a high watermark above the low one a log never has
\* more than the high watermark and the entry that passes it, though nobody
\* looks again after a trim, and the note and a second writer add to it.
LogBounded == high > low /\ low > 0 => Len(log) <= high + 1

\* Whoever begins an entry comes to an end with it, unless the loop that looks
\* for the end of a line finds none: with a low watermark shorter than a line,
\* zero included, or with lines that have run together.
EntryEnds ==
    \A w \in Writers : pc[w] # "idle" ~> (pc[w] = "idle" \/ unended \/ low < 3)
=============================================================================
