------------------------------ MODULE MCLogTrim ------------------------------
EXTENDS LogTrim

\* Not trimmed, as the print log; high above low, as the error log; equal.
SomeMarks == {<<0, 0>>, <<3, 5>>, <<3, 6>>, <<4, 4>>, <<0, 3>>}
=============================================================================
