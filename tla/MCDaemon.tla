------------------------------ MODULE MCDaemon ------------------------------
EXTENDS Daemon, TLC

\* The queue with key 0 has been deleted, and its key is free until a page
\* gives it out again.
FirstDeleted == {[k \in Keys |-> IF k = 0 THEN "none" ELSE "up"]}
=============================================================================
