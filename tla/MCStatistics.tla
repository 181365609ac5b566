---------------------------- MODULE MCStatistics ----------------------------
(* Statistics with sets small enough for TLC.                              *)
EXTENDS Statistics

TheUsers == {1}

\* The two threads share nothing but the directories, which neither makes while
\* it runs, except that the Hive-log thread writes a line to the log; LogLine
\* may write it at any time.  So TLC follows the threads one at a time: the
\* statistics thread with a single request, the Hive-log thread with all of
\* them.  Where a call has failed, the first worker serves a single request and
\* does not race with its collection.  A state beyond that is checked, but not
\* its successors.  After the first round current is the last worker.
CountNotBegun == pc = "open" /\ current = 1
HiveNotBegun == hpc = "open" /\ \A w \in Workers : logged[w] = <<>>
OneThreadAtATime ==
    /\ CountNotBegun \/ (HiveNotBegun /\ requests <= 1)
    /\ failed => requests <= 1 /\ ~overlap /\ \A w \in Workers : w > 1 => job[w] = <<>>
=============================================================================
