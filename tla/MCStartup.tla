------------------------------ MODULE MCStartup ------------------------------
(* Startup with sets small enough for TLC.                                 *)
EXTENDS Startup

\* A complete file, one without the number of threads, one without the log,
\* one with a section nobody reads, and one without sections.
TheFiles == {<<"LOG", "OTHER", "WORKTHREADS">>, <<"LOG">>, <<"WORKTHREADS">>,
             <<"LOG", "GOODS", "WORKTHREADS">>, <<>>}

\* The log and the vector of the workers do not touch each other, so TLC
\* follows the log while there is at most one worker, and the workers while
\* nobody writes to the log.  A state in which both are under way is checked,
\* but not its successors.
LogQuiet == day = 0 /\ failures = {} /\ \A t \in Writers : lpc[t] = "idle"
OnePartAtATime == threadsNum <= 1 \/ LogQuiet
=============================================================================
