------------------------------- MODULE LogFile -------------------------------
(***************************************************************************)
(* The log, CLog: threads that write lines through one FILE pointer, under *)
(* a mutex, into a file that lies in a directory named after the day.      *)
(* Every line first looks whether the directory of the day exists; the one *)
(* that has to make it also changes the file.  The statistics and Hive     *)
(* files usually lie in the same directory, and their constructors make it *)
(* too.                                                                    *)
(*                                                                         *)
(* A writer whose line fails releases the mutex first and closes the file  *)
(* afterwards, without setting the pointer to NULL.  What the use of a     *)
(* closed FILE does is undefined: the process ends, or it carries on.      *)
(***************************************************************************)
EXTENDS Integers, FiniteSets

CONSTANTS
    Writers,        \* the threads that write log lines
    MaxDay,         \* bound: the last day of the model's calendar
    MaxLogFaults    \* bound on the kinds of system calls that fail

Days == 0..MaxDay
NoDay == -1
Nobody == "nobody"

ASSUME LogAssumption ==
    /\ MaxDay \in Nat /\ MaxLogFaults \in Nat
    /\ Nobody \notin Writers

VARIABLES
    day,        \* the date
    dir,        \* the directory of each day: missing, empty, or with files in it
    stream,     \* what m_pFile points to: nothing, an open or a closed FILE
    fileDay,    \* the day in whose directory that file lies
    mutex,      \* the holder of m_Mutex
    lpc,        \* where each writer is in write_d
    lday,       \* the date each writer has found
    ended,      \* "no", or how the process has ended

    \* History:
    failures,   \* the system calls that have failed
    foreign,    \* days whose directory was made for the statistics or the Hive log
    misplaced   \* days of which a line is in the file of another day

logVars == <<stream, fileDay, mutex, lpc, lday, misplaced>>

Calls == {"mkdir", "opendir", "fopen", "fprintf"}

LogTypeOK ==
    /\ day \in Days
    /\ dir \in [Days -> {"missing", "empty", "used"}]
    /\ stream \in {"null", "open", "closed"}
    /\ fileDay \in Days \cup {NoDay}
    /\ mutex \in Writers \cup {Nobody}
    /\ lpc \in [Writers -> {"idle", "print", "close"}]
    /\ lday \in [Writers -> Days \cup {NoDay}]
    /\ ended \in {"no", "exit", "log", "stale"}
    /\ failures \in SUBSET Calls
    /\ foreign \in SUBSET Days
    /\ misplaced \in SUBSET Days

\* Before the constructor.  The directory of the day may be left from an earlier start.
LogInit ==
    /\ day = 0
    /\ \E d \in {"missing", "used"} : dir = [n \in Days |-> IF n = 0 THEN d ELSE "missing"]
    /\ stream = "null" /\ fileDay = NoDay
    /\ mutex = Nobody
    /\ lpc = [t \in Writers |-> "idle"]
    /\ lday = [t \in Writers |-> NoDay]
    /\ ended = "no"
    /\ failures = {} /\ foreign = {} /\ misplaced = {}

Fault(call) ==
    /\ failures' = failures \cup {call}
    /\ Cardinality(failures') <= MaxLogFaults

\* The environment: the day changes.
Midnight ==
    /\ day < MaxDay
    /\ day' = day + 1
    /\ UNCHANGED <<dir, ended, failures, foreign, logVars>>

-----------------------------------------------------------------------------
(***************************************************************************)
(* LogCreatLogDir, by its result.                                          *)
(***************************************************************************)
NeedsFile == stream = "null" \/ dir[day] # "used"

\* fclose and fopen; the fclose of a FILE closed before is undefined.
Reopen ==
    /\ stream' = "open" /\ fileDay' = day
    /\ dir' = [dir EXCEPT ![day] = "used"]
    /\ ended' \in IF stream = "closed" THEN {"no", "log"} ELSE {"no"}

\* Faulty variant: a file that is open stays open on the next day.
LogCreatLogDirKeeps ==
    /\ UNCHANGED <<day, failures, foreign>>
    /\ IF stream = "null"
       THEN Reopen
       ELSE /\ dir' = [dir EXCEPT ![day] = IF @ = "missing" THEN "empty" ELSE @]
            /\ UNCHANGED <<stream, fileDay, ended>>

LogCreatLogDirTrue ==
    /\ UNCHANGED <<day, failures, foreign>>
    /\ IF NeedsFile THEN Reopen ELSE UNCHANGED <<stream, fileDay, dir, ended>>

\* Faulty variant: the old file is closed before the directory is made.
MakeDirFailsClosed ==
    /\ dir[day] = "missing"
    /\ Fault("mkdir")
    /\ stream' = "null" /\ fileDay' = NoDay
    /\ UNCHANGED <<dir, ended>>

\* The old file stays open.
MakeDirFails ==
    /\ dir[day] = "missing"
    /\ Fault("mkdir")
    /\ UNCHANGED <<stream, fileDay, dir, ended>>

ListFilesFails ==
    /\ dir[day] # "missing"
    /\ Fault("opendir")
    /\ UNCHANGED <<stream, fileDay, dir, ended>>

OpenFails ==
    /\ NeedsFile
    /\ Fault("fopen")
    /\ stream' = "null" /\ fileDay' = NoDay
    /\ dir' = [dir EXCEPT ![day] = IF @ = "missing" THEN "empty" ELSE @]
    /\ ended' \in IF stream = "closed" THEN {"no", "log"} ELSE {"no"}

LogCreatLogDirFalse ==
    /\ MakeDirFails \/ ListFilesFails \/ OpenFails
    /\ UNCHANGED <<day, foreign>>

-----------------------------------------------------------------------------
(***************************************************************************)
(* write_d of a rank that is not suppressed, by thread t.                  *)
(***************************************************************************)
\* The mutex, and LogCreatLogDir, whose result is ignored.
BeginLine(t) ==
    /\ lpc[t] = "idle"
    /\ mutex = Nobody
    /\ mutex' = t
    /\ lpc' = [lpc EXCEPT ![t] = "print"]
    /\ lday' = [lday EXCEPT ![t] = day]
    /\ LogCreatLogDirTrue \/ LogCreatLogDirFalse
    /\ UNCHANGED misplaced

\* fprintf and vfprintf to m_pFile, fflush, and the release of the mutex.
PrintLine(t) ==
    /\ lpc[t] = "print"
    /\ stream = "open"
    /\ misplaced' = misplaced \cup ({lday[t]} \ {fileDay})
    /\ mutex' = Nobody
    /\ lpc' = [lpc EXCEPT ![t] = "idle"]
    /\ lday' = [lday EXCEPT ![t] = NoDay]
    /\ UNCHANGED <<day, dir, stream, fileDay, ended, failures, foreign>>

\* m_pFile is NULL, and the process ends; or the FILE was closed before.
PrintNowhere(t) ==
    /\ lpc[t] = "print"
    /\ stream # "open"
    /\ ended' \in IF stream = "null" THEN {"log"} ELSE {"no", "log"}
    /\ mutex' = Nobody
    /\ lpc' = [lpc EXCEPT ![t] = "idle"]
    /\ lday' = [lday EXCEPT ![t] = NoDay]
    /\ UNCHANGED <<day, dir, stream, fileDay, failures, foreign, misplaced>>

\* A failed line: the mutex is released, the file is still to be closed.
PrintFails(t) ==
    /\ lpc[t] = "print"
    /\ stream # "null"
    /\ Fault("fprintf")
    /\ mutex' = Nobody
    /\ lpc' = [lpc EXCEPT ![t] = "close"]
    /\ lday' = [lday EXCEPT ![t] = NoDay]
    /\ UNCHANGED <<day, dir, stream, fileDay, ended, foreign, misplaced>>

\* fclose(m_pFile), whatever it points to by now, outside the mutex.
CloseAfterFailure(t) ==
    /\ lpc[t] = "close"
    /\ ended' \in CASE stream = "open" -> {"no"}
                    [] stream = "closed" -> {"no", "log"}
                    [] OTHER -> {"log"}
    /\ stream' = IF stream = "open" THEN "closed" ELSE stream
    /\ lpc' = [lpc EXCEPT ![t] = "idle"]
    /\ UNCHANGED <<day, dir, fileDay, mutex, lday, failures, foreign, misplaced>>

WriteLine(t) ==
    \/ BeginLine(t)
    \/ PrintLine(t)
    \/ PrintNowhere(t)
    \/ PrintFails(t)
    \/ CloseAfterFailure(t)

-----------------------------------------------------------------------------
(***************************************************************************)
(* Correctness.                                                            *)
(***************************************************************************)
\* Every line is in the file of the day on which write_d looked for the
\* directory, however the writers overlap and whenever midnight comes; unless
\* a system call failed, or the directory of the day was not made by the log:
\* then a whole day is written to the file of the day before.
LinesInTheirDay == failures = {} => misplaced \subseteq foreign

\* A directory that cannot be made or listed costs no more than the right
\* place of a line: only a failed fopen or a failed line ends the process.
MissingDirSurvived == ended = "log" => failures \cap {"fopen", "fprintf"} # {}
=============================================================================
