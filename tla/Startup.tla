------------------------------- MODULE Startup -------------------------------
(***************************************************************************)
(* The start of the process, CUserQueryMain: the configuration file is     *)
(* read, the log is opened, the workers are created one by one, then the   *)
(* statistics, Hive-log, server and update threads.                        *)
(*                                                                         *)
(* A worker runs as soon as its thread is created, and finds its queue     *)
(* through the vector m_vecTaskBuf, to which main still adds the queues of *)
(* the workers to come.  When the vector is full, push_back moves it to a  *)
(* new buffer, frees the old one and only then makes the new one known.    *)
(* A worker reads the address of the buffer in one step and its element in *)
(* the next; what it finds in a freed buffer is undefined: its queue, or   *)
(* anything else, which ends the process.                                  *)
(*                                                                         *)
(* The log (LogFile) is used by main and by the workers in between; the    *)
(* log lines of a thread are steps of their own.                           *)
(***************************************************************************)
EXTENDS LogFile, Sequences

CONSTANTS
    ConfigFiles,    \* possible configuration files: sequences of sections
    MaxThreads,     \* bound on m_uiThreadsNum
    MaxQueue        \* bound: tasks waiting in one worker's queue

ASSUME StartupAssumption == {MaxThreads, MaxQueue} \subseteq Nat

VARIABLES
    main,         \* where main is
    conf,         \* the sections of the configuration file still to be read
    logPath,      \* whether the path and name of the log are known
    threadsNum,   \* m_uiThreadsNum
    size,         \* m_vecTaskBuf.size()
    capacity,     \* m_vecTaskBuf.capacity()
    start,        \* the buffer m_vecTaskBuf begins in, numbered as allocated
    freed,        \* the buffer freed last
    threads,      \* the workers whose thread runs
    failed,       \* the workers whose thread pthread_create has refused
    helpers,      \* the other threads that run
    wpc,          \* where each worker is in Core
    buffer,       \* the buffer whose address each worker has read
    waiting,      \* the tasks in each worker's queue
    stale         \* history: the workers that have read a freed buffer

mainVars == <<main, conf, logPath, threadsNum>>
vectorVars == <<size, capacity, start, freed>>
workVars == <<wpc, buffer, waiting, stale>>
threadVars == <<threads, failed, helpers>>
startVars == <<mainVars, vectorVars, threadVars, workVars>>
allLog == <<day, dir, ended, failures, foreign, logVars>>
vars == <<startVars, allLog>>

\* The sections BdxInitConfig has a reader for.
Known == {"LOG", "WORKTHREADS", "OTHER"}

\* The constructors and threads that follow the workers, in their order.
Helpers == {"count", "hive", "server", "update"}
After(h) == CASE h = "count" -> "hive" [] h = "hive" -> "server"
              [] h = "server" -> "update" [] h = "update" -> "join"

AllWorkers == 1..MaxThreads

\* Only workers 1..threadsNum are ever created.  m_uiThreadsNum is not
\* initialised: without its section it is whatever was in memory.
Init ==
    /\ LogInit
    /\ main = "open"
    /\ conf \in ConfigFiles /\ logPath = FALSE
    /\ threadsNum \in 0..MaxThreads
    /\ size = 0 /\ capacity = 0 /\ start = 0 /\ freed = 0
    /\ threads = {} /\ failed = {} /\ helpers = {}
    /\ wpc = [w \in AllWorkers |-> "none"]
    /\ buffer = [w \in AllWorkers |-> 0]
    /\ waiting = [w \in AllWorkers |-> 0]
    /\ stale = {}

-----------------------------------------------------------------------------
(***************************************************************************)
(* Main.                                                                   *)
(***************************************************************************)
At(here, there) == main = here /\ main' = there

\* An exception, which main() catches, or the end of main(): all threads end.
Exit ==
    /\ ended' = "exit"
    /\ UNCHANGED <<day, dir, failures, foreign, logVars, startVars>>

\* A file that cannot be opened or has no section is an error.
OpenConfig ==
    /\ conf # <<>>
    /\ At("open", "config")
    /\ UNCHANGED <<conf, logPath, threadsNum, vectorVars, threadVars, workVars, allLog>>

OpenConfigFails == main = "open" /\ Exit

\* What the readers of the sections do to the state, for the section read now.
NextSection == Tail(conf)
BdxGetLogPrms == logPath \/ Head(conf) = "LOG"
BdxGetThreadsPrm == IF Head(conf) = "WORKTHREADS" THEN 0..MaxThreads ELSE {threadsNum}

\* Faulty variant: the end of the file does not end the last section.
ReadSectionKeepsLast ==
    /\ main = "config"
    /\ conf # <<>>
    /\ Head(conf) \in Known
    /\ conf' = IF Len(conf) = 1 THEN conf ELSE NextSection
    /\ logPath' = BdxGetLogPrms
    /\ UNCHANGED <<main, threadsNum, vectorVars, threadVars, workVars, allLog>>

\* The loop of BdxInitConfig: the reader of a section reads up to the next
\* one.  A section without a reader is compared for ever.
ReadSection ==
    /\ main = "config"
    /\ conf # <<>>
    /\ Head(conf) \in Known
    /\ conf' = NextSection
    /\ logPath' = BdxGetLogPrms
    /\ threadsNum' \in BdxGetThreadsPrm
    /\ UNCHANGED <<main, vectorVars, threadVars, workVars, allLog>>

\* new CLog, which throws when it has no path or cannot open its file.
NewLog ==
    /\ At("config", "locks")
    /\ conf = <<>>
    /\ logPath
    /\ LogCreatLogDirTrue
    /\ UNCHANGED <<conf, logPath, threadsNum, vectorVars, threadVars, workVars,
                   mutex, lpc, lday, misplaced>>

NewLogFails ==
    /\ main = "config" /\ conf = <<>>
    /\ Exit

\* pthread_rwlock_init.
InitLocks ==
    /\ At("locks", "workers")
    /\ UNCHANGED <<conf, logPath, threadsNum, vectorVars, threadVars, workVars, allLog>>

InitLocksFails == main = "locks" /\ Exit

\* AdWorkInit for the next worker.  m_vecReport, m_vecHiveLog and
\* m_vecTaskStauts grow after m_vecTaskBuf; nobody reads them before the last
\* worker is created.  Whether Redis can be reached is not looked at.
PushTaskBuf ==
    /\ At("workers", "thread")
    /\ size < threadsNum
    /\ size < capacity
    /\ size' = size + 1
    /\ UNCHANGED <<conf, logPath, threadsNum, capacity, start, freed, threadVars, workVars, allLog>>

\* Faulty variant: the loop makes one worker more than m_uiThreadsNum.
GrowTaskBufOneMore ==
    /\ At("workers", "publish")
    /\ size <= threadsNum
    /\ size = capacity
    /\ freed' = start
    /\ UNCHANGED <<conf, logPath, threadsNum, size, capacity, start, threadVars, workVars, allLog>>

\* push_back into a full vector: the elements are copied, the old buffer is freed ...
GrowTaskBuf ==
    /\ At("workers", "publish")
    /\ size < threadsNum
    /\ size = capacity
    /\ freed' = start
    /\ UNCHANGED <<conf, logPath, threadsNum, size, capacity, start, threadVars, workVars, allLog>>

\* ... and the new one is made known.
PublishTaskBuf ==
    /\ At("publish", "thread")
    /\ start' = start + 1
    /\ capacity' = IF capacity = 0 THEN 1 ELSE 2 * capacity
    /\ size' = size + 1
    /\ UNCHANGED <<conf, logPath, threadsNum, freed, threadVars, workVars, allLog>>

\* Faulty variant: the routine of the last worker is never started.
CreateWorkerLosesLast ==
    /\ At("thread", "workers")
    /\ IF size < threadsNum
       THEN /\ threads' = threads \cup {size}
            /\ wpc' = [wpc EXCEPT ![size] = "load"]
       ELSE UNCHANGED <<threads, wpc>>
    /\ UNCHANGED <<conf, logPath, threadsNum, vectorVars, failed, helpers, buffer, waiting, stale, allLog>>

\* CreateThead for the worker just constructed.
CreateWorker ==
    /\ At("thread", "workers")
    /\ threads' = threads \cup {size}
    /\ wpc' = [wpc EXCEPT ![size] = "load"]
    /\ UNCHANGED <<conf, logPath, threadsNum, vectorVars, failed, helpers, buffer, waiting, stale, allLog>>

\* pthread_create fails, which is printed and nothing else.
CreateWorkerFails ==
    /\ At("thread", "workers")
    /\ failed' = failed \cup {size}
    /\ UNCHANGED <<conf, logPath, threadsNum, vectorVars, threads, helpers, workVars, allLog>>

EndOfWorkers ==
    /\ At("workers", "count")
    /\ size = threadsNum
    /\ UNCHANGED <<conf, logPath, threadsNum, vectorVars, threadVars, workVars, allLog>>

\* The constructors of the statistics and the Hive log make the directory of
\* the day when it is missing, and open a file in it.
MakeStatisticsDir ==
    /\ main \in {"count", "hive"}
    /\ dir[day] = "missing"
    /\ dir' = [dir EXCEPT ![day] = "empty"]
    /\ foreign' = foreign \cup {day}
    /\ UNCHANGED <<day, ended, failures, logVars, startVars>>

\* CreateThead for a helper thread.
StartHelper(h, made) ==
    /\ At(h, After(h))
    /\ helpers' = IF made THEN helpers \cup {h} ELSE helpers
    /\ UNCHANGED <<conf, logPath, threadsNum, vectorVars, threads, failed, workVars>>

\* Without a directory, fopen fails unnoticed.
CreateStatistics ==
    /\ \E h \in {"count", "hive"}, made \in BOOLEAN : StartHelper(h, made)
    /\ dir' = [dir EXCEPT ![day] = IF @ = "missing" THEN @ ELSE "used"]
    /\ UNCHANGED <<day, ended, failures, foreign, logVars>>

CreateServer ==
    /\ \E h \in {"server", "update"}, made \in BOOLEAN : StartHelper(h, made)
    /\ UNCHANGED allLog

\* bind, listen or epoll_ctl fails: the constructor of the server throws.
InitServerFails == main = "server" /\ Exit

\* ThreadJionALL: the threads never return, but there may be none.
JoinAll ==
    /\ main = "join"
    /\ threads = {} /\ helpers = {}
    /\ Exit

MainNext ==
    \/ OpenConfig \/ OpenConfigFails \/ ReadSection
    \/ NewLog \/ NewLogFails \/ InitLocks \/ InitLocksFails
    \/ PushTaskBuf \/ GrowTaskBuf \/ PublishTaskBuf
    \/ CreateWorker \/ CreateWorkerFails \/ EndOfWorkers
    \/ MakeStatisticsDir \/ CreateStatistics \/ CreateServer \/ InitServerFails
    \/ JoinAll

-----------------------------------------------------------------------------
(***************************************************************************)
(* Worker w, as far as it concerns m_vecTaskBuf and its queues, and the    *)
(* server.                                                                 *)
(***************************************************************************)
LoadBuffer(w) ==
    /\ wpc[w] = "load"
    /\ buffer' = [buffer EXCEPT ![w] = start]
    /\ wpc' = [wpc EXCEPT ![w] = "use"]
    /\ UNCHANGED <<mainVars, vectorVars, threadVars, waiting, stale, allLog>>

\* m_vecTaskBuf[m_uiThreadId]: locks the mutex of the queue found, and takes a
\* task or, where there is none, waits, which gives the mutex back.
UseBuffer(w) ==
    /\ wpc[w] = "use"
    /\ stale' = IF buffer[w] <= freed THEN stale \cup {w} ELSE stale
    /\ ended' \in IF buffer[w] <= freed THEN {"no", "stale"} ELSE {"no"}
    /\ wpc' = [wpc EXCEPT ![w] = IF waiting[w] > 0 THEN "run" ELSE "wait"]
    /\ waiting' = [waiting EXCEPT ![w] = IF @ > 0 THEN @ - 1 ELSE 0]
    /\ buffer' = [buffer EXCEPT ![w] = 0]
    /\ UNCHANGED <<mainVars, vectorVars, threadVars, day, dir, failures, foreign, logVars>>

\* BdxRunTask returns: the status is pushed and the mutex unlocked ...
FinishTask(w) ==
    /\ wpc[w] = "run"
    /\ wpc' = [wpc EXCEPT ![w] = "load"]
    /\ UNCHANGED <<mainVars, vectorVars, threadVars, buffer, waiting, stale, allLog>>

\* ... or never does, as its remote fetch may hang; the mutex stays locked.
HangTask(w) ==
    /\ wpc[w] = "run"
    /\ wpc' = [wpc EXCEPT ![w] = "hung"]
    /\ UNCHANGED <<mainVars, vectorVars, threadVars, buffer, waiting, stale, allLog>>

\* pthread_cond_wait is woken, by a task or for nothing; it has the mutex again
\* when the queue is looked at.
Wake(w) ==
    /\ wpc[w] = "wait"
    /\ wpc' = [wpc EXCEPT ![w] = "load"]
    /\ UNCHANGED <<mainVars, vectorVars, threadVars, buffer, waiting, stale, allLog>>

WakeForTask(w) == waiting[w] > 0 /\ Wake(w)

\* BdxServerPutTask: the first worker whose trylock succeeds, whatever is in its
\* queue.  A worker that looks at its queue may or may not have the mutex at that
\* moment; one without a thread never has it.
PutTask(w) ==
    /\ "server" \in helpers
    /\ w <= threadsNum
    /\ wpc[w] \notin {"run", "hung"}
    /\ \A v \in AllWorkers : v < w => wpc[v] \notin {"none", "wait"}
    /\ waiting[w] < MaxQueue
    /\ waiting' = [waiting EXCEPT ![w] = @ + 1]
    /\ UNCHANGED <<mainVars, vectorVars, threadVars, wpc, buffer, stale, allLog>>

WorkerNext(w) == LoadBuffer(w) \/ UseBuffer(w) \/ FinishTask(w) \/ WakeForTask(w)

\* Main writes to the log once it is there, a worker when it has a task.
LogNext ==
    /\ \E t \in Writers : WriteLine(t)
    /\ main \notin {"open", "config"}
    /\ UNCHANGED startVars

Next ==
    /\ ended = "no"
    /\ \/ MainNext
       \/ \E w \in AllWorkers : WorkerNext(w) \/ HangTask(w) \/ Wake(w) \/ PutTask(w)
       \/ LogNext
       \/ Midnight /\ UNCHANGED startVars

Fairness ==
    /\ WF_vars(ended = "no" /\ MainNext)
    /\ \A w \in AllWorkers : WF_vars(ended = "no" /\ WorkerNext(w))

Spec == Init /\ [][Next]_vars /\ Fairness

-----------------------------------------------------------------------------
(***************************************************************************)
(* Correctness.                                                            *)
(***************************************************************************)
\* The capacities m_vecTaskBuf can take: 1, 2, 4, 8 ...
Doubled[k \in 0..MaxThreads] == IF k = 0 THEN 1 ELSE 2 * Doubled[k - 1]

\* The n-th push_back moves the vector: it held 0, 1, 2, 4, 8 ... elements.
Moves(n) == n = 1 \/ \E k \in 0..MaxThreads : n - 1 = Doubled[k]

\* The vector moves for a worker created after worker w.
MovesAfter(w) == \E n \in AllWorkers : w < n /\ n <= threadsNum /\ Moves(n)

\* A worker reads a freed buffer only if the vector moved again after its
\* thread was created: the workers behind the last move, and with them a
\* process with one worker, are safe.
StaleNeedsMove == \A w \in stale : MovesAfter(w)

\* Every start comes to its end, with the threads created or the process
\* ended, unless the configuration file has a section without a reader.
StartEnds ==
    <>(main = "join" \/ ended # "no" \/ (conf # <<>> /\ Head(conf) \notin Known))

\* Why a worker may never come back to its queue: its thread could not be
\* created, its task hangs, or the process has ended.
NeverBack(w) == w \in failed \/ wpc[w] = "hung" \/ ended # "no"

TakesTask(w) == waiting'[w] < waiting[w]

\* Every task the server hands over is taken, however many it puts behind each
\* other before the worker locks its mutex: the queue is empty again and again, or
\* tasks are taken from it for ever.  Excepted are the tasks behind one that
\* hangs, and those for a worker that has no thread: the server counts on
\* m_uiThreadsNum workers, however many there are.
TasksTaken ==
    \A w \in AllWorkers :
        []<>(waiting[w] = 0 \/ NeverBack(w)) \/ []<><<TakesTask(w)>>_waiting
=============================================================================
