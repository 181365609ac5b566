---------------------------- MODULE StartupProofs ----------------------------
(***************************************************************************)
(* Proofs about Startup and the log it opens, for any number of workers,   *)
(* log writers, days and failing system calls, and any configuration file. *)
(***************************************************************************)
EXTENDS Startup, WellFoundedInduction, TLAPS

Early == {"open", "config"}

\* Before the log is opened nobody writes to it.
LogUnused ==
    main \in Early =>
        /\ \A t \in Writers : lpc[t] = "idle"
        /\ stream = "null" /\ mutex = Nobody
        /\ failures = {} /\ foreign = {} /\ misplaced = {}
        /\ \A d \in Days : d > 0 => dir[d] = "missing"

\* The writer that is about to print holds the mutex and knows the date.
PrintLocked ==
    \A t \in Writers : lpc[t] = "print" => mutex = t /\ lday[t] \in Days

\* As long as fopen and fprintf work the file stays open.
FileOpen ==
    failures \cap {"fopen", "fprintf"} = {} =>
        /\ ended # "log"
        /\ stream # "closed"
        /\ \A t \in Writers : lpc[t] # "close"
        /\ main \notin Early => stream = "open"

\* As long as nothing fails, a directory newer than the file was made for the
\* statistics, and a line about to be printed belongs into the file or to the
\* day of such a directory.
FileOfTheDay ==
    failures = {} =>
        /\ misplaced \subseteq foreign
        /\ main \notin Early =>
              /\ fileDay \in Days /\ fileDay <= day
              /\ \A d \in Days : d > fileDay /\ dir[d] # "missing" => d \in foreign
              /\ \A t \in Writers :
                    lpc[t] = "print" => lday[t] = fileDay \/ lday[t] \in foreign

LInv == LogTypeOK /\ LogUnused /\ PrintLocked /\ FileOpen /\ FileOfTheDay

LEMMA LInvInit == Init => LInv
  <1> SUFFICES ASSUME Init PROVE LInv
    OBVIOUS
  <1>1. PICK e \in {"missing", "used"} : dir = [n \in Days |-> IF n = 0 THEN e ELSE "missing"]
    BY DEF Init, LogInit
  <1>2. LogTypeOK
    BY <1>1, LogAssumption DEF Init, LogInit, LogTypeOK, Days, NoDay
  <1>3. LogUnused
    BY <1>1 DEF Init, LogInit, LogUnused, Days
  <1>4. PrintLocked /\ FileOpen /\ FileOfTheDay
    BY DEF Init, LogInit, PrintLocked, FileOpen, FileOfTheDay, Early
  <1> QED BY <1>2, <1>3, <1>4 DEF LInv

-----------------------------------------------------------------------------
\* A step that leaves the log alone, and main on its side of the constructor
\* of the log, keeps the invariant.
LEMMA LInvOutside ==
    ASSUME LInv, UNCHANGED <<day, dir, failures, foreign, logVars>>,
           ended' \in {ended, "no", "exit", "stale"},
           main' \in Early <=> main \in Early
    PROVE  LInv'
  <1> USE DEF LInv, logVars
  <1>1. LogTypeOK'
    BY DEF LogTypeOK
  <1>2. LogUnused' /\ PrintLocked'
    BY DEF LogUnused, PrintLocked
  <1>3. FileOpen' /\ FileOfTheDay'
    BY DEF FileOpen, FileOfTheDay
  <1> QED BY <1>1, <1>2, <1>3

LEMMA LInvMidnight ==
    ASSUME LInv, Midnight, UNCHANGED startVars
    PROVE  LInv'
  <1> USE DEF LInv, Midnight, logVars
  <1>0. main' = main
    BY DEF startVars, mainVars
  <1>1. LogTypeOK'
    BY LogAssumption DEF LogTypeOK, Days
  <1>2. LogUnused' /\ PrintLocked' /\ FileOpen'
    BY <1>0 DEF LogUnused, PrintLocked, FileOpen
  <1>3. FileOfTheDay'
    BY <1>0, LogAssumption DEF FileOfTheDay, LogTypeOK, Days
  <1> QED BY <1>1, <1>2, <1>3

\* What LogCreatLogDir does once the log is there, whatever it returns.
LEMMA DirOfTheDay ==
    ASSUME LInv, main \notin Early, LogCreatLogDirTrue \/ LogCreatLogDirFalse
    PROVE  /\ dir' \in [Days -> {"missing", "empty", "used"}]
           /\ stream' \in {"null", "open", "closed"}
           /\ fileDay' \in Days \cup {NoDay}
           /\ ended' \in {ended, "no", "log"}
           /\ failures' \in SUBSET Calls
           /\ failures \subseteq failures'
           /\ UNCHANGED <<day, foreign>>
           /\ failures' \cap {"fopen", "fprintf"} = {} =>
                 ended' # "log" /\ stream' = "open"
           /\ failures' = {} =>
                 /\ fileDay' \in Days /\ fileDay' <= day
                 /\ fileDay' = day \/ (fileDay' = fileDay /\ (fileDay = day \/ day \in foreign))
                 /\ \A d \in Days : d > fileDay' /\ dir'[d] # "missing" => d \in foreign
  <1> USE DEF LInv
  <1>1. CASE LogCreatLogDirTrue
    <2>1. CASE NeedsFile
      BY <1>1, <2>1, LogAssumption
      DEF LogCreatLogDirTrue, Reopen, LogTypeOK, FileOpen, FileOfTheDay, Days
    <2>2. CASE ~NeedsFile
      BY <1>1, <2>2, LogAssumption
      DEF LogCreatLogDirTrue, NeedsFile, LogTypeOK, FileOpen, FileOfTheDay, Days
    <2> QED BY <2>1, <2>2
  <1>2. CASE LogCreatLogDirFalse
    <2>1. CASE MakeDirFails \/ ListFilesFails
      <3>1. /\ UNCHANGED <<stream, fileDay, dir, ended, day, foreign>>
            /\ \E c \in {"mkdir", "opendir"} : failures' = failures \cup {c}
        BY <1>2, <2>1 DEF LogCreatLogDirFalse, MakeDirFails, ListFilesFails, Fault
      <3> QED BY <3>1 DEF LogTypeOK, FileOpen, Calls
    <2>2. CASE OpenFails
      BY <1>2, <2>2
      DEF LogCreatLogDirFalse, OpenFails, Fault, LogTypeOK, Calls
    <2> QED BY <1>2, <2>1, <2>2 DEF LogCreatLogDirFalse
  <1> QED BY <1>1, <1>2

\* One step of a writer.
LEMMA LInvLine ==
    ASSUME LInv, main \notin Early, main' = main,
           NEW t \in Writers, WriteLine(t)
    PROVE  LInv'
  <1> USE DEF LInv
  <1>1. CASE BeginLine(t)
    <2>1. /\ mutex = Nobody /\ mutex' = t
          /\ lpc' = [lpc EXCEPT ![t] = "print"]
          /\ lday' = [lday EXCEPT ![t] = day]
          /\ misplaced' = misplaced
      BY <1>1 DEF BeginLine
    <2>2. LogCreatLogDirTrue \/ LogCreatLogDirFalse
      BY <1>1 DEF BeginLine
    <2>3. LogTypeOK'
      BY <2>1, <2>2, DirOfTheDay DEF LogTypeOK
    <2>4. \A u \in Writers : lpc[u] # "print"
      BY <2>1, LogAssumption DEF PrintLocked
    <2>5. LogUnused' /\ PrintLocked'
      BY <2>1, <2>4 DEF LogUnused, PrintLocked, LogTypeOK
    <2>6. FileOpen'
      BY <2>1, <2>2, DirOfTheDay DEF FileOpen, LogTypeOK
    <2>7. FileOfTheDay'
      <3>1. failures' = {} => failures = {}
        BY <2>2, DirOfTheDay
      <3> QED
        BY <2>1, <2>2, <2>4, <3>1, DirOfTheDay DEF FileOfTheDay, LogTypeOK
    <2> QED BY <2>3, <2>5, <2>6, <2>7
  <1>2. CASE PrintLine(t)
    <2>1. LogTypeOK'
      <3>1. misplaced' \in SUBSET Days
        <4>1. lday[t] \in Days
          BY <1>2 DEF PrintLine, PrintLocked
        <4> QED BY <1>2, <4>1 DEF PrintLine, LogTypeOK
      <3> QED BY <1>2, <3>1 DEF PrintLine, LogTypeOK
    <2>2. LogUnused' /\ PrintLocked' /\ FileOpen'
      BY <1>2 DEF PrintLine, LogUnused, PrintLocked, FileOpen, LogTypeOK
    <2>3. FileOfTheDay'
      BY <1>2 DEF PrintLine, FileOfTheDay, LogTypeOK
    <2> QED BY <2>1, <2>2, <2>3
  <1>3. CASE PrintNowhere(t)
    <2>1. LogTypeOK'
      BY <1>3 DEF PrintNowhere, LogTypeOK
    <2>2. LogUnused' /\ PrintLocked'
      BY <1>3 DEF PrintNowhere, LogUnused, PrintLocked, LogTypeOK
    <2>3. FileOpen'
      BY <1>3 DEF PrintNowhere, FileOpen, LogTypeOK
    <2>4. FileOfTheDay'
      BY <1>3 DEF PrintNowhere, FileOfTheDay, LogTypeOK
    <2> QED BY <2>1, <2>2, <2>3, <2>4
  <1>4. CASE PrintFails(t)
    <2>1. failures' = failures \cup {"fprintf"}
      BY <1>4 DEF PrintFails, Fault
    <2>2. LogTypeOK'
      BY <1>4, <2>1 DEF PrintFails, LogTypeOK, Calls
    <2>3. LogUnused' /\ PrintLocked'
      BY <1>4 DEF PrintFails, LogUnused, PrintLocked, LogTypeOK
    <2>4. FileOpen' /\ FileOfTheDay'
      BY <2>1 DEF FileOpen, FileOfTheDay
    <2> QED BY <2>2, <2>3, <2>4
  <1>5. CASE CloseAfterFailure(t)
    <2>1. failures \cap {"fopen", "fprintf"} # {}
      BY <1>5 DEF CloseAfterFailure, FileOpen
    <2>2. LogTypeOK'
      BY <1>5 DEF CloseAfterFailure, LogTypeOK
    <2>3. LogUnused' /\ PrintLocked'
      BY <1>5 DEF CloseAfterFailure, LogUnused, PrintLocked, LogTypeOK
    <2>4. FileOpen' /\ FileOfTheDay'
      BY <1>5, <2>1 DEF CloseAfterFailure, FileOpen, FileOfTheDay
    <2> QED BY <2>2, <2>3, <2>4
  <1> QED BY <1>1, <1>2, <1>3, <1>4, <1>5 DEF WriteLine

-----------------------------------------------------------------------------
\* The steps of main.  Only NewLog takes it past the constructor of the log.
LEMMA LInvMain ==
    ASSUME LInv, ended = "no", MainNext
    PROVE  LInv'
  <1> USE DEF Early
  <1>1. ASSUME Exit PROVE LInv'
    BY <1>1, LInvOutside DEF Exit, startVars, mainVars
  <1>2. ASSUME UNCHANGED allLog, main' \in Early <=> main \in Early PROVE LInv'
    BY <1>2, LInvOutside DEF allLog
  <1>3. CASE NewLog
    <2>1. /\ main \in Early /\ main' \notin Early
          /\ LogCreatLogDirTrue
          /\ UNCHANGED <<mutex, lpc, lday, misplaced>>
      BY <1>3 DEF NewLog, At
    <2>2. stream = "null" /\ \A d \in Days : d > 0 => dir[d] = "missing"
      BY <2>1 DEF LInv, LogUnused
    <2>3. /\ stream' = "open" /\ fileDay' = day /\ ended' = "no"
          /\ dir' = [dir EXCEPT ![day] = "used"]
          /\ UNCHANGED <<day, failures, foreign>>
      BY <2>1, <2>2 DEF LogCreatLogDirTrue, NeedsFile, Reopen
    <2>4. LogTypeOK'
      BY <2>1, <2>3 DEF LInv, LogTypeOK
    <2>5. LogUnused' /\ PrintLocked' /\ FileOpen'
      BY <2>1, <2>3 DEF LInv, LogUnused, PrintLocked, FileOpen
    <2>6. FileOfTheDay'
      BY <2>1, <2>2, <2>3, LogAssumption DEF LInv, LogTypeOK, LogUnused, FileOfTheDay, Days
    <2> QED BY <2>4, <2>5, <2>6 DEF LInv
  <1>4. CASE MakeStatisticsDir
    <2>1. /\ main' = main /\ main \notin Early
          /\ dir' = [dir EXCEPT ![day] = "empty"]
          /\ foreign' = foreign \cup {day}
          /\ UNCHANGED <<day, ended, failures, logVars>>
      BY <1>4 DEF MakeStatisticsDir, startVars, mainVars
    <2>2. LogTypeOK'
      BY <2>1 DEF LInv, LogTypeOK, logVars
    <2>3. LogUnused' /\ PrintLocked' /\ FileOpen'
      BY <2>1 DEF LInv, LogUnused, PrintLocked, FileOpen, logVars
    <2>4. FileOfTheDay'
      BY <2>1 DEF LInv, LogTypeOK, FileOfTheDay, logVars
    <2> QED BY <2>2, <2>3, <2>4 DEF LInv
  <1>5. CASE CreateStatistics
    <2>1. /\ main \notin Early /\ main' \notin Early
          /\ dir' = [dir EXCEPT ![day] = IF @ = "missing" THEN @ ELSE "used"]
          /\ UNCHANGED <<day, ended, failures, foreign, logVars>>
      BY <1>5 DEF CreateStatistics, StartHelper, At, After
    <2>2. LogTypeOK'
      BY <2>1 DEF LInv, LogTypeOK, logVars
    <2>3. LogUnused' /\ PrintLocked' /\ FileOpen'
      BY <2>1 DEF LInv, LogUnused, PrintLocked, FileOpen, logVars
    <2>4. FileOfTheDay'
      BY <2>1 DEF LInv, LogTypeOK, FileOfTheDay, logVars
    <2> QED BY <2>2, <2>3, <2>4 DEF LInv
  <1>6. CASE CreateServer
    <2>1. main \notin Early /\ main' \notin Early
      BY <1>6 DEF CreateServer, StartHelper, At, After
    <2> QED BY <1>2, <1>6, <2>1 DEF CreateServer
  <1>7. CASE OpenConfig \/ ReadSection
    <2>1. main \in Early /\ main' \in Early /\ UNCHANGED allLog
      BY <1>7 DEF OpenConfig, ReadSection, At
    <2> QED BY <1>2, <2>1
  <1>8. CASE InitLocks \/ PushTaskBuf \/ GrowTaskBuf \/ PublishTaskBuf
             \/ CreateWorker \/ CreateWorkerFails \/ EndOfWorkers
    <2>1. main \notin Early /\ main' \notin Early /\ UNCHANGED allLog
      BY <1>8
      DEF InitLocks, PushTaskBuf, GrowTaskBuf, PublishTaskBuf, CreateWorker,
          CreateWorkerFails, EndOfWorkers, At
    <2> QED BY <1>2, <2>1
  <1>9. CASE OpenConfigFails \/ NewLogFails \/ InitLocksFails \/ InitServerFails \/ JoinAll
    BY <1>1, <1>9 DEF OpenConfigFails, NewLogFails, InitLocksFails, InitServerFails, JoinAll
  <1> QED
    BY <1>3, <1>4, <1>5, <1>6, <1>7, <1>8, <1>9 DEF MainNext

\* The steps of the workers and of the server that are not log lines.
LEMMA LInvWorkers ==
    ASSUME LInv, ended = "no", NEW w \in AllWorkers,
           WorkerNext(w) \/ HangTask(w) \/ Wake(w) \/ PutTask(w)
    PROVE  LInv'
  <1>1. CASE LoadBuffer(w) \/ FinishTask(w) \/ HangTask(w) \/ Wake(w) \/ PutTask(w)
    BY <1>1, LInvOutside DEF LoadBuffer, FinishTask, HangTask, Wake, PutTask, mainVars, allLog
  <1>2. CASE UseBuffer(w)
    <2>1. ended' \in {"no", "stale"}
      BY <1>2 DEF UseBuffer
    <2> QED BY <1>2, <2>1, LInvOutside DEF UseBuffer, mainVars
  <1> QED BY <1>1, <1>2 DEF WorkerNext, WakeForTask

LEMMA LInvStep == LInv /\ [Next]_vars => LInv'
  <1> SUFFICES ASSUME LInv, [Next]_vars PROVE LInv'
    OBVIOUS
  <1>1. CASE ended = "no" /\ MainNext
    BY <1>1, LInvMain
  <1>2. ASSUME ended = "no", NEW w \in AllWorkers, WorkerNext(w) \/ HangTask(w) \/ Wake(w) \/ PutTask(w)
        PROVE  LInv'
    BY <1>2, LInvWorkers
  <1>3. CASE LogNext
    BY <1>3, LInvLine DEF LogNext, Early, startVars, mainVars
  <1>4. CASE Midnight /\ UNCHANGED startVars
    BY <1>4, LInvMidnight
  <1>5. CASE UNCHANGED vars
    BY <1>5, LInvOutside DEF vars, startVars, mainVars, allLog
  <1> QED BY <1>1, <1>2, <1>3, <1>4, <1>5 DEF Next

LEMMA LInvAlways == Spec => []LInv
  BY LInvInit, LInvStep, PTL DEF Spec

\* Without a failing system call every log line is in the file of its day,
\* except on days whose directory the statistics or the Hive log has made.
THEOREM LinesAlwaysInTheirDay == Spec => []LinesInTheirDay
  <1>1. LInv => LinesInTheirDay
    BY DEF LInv, FileOfTheDay, LinesInTheirDay
  <1> QED BY <1>1, LInvAlways, PTL

\* The log ends the process only after a failed fopen or a failed line: a
\* directory that cannot be made or listed never does.
THEOREM MissingDirAlwaysSurvived == Spec => []MissingDirSurvived
  <1>1. LInv => MissingDirSurvived
    BY DEF LInv, FileOpen, MissingDirSurvived
  <1> QED BY <1>1, LInvAlways, PTL

-----------------------------------------------------------------------------
(***************************************************************************)
(* The vector m_vecTaskBuf while the workers are created.                  *)
(***************************************************************************)
\* The sequence of capacities up to the n-th.
Capacities(s, n) == s = [k \in 0..n |-> IF k = 0 THEN 1 ELSE 2 * s[k - 1]]

\* There is such a sequence of any length: the shortest that did not exist would
\* extend one that does.
LEMMA CapacitiesExist ==
    ASSUME NEW n \in Nat
    PROVE  \E s : Capacities(s, n)
  <1> DEFINE T == {m \in Nat : ~\E s : Capacities(s, m)}
  <1> SUFFICES ASSUME T # {}
               PROVE  FALSE
    OBVIOUS
  <1>1. PICK m \in T : \A y \in T : <<y, m>> \notin OpToRel(<, Nat)
    <2> HIDE DEF T
    <2>1. T \subseteq Nat
      BY DEF T
    <2> QED BY <2>1, NatLessThanWellFounded, WFMin
  <1>n. m \in Nat
    OBVIOUS
  <1>2. m # 0
    <2> SUFFICES \E s : Capacities(s, 0)
      BY <1>1
    <2> DEFINE s == [k \in 0..0 |-> 1]
    <2>1. Capacities(s, 0)
      BY DEF Capacities
    <2> QED BY <2>1
  <1>3. m - 1 \in Nat /\ m - 1 \notin T
    <2>1. m - 1 \in Nat /\ <<m - 1, m>> \in OpToRel(<, Nat)
      <3>1. m - 1 \in Nat /\ m \in Nat /\ m - 1 < m
        BY <1>n, <1>2
      <3> DEFINE p == <<m - 1, m>>
      <3>2. p \in Nat \X Nat /\ p[1] < p[2]
        BY <3>1
      <3> HIDE DEF p
      <3>3. p \in OpToRel(<, Nat)
        BY <3>2 DEF OpToRel
      <3> QED BY <3>1, <3>3 DEF p
    <2> QED BY <1>1, <2>1
  <1>4. PICK s : Capacities(s, m - 1)
    BY <1>3
  <1> DEFINE r == [k \in 0..m |-> IF k = 0 THEN 1 ELSE 2 * s[k - 1]]
  <1>5. ASSUME NEW k \in 0..(m - 1)
        PROVE  r[k] = s[k]
    BY <1>4 DEF Capacities
  <1>6. Capacities(r, m)
    <2>1. \A k \in 0..m : k # 0 => r[k - 1] = s[k - 1]
      BY <1>n, <1>5
    <2>2. r = [k \in 0..m |-> IF k = 0 THEN 1 ELSE 2 * r[k - 1]]
      BY <2>1
    <2> QED BY <2>2 DEF Capacities
  <1> QED BY <1>1, <1>6

\* Each capacity is twice the one before it.
LEMMA DoubledDef ==
    \A k \in 0..MaxThreads : Doubled[k] = IF k = 0 THEN 1 ELSE 2 * Doubled[k - 1]
  <1>1. Capacities(CHOOSE s : Capacities(s, MaxThreads), MaxThreads)
    BY CapacitiesExist, StartupAssumption
  <1>2. Doubled = CHOOSE s : Capacities(s, MaxThreads)
    BY DEF Doubled, Capacities
  <1>3. Capacities(Doubled, MaxThreads)
    BY <1>1, <1>2
  <1> QED BY <1>3 DEF Capacities

-----------------------------------------------------------------------------
\* The last worker reads its queue only in the buffer that stays: a process
\* with one worker never reads a freed one.
LastWorkerSafe == \A w \in stale : w < threadsNum

VectorTypes ==
    /\ threadsNum \in 0..MaxThreads
    /\ size \in Nat /\ capacity \in Nat /\ start \in Nat /\ freed \in Nat
    /\ wpc \in [AllWorkers -> {"none", "load", "use", "wait", "run", "hung"}]
    /\ buffer \in [AllWorkers -> Nat]
    /\ stale \in SUBSET AllWorkers

\* Where main is decides which buffers are freed.
VectorPhase ==
    /\ size <= threadsNum /\ size <= capacity
    /\ start = 0 => capacity = 0
    /\ start > 0 => start <= capacity /\ start - 1 <= MaxThreads /\ capacity = Doubled[start - 1]
    /\ main \in Early => size = 0 /\ stale = {}
    /\ main = "publish" => size < threadsNum /\ size = capacity /\ freed = start
    /\ main # "publish" /\ capacity > 0 => freed < start
    /\ main = "thread" => size > 0

\* A worker that has read the address of a buffer freed by now has one behind it
\* for which the vector moved or is moving.
BehindMove ==
    \A w \in AllWorkers :
        /\ wpc[w] # "none" => w <= size
        /\ wpc[w] = "use" /\ buffer[w] <= freed => MovesAfter(w)

VInv == VectorTypes /\ VectorPhase /\ BehindMove /\ StaleNeedsMove

\* While the vector is full and workers are to come, the next push_back moves it: the
\* workers there are have a move after them.
LEMMA FullMoves ==
    ASSUME VectorTypes, VectorPhase, size < threadsNum, size = capacity,
           NEW w \in AllWorkers, w <= size
    PROVE  MovesAfter(w)
  <1> DEFINE n == size + 1
  <1>1. n \in AllWorkers /\ w < n /\ n <= threadsNum
    BY StartupAssumption DEF VectorTypes, AllWorkers
  <1>2. start > 0 /\ start - 1 \in 0..MaxThreads /\ n - 1 = Doubled[start - 1]
    BY StartupAssumption DEF VectorTypes, VectorPhase, AllWorkers
  <1>3. Moves(n)
    BY <1>2 DEF Moves
  <1> QED BY <1>1, <1>3 DEF MovesAfter

\* The move makes room for as many workers again.
LEMMA CapacityDoubles ==
    ASSUME VectorTypes, VectorPhase, PublishTaskBuf
    PROVE  (start > 0 => start <= capacity /\ start - 1 <= MaxThreads
                         /\ capacity = Doubled[start - 1])'
  <1>1. start' = start + 1 /\ size < threadsNum /\ size = capacity /\ start \in Nat /\ capacity \in Nat
    BY DEF PublishTaskBuf, At, VectorTypes, VectorPhase
  <1>2. capacity' = IF capacity = 0 THEN 1 ELSE 2 * capacity
    BY DEF PublishTaskBuf
  <1>3. CASE start = 0
    <2>1. capacity = 0 /\ Doubled[0] = 1
      BY <1>3, DoubledDef, StartupAssumption DEF VectorPhase
    <2> QED BY <1>1, <1>2, <1>3, <2>1, StartupAssumption
  <1>4. CASE start > 0
    <2>1. start <= capacity /\ capacity < MaxThreads /\ capacity = Doubled[start - 1]
      BY <1>1, <1>4, StartupAssumption DEF VectorTypes, VectorPhase
    <2>2. start \in 0..MaxThreads /\ start # 0
      BY <1>1, <1>4, <2>1, StartupAssumption
    <2>3. Doubled[start] = 2 * Doubled[start - 1]
      BY <2>2, DoubledDef
    <2>4. (start + 1) - 1 = start
      BY <1>1
    <2> QED BY <1>1, <1>2, <1>4, <2>1, <2>3, <2>4, StartupAssumption
  <1> QED BY <1>1, <1>3, <1>4

\* Which moves come after a worker is settled with the number of workers.
LEMMA MovesStay ==
    threadsNum' = threadsNum => \A w \in AllWorkers : MovesAfter(w)' <=> MovesAfter(w)
  BY DEF MovesAfter

LEMMA VInvInit == Init => VInv
  BY StartupAssumption
  DEF Init, VInv, VectorTypes, VectorPhase, BehindMove, StaleNeedsMove, AllWorkers, Early

LEMMA VInvMain ==
    ASSUME VInv, MainNext
    PROVE  VInv'
  <1> USE StartupAssumption, MovesStay DEF VInv, VectorTypes, VectorPhase, StaleNeedsMove, Early
  <1>1. ASSUME UNCHANGED <<threadsNum, vectorVars, workVars>>,
               main' \notin {"publish", "thread"}, main # "publish",
               main' \in Early => main \in Early
        PROVE  VInv'
    BY <1>1 DEF BehindMove, vectorVars, workVars
  <1>2. CASE OpenConfig \/ NewLog \/ InitLocks \/ EndOfWorkers
    BY <1>1, <1>2 DEF OpenConfig, NewLog, InitLocks, EndOfWorkers, At
  <1>3. CASE CreateStatistics \/ CreateServer
    <2>1. main \notin Early /\ main # "publish" /\ main' \notin Early \cup {"publish", "thread"}
      BY <1>3 DEF CreateStatistics, CreateServer, StartHelper, At, After
    <2>2. UNCHANGED <<threadsNum, vectorVars, workVars>>
      BY <1>3 DEF CreateStatistics, CreateServer, StartHelper
    <2> QED BY <1>1, <2>1, <2>2
  <1>4. ASSUME UNCHANGED startVars PROVE VInv'
    BY <1>4 DEF startVars, mainVars, vectorVars, workVars, BehindMove
  <1>5. CASE OpenConfigFails \/ NewLogFails \/ InitLocksFails \/ InitServerFails \/ JoinAll
             \/ MakeStatisticsDir
    BY <1>4, <1>5
    DEF OpenConfigFails, NewLogFails, InitLocksFails, InitServerFails, JoinAll, Exit,
        MakeStatisticsDir
  <1>6. CASE ReadSection
    BY <1>6 DEF ReadSection, BdxGetThreadsPrm, BehindMove, vectorVars, workVars, AllWorkers
  <1>7. CASE PushTaskBuf
    BY <1>7 DEF PushTaskBuf, At, BehindMove, workVars, AllWorkers
  <1>8. CASE GrowTaskBuf
    BY <1>8, FullMoves DEF GrowTaskBuf, At, BehindMove, workVars, AllWorkers
  <1>9. CASE PublishTaskBuf
    <2>1. (start > 0 => start <= capacity /\ start - 1 <= MaxThreads
                        /\ capacity = Doubled[start - 1])'
      BY <1>9, CapacityDoubles
    <2> QED BY <1>9, <2>1 DEF PublishTaskBuf, At, BehindMove, workVars, AllWorkers
  <1>10. CASE CreateWorker
    <2>1. size \in AllWorkers
      BY <1>10 DEF CreateWorker, At, AllWorkers
    <2> QED
      BY <1>10, <2>1 DEF CreateWorker, At, BehindMove, vectorVars
  <1>11. CASE CreateWorkerFails
    BY <1>11 DEF CreateWorkerFails, At, BehindMove, vectorVars, workVars
  <1> QED
    BY <1>2, <1>3, <1>5, <1>6, <1>7, <1>8, <1>9, <1>10, <1>11 DEF MainNext

LEMMA VInvWorkers ==
    ASSUME VInv, NEW w \in AllWorkers, WorkerNext(w) \/ HangTask(w) \/ Wake(w) \/ PutTask(w)
    PROVE  VInv'
  <1> USE MovesStay DEF VInv, VectorTypes, VectorPhase, StaleNeedsMove, mainVars, vectorVars
  <1>0. w \in Nat /\ w > 0
    BY DEF AllWorkers
  <1>1. CASE LoadBuffer(w)
    <2>1. start <= freed => MovesAfter(w)
      BY <1>0, <1>1, FullMoves DEF LoadBuffer, BehindMove
    <2> QED BY <1>1, <2>1 DEF LoadBuffer, BehindMove
  <1>2. CASE UseBuffer(w)
    <2>1. stale' \in SUBSET AllWorkers /\ \A v \in stale' : MovesAfter(v)
      BY <1>2 DEF UseBuffer, BehindMove
    <2>2. main' \in Early => stale' = {}
      BY <1>0, <1>2 DEF UseBuffer, BehindMove
    <2> QED BY <1>2, <2>1, <2>2 DEF UseBuffer, BehindMove
  <1>3. CASE FinishTask(w) \/ HangTask(w) \/ Wake(w)
    BY <1>3 DEF FinishTask, HangTask, Wake, BehindMove
  <1>4. CASE PutTask(w)
    BY <1>4 DEF PutTask, BehindMove
  <1> QED BY <1>1, <1>2, <1>3, <1>4 DEF WorkerNext, WakeForTask

LEMMA VInvStep == VInv /\ [Next]_vars => VInv'
  <1> SUFFICES ASSUME VInv, [Next]_vars PROVE VInv'
    OBVIOUS
  <1>1. ASSUME UNCHANGED startVars PROVE VInv'
    BY <1>1, MovesStay
    DEF startVars, mainVars, vectorVars, workVars, VInv, VectorTypes, VectorPhase, BehindMove,
        StaleNeedsMove
  <1> QED BY <1>1, VInvMain, VInvWorkers DEF Next, LogNext, vars

LEMMA VInvAlways == Spec => []VInv
  BY VInvInit, VInvStep, PTL DEF Spec

\* A worker reads a freed buffer of m_vecTaskBuf only if the vector moved for a worker
\* created after it.
THEOREM StaleAlwaysNeedsMove == Spec => []StaleNeedsMove
  <1>1. VInv => StaleNeedsMove
    BY DEF VInv
  <1> QED BY <1>1, VInvAlways, PTL

\* The last worker never reads a freed buffer of m_vecTaskBuf, and so neither
\* does the only one.
THEOREM LastWorkerAlwaysSafe == Spec => []LastWorkerSafe
  <1>1. VInv => LastWorkerSafe
    BY DEF VInv, VectorTypes, StaleNeedsMove, MovesAfter, LastWorkerSafe, AllWorkers
  <1> QED BY <1>1, VInvAlways, PTL
=============================================================================
