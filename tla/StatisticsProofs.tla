--------------------------- MODULE StatisticsProofs ---------------------------
(***************************************************************************)
(* What Statistics promises for any number of workers, users and requests. *)
(***************************************************************************)
EXTENDS Statistics, SequenceTheorems, WellFoundedInduction, TLAPS

-----------------------------------------------------------------------------
(* Numbers and sums.                                                       *)

LEMMA NumWorkersFact == NumWorkers \in Nat /\ NumWorkers >= 1
  BY StatisticsAssumption

\* A set of natural numbers has a least element: the induction used below.
LEMMA LeastNatural ==
    ASSUME NEW T, T \subseteq Nat, T # {}
    PROVE  \E x \in T : \A y \in T : x <= y
  <1>1. PICK x \in T : \A y \in T : <<y, x>> \notin OpToRel(<, Nat)
    BY NatLessThanWellFounded, WFMin
  <1>2. ASSUME NEW y \in T
        PROVE  x <= y
    <2>1. <<y, x>> \in Nat \X Nat /\ <<y, x>>[1] = y /\ <<y, x>>[2] = x
      OBVIOUS
    <2>2. ~(<<y, x>>[1] < <<y, x>>[2])
      BY <1>1, <2>1 DEF OpToRel
    <2> QED  BY <2>1, <2>2
  <1> QED  BY <1>2

\* s[i] is the sum of F over the first i of the first n workers.
PartialSums(s, F, n) == s = [i \in 0..n |-> IF i = 0 THEN 0 ELSE s[i - 1] + F[i]]

LEMMA PartialSumsExist ==
    ASSUME NEW F, NEW n \in Nat
    PROVE  \E s : PartialSums(s, F, n)
  <1> DEFINE T == {m \in Nat : ~\E s : PartialSums(s, F, m)}
  <1> SUFFICES T = {}
    OBVIOUS
  <1> SUFFICES ASSUME T # {}
               PROVE  FALSE
    OBVIOUS
  <1>1. PICK m \in T : \A y \in T : m <= y
    <2> HIDE DEF T
    <2>1. T \subseteq Nat
      BY DEF T
    <2> QED  BY <2>1, LeastNatural
  <1>2. m # 0
    <2> SUFFICES \E s : PartialSums(s, F, 0)
      BY <1>1
    <2> DEFINE s == [i \in 0..0 |-> 0]
    <2>1. PartialSums(s, F, 0)
      BY DEF PartialSums
    <2> QED  BY <2>1
  <1>3. m - 1 \in Nat /\ m - 1 \notin T
    BY <1>1, <1>2
  <1>4. PICK s : PartialSums(s, F, m - 1)
    BY <1>3
  <1> DEFINE r == [i \in 0..m |-> IF i = 0 THEN 0 ELSE s[i - 1] + F[i]]
  <1>5. ASSUME NEW i \in 0..(m - 1)
        PROVE  r[i] = s[i]
    BY <1>4 DEF PartialSums
  <1>6. PartialSums(r, F, m)
    <2>1. \A i \in 0..m : i # 0 => r[i - 1] = s[i - 1]
      BY <1>1, <1>5
    <2>2. r = [i \in 0..m |-> IF i = 0 THEN 0 ELSE r[i - 1] + F[i]]
      BY <2>1
    <2> QED  BY <2>2 DEF PartialSums
  <1> QED  BY <1>1, <1>6

\* The function Sum is defined with is what its definition says.
LEMMA SumDef ==
    ASSUME NEW F
    PROVE  \E s : PartialSums(s, F, NumWorkers) /\ Sum(F) = s[NumWorkers]
  <1> DEFINE s == CHOOSE s : PartialSums(s, F, NumWorkers)
  <1>1. PartialSums(s, F, NumWorkers)
    BY PartialSumsExist, NumWorkersFact
  <1>2. Sum(F) = s[NumWorkers]
    BY DEF Sum, PartialSums
  <1> QED  BY <1>1, <1>2

\* A sum of natural numbers is one.
LEMMA SumNat ==
    ASSUME NEW F \in [Workers -> Nat]
    PROVE  Sum(F) \in Nat
  <1>1. PICK s : PartialSums(s, F, NumWorkers) /\ Sum(F) = s[NumWorkers]
    BY SumDef
  <1>2. \A i \in 0..NumWorkers : s[i] = IF i = 0 THEN 0 ELSE s[i - 1] + F[i]
    BY <1>1 DEF PartialSums
  <1> DEFINE T == {i \in Nat : i <= NumWorkers /\ s[i] \notin Nat}
  <1>3. T = {}
    <2> SUFFICES ASSUME T # {}
                 PROVE  FALSE
      OBVIOUS
    <2>1. PICK m \in T : \A y \in T : m <= y
      <3> HIDE DEF T
      <3>1. T \subseteq Nat
        BY DEF T
      <3> QED  BY <3>1, LeastNatural
    <2>2. CASE m = 0
      BY <1>2, <2>1, <2>2, NumWorkersFact
    <2>3. CASE m # 0
      <3>1. m - 1 \in Nat /\ m - 1 <= NumWorkers /\ m \in Workers
        BY <2>1, <2>3, NumWorkersFact DEF Workers
      <3>2. s[m - 1] \in Nat
        BY <2>1, <3>1
      <3>3. s[m] = s[m - 1] + F[m]
        BY <1>2, <2>1, <2>3, NumWorkersFact
      <3> QED  BY <2>1, <3>1, <3>2, <3>3
    <2> QED  BY <2>2, <2>3
  <1> QED  BY <1>1, <1>3, NumWorkersFact

\* When one summand changes, the sum changes as much.
LEMMA SumChange ==
    ASSUME NEW F \in [Workers -> Nat], NEW G \in [Workers -> Nat], NEW w \in Workers,
           \A v \in Workers \ {w} : G[v] = F[v]
    PROVE  Sum(G) = Sum(F) + G[w] - F[w]
  <1>1. PICK s : PartialSums(s, F, NumWorkers) /\ Sum(F) = s[NumWorkers]
    BY SumDef
  <1>2. PICK r : PartialSums(r, G, NumWorkers) /\ Sum(G) = r[NumWorkers]
    BY SumDef
  <1>3. \A i \in 0..NumWorkers : /\ s[i] = IF i = 0 THEN 0 ELSE s[i - 1] + F[i]
                                 /\ r[i] = IF i = 0 THEN 0 ELSE r[i - 1] + G[i]
    BY <1>1, <1>2 DEF PartialSums
  <1> DEFINE Right(i) == /\ s[i] \in Int
                         /\ r[i] = s[i] + (IF w <= i THEN G[w] - F[w] ELSE 0)
             T == {i \in Nat : i <= NumWorkers /\ ~Right(i)}
  <1>4. T = {}
    <2> SUFFICES ASSUME T # {}
                 PROVE  FALSE
      OBVIOUS
    <2>1. PICK m \in T : \A y \in T : m <= y
      <3> HIDE DEF T
      <3>1. T \subseteq Nat
        BY DEF T
      <3> QED  BY <3>1, LeastNatural
    <2>2. CASE m = 0
      BY <1>3, <2>1, <2>2, NumWorkersFact DEF Workers
    <2>3. CASE m # 0
      <3>1. m - 1 \in Nat /\ m - 1 <= NumWorkers /\ m \in Workers /\ w \in Nat
        BY <2>1, <2>3, NumWorkersFact DEF Workers
      <3>2. Right(m - 1)
        BY <2>1, <3>1
      <3>3. s[m] = s[m - 1] + F[m] /\ r[m] = r[m - 1] + G[m]
        BY <1>3, <2>1, <2>3, NumWorkersFact
      <3>4. CASE m = w
        BY <2>1, <3>1, <3>2, <3>3, <3>4
      <3>5. CASE m # w
        BY <2>1, <3>1, <3>2, <3>3, <3>5
      <3> QED  BY <3>4, <3>5
    <2> QED  BY <2>2, <2>3
  <1>5. Right(NumWorkers)
    BY <1>4, NumWorkersFact
  <1>6. F[w] \in Nat /\ G[w] \in Nat /\ w <= NumWorkers
    BY NumWorkersFact DEF Workers
  <1> HIDE DEF T
  <1> QED  BY <1>1, <1>2, <1>5, <1>6

LEMMA SumZero == Sum([w \in Workers |-> 0]) = 0
  <1> DEFINE F == [w \in Workers |-> 0]
  <1>1. PICK s : PartialSums(s, F, NumWorkers) /\ Sum(F) = s[NumWorkers]
    BY SumDef
  <1>2. \A i \in 0..NumWorkers : s[i] = IF i = 0 THEN 0 ELSE s[i - 1] + F[i]
    BY <1>1 DEF PartialSums
  <1> DEFINE T == {i \in Nat : i <= NumWorkers /\ s[i] # 0}
  <1>3. T = {}
    <2> SUFFICES ASSUME T # {}
                 PROVE  FALSE
      OBVIOUS
    <2>1. PICK m \in T : \A y \in T : m <= y
      <3> HIDE DEF T
      <3>1. T \subseteq Nat
        BY DEF T
      <3> QED  BY <3>1, LeastNatural
    <2>2. CASE m = 0
      BY <1>2, <2>1, <2>2, NumWorkersFact
    <2>3. CASE m # 0
      <3>1. m - 1 \in Nat /\ m - 1 <= NumWorkers /\ m \in Workers
        BY <2>1, <2>3, NumWorkersFact DEF Workers
      <3>2. s[m - 1] = 0
        BY <2>1, <3>1
      <3>3. s[m] = s[m - 1] + F[m]
        BY <1>2, <2>1, <2>3, NumWorkersFact
      <3> QED  BY <2>1, <3>1, <3>2, <3>3
    <2> QED  BY <2>2, <2>3
  <1> QED  BY <1>1, <1>3, NumWorkersFact

-----------------------------------------------------------------------------
(* The days, the files and the end of the process.                         *)

\* The types of the dates, the files and the connections; and a thread is without
\* its file only after one was too early on some day or an mkdir or fopen failed.
DayInv ==
    /\ day \in 0..MaxDay /\ dirs \subseteq 0..MaxDay /\ early \subseteq 0..MaxDay
    /\ file \in {NoFile} \cup dirs /\ hfile \in {NoFile} \cup dirs
    /\ file = NoFile \/ hfile = NoFile => early # {} \/ failed
    /\ failed \in BOOLEAN /\ crashed \in BOOLEAN /\ conn \in BOOLEAN /\ hconn \in BOOLEAN

fileVars == <<dayVars, crashed, file, hfile, conn, hconn>>

\* The steps that have nothing to do with days, files and connections.
LEMMA FilesLeftAlone ==
    ASSUME \/ \E w \in Workers : WorkerNext(w)
           \/ AddReport \/ EndOfReport \/ ClearReport \/ PrintRows
           \/ TakeRecord \/ PrintRecord \/ NextQueue
           \/ UNCHANGED vars
    PROVE  UNCHANGED fileVars
  <1> USE DEF fileVars, dayVars, countVars, hiveVars
  <1>1. ASSUME NEW w \in Workers, WorkerNext(w)
        PROVE  UNCHANGED fileVars
    BY <1>1 DEF WorkerNext, TakeRequest, FindNode, Increment, PushRecord
  <1>2. CASE AddReport \/ EndOfReport \/ ClearReport \/ PrintRows
    BY <1>2 DEF AddReport, EndOfReport, ClearReport, PrintRows
  <1>3. CASE TakeRecord \/ PrintRecord \/ NextQueue \/ UNCHANGED vars
    BY <1>3 DEF TakeRecord, PrintRecord, NextQueue, vars
  <1> QED  BY <1>1, <1>2, <1>3

LEMMA DayStep == DayInv /\ [Next]_vars => DayInv'
  <1> SUFFICES ASSUME DayInv, [Next]_vars
               PROVE  DayInv'
    OBVIOUS
  <1> USE StatisticsAssumption DEF DayInv, NoFile
  <1>1. CASE Midnight
    BY <1>1 DEF Midnight, countVars, hiveVars
  <1>2. CASE LogLine
    BY <1>2 DEF LogLine, WithLogLine, countVars, hiveVars
  <1>3. CASE OpenFile
    BY <1>3 DEF OpenFile, NoteEarly, hiveVars
  <1>4. CASE HiveOpenFile
    BY <1>4 DEF HiveOpenFile, NoteEarly, countVars
  <1>5. CASE ConnectSql
    BY <1>5 DEF ConnectSql, dayVars, hiveVars
  <1>6. CASE HiveConnectSql
    BY <1>6 DEF HiveConnectSql, WithLogLine, countVars
  <1>7. CASE ConnectFails \/ PrintFails \/ HiveConnectFails \/ PrintRecordFails
    BY <1>7 DEF ConnectFails, PrintFails, HiveConnectFails, PrintRecordFails, dayVars, countVars, hiveVars
  <1>8. CASE UNCHANGED fileVars
    BY <1>8 DEF fileVars, dayVars
  <1>9. CASE OpenFileFails
    BY <1>9 DEF OpenFileFails, hiveVars
  <1>10. CASE HiveOpenFileFails
    BY <1>10 DEF HiveOpenFileFails, countVars
  <1> HIDE StatisticsAssumption DEF DayInv, NoFile
  <1> QED  BY <1>1, <1>2, <1>3, <1>4, <1>5, <1>6, <1>7, <1>8, <1>9, <1>10, FilesLeftAlone
           DEF Next, CountNext, HiveNext

LEMMA CrashStep == DayInv /\ CrashExplained /\ [Next]_vars => CrashExplained'
  <1> SUFFICES ASSUME DayInv, CrashExplained, [Next]_vars
               PROVE  CrashExplained'
    OBVIOUS
  <1>1. CASE ConnectFails
    BY <1>1 DEF ConnectFails, CrashExplained, countVars
  <1>2. CASE HiveConnectFails
    BY <1>2 DEF HiveConnectFails, CrashExplained, hiveVars
  <1>3. CASE PrintFails
    BY <1>3 DEF PrintFails, CrashExplained, DayInv, dayVars
  <1>4. CASE PrintRecordFails
    BY <1>4 DEF PrintRecordFails, CrashExplained, DayInv, dayVars
  <1>5. ASSUME \/ Midnight \/ LogLine \/ ConnectSql \/ HiveConnectSql
               \/ OpenFile \/ OpenFileFails \/ HiveOpenFile \/ HiveOpenFileFails
        PROVE  UNCHANGED crashed
    BY <1>5 DEF Midnight, LogLine, ConnectSql, HiveConnectSql,
                OpenFile, OpenFileFails, HiveOpenFile, HiveOpenFileFails
  <1>6. CASE UNCHANGED fileVars
    BY <1>6 DEF fileVars, dayVars, CrashExplained
  <1>7. CASE ~crashed /\ UNCHANGED crashed
    BY <1>7 DEF CrashExplained
  <1> QED  BY <1>1, <1>2, <1>3, <1>4, <1>5, <1>6, <1>7, FilesLeftAlone
           DEF Next, CountNext, HiveNext

LEMMA DayInit == Init => DayInv /\ CrashExplained
  <1> SUFFICES ASSUME Init
               PROVE  DayInv /\ CrashExplained
    OBVIOUS
  <1>1. crashed \in BOOLEAN /\ conn \in BOOLEAN /\ hconn \in BOOLEAN /\ CrashExplained
    BY Zenon DEF Init, HiveInit, CrashExplained
  <1>2. failed \in BOOLEAN /\ (file = NoFile \/ hfile = NoFile => failed)
    <2>1. failed = (NoFile \in {file, hfile})
      BY Zenon DEF Init
    <2>2. (file = NoFile \/ hfile = NoFile) => NoFile \in {file, hfile}
      OBVIOUS
    <2>3. CASE NoFile \in {file, hfile}
      <3>1. failed = TRUE
        BY <2>1, <2>3, Zenon
      <3> QED  BY <3>1, Zenon
    <2>4. CASE ~(NoFile \in {file, hfile})
      <3>1. ~failed
        BY <2>1, <2>4
      <3>2. failed \in BOOLEAN
        BY <2>1
      <3> QED  BY <2>2, <2>4, <3>1, <3>2, Zenon
    <2> QED  BY <2>3, <2>4
  <1>3. /\ day \in 0..MaxDay /\ dirs \subseteq 0..MaxDay /\ early \subseteq 0..MaxDay
        /\ file \in {NoFile} \cup dirs /\ hfile \in {NoFile} \cup dirs
    BY StatisticsAssumption DEF Init, HiveInit
  <1> QED  BY <1>1, <1>2, <1>3, Zenon DEF DayInv

\* CrashExplained, for any number of workers, users, requests and days: as long as
\* no mkdir and no fopen has failed, the two threads end the process only through a
\* MySQL server that could not be reached or through a file opened before the
\* directory of the day was made.
THEOREM CrashCauses == Spec => []CrashExplained
  <1>1. DayInv /\ CrashExplained /\ [Next]_vars => (DayInv /\ CrashExplained)'
    BY DayStep, CrashStep
  <1> QED  BY <1>1, DayInit, PTL DEF Spec

-----------------------------------------------------------------------------
(* What the workers have to count.                                         *)

Task == [name : Names, counter : Counters \cup {"HiveLog"}]

\* Request r records the fetch at place i.
RecordsAt(r, i) == i \in 1..Len(r) /\ r[i].counter = "HiveLog"

\* The jobs are sequences of tasks with at most one record of the fetch; a node
\* searched is that of the next task; a worker has made at most one record per
\* request taken up.
JobInv ==
    /\ requests \in 0..MaxRequests
    /\ job \in [Workers -> Seq(Task)]
    /\ node \in [Workers -> SUBSET Names]
    /\ pushed \in [Workers -> Nat]
    /\ \A w \in Workers :
          /\ node[w] # {} => /\ job[w] # <<>> /\ Head(job[w]).counter \in Counters
                             /\ node[w] = {Head(job[w]).name}
          /\ \A i, j \in 1..Len(job[w]) :
                RecordsAt(job[w], i) /\ RecordsAt(job[w], j) => i = j
          /\ pushed[w] <= requests
          /\ (\E i \in 1..Len(job[w]) : RecordsAt(job[w], i)) => pushed[w] < requests

LEMMA NamesFact ==
    /\ Names \subseteq Nat
    /\ \A u \in Users : UserName(u) \in Names /\ OperatorName(u) \in Names
  BY StatisticsAssumption DEF Names, UserName, OperatorName

LEMMA RequestsFact ==
    ASSUME NEW u \in Users, NEW r \in Requests(u)
    PROVE  /\ r \in Seq(Task) /\ r # <<>>
           /\ \A i, j \in 1..Len(r) : RecordsAt(r, i) /\ RecordsAt(r, j) => i = j
  <1> DEFINE user(f) == [name |-> UserName(u), counter |-> f]
             oper(f) == [name |-> OperatorName(u), counter |-> f]
  <1>1. \A f \in Counters \cup {"HiveLog"} : user(f) \in Task /\ oper(f) \in Task
    BY NamesFact DEF Task
  <1>2. user("ReqNum") \in Task /\ user("ResNum") \in Task /\ user("EmptyResNum") \in Task
    BY <1>1 DEF Counters
  <1>3. /\ oper("ReqNum") \in Task /\ oper("ResNum") \in Task
        /\ oper("EmptyResNum") \in Task /\ oper("HiveLog") \in Task
    BY <1>1 DEF Counters
  <1>4. \/ r = <<user("ReqNum")>>
        \/ r = <<user("ReqNum"), oper("ReqNum"), oper("HiveLog"), oper("EmptyResNum"), user("EmptyResNum")>>
        \/ r = <<user("ReqNum"), oper("ReqNum"), oper("HiveLog"), oper("ResNum"), user("ResNum")>>
        \/ r = <<user("ReqNum"), oper("ReqNum"), oper("HiveLog"), oper("ResNum"), user("ResNum"),
                 user("EmptyResNum")>>
    BY DEF Requests
  <1>5. r \in Seq(Task) /\ r # <<>>
    <2> HIDE DEF user, oper
    <2>1. CASE r = <<user("ReqNum")>>
      BY <1>2, <2>1
    <2>2. CASE r = <<user("ReqNum"), oper("ReqNum"), oper("HiveLog"), oper("EmptyResNum"), user("EmptyResNum")>>
      BY <1>2, <1>3, <2>2
    <2>3. CASE r = <<user("ReqNum"), oper("ReqNum"), oper("HiveLog"), oper("ResNum"), user("ResNum")>>
      BY <1>2, <1>3, <2>3
    <2>4. CASE r = <<user("ReqNum"), oper("ReqNum"), oper("HiveLog"), oper("ResNum"), user("ResNum"),
                     user("EmptyResNum")>>
      BY <1>2, <1>3, <2>4
    <2> QED  BY <1>4, <2>1, <2>2, <2>3, <2>4
  <1>6. ASSUME NEW i \in 1..Len(r), r[i].counter = "HiveLog"
        PROVE  i = 3
    BY <1>4, <1>6, SMTT(30)
  <1> QED  BY <1>5, <1>6 DEF RecordsAt

LEMMA TailFact ==
    ASSUME NEW S, NEW s \in Seq(S), s # <<>>
    PROVE  /\ Tail(s) \in Seq(S) /\ Len(s) \in Nat /\ Len(s) >= 1
           /\ Len(Tail(s)) = Len(s) - 1
           /\ \A i \in 1..Len(Tail(s)) : i + 1 \in 1..Len(s) /\ Tail(s)[i] = s[i + 1]
           /\ Head(s) = s[1] /\ s[1] \in S
  OBVIOUS

jobVars == <<requests, job, node, pushed>>

LEMMA JobsLeftAlone ==
    ASSUME Midnight \/ LogLine \/ CountNext \/ HiveNext \/ UNCHANGED vars
    PROVE  UNCHANGED jobVars
  <1> USE DEF jobVars, workerVars, queueVars
  <1>1. CASE Midnight \/ LogLine \/ UNCHANGED vars
    BY <1>1 DEF Midnight, LogLine, vars
  <1>2. CASE CountNext
    BY <1>2 DEF CountNext, OpenFile, OpenFileFails, AddReport, EndOfReport, ClearReport, ConnectSql,
                ConnectFails, PrintRows, PrintFails
  <1>3. CASE HiveNext
    BY <1>3 DEF HiveNext, HiveOpenFile, HiveOpenFileFails, HiveConnectSql, HiveConnectFails,
                TakeRecord, PrintRecord, PrintRecordFails, NextQueue
  <1> QED  BY <1>1, <1>2, <1>3

LEMMA JobStep == JobInv /\ [Next]_vars => JobInv'
  <1> SUFFICES ASSUME JobInv, [Next]_vars
               PROVE  JobInv'
    OBVIOUS
  <1>1. ASSUME NEW w \in Workers, TakeRequest(w)
        PROVE  JobInv'
    <2>0. PICK u \in Users : \E r \in Requests(u) : job' = [job EXCEPT ![w] = r]
      BY <1>1 DEF TakeRequest
    <2>1. PICK r \in Requests(u) : job' = [job EXCEPT ![w] = r]
      BY <2>0
    <2>2. /\ r \in Seq(Task) /\ r # <<>>
          /\ \A i, j \in 1..Len(r) : RecordsAt(r, i) /\ RecordsAt(r, j) => i = j
      BY RequestsFact
    <2>3. node[w] = {}
      BY <1>1 DEF TakeRequest, JobInv
    <2>4. /\ requests' = requests + 1 /\ requests' \in 0..MaxRequests
          /\ UNCHANGED <<node, pushed>>
      BY <1>1, StatisticsAssumption DEF TakeRequest, JobInv, queueVars
    <2> QED  BY <2>1, <2>2, <2>3, <2>4 DEF JobInv, RecordsAt
  <1>2. ASSUME NEW w \in Workers, FindNode(w)
        PROVE  JobInv'
    <2>0. job[w] \in Seq(Task) /\ job[w] # <<>>
      BY <1>2 DEF FindNode, JobInv
    <2>1. Head(job[w]) \in Task
      BY <2>0, TailFact
    <2>2. Head(job[w]).name \in Names
      BY <2>1 DEF Task
    <2> QED  BY <1>2, <2>2 DEF FindNode, JobInv, queueVars, RecordsAt
  <1>3. ASSUME NEW w \in Workers, Increment(w)
        PROVE  JobInv'
    <2>1. job[w] \in Seq(Task) /\ job[w] # <<>> /\ job' = [job EXCEPT ![w] = Tail(job[w])]
      BY <1>3 DEF Increment, JobInv
    <2> DEFINE t == Tail(job[w])
    <2>2. /\ t \in Seq(Task) /\ Len(job[w]) \in Nat /\ Len(t) = Len(job[w]) - 1
          /\ \A i \in 1..Len(t) : i + 1 \in 1..Len(job[w]) /\ t[i] = job[w][i + 1]
      BY <2>1, TailFact
    <2> HIDE DEF t
    <2>8. \A i \in 1..Len(t) : i \in Int /\ i + 1 \in 1..Len(job[w])
                                 /\ (RecordsAt(t, i) => RecordsAt(job[w], i + 1))
      BY <2>2 DEF RecordsAt
    <2>3. /\ \A i, j \in 1..Len(t) : RecordsAt(t, i) /\ RecordsAt(t, j) => i = j
          /\ (\E i \in 1..Len(t) : RecordsAt(t, i)) => pushed[w] < requests
      <3> HIDE DEF RecordsAt
      <3>1. \A i, j \in 1..Len(job[w]) : RecordsAt(job[w], i) /\ RecordsAt(job[w], j) => i = j
        BY DEF JobInv
      <3>2. (\E i \in 1..Len(job[w]) : RecordsAt(job[w], i)) => pushed[w] < requests
        BY DEF JobInv
      <3>3. ASSUME NEW i \in 1..Len(t), NEW j \in 1..Len(t), RecordsAt(t, i), RecordsAt(t, j)
            PROVE  i = j
        <4>1. i + 1 = j + 1
          BY <2>8, <3>1, <3>3
        <4> QED  BY <4>1
      <3>4. ASSUME NEW i \in 1..Len(t), RecordsAt(t, i)
            PROVE  pushed[w] < requests
        BY <2>8, <3>2, <3>4
      <3> QED  BY <3>3, <3>4
    <2>4. /\ node' = [node EXCEPT ![w] = {}] /\ UNCHANGED <<requests, pushed>>
          /\ job' = [job EXCEPT ![w] = t]
      BY <1>3, <2>1 DEF Increment, queueVars, t
    <2> QED  BY <2>2, <2>3, <2>4 DEF JobInv, RecordsAt
  <1>4. ASSUME NEW w \in Workers, PushRecord(w)
        PROVE  JobInv'
    <2>1. /\ job[w] \in Seq(Task) /\ job[w] # <<>> /\ job' = [job EXCEPT ![w] = Tail(job[w])]
          /\ Head(job[w]).counter = "HiveLog"
      BY <1>4 DEF PushRecord, JobInv
    <2> DEFINE t == Tail(job[w])
    <2>2. /\ t \in Seq(Task) /\ Len(job[w]) \in Nat /\ Len(job[w]) >= 1 /\ Len(t) = Len(job[w]) - 1
          /\ \A i \in 1..Len(t) : i + 1 \in 1..Len(job[w]) /\ t[i] = job[w][i + 1]
          /\ Head(job[w]) = job[w][1]
      BY <2>1, TailFact
    <2> HIDE DEF t
    <2>3. RecordsAt(job[w], 1) /\ 1 \in 1..Len(job[w])
      BY <2>1, <2>2 DEF RecordsAt
    <2>4. pushed[w] < requests /\ pushed[w] \in Nat /\ requests \in Nat
      BY <2>3 DEF JobInv
    <2>5. ASSUME NEW i \in 1..Len(t), RecordsAt(t, i)
          PROVE  FALSE
      <3>1. i + 1 \in 1..Len(job[w]) /\ RecordsAt(job[w], i + 1) /\ i + 1 # 1
        BY <2>2, <2>5 DEF RecordsAt
      <3> QED  BY <2>3, <3>1 DEF JobInv
    <2>6. node[w] = {}
      BY <2>1 DEF JobInv, Counters
    <2>7. /\ pushed' = [pushed EXCEPT ![w] = @ + 1] /\ UNCHANGED <<requests, node>>
          /\ job' = [job EXCEPT ![w] = t]
      BY <1>4, <2>1 DEF PushRecord, t
    <2> QED  BY <2>2, <2>4, <2>5, <2>6, <2>7 DEF JobInv, RecordsAt
  <1>5. CASE UNCHANGED jobVars
    BY <1>5 DEF jobVars, JobInv, RecordsAt
  <1> QED  BY <1>1, <1>2, <1>3, <1>4, <1>5, JobsLeftAlone DEF Next, WorkerNext

LEMMA JobInit == Init => JobInv
  <1> SUFFICES ASSUME Init
               PROVE  JobInv
    OBVIOUS
  <1>1. /\ requests = 0 /\ job = [w \in Workers |-> <<>>] /\ node = [w \in Workers |-> {}]
        /\ pushed = [w \in Workers |-> 0]
    BY DEF Init
  <1>2. 0 \in 0..MaxRequests /\ <<>> \in Seq(Task) /\ Len(<<>>) = 0
    BY StatisticsAssumption
  <1> QED  BY <1>1, <1>2 DEF JobInv, RecordsAt

-----------------------------------------------------------------------------
(* The Hive log.                                                           *)

\* Whether the Hive-log thread has a record of worker w in its hand.
Held(w) == IF hpc = "print" /\ hcurrent = w THEN 1 ELSE 0

\* Records 1..p by their places: the log l has the first ones, the next is in the
\* hand if d = 1, the queue q has the others.
InOrder(l, d, h, q, p) ==
    /\ \A k \in 1..Len(l) : l[k] = k
    /\ d = 1 => h = Len(l) + 1
    /\ \A k \in 1..Len(q) : q[k] = Len(l) + d + k
    /\ Len(l) + d + Len(q) = p

RecordsInOrder(w) == InOrder(logged[w], Held(w), hand, queue[w], pushed[w])

HiveInv ==
    /\ hpc \in {"open", "sql", "drain", "print"} /\ hcurrent \in Workers /\ hand \in Nat
    /\ hand # 0 <=> hpc = "print"
    /\ queue \in [Workers -> Seq(Nat)] /\ logged \in [Workers -> Seq(Nat)]
    /\ \A w \in Workers : RecordsInOrder(w)

recordVars == <<queueVars, hpc, hcurrent, hand, logged>>

LEMMA RecordsLeftAlone ==
    ASSUME \/ Midnight \/ LogLine \/ CountNext \/ UNCHANGED vars
           \/ HiveConnectFails \/ PrintRecordFails
           \/ \E w \in Workers : TakeRequest(w) \/ FindNode(w) \/ Increment(w)
    PROVE  UNCHANGED recordVars
  <1> USE DEF recordVars, queueVars, hiveVars
  <1>1. CASE Midnight \/ LogLine \/ UNCHANGED vars \/ HiveConnectFails \/ PrintRecordFails
    BY <1>1 DEF Midnight, LogLine, vars, HiveConnectFails, PrintRecordFails
  <1>2. CASE CountNext
    BY <1>2 DEF CountNext, OpenFile, OpenFileFails, AddReport, EndOfReport, ClearReport, ConnectSql,
                ConnectFails, PrintRows, PrintFails
  <1>3. CASE \E w \in Workers : TakeRequest(w) \/ FindNode(w) \/ Increment(w)
    BY <1>3 DEF TakeRequest, FindNode, Increment
  <1> QED  BY <1>1, <1>2, <1>3

LEMMA AppendFact ==
    ASSUME NEW S, NEW s \in Seq(S), NEW e \in S
    PROVE  /\ Append(s, e) \in Seq(S) /\ Len(s) \in Nat
           /\ Len(Append(s, e)) = Len(s) + 1
           /\ \A k \in 1..Len(s) : Append(s, e)[k] = s[k]
           /\ Append(s, e)[Len(s) + 1] = e
  OBVIOUS

LEMMA PushOrder ==
    ASSUME NEW l \in Seq(Nat), NEW d \in {0, 1}, NEW h, NEW q \in Seq(Nat), NEW p \in Nat,
           InOrder(l, d, h, q, p)
    PROVE  InOrder(l, d, h, Append(q, p + 1), p + 1)
  <1> DEFINE r == Append(q, p + 1)
  <1>1. /\ Len(q) \in Nat /\ Len(l) \in Nat /\ Len(r) = Len(q) + 1
        /\ \A k \in 1..Len(q) : r[k] = q[k]
        /\ r[Len(q) + 1] = p + 1
    BY AppendFact
  <1> HIDE DEF r
  <1>2. ASSUME NEW k \in 1..Len(r)
        PROVE  r[k] = Len(l) + d + k
    <2>1. CASE k = Len(q) + 1
      <3>1. Len(l) + d + Len(q) = p
        BY DEF InOrder
      <3>2. r[k] = p + 1
        BY <1>1, <2>1
      <3>3. Len(l) \in Nat /\ Len(q) \in Nat /\ d \in Nat
        BY <1>1
      <3>4. Len(l) + d + (Len(q) + 1) = (Len(l) + d + Len(q)) + 1
        BY <3>3
      <3> QED  BY <2>1, <3>1, <3>2, <3>4
    <2>2. CASE k # Len(q) + 1
      <3>1. k \in 1..Len(q)
        BY <1>1, <2>2
      <3> QED  BY <1>1, <3>1 DEF InOrder
    <2> QED  BY <2>1, <2>2
  <1>3. Len(l) + d + Len(r) = p + 1
    BY <1>1 DEF InOrder
  <1> QED  BY <1>2, <1>3 DEF InOrder, r

LEMMA TakeOrder ==
    ASSUME NEW l \in Seq(Nat), NEW h, NEW q \in Seq(Nat), q # <<>>, NEW p \in Nat,
           InOrder(l, 0, h, q, p)
    PROVE  InOrder(l, 1, Head(q), Tail(q), p) /\ Head(q) \in Nat \ {0}
  <1> DEFINE r == Tail(q)
  <1>1. /\ Len(l) \in Nat /\ Len(q) \in Nat /\ Len(q) >= 1 /\ Len(r) = Len(q) - 1
        /\ \A i \in 1..Len(r) : i + 1 \in 1..Len(q) /\ r[i] = q[i + 1]
        /\ Head(q) = q[1]
    BY TailFact
  <1> HIDE DEF r
  <1>2. Head(q) = Len(l) + 1
    <2>1. 1 \in 1..Len(q)
      BY <1>1
    <2>2. q[1] = Len(l) + 0 + 1
      BY <2>1 DEF InOrder
    <2> QED  BY <1>1, <2>2
  <1>3. ASSUME NEW k \in 1..Len(r)
        PROVE  r[k] = Len(l) + 1 + k
    <2>1. q[k + 1] = Len(l) + 0 + (k + 1)
      BY <1>1 DEF InOrder
    <2> QED  BY <1>1, <2>1
  <1>4. Len(l) + 1 + Len(r) = p
    <2> DEFINE m == Len(l)  n == Len(q)
    <2>1. m \in Nat /\ n \in Nat /\ m + 0 + n = p
      BY <1>1 DEF InOrder
    <2>2. Len(r) = n - 1
      BY <1>1, Zenon
    <2> HIDE DEF m, n
    <2>3. m + 1 + (n - 1) = p
      BY <2>1
    <2> QED  BY <2>2, <2>3, Zenon DEF m
  <1>5. InOrder(l, 1, Head(q), r, p)
    BY <1>2, <1>3, <1>4 DEF InOrder
  <1> QED  BY <1>1, <1>2, <1>5 DEF r

LEMMA PrintOrder ==
    ASSUME NEW l \in Seq(Nat), NEW h \in Nat, NEW q \in Seq(Nat), NEW p \in Nat,
           InOrder(l, 1, h, q, p)
    PROVE  InOrder(Append(l, h), 0, 0, q, p)
  <1> DEFINE r == Append(l, h)
  <1>1. /\ Len(l) \in Nat /\ Len(q) \in Nat /\ Len(r) = Len(l) + 1
        /\ \A k \in 1..Len(l) : r[k] = l[k]
        /\ r[Len(l) + 1] = h
    BY AppendFact
  <1> HIDE DEF r
  <1>2. ASSUME NEW k \in 1..Len(r)
        PROVE  r[k] = k
    <2>1. CASE k = Len(l) + 1
      BY <1>1, <2>1 DEF InOrder
    <2>2. CASE k # Len(l) + 1
      <3>1. k \in 1..Len(l)
        BY <1>1, <2>2
      <3> QED  BY <1>1, <3>1 DEF InOrder
    <2> QED  BY <2>1, <2>2
  <1>3. \A k \in 1..Len(q) : q[k] = Len(r) + 0 + k
    BY <1>1 DEF InOrder
  <1>4. Len(r) + 0 + Len(q) = p
    BY <1>1 DEF InOrder
  <1> QED  BY <1>2, <1>3, <1>4 DEF InOrder, r

\* What the hand holds is of no interest to the workers whose record it is not.
LEMMA OtherHand ==
    ASSUME NEW l, NEW h, NEW g, NEW q, NEW p, InOrder(l, 0, h, q, p)
    PROVE  InOrder(l, 0, g, q, p)
  BY DEF InOrder

LEMMA HiveStep == JobInv /\ HiveInv /\ [Next]_vars => HiveInv'
  <1> SUFFICES ASSUME JobInv, HiveInv, [Next]_vars
               PROVE  HiveInv'
    OBVIOUS
  <1>0. pushed \in [Workers -> Nat]
    BY DEF JobInv
  <1>1. ASSUME NEW w \in Workers, PushRecord(w)
        PROVE  HiveInv'
    <2>1. /\ pushed' = [pushed EXCEPT ![w] = pushed[w] + 1]
          /\ queue' = [queue EXCEPT ![w] = Append(queue[w], pushed[w] + 1)]
          /\ UNCHANGED <<hpc, hcurrent, hand, logged>>
      BY <1>1 DEF PushRecord, hiveVars
    <2>2. queue' \in [Workers -> Seq(Nat)]
      <3>1. Append(queue[w], pushed[w] + 1) \in Seq(Nat)
        BY <1>0, AppendFact DEF HiveInv
      <3> QED  BY <2>1, <3>1 DEF HiveInv
    <2>3. RecordsInOrder(w)'
      <3>1. /\ InOrder(logged[w], Held(w), hand, queue[w], pushed[w]) /\ Held(w) \in {0, 1}
            /\ logged[w] \in Seq(Nat) /\ queue[w] \in Seq(Nat) /\ pushed[w] \in Nat
        BY <1>0 DEF HiveInv, RecordsInOrder, Held
      <3>2. InOrder(logged[w], Held(w), hand, Append(queue[w], pushed[w] + 1), pushed[w] + 1)
        BY <3>1, PushOrder
      <3>3. /\ queue'[w] = Append(queue[w], pushed[w] + 1) /\ pushed'[w] = pushed[w] + 1
            /\ Held(w)' = Held(w)
        BY <1>0, <2>1 DEF HiveInv, Held
      <3> QED  BY <2>1, <3>2, <3>3 DEF RecordsInOrder
    <2>4. \A v \in Workers \ {w} : RecordsInOrder(v)'
      BY <1>0, <2>1 DEF HiveInv, RecordsInOrder, Held
    <2> QED  BY <2>1, <2>2, <2>3, <2>4 DEF HiveInv
  <1>2. CASE HiveOpenFile \/ HiveOpenFileFails
    BY <1>2 DEF HiveOpenFile, HiveOpenFileFails, HiveInv, RecordsInOrder, Held, queueVars
  <1>3. CASE HiveConnectSql
    <2>1. 1 \in Workers
      BY NumWorkersFact DEF Workers
    <2> QED  BY <1>3, <2>1 DEF HiveConnectSql, HiveInv, RecordsInOrder, Held, queueVars
  <1>4. CASE TakeRecord
    <2> DEFINE w == hcurrent
    <2>1. /\ w \in Workers /\ queue[w] \in Seq(Nat) /\ queue[w] # <<>>
          /\ logged[w] \in Seq(Nat) /\ pushed[w] \in Nat
          /\ InOrder(logged[w], 0, hand, queue[w], pushed[w])
      BY <1>0, <1>4 DEF TakeRecord, HiveInv, RecordsInOrder, Held
    <2>2. InOrder(logged[w], 1, Head(queue[w]), Tail(queue[w]), pushed[w]) /\ Head(queue[w]) \in Nat \ {0}
      BY <2>1, TakeOrder
    <2>3. /\ queue' = [queue EXCEPT ![w] = Tail(queue[w])] /\ hpc' = "print" /\ hpc = "drain"
          /\ UNCHANGED <<pushed, hcurrent, logged>> /\ hand' = Head(queue[w])
      BY <1>4 DEF TakeRecord
    <2>4. RecordsInOrder(w)'
      <3>1. Held(w)' = 1 /\ queue'[w] = Tail(queue[w])
        BY <2>1, <2>3 DEF HiveInv, Held
      <3> QED  BY <2>2, <2>3, <3>1 DEF RecordsInOrder
    <2>5. ASSUME NEW v \in Workers \ {w}
          PROVE  RecordsInOrder(v)'
      <3>1. InOrder(logged[v], 0, hand, queue[v], pushed[v])
        BY <2>3 DEF HiveInv, RecordsInOrder, Held
      <3>2. InOrder(logged[v], 0, hand', queue[v], pushed[v])
        BY <3>1, OtherHand
      <3>3. Held(v)' = 0 /\ queue'[v] = queue[v]
        BY <2>1, <2>3 DEF HiveInv, Held
      <3> QED  BY <2>3, <3>2, <3>3 DEF RecordsInOrder
    <2>6. queue' \in [Workers -> Seq(Nat)]
      BY <2>1, <2>3, TailFact DEF HiveInv
    <2> QED  BY <2>1, <2>2, <2>3, <2>4, <2>5, <2>6 DEF HiveInv
  <1>5. CASE PrintRecord
    <2> DEFINE w == hcurrent
    <2>1. /\ w \in Workers /\ queue[w] \in Seq(Nat) /\ hand \in Nat
          /\ logged[w] \in Seq(Nat) /\ pushed[w] \in Nat
          /\ InOrder(logged[w], 1, hand, queue[w], pushed[w])
      BY <1>0, <1>5 DEF PrintRecord, HiveInv, RecordsInOrder, Held
    <2>2. InOrder(Append(logged[w], hand), 0, 0, queue[w], pushed[w])
      BY <2>1, PrintOrder
    <2>3. /\ logged' = [logged EXCEPT ![w] = Append(logged[w], hand)] /\ hpc' = "drain" /\ hpc = "print"
          /\ UNCHANGED <<pushed, hcurrent, queue>> /\ hand' = 0
      BY <1>5 DEF PrintRecord, queueVars
    <2>4. RecordsInOrder(w)'
      <3>1. Held(w)' = 0 /\ logged'[w] = Append(logged[w], hand)
        BY <2>1, <2>3 DEF HiveInv, Held
      <3> QED  BY <2>2, <2>3, <3>1 DEF RecordsInOrder
    <2>5. ASSUME NEW v \in Workers \ {w}
          PROVE  RecordsInOrder(v)'
      <3>1. InOrder(logged[v], 0, hand, queue[v], pushed[v])
        BY <2>3 DEF HiveInv, RecordsInOrder, Held
      <3>2. InOrder(logged[v], 0, hand', queue[v], pushed[v])
        BY <3>1, OtherHand
      <3>3. Held(v)' = 0 /\ logged'[v] = logged[v]
        BY <2>1, <2>3 DEF HiveInv, Held
      <3> QED  BY <2>3, <3>2, <3>3 DEF RecordsInOrder
    <2>6. logged' \in [Workers -> Seq(Nat)]
      <3>1. Append(logged[w], hand) \in Seq(Nat)
        BY <2>1, AppendFact
      <3> QED  BY <2>3, <3>1 DEF HiveInv
    <2> QED  BY <2>1, <2>3, <2>4, <2>5, <2>6 DEF HiveInv
  <1>6. CASE NextQueue
    <2>1. hcurrent' \in Workers
      <3>1. hcurrent \in 1..NumWorkers /\ (hcurrent' = 1 \/ (hcurrent # NumWorkers /\ hcurrent' = hcurrent + 1))
        BY <1>6 DEF NextQueue, HiveInv, Workers
      <3> QED  BY <3>1, NumWorkersFact DEF Workers
    <2>2. hpc' \in {"open", "drain"} /\ hpc = "drain" /\ UNCHANGED <<pushed, queue, hand, logged>>
      BY <1>6 DEF NextQueue, queueVars
    <2> QED  BY <2>1, <2>2 DEF HiveInv, RecordsInOrder, Held
  <1>7. CASE UNCHANGED recordVars
    BY <1>7 DEF recordVars, queueVars, HiveInv, RecordsInOrder, Held
  <1> QED  BY <1>1, <1>2, <1>3, <1>4, <1>5, <1>6, <1>7, RecordsLeftAlone
           DEF Next, WorkerNext, HiveNext

LEMMA ConcatFact ==
    ASSUME NEW S, NEW s \in Seq(S), NEW t \in Seq(S)
    PROVE  /\ s \o t \in Seq(S) /\ Len(s) \in Nat /\ Len(t) \in Nat
           /\ Len(s \o t) = Len(s) + Len(t)
           /\ \A k \in 1..Len(s) : (s \o t)[k] = s[k]
           /\ \A k \in 1..Len(t) : (s \o t)[Len(s) + k] = t[k]
  <1>1. /\ s \o t \in Seq(S) /\ Len(s) \in Nat /\ Len(t) \in Nat /\ Len(s \o t) = Len(s) + Len(t)
        /\ \A k \in 1..(Len(s) + Len(t)) : (s \o t)[k] = IF k <= Len(s) THEN s[k] ELSE t[k - Len(s)]
    BY ConcatProperties, LenProperties
  <1>2. ASSUME NEW k \in 1..Len(t)
        PROVE  (s \o t)[Len(s) + k] = t[k]
    <2>1. Len(s) + k \in 1..(Len(s) + Len(t)) /\ ~(Len(s) + k <= Len(s)) /\ (Len(s) + k) - Len(s) = k
      BY <1>1
    <2> QED  BY <1>1, <2>1
  <1> QED  BY <1>1, <1>2

\* The places of the records say how the three sequences join.
LEMMA RecordsJoin == JobInv /\ HiveInv => EveryFetchLoggedOnce
  <1> SUFFICES ASSUME JobInv, HiveInv, NEW w \in Workers
               PROVE  logged[w] \o InHand(w) \o queue[w] = [k \in 1..pushed[w] |-> k]
    BY DEF EveryFetchLoggedOnce
  <1> DEFINE l == logged[w]
             q == queue[w]
             p == pushed[w]
             d == Held(w)
             h == InHand(w)
  <1>1. /\ l \in Seq(Nat) /\ q \in Seq(Nat) /\ p \in Nat /\ InOrder(l, d, hand, q, p)
        /\ hand \in Nat /\ (hand # 0 <=> hpc = "print")
    BY DEF JobInv, HiveInv, RecordsInOrder
  <1>2. CASE d = 0
    <2>1. h = <<>> /\ l \o <<>> = l
      BY <1>1, <1>2, ConcatEmptySeq DEF InHand, Held
    <2> HIDE DEF l, q, p, d, h
    <2>2. /\ l \o q \in Seq(Nat) /\ Len(l) \in Nat /\ Len(q) \in Nat /\ Len(l \o q) = Len(l) + Len(q)
          /\ \A k \in 1..Len(l) : (l \o q)[k] = l[k]
          /\ \A k \in 1..Len(q) : (l \o q)[Len(l) + k] = q[k]
      BY <1>1, ConcatFact
    <2>3. Len(l \o q) = p
      BY <1>1, <1>2, <2>2 DEF InOrder
    <2>4. ASSUME NEW k \in 1..p
          PROVE  (l \o q)[k] = k
      <3>1. CASE k <= Len(l)
        BY <1>1, <2>2, <3>1 DEF InOrder
      <3>2. CASE k > Len(l)
        <4> DEFINE m == k - Len(l)
        <4>1. m \in 1..Len(q) /\ Len(l) + m = k
          BY <2>2, <2>3, <3>2
        <4>2. q[m] = Len(l) + 0 + m
          BY <1>1, <1>2, <4>1 DEF InOrder
        <4>3. (l \o q)[Len(l) + m] = q[m]
          BY <2>2, <4>1
        <4> QED  BY <2>2, <4>1, <4>2, <4>3
      <3>3. Len(l) \in Nat /\ k \in Nat
        BY <1>1, <2>2
      <3>4. k <= Len(l) \/ k > Len(l)
        BY <3>3
      <3> QED  BY <3>1, <3>2, <3>4
    <2>5. l \o q = [k \in 1..p |-> k]
      <3>1. l \o q \in [1..p -> Nat]
        BY <2>2, <2>3, LenProperties
      <3> QED  BY <2>4, <3>1
    <2> QED  BY <2>1, <2>5 DEF l, q, p, h
  <1>3. CASE d = 1
    <2>1. h = <<hand>> /\ <<hand>> \in Seq(Nat) /\ Len(<<hand>>) = 1 /\ <<hand>>[1] = hand
      BY <1>1, <1>3 DEF InHand, Held
    <2> DEFINE a == l \o h
    <2> HIDE DEF l, q, p, d, h
    <2>2. /\ a \in Seq(Nat) /\ Len(l) \in Nat /\ Len(h) = 1 /\ Len(a) = Len(l) + Len(h)
          /\ \A k \in 1..Len(l) : a[k] = l[k]
          /\ \A k \in 1..Len(h) : a[Len(l) + k] = h[k]
      BY <1>1, <2>1, ConcatFact
    <2> HIDE DEF a
    <2>3. /\ a \o q \in Seq(Nat) /\ Len(a) \in Nat /\ Len(q) \in Nat /\ Len(a \o q) = Len(a) + Len(q)
          /\ \A k \in 1..Len(a) : (a \o q)[k] = a[k]
          /\ \A k \in 1..Len(q) : (a \o q)[Len(a) + k] = q[k]
      <3>1. a \in Seq(Nat) /\ q \in Seq(Nat)
        BY <1>1, <2>2
      <3> QED  BY <3>1, ConcatFact
    <2>4. Len(a) = Len(l) + 1 /\ Len(a \o q) = p
      BY <1>1, <1>3, <2>2, <2>3 DEF InOrder
    <2>5. ASSUME NEW k \in 1..p
          PROVE  (a \o q)[k] = k
      <3>1. CASE k <= Len(l)
        <4>1. k \in 1..Len(l) /\ k \in 1..Len(a)
          BY <1>1, <2>2, <2>4, <3>1
        <4>2. l[k] = k
          BY <1>1, <4>1 DEF InOrder
        <4> QED  BY <2>2, <2>3, <4>1, <4>2
      <3>2. CASE k = Len(l) + 1
        <4>1. a[Len(l) + 1] = hand
          BY <2>1, <2>2
        <4> QED  BY <1>1, <1>3, <2>2, <2>3, <2>4, <3>2, <4>1 DEF InOrder
      <3>3. CASE k > Len(l) + 1
        <4> DEFINE m == k - Len(a)
        <4>1. m \in 1..Len(q) /\ Len(a) + m = k
          BY <2>2, <2>3, <2>4, <3>3
        <4>2. q[m] = Len(l) + 1 + m
          BY <1>1, <1>3, <4>1 DEF InOrder
        <4>3. (a \o q)[Len(a) + m] = q[m]
          BY <2>3, <4>1
        <4> QED  BY <2>2, <2>4, <4>1, <4>2, <4>3
      <3>4. Len(l) \in Nat /\ k \in Nat
        BY <1>1, <2>2
      <3>5. k <= Len(l) \/ k = Len(l) + 1 \/ k > Len(l) + 1
        BY <3>4
      <3> QED  BY <3>1, <3>2, <3>3, <3>5
    <2>6. a \o q = [k \in 1..p |-> k]
      <3>1. a \o q \in [1..p -> Nat]
        BY <2>3, <2>4, LenProperties
      <3> QED  BY <2>5, <3>1
    <2> QED  BY <2>6 DEF a, l, q, p, h
  <1> QED  BY <1>2, <1>3 DEF Held

LEMMA HiveInit0 == Init => HiveInv
  <1> SUFFICES ASSUME Init
               PROVE  HiveInv
    OBVIOUS
  <1>1. /\ hpc = "open" /\ hcurrent = 1 /\ hand = 0 /\ logged = [w \in Workers |-> <<>>]
        /\ pushed = [w \in Workers |-> 0] /\ queue = [w \in Workers |-> <<>>]
    BY DEF Init, HiveInit
  <1>2. 1 \in Workers /\ <<>> \in Seq(Nat) /\ Len(<<>>) = 0
    BY NumWorkersFact DEF Workers
  <1> QED  BY <1>1, <1>2 DEF HiveInv, RecordsInOrder, InOrder, Held

\* EveryFetchLoggedOnce, for any number of workers and requests: the Hive-log
\* thread prints every record of a worker once and in the order of the fetches,
\* except those still in its hand and in the queue.  Printed is handed to stdio:
\* a process that ends loses the lines since the last fflush.
THEOREM FetchesLoggedOnce == Spec => []EveryFetchLoggedOnce
  <1>1. JobInv /\ HiveInv /\ [Next]_vars => (JobInv /\ HiveInv)'
    BY JobStep, HiveStep
  <1> QED  BY <1>1, JobInit, HiveInit0, RecordsJoin, PTL DEF Spec

-----------------------------------------------------------------------------
(* The counters.                                                           *)

IsReport(r) ==
    /\ r = [n \in DOMAIN r |-> r[n]]
    /\ DOMAIN r \subseteq Names
    /\ \A n \in DOMAIN r : r[n] \in [Counters -> Nat]

\* The types of the maps and of what the statistics thread knows about them; it
\* has names behind it only while it is in the middle of a map.
CountInv ==
    /\ pc \in {"open", "merge", "clear", "sql", "print"} /\ current \in Workers
    /\ visited \subseteq Names
    /\ pc \notin {"merge", "clear"} => visited = {}
    /\ report = [w \in Workers |-> report[w]]
    /\ \A w \in Workers : IsReport(report[w])
    /\ IsReport(collected)
    /\ due \in [Names -> [Counters -> Nat]]

\* What m_stReport has of a counter.
Collected(n, f) == IF n \in DOMAIN collected THEN collected[n][f] ELSE 0

\* Until an increment overlaps a collection, what the iterator has passed without
\* adding it is zero: a node inserted behind it and not yet incremented.
PassedIsZero ==
    ~overlap /\ pc \in {"merge", "clear"} =>
        \A m \in DOMAIN report[current] \ visited :
            (pc = "merge" /\ m \in Ahead) \/ report[current][m] = Zero

LEMMA ZeroFact == Zero \in [Counters -> Nat] /\ \A f \in Counters : Zero[f] = 0
  BY DEF Zero

LEMMA EmptyReportFact == IsReport(EmptyReport) /\ DOMAIN EmptyReport = {}
  BY DEF IsReport, EmptyReport

LEMMA WaitingType ==
    ASSUME CountInv, NEW w \in Workers, NEW n \in Names, NEW f \in Counters
    PROVE  Waiting(w, n, f) \in Nat /\ Collected(n, f) \in Nat
  BY DEF CountInv, IsReport, Waiting, Collected

LEMMA PendingType ==
    ASSUME CountInv, NEW n \in Names, NEW f \in Counters
    PROVE  /\ Sum([w \in Workers |-> Waiting(w, n, f)]) \in Nat
           /\ Collected(n, f) \in Nat
           /\ Pending(n, f) = Collected(n, f) + Sum([w \in Workers |-> Waiting(w, n, f)])
  <1>1. [w \in Workers |-> Waiting(w, n, f)] \in [Workers -> Nat]
    BY WaitingType
  <1>2. Collected(n, f) \in Nat
    BY DEF CountInv, IsReport, Collected
  <1> QED  BY <1>1, <1>2, SumNat DEF Pending, Collected

\* A step that concerns the map of one worker only changes what is pending as much
\* as it changes what waits in that map and what is collected.
LEMMA PendingChange ==
    ASSUME CountInv, CountInv', NEW n \in Names, NEW f \in Counters, NEW w \in Workers,
           \A v \in Workers \ {w} : Waiting(v, n, f)' = Waiting(v, n, f)
    PROVE  /\ Pending(n, f)' = Pending(n, f) + (Collected(n, f)' - Collected(n, f))
                                             + (Waiting(w, n, f)' - Waiting(w, n, f))
           /\ Pending(n, f) \in Nat
           /\ Collected(n, f) \in Nat /\ Collected(n, f)' \in Nat
           /\ Waiting(w, n, f) \in Nat /\ Waiting(w, n, f)' \in Nat
  <1> DEFINE F == [v \in Workers |-> Waiting(v, n, f)]
             G == [v \in Workers |-> Waiting(v, n, f)']
  <1>1. F \in [Workers -> Nat]
    BY WaitingType
  <1>2. \A v \in Workers : Waiting(v, n, f)' \in Nat
    BY DEF CountInv, IsReport, Waiting
  <1>3. G \in [Workers -> Nat]
    BY <1>2
  <1>4. Sum(G) = Sum(F) + G[w] - F[w]
    <2>1. \A v \in Workers \ {w} : G[v] = F[v]
      OBVIOUS
    <2> HIDE DEF F, G
    <2> QED  BY <1>1, <1>3, <2>1, SumChange
  <1>5. G[w] = Waiting(w, n, f)' /\ F[w] = Waiting(w, n, f)
    OBVIOUS
  <1>6. Collected(n, f) \in Nat /\ Waiting(w, n, f) \in Nat /\ Pending(n, f) = Collected(n, f) + Sum(F)
        /\ Sum(F) \in Nat
    BY WaitingType, PendingType
  <1>7. Collected(n, f)' \in Nat
    BY DEF CountInv, IsReport, Collected
  <1>8. Pending(n, f)' = Collected(n, f)' + Sum(G)
    BY DEF Pending, Collected
  <1> HIDE DEF F, G
  <1> QED  BY <1>2, <1>4, <1>5, <1>6, <1>7, <1>8

\* The next name of the iterator.
LEMMA MinFact ==
    ASSUME CountInv, Ahead # {}
    PROVE  /\ Min(Ahead) \in Ahead /\ Min(Ahead) \in Names /\ Min(Ahead) \in DOMAIN report[current]
           /\ \A m \in Ahead : Min(Ahead) <= m
           /\ \A m \in visited : m < Min(Ahead)
           /\ Min(Ahead) \notin visited
  <1>1. Ahead \subseteq Names /\ Ahead \subseteq Nat /\ visited \subseteq Nat
    BY NamesFact DEF Ahead, CountInv, IsReport
  <1>2. PICK x \in Ahead : \A y \in Ahead : x <= y
    BY <1>1, LeastNatural
  <1>3. Min(Ahead) \in Ahead /\ \A m \in Ahead : Min(Ahead) <= m
    BY <1>2 DEF Min
  <1>4. Min(Ahead) \in DOMAIN report[current] /\ \A m \in visited : m < Min(Ahead)
    BY <1>3 DEF Ahead
  <1>5. Min(Ahead) \in Nat
    BY <1>1, <1>3
  <1> QED  BY <1>1, <1>3, <1>4, <1>5

counterVars == <<report, pc, current, visited, collected, due, overlap>>

\* The steps that have nothing to do with the counters.
LEMMA CountersLeftAlone ==
    ASSUME \/ Midnight \/ LogLine \/ HiveNext
           \/ \E w \in Workers : TakeRequest(w) \/ PushRecord(w)
           \/ ConnectFails \/ PrintFails \/ UNCHANGED vars
    PROVE  UNCHANGED counterVars
  <1> USE DEF counterVars, workerVars, countVars
  <1>1. CASE Midnight \/ LogLine \/ UNCHANGED vars
    BY <1>1 DEF Midnight, LogLine, vars
  <1>2. CASE \E w \in Workers : TakeRequest(w) \/ PushRecord(w)
    BY <1>2 DEF TakeRequest, PushRecord
  <1>3. CASE ConnectFails \/ PrintFails
    BY <1>3 DEF ConnectFails, PrintFails
  <1>4. CASE HiveNext
    BY <1>4 DEF HiveNext, HiveOpenFile, HiveOpenFileFails, HiveConnectSql, HiveConnectFails,
                TakeRecord, PrintRecord, PrintRecordFails, NextQueue
  <1> QED  BY <1>1, <1>2, <1>3, <1>4

\* What the steps that concern the counters do to them.
LEMMA FindNodeFact ==
    ASSUME JobInv, CountInv, NEW w \in Workers, FindNode(w)
    PROVE  /\ Head(job[w]).name \in Names
           /\ report' = [v \in Workers |-> report'[v]]
           /\ DOMAIN report'[w] = DOMAIN report[w] \cup {Head(job[w]).name}
           /\ report'[w] = [m \in DOMAIN report'[w] |-> report'[w][m]]
           /\ \A m \in DOMAIN report'[w] :
                 report'[w][m] = IF m \in DOMAIN report[w] THEN report[w][m] ELSE Zero
           /\ \A v \in Workers \ {w} : report'[v] = report[v]
           /\ UNCHANGED <<pc, current, visited, collected, due, overlap>>
  <1>1. Head(job[w]).name \in Names
    <2>1. job[w] \in Seq(Task) /\ job[w] # <<>>
      BY DEF JobInv, FindNode
    <2>2. Head(job[w]) \in Task
      BY <2>1, TailFact
    <2> QED  BY <2>2 DEF Task
  <1>2. report' = [report EXCEPT ![w] =
                     [m \in DOMAIN report[w] \cup {Head(job[w]).name} |->
                         IF m \in DOMAIN report[w] THEN report[w][m] ELSE Zero]]
    BY DEF FindNode
  <1>3. report = [v \in Workers |-> report[v]]
    BY DEF CountInv
  <1> QED  BY <1>1, <1>2, <1>3 DEF FindNode, countVars

LEMMA IncrementFact ==
    ASSUME JobInv, CountInv, NEW w \in Workers, Increment(w)
    PROVE  \E n0 \in Names, f0 \in Counters :
              /\ node[w] = {n0}
              /\ due' = [due EXCEPT ![n0][f0] = due[n0][f0] + 1]
              /\ report' = IF n0 \in DOMAIN report[w]
                           THEN [report EXCEPT ![w][n0][f0] = report[w][n0][f0] + 1]
                           ELSE report
              /\ overlap' = (overlap \/ Overlaps(w))
              /\ UNCHANGED <<pc, current, visited, collected>>
  <1>1. node[w] # {}
    BY DEF Increment
  <1>2. job[w] \in Seq(Task) /\ job[w] # <<>> /\ Head(job[w]).counter \in Counters
        /\ node[w] = {Head(job[w]).name}
    BY <1>1 DEF JobInv
  <1>3. Head(job[w]) \in Task
    BY <1>2, TailFact
  <1>4. Head(job[w]).name \in Names
    BY <1>3 DEF Task
  <1> DEFINE n0 == Head(job[w]).name
             f0 == Head(job[w]).counter
  <1>5. /\ due' = [due EXCEPT ![n0][f0] = due[n0][f0] + 1]
        /\ report' = IF n0 \in DOMAIN report[w]
                     THEN [report EXCEPT ![w][n0][f0] = report[w][n0][f0] + 1]
                     ELSE report
        /\ overlap' = (overlap \/ Overlaps(w))
        /\ UNCHANGED <<pc, current, visited, collected>>
    BY DEF Increment, countVars
  <1> HIDE DEF n0, f0
  <1>6. n0 \in Names /\ f0 \in Counters /\ node[w] = {n0}
    BY <1>2, <1>4 DEF n0, f0
  <1> QED  BY <1>5, <1>6

LEMMA AddReportFact ==
    ASSUME CountInv, AddReport
    PROVE  LET n0 == Min(Ahead)
           IN /\ pc = "merge" /\ Ahead # {}
              /\ collected' = [m \in DOMAIN collected \cup {n0} |->
                                 IF m = n0 THEN collected'[n0] ELSE collected[m]]
              /\ collected'[n0] \in [Counters -> Nat]
              /\ \A f \in Counters : collected'[n0][f] = Collected(n0, f) + report[current][n0][f]
              /\ visited' = visited \cup {n0}
              /\ UNCHANGED <<report, pc, current, due, overlap>>
  <1> DEFINE n0 == Min(Ahead)
             old == IF n0 \in DOMAIN collected THEN collected[n0] ELSE Zero
  <1>1. pc = "merge" /\ Ahead # {} /\ UNCHANGED <<report, pc, current, due, overlap>>
    BY DEF AddReport, workerVars
  <1>2. /\ collected' = [m \in DOMAIN collected \cup {n0} |->
                           IF m = n0 THEN Plus(old, report[current][n0]) ELSE collected[m]]
        /\ visited' = visited \cup {n0}
    BY DEF AddReport, AddNext
  <1>3. n0 \in DOMAIN report[current]
    BY <1>1, MinFact
  <1>4. old \in [Counters -> Nat] /\ report[current][n0] \in [Counters -> Nat]
    BY <1>3, ZeroFact DEF CountInv, IsReport
  <1>5. \A f \in Counters : old[f] = Collected(n0, f)
    BY ZeroFact DEF Collected
  <1> HIDE DEF n0, old
  <1>6. collected'[n0] = Plus(old, report[current][n0])
    BY <1>2
  <1>7. Plus(old, report[current][n0]) \in [Counters -> Nat]
    BY <1>4 DEF Plus
  <1>8. \A f \in Counters : Plus(old, report[current][n0])[f] = old[f] + report[current][n0][f]
    BY DEF Plus
  <1> QED  BY <1>1, <1>2, <1>5, <1>6, <1>7, <1>8 DEF n0

LEMMA ClearReportFact ==
    ASSUME CountInv, ClearReport
    PROVE  /\ pc = "clear" /\ visited' = {}
           /\ report' = [report EXCEPT ![current] = EmptyReport]
           /\ pc' \in {"sql", "merge"} /\ current' \in Workers
           /\ UNCHANGED <<collected, due, overlap>>
  <1>1. /\ pc = "clear" /\ visited' = {} /\ pc' \in {"sql", "merge"}
        /\ report' = [report EXCEPT ![current] = EmptyReport]
        /\ current' = current \/ (current # NumWorkers /\ current' = current + 1)
        /\ UNCHANGED <<collected, due, overlap>>
    BY DEF ClearReport, workerVars
  <1>2. current \in 1..NumWorkers
    BY DEF CountInv, Workers
  <1>3. current' \in Workers
    BY <1>1, <1>2, NumWorkersFact DEF Workers
  <1> QED  BY <1>1, <1>3

\* The rows printed are counts that were due.
LEMMA PrintRowsFact ==
    ASSUME CountInv, NeverOvercounted, PrintRows
    PROVE  /\ due' \in [Names -> [Counters -> Nat]]
           /\ \A n \in Names, f \in Counters : due'[n][f] = due[n][f] - Collected(n, f)
           /\ collected' = EmptyReport /\ pc = "print" /\ pc' = "open"
           /\ UNCHANGED <<report, current, visited, overlap>>
  <1>1. /\ due' = DueAfterPrint /\ collected' = EmptyReport /\ pc = "print" /\ pc' = "open"
        /\ UNCHANGED <<report, current, visited, overlap>>
    BY DEF PrintRows
  <1>2. due \in [Names -> [Counters -> Nat]]
    BY DEF CountInv
  <1>3. ASSUME NEW n \in Names, NEW f \in Counters
        PROVE  Collected(n, f) <= due[n][f] /\ Collected(n, f) \in Nat
    <2>1. Pending(n, f) <= due[n][f]
      BY DEF NeverOvercounted
    <2>2. due[n][f] \in Nat
      BY <1>2
    <2> DEFINE S == Sum([w \in Workers |-> Waiting(w, n, f)])
    <2>3. S \in Nat /\ Collected(n, f) \in Nat /\ Pending(n, f) = Collected(n, f) + S
      BY PendingType
    <2> HIDE DEF S
    <2> QED  BY <2>1, <2>2, <2>3
  <1>4. ASSUME NEW n \in Names, NEW f \in Counters
        PROVE  due'[n][f] = due[n][f] - Collected(n, f) /\ due'[n][f] \in Nat
    <2>1. due[n][f] \in Nat /\ Collected(n, f) <= due[n][f] /\ Collected(n, f) \in Nat
      BY <1>2, <1>3
    <2>2. due'[n][f] = due[n][f] - Collected(n, f)
      BY <1>1, <2>1 DEF DueAfterPrint, Collected
    <2> QED  BY <2>1, <2>2
  <1>5. \A n \in Names : due'[n] = [f \in Counters |-> due'[n][f]]
    BY <1>1, <1>2 DEF DueAfterPrint
  <1>6. due' = [n \in Names |-> due'[n]]
    BY <1>1 DEF DueAfterPrint
  <1>7. \A n \in Names : due'[n] \in [Counters -> Nat]
    BY <1>4, <1>5
  <1> QED  BY <1>1, <1>4, <1>6, <1>7

LEMMA CountStep == JobInv /\ CountInv /\ NeverOvercounted /\ [Next]_vars => CountInv'
  <1> SUFFICES ASSUME JobInv, CountInv, NeverOvercounted, [Next]_vars
               PROVE  CountInv'
    OBVIOUS
  <1>1. ASSUME NEW w \in Workers, FindNode(w)
        PROVE  CountInv'
    <2>1. Zero \in [Counters -> Nat]
      BY ZeroFact
    <2>2. /\ Head(job[w]).name \in Names
          /\ report' = [v \in Workers |-> report'[v]]
          /\ DOMAIN report'[w] = DOMAIN report[w] \cup {Head(job[w]).name}
          /\ report'[w] = [m \in DOMAIN report'[w] |-> report'[w][m]]
          /\ \A m \in DOMAIN report'[w] :
                report'[w][m] = IF m \in DOMAIN report[w] THEN report[w][m] ELSE Zero
          /\ \A v \in Workers \ {w} : report'[v] = report[v]
          /\ UNCHANGED <<pc, current, visited, collected, due, overlap>>
      BY <1>1, FindNodeFact
    <2>3. IsReport(report[w]) /\ \A v \in Workers : IsReport(report[v])
      BY DEF CountInv
    <2>4. IsReport(report'[w])
      BY <2>1, <2>2, <2>3 DEF IsReport
    <2>5. \A v \in Workers : IsReport(report'[v])
      BY <2>2, <2>3, <2>4
    <2> QED  BY <2>2, <2>5 DEF CountInv
  <1>2. ASSUME NEW w \in Workers, Increment(w)
        PROVE  CountInv'
    <2>1. PICK n0 \in Names, f0 \in Counters :
              /\ node[w] = {n0}
              /\ due' = [due EXCEPT ![n0][f0] = due[n0][f0] + 1]
              /\ report' = IF n0 \in DOMAIN report[w]
                           THEN [report EXCEPT ![w][n0][f0] = report[w][n0][f0] + 1]
                           ELSE report
              /\ overlap' = (overlap \/ Overlaps(w))
              /\ UNCHANGED <<pc, current, visited, collected>>
      BY <1>2, IncrementFact, Zenon
    <2>2. due' \in [Names -> [Counters -> Nat]]
      BY <2>1 DEF CountInv
    <2>3. report = [v \in Workers |-> report[v]] /\ \A v \in Workers : IsReport(report[v])
      BY DEF CountInv
    <2>4. CASE n0 \in DOMAIN report[w]
      <3>1. report[w][n0] \in [Counters -> Nat]
        BY <2>3, <2>4 DEF IsReport
      <3>2. [report[w] EXCEPT ![n0][f0] = report[w][n0][f0] + 1] = report'[w]
        BY <2>1, <2>3, <2>4
      <3>3. IsReport(report'[w])
        <4> DEFINE r == report[w]
                   t == report'[w]
        <4>1. IsReport(r) /\ n0 \in DOMAIN r
          BY <2>3, <2>4
        <4>2. DOMAIN t = DOMAIN r /\ t = [m \in DOMAIN t |-> t[m]]
          BY <3>2, <4>1 DEF IsReport
        <4>3. t[n0] \in [Counters -> Nat]
          <5>1. t[n0] = [r[n0] EXCEPT ![f0] = r[n0][f0] + 1]
            BY <3>2, <4>1 DEF IsReport
          <5> QED  BY <3>1, <5>1
        <4>4. \A m \in DOMAIN r \ {n0} : t[m] = r[m]
          BY <3>2, <4>1 DEF IsReport
        <4> HIDE DEF r, t
        <4>5. IsReport(t)
          BY <4>1, <4>2, <4>3, <4>4 DEF IsReport
        <4> QED  BY <4>5 DEF t
      <3>4. report' = [v \in Workers |-> report'[v]] /\ \A v \in Workers \ {w} : report'[v] = report[v]
        BY <2>1, <2>3, <2>4
      <3>5. \A v \in Workers : IsReport(report'[v])
        BY <2>3, <3>3, <3>4
      <3> QED  BY <2>1, <2>2, <3>4, <3>5 DEF CountInv
    <2>5. CASE n0 \notin DOMAIN report[w]
      BY <2>1, <2>2, <2>3, <2>5 DEF CountInv
    <2> QED  BY <2>4, <2>5
  <1>3. CASE OpenFile \/ OpenFileFails
    BY <1>3, NumWorkersFact DEF OpenFile, OpenFileFails, CountInv, IsReport, Workers, workerVars
  <1>4. CASE AddReport
    <2> DEFINE n0 == Min(Ahead)
    <2>1. n0 \in Names
      BY <1>4, AddReportFact, MinFact
    <2>2. /\ pc = "merge"
          /\ collected' = [m \in DOMAIN collected \cup {n0} |->
                             IF m = n0 THEN collected'[n0] ELSE collected[m]]
          /\ collected'[n0] \in [Counters -> Nat]
          /\ visited' = visited \cup {n0}
          /\ UNCHANGED <<report, pc, current, due, overlap>>
      BY <1>4, AddReportFact
    <2> HIDE DEF n0
    <2>3. IsReport(collected')
      BY <2>1, <2>2 DEF CountInv, IsReport
    <2> QED  BY <2>1, <2>2, <2>3 DEF CountInv, IsReport
  <1>5. CASE EndOfReport
    BY <1>5 DEF EndOfReport, CountInv, IsReport, workerVars
  <1>6. CASE ClearReport
    BY <1>6, ClearReportFact, EmptyReportFact, ZenonT(30) DEF CountInv, IsReport
  <1>7. CASE ConnectSql
    BY <1>7 DEF ConnectSql, CountInv, IsReport, workerVars
  <1>8. CASE PrintRows
    BY <1>8, PrintRowsFact, EmptyReportFact, ZenonT(30) DEF CountInv, IsReport
  <1>9. CASE UNCHANGED counterVars
    BY <1>9 DEF counterVars, CountInv, IsReport
  <1> QED  BY <1>1, <1>2, <1>3, <1>4, <1>5, <1>6, <1>7, <1>8, <1>9, CountersLeftAlone
           DEF Next, WorkerNext, CountNext

\* Overlapping increments are remembered.
LEMMA OverlapStep ==
    [Next]_vars /\ overlap \in BOOLEAN => overlap' \in BOOLEAN /\ (overlap => overlap')
  <1> SUFFICES ASSUME [Next]_vars, overlap \in BOOLEAN
               PROVE  overlap' \in BOOLEAN /\ (overlap => overlap')
    OBVIOUS
  <1>1. ASSUME NEW w \in Workers, FindNode(w)
        PROVE  UNCHANGED overlap
    BY <1>1 DEF FindNode
  <1>2. ASSUME NEW w \in Workers, Increment(w)
        PROVE  overlap' = (overlap \/ Overlaps(w))
    BY <1>2 DEF Increment
  <1>3. ASSUME OpenFile \/ OpenFileFails \/ AddReport \/ EndOfReport \/ ClearReport \/ ConnectSql \/ PrintRows
        PROVE  UNCHANGED overlap
    BY <1>3 DEF OpenFile, OpenFileFails, AddReport, EndOfReport, ClearReport, ConnectSql, PrintRows, workerVars
  <1>4. ASSUME UNCHANGED counterVars
        PROVE  UNCHANGED overlap
    BY <1>4 DEF counterVars
  <1>5. UNCHANGED overlap \/ \E w \in Workers : overlap' = (overlap \/ Overlaps(w))
    BY <1>1, <1>2, <1>3, <1>4, CountersLeftAlone DEF Next, WorkerNext, CountNext
  <1> QED  BY <1>5, Zenon

\* A step never makes what is pending grow more than what is due, and without an
\* overlap not less either.
Balanced(n, f) ==
    /\ Pending(n, f)' - Pending(n, f) <= due'[n][f] - due[n][f]
    /\ ~overlap' => Pending(n, f)' - Pending(n, f) = due'[n][f] - due[n][f]

LEMMA BalanceStep ==
    ASSUME JobInv, CountInv, CountInv', PassedIsZero, NeverOvercounted, [Next]_vars,
           overlap \in BOOLEAN, NEW n \in Names, NEW f \in Counters
    PROVE  Balanced(n, f) /\ Pending(n, f) \in Nat /\ Pending(n, f)' \in Nat
  <1>t. /\ due[n][f] \in Nat /\ due'[n][f] \in Nat
        /\ current \in Workers /\ current' \in Workers
    BY DEF CountInv
  <1>p. Pending(n, f) \in Nat /\ Pending(n, f)' \in Nat
    <2>1. Pending(n, f) \in Nat
      <3> DEFINE S == Sum([w \in Workers |-> Waiting(w, n, f)])
      <3>1. S \in Nat /\ Collected(n, f) \in Nat /\ Pending(n, f) = Collected(n, f) + S
        BY PendingType
      <3> HIDE DEF S
      <3> QED  BY <3>1
    <2>2. \A v \in Workers : Waiting(v, n, f)' \in Nat
      BY DEF CountInv, IsReport, Waiting
    <2>3. Collected(n, f)' \in Nat
      BY DEF CountInv, IsReport, Collected
    <2> DEFINE G == [v \in Workers |-> Waiting(v, n, f)']
    <2>4. Sum(G) \in Nat
      BY <2>2, SumNat
    <2>5. Pending(n, f)' = Collected(n, f)' + Sum(G)
      BY DEF Pending, Collected
    <2> HIDE DEF G
    <2> QED  BY <2>1, <2>3, <2>4, <2>5
  <1> SUFFICES Balanced(n, f)
    BY <1>p
  <1>s. ASSUME NEW w \in Workers,
               \A v \in Workers \ {w} : Waiting(v, n, f)' = Waiting(v, n, f)
        PROVE  Pending(n, f)' - Pending(n, f)
                   = (Collected(n, f)' - Collected(n, f)) + (Waiting(w, n, f)' - Waiting(w, n, f))
    <2>1. /\ Pending(n, f)' = Pending(n, f) + (Collected(n, f)' - Collected(n, f))
                                             + (Waiting(w, n, f)' - Waiting(w, n, f))
          /\ Pending(n, f) \in Nat
          /\ Collected(n, f) \in Nat /\ Collected(n, f)' \in Nat
          /\ Waiting(w, n, f) \in Nat /\ Waiting(w, n, f)' \in Nat
      BY <1>s, PendingChange
    <2> QED  BY <2>1
  <1>c. /\ Collected(n, f) \in Nat /\ Collected(n, f)' \in Nat
        /\ \A w \in Workers : Waiting(w, n, f) \in Nat /\ Waiting(w, n, f)' \in Nat
    BY DEF CountInv, IsReport, Waiting, Collected
  <1>b. ASSUME NEW d \in Int, Pending(n, f)' - Pending(n, f) = d, due'[n][f] - due[n][f] = d
        PROVE  Balanced(n, f)
    BY <1>b DEF Balanced
  <1>w. PICK c \in Workers : c = current
    BY <1>t
  \* The steps that change nothing that is waiting, collected or due.
  <1>n. ASSUME \A v \in Workers : Waiting(v, n, f)' = Waiting(v, n, f),
               Collected(n, f)' = Collected(n, f), due'[n][f] = due[n][f]
        PROVE  Balanced(n, f)
    <2>1. Pending(n, f)' - Pending(n, f)
             = (Collected(n, f)' - Collected(n, f)) + (Waiting(c, n, f)' - Waiting(c, n, f))
      BY <1>n, <1>s
    <2>2. Waiting(c, n, f)' = Waiting(c, n, f)
      BY <1>n
    <2>3. Pending(n, f)' - Pending(n, f) = 0 /\ due'[n][f] - due[n][f] = 0
      BY <1>c, <1>n, <1>t, <2>1, <2>2
    <2> QED  BY <1>b, <2>3
  <1>1. ASSUME NEW w \in Workers, FindNode(w)
        PROVE  Balanced(n, f)
    <2>1. /\ DOMAIN report'[w] = DOMAIN report[w] \cup {Head(job[w]).name}
          /\ \A m \in DOMAIN report'[w] :
                report'[w][m] = IF m \in DOMAIN report[w] THEN report[w][m] ELSE Zero
          /\ \A v \in Workers \ {w} : report'[v] = report[v]
          /\ UNCHANGED <<pc, current, visited, collected, due, overlap>>
      BY <1>1, FindNodeFact
    <2>2. \A v \in Workers : Waiting(v, n, f)' = Waiting(v, n, f)
      BY <2>1, ZeroFact DEF Waiting
    <2>3. Collected(n, f)' = Collected(n, f) /\ due'[n][f] = due[n][f]
      BY <2>1 DEF Collected
    <2> QED  BY <1>n, <2>2, <2>3
  <1>2. ASSUME NEW w \in Workers, Increment(w)
        PROVE  Balanced(n, f)
    <2>1. PICK n0 \in Names, f0 \in Counters :
              /\ node[w] = {n0}
              /\ due' = [due EXCEPT ![n0][f0] = due[n0][f0] + 1]
              /\ report' = IF n0 \in DOMAIN report[w]
                           THEN [report EXCEPT ![w][n0][f0] = report[w][n0][f0] + 1]
                           ELSE report
              /\ overlap' = (overlap \/ Overlaps(w))
              /\ UNCHANGED <<pc, current, visited, collected>>
      BY <1>2, IncrementFact
    <2>2. Collected(n, f)' = Collected(n, f)
      BY <2>1 DEF Collected
    <2>3. \A v \in Workers \ {w} : Waiting(v, n, f)' = Waiting(v, n, f)
      BY <2>1 DEF CountInv, Waiting
    <2>4. Pending(n, f)' - Pending(n, f) = Waiting(w, n, f)' - Waiting(w, n, f)
      BY <1>c, <1>s, <2>2, <2>3
    <2>5. due'[n][f] = IF n = n0 /\ f = f0 THEN due[n][f] + 1 ELSE due[n][f]
      BY <2>1 DEF CountInv
    <2>6. CASE n # n0 \/ f # f0
      <3>1. Waiting(w, n, f)' = Waiting(w, n, f)
        BY <2>1, <2>6 DEF CountInv, IsReport, Waiting
      <3> QED  BY <1>n, <2>2, <2>3, <2>5, <2>6, <3>1
    <2>7. CASE n = n0 /\ f = f0 /\ (n0 \notin DOMAIN report[w] \/ (current = w /\ n0 \in visited))
      <3>1. Waiting(w, n, f)' = 0 /\ Waiting(w, n, f) = 0
        BY <2>1, <2>7 DEF CountInv, IsReport, Waiting
      <3>2. Overlaps(w)
        BY <2>1, <2>7 DEF Overlaps, CountInv
      <3>3. overlap'
        BY <2>1, <3>2, Zenon
      <3>4. Pending(n, f)' - Pending(n, f) = 0 /\ due'[n][f] - due[n][f] = 1
        BY <1>t, <2>4, <2>5, <2>7, <3>1
      <3> QED  BY <3>3, <3>4 DEF Balanced
    <2>8. CASE n = n0 /\ f = f0 /\ n0 \in DOMAIN report[w] /\ ~(current = w /\ n0 \in visited)
      <3>1. Waiting(w, n, f) = report[w][n0][f0]
        BY <2>8 DEF Waiting
      <3>2. report = [v \in Workers |-> report[v]] /\ IsReport(report[w])
        BY DEF CountInv
      <3>3. report'[w] = [report[w] EXCEPT ![n0][f0] = report[w][n0][f0] + 1]
        BY <2>1, <2>8, <3>2
      <3>4. DOMAIN report'[w] = DOMAIN report[w] /\ report'[w][n0][f0] = report[w][n0][f0] + 1
        BY <2>8, <3>2, <3>3 DEF IsReport
      <3>5. Waiting(w, n, f)' = report[w][n0][f0] + 1
        BY <2>1, <2>8, <3>4 DEF Waiting
      <3>6. Waiting(w, n, f)' - Waiting(w, n, f) = 1
        BY <1>c, <3>1, <3>5
      <3>7. Pending(n, f)' - Pending(n, f) = 1 /\ due'[n][f] - due[n][f] = 1
        BY <1>t, <2>4, <2>5, <2>8, <3>6
      <3> QED  BY <1>b, <3>7
    <2> QED  BY <2>6, <2>7, <2>8
  <1>3. CASE OpenFile \/ OpenFileFails
    <2>1. UNCHANGED <<report, visited, collected, due, overlap>> /\ visited = {}
      BY <1>3 DEF OpenFile, OpenFileFails, workerVars, CountInv
    <2>2. \A v \in Workers : Waiting(v, n, f)' = Waiting(v, n, f)
      BY <2>1 DEF Waiting
    <2>3. Collected(n, f)' = Collected(n, f) /\ due'[n][f] = due[n][f]
      BY <2>1 DEF Collected
    <2> QED  BY <1>n, <2>2, <2>3
  <1>4. CASE AddReport
    <2> DEFINE n0 == Min(Ahead)
    <2>1. /\ collected' = [m \in DOMAIN collected \cup {n0} |->
                             IF m = n0 THEN collected'[n0] ELSE collected[m]]
          /\ \A g \in Counters : collected'[n0][g] = Collected(n0, g) + report[current][n0][g]
          /\ visited' = visited \cup {n0}
          /\ UNCHANGED <<report, pc, current, due, overlap>>
      BY <1>4, AddReportFact
    <2>2. n0 \notin visited /\ n0 \in DOMAIN report[current]
      BY <1>4, AddReportFact, MinFact
    <2> HIDE DEF n0
    <2>3. \A v \in Workers \ {c} : Waiting(v, n, f)' = Waiting(v, n, f)
      BY <1>w, <2>1 DEF Waiting
    <2>4. CASE n # n0
      <3>1. Waiting(c, n, f)' = Waiting(c, n, f)
        BY <1>w, <2>1, <2>4 DEF Waiting
      <3>2. Collected(n, f)' = Collected(n, f)
        BY <2>1, <2>4 DEF Collected
      <3>3. \A v \in Workers : Waiting(v, n, f)' = Waiting(v, n, f)
        BY <2>3, <3>1
      <3> QED  BY <1>n, <2>1, <3>2, <3>3
    <2>5. CASE n = n0
      <3>1. Waiting(c, n, f) = report[current][n0][f] /\ Waiting(c, n, f)' = 0
        BY <1>w, <2>1, <2>2, <2>5 DEF Waiting
      <3>2. Collected(n, f)' = Collected(n, f) + report[current][n0][f]
        BY <2>1, <2>5 DEF Collected
      <3>3. Pending(n, f)' - Pending(n, f)
                = (Collected(n, f)' - Collected(n, f)) + (Waiting(c, n, f)' - Waiting(c, n, f))
        BY <1>s, <2>3
      <3>4. Waiting(c, n, f) \in Nat /\ Collected(n, f) \in Nat
        BY <1>c
      <3>5. Pending(n, f)' - Pending(n, f) = 0
        BY <3>1, <3>2, <3>3, <3>4
      <3>6. due'[n][f] - due[n][f] = 0
        BY <1>t, <2>1
      <3> QED  BY <1>b, <3>5, <3>6
    <2> QED  BY <2>4, <2>5
  <1>5. CASE EndOfReport
    <2>1. UNCHANGED <<report, current, visited, collected, due>>
      BY <1>5 DEF EndOfReport, workerVars
    <2>2. Collected(n, f)' = Collected(n, f) /\ due'[n][f] = due[n][f]
      BY <2>1 DEF Collected
    <2>3. \A v \in Workers : Waiting(v, n, f)' = Waiting(v, n, f)
      BY <2>1 DEF Waiting
    <2> QED  BY <1>n, <2>2, <2>3
  <1>6. CASE ClearReport
    <2>1. /\ pc = "clear" /\ visited' = {}
          /\ report' = [report EXCEPT ![current] = EmptyReport]
          /\ UNCHANGED <<collected, due, overlap>>
      BY <1>6, ClearReportFact
    <2>2. \A v \in Workers \ {c} : Waiting(v, n, f)' = Waiting(v, n, f)
      BY <1>w, <2>1 DEF CountInv, Waiting
    <2>3. Waiting(c, n, f)' = 0
      <3>1. report'[c] = EmptyReport
        BY <1>w, <2>1 DEF CountInv
      <3> QED  BY <3>1, EmptyReportFact DEF Waiting
    <2>4. Collected(n, f)' = Collected(n, f) /\ due'[n][f] = due[n][f]
      BY <2>1 DEF Collected
    <2>5. ASSUME ~overlap
          PROVE  Waiting(c, n, f) = 0
      BY <1>w, <2>1, <2>5, ZeroFact DEF PassedIsZero, Waiting
    <2>6. Pending(n, f)' - Pending(n, f) = 0 - Waiting(c, n, f)
      <3>1. Pending(n, f)' - Pending(n, f)
                = (Collected(n, f)' - Collected(n, f)) + (Waiting(c, n, f)' - Waiting(c, n, f))
        BY <1>s, <2>2
      <3>2. Waiting(c, n, f) \in Nat /\ Collected(n, f) \in Nat
        BY <1>c
      <3> QED  BY <2>3, <2>4, <3>1, <3>2
    <2>7. due'[n][f] - due[n][f] = 0 /\ Waiting(c, n, f) \in Nat
      BY <1>c, <1>t, <2>4
    <2>8. ASSUME NEW d \in Nat, Pending(n, f)' - Pending(n, f) = 0 - d, due'[n][f] - due[n][f] = 0,
                 ~overlap' => d = 0
          PROVE  Balanced(n, f)
      BY <2>8 DEF Balanced
    <2>9. ~overlap' => Waiting(c, n, f) = 0
      BY <2>1, <2>5
    <2> QED  BY <2>6, <2>7, <2>8, <2>9
  <1>7. CASE ConnectSql
    <2>1. UNCHANGED <<report, current, visited, collected, due>>
      BY <1>7 DEF ConnectSql, workerVars
    <2>2. Collected(n, f)' = Collected(n, f) /\ due'[n][f] = due[n][f]
      BY <2>1 DEF Collected
    <2>3. \A v \in Workers : Waiting(v, n, f)' = Waiting(v, n, f)
      BY <2>1 DEF Waiting
    <2> QED  BY <1>n, <2>2, <2>3
  <1>8. CASE PrintRows
    <2>1. /\ due'[n][f] = due[n][f] - Collected(n, f)
          /\ collected' = EmptyReport
          /\ UNCHANGED <<report, current, visited, overlap>>
      BY <1>8, PrintRowsFact
    <2>2. \A v \in Workers : Waiting(v, n, f)' = Waiting(v, n, f)
      BY <2>1 DEF Waiting
    <2>3. Collected(n, f)' = 0
      BY <2>1, EmptyReportFact DEF Collected
    <2>4. Pending(n, f)' - Pending(n, f) = 0 - Collected(n, f)
      <3>1. Pending(n, f)' - Pending(n, f)
                = (Collected(n, f)' - Collected(n, f)) + (Waiting(c, n, f)' - Waiting(c, n, f))
        BY <1>s, <2>2
      <3>2. Waiting(c, n, f)' = Waiting(c, n, f) /\ Waiting(c, n, f) \in Nat /\ Collected(n, f) \in Nat
        BY <1>c, <2>2
      <3> QED  BY <2>3, <3>1, <3>2
    <2>5. due'[n][f] - due[n][f] = 0 - Collected(n, f) /\ 0 - Collected(n, f) \in Int
      BY <1>c, <1>t, <2>1
    <2> QED  BY <1>b, <2>4, <2>5
  <1>9. CASE UNCHANGED counterVars
    <2>1. UNCHANGED <<report, current, visited, collected, due>>
      BY <1>9 DEF counterVars
    <2>2. Collected(n, f)' = Collected(n, f) /\ due'[n][f] = due[n][f]
      BY <2>1 DEF Collected
    <2>3. \A v \in Workers : Waiting(v, n, f)' = Waiting(v, n, f)
      BY <2>1 DEF Waiting
    <2> QED  BY <1>n, <2>2, <2>3
  <1> HIDE <1>s, <1>n
  <1> QED  BY <1>p, <1>1, <1>2, <1>3, <1>4, <1>5, <1>6, <1>7, <1>8, <1>9, CountersLeftAlone
           DEF Next, WorkerNext, CountNext

LEMMA PassedStep ==
    ASSUME JobInv, CountInv, CountInv', PassedIsZero, NeverOvercounted, [Next]_vars, overlap \in BOOLEAN
    PROVE  PassedIsZero'
  <1>0. overlap => overlap'
    BY OverlapStep
  <1> SUFFICES ASSUME ~overlap', pc' \in {"merge", "clear"},
                      NEW m \in DOMAIN report'[current'] \ visited'
               PROVE  (pc' = "merge" /\ m \in Ahead') \/ report'[current'][m] = Zero
    BY DEF PassedIsZero
  <1>t. ~overlap /\ current \in Workers
    BY <1>0 DEF CountInv
  <1>1. ASSUME NEW w \in Workers, FindNode(w)
        PROVE  (pc' = "merge" /\ m \in Ahead') \/ report'[current'][m] = Zero
    <2>1. /\ \A k \in DOMAIN report'[w] :
                report'[w][k] = IF k \in DOMAIN report[w] THEN report[w][k] ELSE Zero
          /\ \A v \in Workers \ {w} : report'[v] = report[v]
          /\ UNCHANGED <<pc, current, visited>>
      BY <1>1, FindNodeFact
    <2>2. m \in DOMAIN report[current] => report'[current][m] = report[current][m]
      BY <1>t, <2>1
    <2>3. CASE m \in DOMAIN report[current] /\ pc = "merge" /\ m \in Ahead
      BY <2>1, <2>3 DEF Ahead
    <2>4. CASE m \in DOMAIN report[current] /\ report[current][m] = Zero
      BY <2>1, <2>2, <2>4
    <2>5. CASE m \notin DOMAIN report[current]
      BY <1>t, <2>1, <2>5
    <2>6. m \in DOMAIN report[current] =>
             (pc = "merge" /\ m \in Ahead) \/ report[current][m] = Zero
      BY <1>t, <2>1 DEF PassedIsZero
    <2> QED  BY <2>3, <2>4, <2>5, <2>6
  <1>2. ASSUME NEW w \in Workers, Increment(w)
        PROVE  (pc' = "merge" /\ m \in Ahead') \/ report'[current'][m] = Zero
    <2>1. PICK n0 \in Names, f0 \in Counters :
              /\ report' = IF n0 \in DOMAIN report[w]
                           THEN [report EXCEPT ![w][n0][f0] = report[w][n0][f0] + 1]
                           ELSE report
              /\ overlap' = (overlap \/ Overlaps(w))
              /\ UNCHANGED <<pc, current, visited, collected>>
      BY <1>2, IncrementFact
    <2>2. ~Overlaps(w)
      BY <2>1, Zenon
    <2>3. current # w
      BY <2>1, <2>2 DEF Overlaps
    <2>4. report'[current] = report[current]
      BY <1>t, <2>1, <2>3 DEF CountInv
    <2>5. Ahead' = Ahead
      BY <2>1, <2>4 DEF Ahead
    <2> QED  BY <1>t, <2>1, <2>4, <2>5 DEF PassedIsZero
  <1>3. CASE OpenFile \/ OpenFileFails
    BY <1>3 DEF OpenFile, OpenFileFails, CountInv, Ahead
  <1>4. CASE AddReport
    <2> DEFINE n0 == Min(Ahead)
    <2>1. /\ visited' = visited \cup {n0} /\ pc = "merge" /\ Ahead # {}
          /\ UNCHANGED <<report, pc, current, due, overlap>>
      BY <1>4, AddReportFact
    <2>2. /\ n0 \in Names /\ \A k \in Ahead : n0 <= k
      BY <2>1, MinFact
    <2> HIDE DEF n0
    <2>3. CASE m \in Ahead
      <3>1. m \in Nat /\ n0 \in Nat /\ m # n0 /\ n0 <= m
        BY <2>1, <2>2, <2>3, NamesFact DEF Ahead, CountInv, IsReport
      <3>2. n0 < m
        BY <3>1
      <3>3. \A k \in visited' : k < m
        BY <2>1, <2>3, <3>2 DEF Ahead
      <3> QED  BY <2>1, <3>3 DEF Ahead
    <2>4. CASE m \notin Ahead
      BY <1>t, <2>1, <2>4 DEF PassedIsZero
    <2> QED  BY <2>3, <2>4
  <1>5. CASE EndOfReport
    <2>1. Ahead = {} /\ pc = "merge" /\ UNCHANGED <<report, current, visited>>
      BY <1>5 DEF EndOfReport
    <2> QED  BY <1>t, <2>1 DEF PassedIsZero
  <1>6. CASE ClearReport
    <2>1. visited' = {} /\ pc' = "merge"
      BY <1>6, ClearReportFact
    <2> QED  BY <2>1 DEF Ahead
  <1>7. CASE ConnectSql
    BY <1>7 DEF ConnectSql
  <1>8. CASE PrintRows
    BY <1>8, PrintRowsFact
  <1>9. CASE UNCHANGED counterVars
    <2>1. UNCHANGED <<report, pc, current, visited>>
      BY <1>9 DEF counterVars
    <2>2. Ahead' = Ahead
      BY <2>1 DEF Ahead
    <2> QED  BY <1>t, <2>1, <2>2 DEF PassedIsZero
  <1> QED  BY <1>1, <1>2, <1>3, <1>4, <1>5, <1>6, <1>7, <1>8, <1>9, CountersLeftAlone
           DEF Next, WorkerNext, CountNext

\* The inductive invariant of the counters.
CounterInv ==
    /\ JobInv /\ CountInv /\ PassedIsZero /\ overlap \in BOOLEAN
    /\ NeverOvercounted /\ LossNeedsOverlap

LEMMA CounterInit == Init => CounterInv
  <1> SUFFICES ASSUME Init
               PROVE  CounterInv
    OBVIOUS
  <1>1. overlap = FALSE
    BY DEF Init
  <1>2. overlap \in BOOLEAN
    BY <1>1, Zenon
  <1>3. /\ report = [w \in Workers |-> EmptyReport] /\ pc = "open" /\ current = 1 /\ visited = {}
        /\ collected = EmptyReport /\ due = [n \in Names |-> Zero]
    BY DEF Init
  <1>4. 1 \in Workers
    BY NumWorkersFact DEF Workers
  <1>5. CountInv
    <2>1. \A w \in Workers : IsReport(report[w])
      BY <1>3, EmptyReportFact
    <2> QED  BY <1>3, <1>4, <2>1, EmptyReportFact, ZeroFact DEF CountInv
  <1>6. PassedIsZero
    BY <1>3 DEF PassedIsZero
  <1>7. ASSUME NEW n \in Names, NEW f \in Counters
        PROVE  Pending(n, f) = 0 /\ due[n][f] = 0
    <2>1. \A w \in Workers : Waiting(w, n, f) = 0
      BY <1>3, EmptyReportFact DEF Waiting
    <2>2. [w \in Workers |-> Waiting(w, n, f)] = [w \in Workers |-> 0]
      BY <2>1
    <2>3. Sum([w \in Workers |-> Waiting(w, n, f)]) = 0
      BY <2>2, SumZero
    <2>4. n \notin DOMAIN collected
      BY <1>3, EmptyReportFact
    <2>5. Pending(n, f) = 0 + 0
      BY <2>3, <2>4 DEF Pending
    <2> QED  BY <1>3, <2>5, ZeroFact
  <1>8. NeverOvercounted
    BY <1>7 DEF NeverOvercounted
  <1>9. LossNeedsOverlap
    BY <1>7 DEF LossNeedsOverlap
  <1> QED  BY <1>2, <1>5, <1>6, <1>8, <1>9, JobInit DEF CounterInv

LEMMA CounterStep == CounterInv /\ [Next]_vars => CounterInv'
  <1> SUFFICES ASSUME CounterInv, [Next]_vars
               PROVE  CounterInv'
    OBVIOUS
  <1>1. JobInv /\ CountInv /\ PassedIsZero /\ NeverOvercounted /\ LossNeedsOverlap
    BY DEF CounterInv
  <1>2. overlap \in BOOLEAN
    BY DEF CounterInv
  <1>3. JobInv' /\ CountInv'
    BY <1>1, JobStep, CountStep
  <1>4. overlap' \in BOOLEAN /\ (overlap => overlap')
    BY <1>2, OverlapStep
  <1>5. PassedIsZero'
    BY <1>1, <1>2, <1>3, PassedStep
  <1>6. ASSUME NEW n \in Names, NEW f \in Counters
        PROVE  /\ Balanced(n, f) /\ Pending(n, f) \in Nat /\ Pending(n, f)' \in Nat
               /\ due[n][f] \in Nat /\ due'[n][f] \in Nat
    <2>1. Balanced(n, f) /\ Pending(n, f) \in Nat /\ Pending(n, f)' \in Nat
      BY <1>1, <1>2, <1>3, BalanceStep
    <2>2. due[n][f] \in Nat /\ due'[n][f] \in Nat
      BY <1>1, <1>3 DEF CountInv
    <2> QED  BY <2>1, <2>2
  <1>7. NeverOvercounted'
    <2> SUFFICES ASSUME NEW n \in Names, NEW f \in Counters
                 PROVE  Pending(n, f)' <= due'[n][f]
      BY DEF NeverOvercounted
    <2>1. Pending(n, f) <= due[n][f]
      BY <1>1 DEF NeverOvercounted
    <2> QED  BY <1>6, <2>1 DEF Balanced
  <1>8. LossNeedsOverlap'
    <2> SUFFICES ASSUME ~overlap', NEW n \in Names, NEW f \in Counters
                 PROVE  Pending(n, f)' = due'[n][f]
      BY DEF LossNeedsOverlap
    <2>1. Pending(n, f) = due[n][f]
      BY <1>1, <1>4 DEF LossNeedsOverlap
    <2> QED  BY <1>6, <2>1 DEF Balanced
  <1> QED  BY <1>3, <1>4, <1>5, <1>7, <1>8 DEF CounterInv

\* NeverOvercounted, for any number of workers, users and requests: however the
\* rounds of the statistics thread interleave with the unlocked increments, no
\* increment is printed twice.
THEOREM NeverPrintedTwice == Spec => []NeverOvercounted
  <1>1. CounterInv => NeverOvercounted
    BY DEF CounterInv
  <1> QED  BY <1>1, CounterInit, CounterStep, PTL DEF Spec

\* LossNeedsOverlap, for any number of workers, users and requests: only an increment
\* that overlaps the collection of its own worker's map can be lost.
THEOREM LossOnlyByOverlap == Spec => []LossNeedsOverlap
  <1>1. CounterInv => LossNeedsOverlap
    BY DEF CounterInv
  <1> QED  BY <1>1, CounterInit, CounterStep, PTL DEF Spec

-----------------------------------------------------------------------------
(* The types.                                                              *)

LEMMA TypesFollow == DayInv /\ HiveInv /\ CounterInv => TypeOK
  <1> SUFFICES ASSUME DayInv, HiveInv, CounterInv
               PROVE  TypeOK
    OBVIOUS
  <1>1. /\ day \in 0..MaxDay /\ {dirs, early} \subseteq SUBSET (0..MaxDay)
        /\ file \in {NoFile} \cup dirs /\ hfile \in {NoFile} \cup dirs
    BY DEF DayInv
  <1>2. /\ failed \in BOOLEAN /\ crashed \in BOOLEAN /\ conn \in BOOLEAN /\ hconn \in BOOLEAN
        /\ overlap \in BOOLEAN
    BY Zenon DEF DayInv, CounterInv
  <1>3. JobInv /\ CountInv
    BY DEF CounterInv
  <1>4. /\ requests \in 0..MaxRequests /\ \A w \in Workers : node[w] \subseteq Names
        /\ pushed \in [Workers -> 0..MaxRequests]
    BY <1>3, StatisticsAssumption DEF JobInv
  <1>5. /\ \A w \in Workers : /\ DOMAIN report[w] \subseteq Names
                              /\ \A n \in DOMAIN report[w] : report[w][n] \in [Counters -> Nat]
        /\ pc \in {"open", "merge", "clear", "sql", "print"} /\ current \in Workers
        /\ visited \subseteq Names /\ DOMAIN collected \subseteq Names
        /\ \A n \in DOMAIN collected : collected[n] \in [Counters -> Nat]
        /\ due \in [Names -> [Counters -> Nat]]
    BY <1>3 DEF CountInv, IsReport
  <1>6. ASSUME NEW w \in Workers
        PROVE  /\ logged[w] \in Seq(1..MaxRequests) /\ queue[w] \in Seq(1..MaxRequests)
               /\ Held(w) = 1 => hand \in 0..MaxRequests
    <2> DEFINE l == logged[w]
               q == queue[w]
               p == pushed[w]
               d == Held(w)
    <2>1. l \in Seq(Nat) /\ q \in Seq(Nat) /\ p \in 0..MaxRequests /\ d \in {0, 1}
      BY <1>4 DEF HiveInv, Held
    <2>2. InOrder(l, d, hand, q, p)
      BY DEF HiveInv, RecordsInOrder
    <2> HIDE DEF l, q, p, d
    <2>3. Len(l) \in Nat /\ Len(q) \in Nat /\ MaxRequests \in Nat /\ p \in Nat /\ p <= MaxRequests
      BY <2>1, StatisticsAssumption
    <2>4. /\ Len(l) + d + Len(q) = p
          /\ \A k \in 1..Len(l) : l[k] = k
          /\ \A k \in 1..Len(q) : q[k] = Len(l) + d + k
          /\ d = 1 => hand = Len(l) + 1
      BY <2>2 DEF InOrder
    <2>5. \A k \in 1..Len(l) : l[k] \in 1..MaxRequests
      BY <2>1, <2>3, <2>4
    <2>6. \A k \in 1..Len(q) : q[k] \in 1..MaxRequests
      BY <2>1, <2>3, <2>4
    <2>7. d = 1 => hand \in 0..MaxRequests
      BY <2>1, <2>3, <2>4
    <2>8. l \in Seq(1..MaxRequests) /\ q \in Seq(1..MaxRequests)
      <3>1. l \in [1..Len(l) -> 1..MaxRequests] /\ q \in [1..Len(q) -> 1..MaxRequests]
        BY <2>1, <2>5, <2>6, LenProperties
      <3> QED  BY <2>3, <3>1, SeqDef
    <2> QED  BY <2>7, <2>8 DEF l, q, d
  <1>7. hpc \in {"open", "sql", "drain", "print"} /\ hcurrent \in Workers /\ (hand # 0 <=> hpc = "print")
    BY DEF HiveInv
  <1>8. hand \in 0..MaxRequests
    BY <1>6, <1>7, StatisticsAssumption DEF Held
  <1> QED  BY <1>1, <1>2, <1>4, <1>5, <1>6, <1>7, <1>8 DEF TypeOK

\* TypeOK, for any number of workers, users, requests and days: the counts still due
\* never fall below zero, and both collections stay inside their vectors.
THEOREM TypesCorrect == Spec => []TypeOK
  <1>1. DayInv /\ HiveInv /\ CounterInv /\ [Next]_vars => (DayInv /\ HiveInv /\ CounterInv)'
    <2>1. CounterInv => JobInv
      BY DEF CounterInv
    <2> QED  BY <2>1, DayStep, HiveStep, CounterStep
  <1> QED  BY <1>1, DayInit, HiveInit0, CounterInit, TypesFollow, PTL DEF Spec

=============================================================================
