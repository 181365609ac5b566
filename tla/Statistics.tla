------------------------------ MODULE Statistics ------------------------------
(***************************************************************************)
(* The request statistics and the Hive log.  Every worker thread counts    *)
(* its requests in m_vecReport[w], a map from names to counters, and puts a*)
(* record of every fetch into the queue m_vecHiveLog[w].  The statistics   *)
(* thread (CUserQueryCount) adds up and empties the maps in every round and*)
(* prints the sums; the Hive-log thread (CUserQueryHiveLog) empties the    *)
(* queues and prints the records.  Each has a file in a directory named    *)
(* after the day, and a MySQL table.  Nothing of this is locked.  The      *)
(* directory is made by the constructors, for their day; on later days by  *)
(* the first line of the log (LogFile) where it uses the same path.  Any   *)
(* mkdir or fopen may fail.                                                *)
(*                                                                         *)
(* The workers and the statistics thread interleave between the search of  *)
(* a map node and the increment stored in it, between two names of one     *)
(* collection, and between the collection and the clear().  A store into a *)
(* node that clear() has freed is a lost increment; what else such a store,*)
(* or a rebalancing of the tree under the iterator, may do to the heap is  *)
(* left out, and so are the races inside std::queue, whose push and pop are*)
(* single steps.  So are the INSERTs: they repeat the printed lines, and their *)
(* results are ignored.                                                    *)
(***************************************************************************)
EXTENDS Integers, Sequences, FiniteSetsExt

CONSTANTS
    NumWorkers,   \* number of worker threads
    Users,        \* the access key ids of the clients, numbers
    MaxRequests,  \* bound: requests served by all workers together
    MaxDay,       \* bound: the last day of the model's calendar
    LogSharesDirs \* whether the log, with lines of rank DEBUG, has the same PATH,
                  \* as in config/userQuery.conf

ASSUME StatisticsAssumption ==
    /\ NumWorkers \in Nat \ {0}
    /\ {MaxRequests, MaxDay} \subseteq Nat
    /\ Users \subseteq Nat
    /\ LogSharesDirs \in BOOLEAN

Workers == 1..NumWorkers

\* The names counted: the user (ssUserName) and, with the user's name as its
\* prefix, the user's use of a remote action (ssOperatorName).  Numbers in the
\* order in which std::map visits them.
UserName(u) == 2 * u
OperatorName(u) == 2 * u + 1
Names == {UserName(u) : u \in Users} \cup {OperatorName(u) : u \in Users}

\* The counters of USERINFO_S that the workers increment and operator+= adds.
Counters == {"ReqNum", "ResNum", "EmptyResNum"}
Zero == [f \in Counters |-> 0]
\* Faulty variant: an operator+= that forgets a counter.
PlusNoEmpty(a, b) ==
    [f \in Counters |-> IF f = "EmptyResNum" THEN a[f] ELSE a[f] + b[f]]
Plus(a, b) == [f \in Counters |-> a[f] + b[f]]
EmptyReport == [n \in {} |-> Zero]

NoFile == -1

VARIABLES
    day,       \* the date, in days since the process was started
    dirs,      \* the days whose directory exists
    crashed,   \* the process has ended
    requests,  \* requests taken up so far
    job,       \* job[w]: what worker w still has to count
    node,      \* node[w]: the name whose map node worker w has searched
    report,    \* m_vecReport[w]: the counters of the names in the map
    pc,        \* where the statistics thread is
    current,   \* the worker whose map is being collected
    file,      \* m_pFile: the day whose file is open, or NoFile
    conn,      \* whether a MySQL connection was ever made
    visited,   \* the names of the current map already added
    collected, \* m_stReport
    early,     \* history: days on which a thread opened its file before the directory was made
    failed,    \* history: a mkdir or an fopen has failed
    due,       \* due[n]: increments made and not yet printed
    overlap,   \* an increment has overlapped a collection of its own map
    pushed,    \* pushed[w]: the number of records worker w has made
    queue,     \* m_vecHiveLog[w]: the records waiting, by their numbers
    hpc,       \* where the Hive-log thread is
    hcurrent,  \* the worker whose queue is being emptied
    hfile,     \* its m_pFile
    hconn,     \* whether its MySQL connection was ever made
    hand,      \* m_stHiveLog: the number of the record taken last
    logged     \* logged[w]: the numbers of w's records printed, in their order; those of
               \* the round under way may still be in the buffer of stdio

dayVars == <<day, dirs, early, failed>>
workerVars == <<requests, job, node, due, overlap>>
countVars == <<pc, current, file, conn, visited, collected>>
hiveVars == <<hpc, hcurrent, hfile, hconn, hand, logged>>
queueVars == <<pushed, queue>>
vars == <<dayVars, crashed, report, workerVars, countVars, queueVars, hiveVars>>

\* The directories after a log line.
WithLogLine == IF LogSharesDirs THEN dirs \cup {day} ELSE dirs

HiveInit ==
    /\ hpc = "open" /\ hcurrent = 1
    /\ hfile \in {NoFile} \cup dirs /\ hconn \in BOOLEAN
    /\ hand = 0
    /\ logged = [w \in Workers |-> <<>>]

\* The threads are created after the workers and before the server accepts its
\* first connection; their constructors make the directory, open the files and
\* try MySQL once, whatever comes of it.
Init ==
    /\ day = 0 /\ dirs \in {{0}, {}} /\ early = {} /\ crashed = FALSE /\ requests = 0
    /\ job = [w \in Workers |-> <<>>]
    /\ node = [w \in Workers |-> {}]
    /\ report = [w \in Workers |-> EmptyReport]
    /\ pc = "open" /\ current = 1
    /\ file \in {NoFile} \cup dirs /\ conn \in BOOLEAN
    /\ visited = {} /\ collected = EmptyReport
    /\ due = [n \in Names |-> Zero]
    /\ overlap = FALSE
    /\ pushed = [w \in Workers |-> 0]
    /\ queue = [w \in Workers |-> <<>>]
    /\ HiveInit
    /\ failed = (NoFile \in {file, hfile})

\* The environment: the day changes.
Midnight ==
    /\ day < MaxDay
    /\ day' = day + 1
    /\ UNCHANGED <<dirs, early, failed, crashed, report, workerVars, countVars, queueVars, hiveVars>>

\* The first line any thread writes to the log on a new day.
LogLine ==
    /\ LogSharesDirs
    /\ day \notin dirs
    /\ dirs' = WithLogLine
    /\ UNCHANGED <<day, early, failed, crashed, report, workerVars, countVars, queueVars, hiveVars>>

-----------------------------------------------------------------------------
(* A worker thread.                                                        *)

\* What one request of user u counts and records, in order: refused before the remote
\* fetch; fetch failed; answered; answered, but the answer could not be sent.
Requests(u) ==
    LET Count(n, f) == [name |-> n, counter |-> f]
        user(f) == Count(UserName(u), f)
        oper(f) == Count(OperatorName(u), f)
    IN {<<user("ReqNum")>>,
        <<user("ReqNum"), oper("ReqNum"), oper("HiveLog"), oper("EmptyResNum"), user("EmptyResNum")>>,
        <<user("ReqNum"), oper("ReqNum"), oper("HiveLog"), oper("ResNum"), user("ResNum")>>,
        <<user("ReqNum"), oper("ReqNum"), oper("HiveLog"), oper("ResNum"), user("ResNum"),
          user("EmptyResNum")>>}

TakeRequest(w) ==
    /\ job[w] = <<>>
    /\ requests < MaxRequests
    /\ requests' = requests + 1
    /\ \E u \in Users : \E r \in Requests(u) : job' = [job EXCEPT ![w] = r]
    /\ UNCHANGED <<dayVars, crashed, report, node, due, overlap, countVars, queueVars, hiveVars>>

\* m_strUserInfo[name]: finds the node of the name or inserts one.
FindNode(w) ==
    /\ job[w] # <<>>
    /\ node[w] = {}
    /\ Head(job[w]).counter \in Counters
    /\ LET n == Head(job[w]).name
       IN /\ node' = [node EXCEPT ![w] = {n}]
          /\ report' = [report EXCEPT ![w] =
                [m \in DOMAIN @ \cup {n} |-> IF m \in DOMAIN @ THEN @[m] ELSE Zero]]
    /\ UNCHANGED <<dayVars, crashed, requests, job, due, overlap, countVars, queueVars, hiveVars>>

\* The statistics thread is between the begin() and the clear() of w's map,
\* or has cleared it since w searched the node.
Overlaps(w) ==
    \/ current = w /\ pc \in {"merge", "clear"}
    \/ ~(node[w] \subseteq DOMAIN report[w])

\* ...m_ullReqNum++ in the node found, which may have been freed since.
Increment(w) ==
    /\ node[w] # {}
    /\ LET n == Head(job[w]).name
           f == Head(job[w]).counter
       IN /\ report' = IF n \in DOMAIN report[w]
                       THEN [report EXCEPT ![w][n][f] = @ + 1] ELSE report
          /\ due' = [due EXCEPT ![n][f] = @ + 1]
    /\ overlap' = (overlap \/ Overlaps(w))
    /\ node' = [node EXCEPT ![w] = {}]
    /\ job' = [job EXCEPT ![w] = Tail(@)]
    /\ UNCHANGED <<dayVars, crashed, requests, countVars, queueVars, hiveVars>>

\* m_vecHiveLog[m_uiThreadId].push(stHiveLog), whatever came of the fetch.
PushRecord(w) ==
    /\ job[w] # <<>>
    /\ Head(job[w]).counter = "HiveLog"
    /\ pushed' = [pushed EXCEPT ![w] = @ + 1]
    /\ queue' = [queue EXCEPT ![w] = Append(@, pushed[w] + 1)]
    /\ job' = [job EXCEPT ![w] = Tail(@)]
    /\ UNCHANGED <<dayVars, crashed, report, requests, node, due, overlap, countVars, hiveVars>>

WorkerNext(w) == TakeRequest(w) \/ FindNode(w) \/ Increment(w) \/ PushRecord(w)

-----------------------------------------------------------------------------
(* The statistics thread, CUserQueryCount::Core.                           *)

NoteEarly == early' = early \cup ({day} \ dirs)

\* Faulty variant: closes the file in every round, opens one only under a new name.
OpenFileCloses ==
    /\ pc = "open"
    /\ file' = IF day \in dirs /\ day # file THEN day ELSE NoFile
    /\ NoteEarly
    /\ current' = 1
    /\ pc' = "merge"
    /\ UNCHANGED <<day, dirs, failed, crashed, report, workerVars, conn, visited, collected, queueVars, hiveVars>>

\* BdxQueryCountOpenFile: a file that does not exist under its new name is
\* created; where the directory is missing fopen returns NULL, after the old
\* file has been closed ...
OpenFile ==
    /\ pc = "open"
    /\ file' = IF day \in dirs THEN day ELSE NoFile
    /\ NoteEarly
    /\ current' = 1
    /\ pc' = "merge"
    /\ UNCHANGED <<day, dirs, failed, crashed, report, workerVars, conn, visited, collected, queueVars, hiveVars>>

\* ... and so it does when fopen fails for any other reason, such as a lack of
\* descriptors.  A file open under the day's name is left alone.
OpenFileFails ==
    /\ pc = "open"
    /\ day \in dirs /\ file # day
    /\ file' = NoFile
    /\ failed' = TRUE
    /\ current' = 1
    /\ pc' = "merge"
    /\ UNCHANGED <<day, dirs, early, crashed, report, workerVars, conn, visited, collected, queueVars, hiveVars>>

\* The names the iterator of operator+= can still come to.
Ahead == {n \in DOMAIN report[current] : \A m \in visited : m < n}

\* One round of the loop of operator+=: adds the counters of the next name.
AddNext ==
    LET n == Min(Ahead)
        old == IF n \in DOMAIN collected THEN collected[n] ELSE Zero
    IN /\ collected' = [m \in DOMAIN collected \cup {n} |->
                          IF m = n THEN Plus(old, report[current][n]) ELSE collected[m]]
       /\ visited' = visited \cup {n}

AddReport ==
    /\ pc = "merge"
    /\ Ahead # {}
    /\ AddNext
    /\ UNCHANGED <<dayVars, crashed, report, workerVars, pc, current, file, conn, queueVars, hiveVars>>

EndOfReport ==
    /\ pc = "merge"
    /\ Ahead = {}
    /\ pc' = "clear"
    /\ UNCHANGED <<dayVars, crashed, report, workerVars, current, file, conn, visited, collected, queueVars, hiveVars>>

\* Faulty variant: the next worker without the clear().
ClearReportSkipped ==
    /\ pc = "clear"
    /\ visited' = {}
    /\ IF current = NumWorkers
       THEN pc' = "sql" /\ UNCHANGED current
       ELSE pc' = "merge" /\ current' = current + 1
    /\ UNCHANGED <<dayVars, crashed, report, workerVars, file, conn, collected, queueVars, hiveVars>>

\* m_vecReport[i] = 0, which is clear(); then on to the next worker.
ClearReport ==
    /\ pc = "clear"
    /\ report' = [report EXCEPT ![current] = EmptyReport]
    /\ visited' = {}
    /\ IF current = NumWorkers
       THEN pc' = "sql" /\ UNCHANGED current
       ELSE pc' = "merge" /\ current' = current + 1
    /\ UNCHANGED <<dayVars, crashed, workerVars, file, conn, collected, queueVars, hiveVars>>

\* InitMysql is tried until it has succeeded once; bInitFlag is never cleared.
\* A failed mysql_real_connect leaves pmysqlConn null, and the CREATE TABLE is
\* executed on it all the same.
ConnectSql ==
    /\ pc = "sql"
    /\ conn' = TRUE
    /\ pc' = "print"
    /\ UNCHANGED <<dayVars, crashed, report, workerVars, current, file, visited, collected, queueVars, hiveVars>>

ConnectFails ==
    /\ pc = "sql"
    /\ ~conn
    /\ crashed' = TRUE
    /\ UNCHANGED <<dayVars, report, workerVars, countVars, queueVars, hiveVars>>

\* What remains due once the rows of m_stReport are printed.
DueAfterPrint ==
    [n \in Names |-> IF n \in DOMAIN collected
                     THEN [f \in Counters |-> due[n][f] - collected[n][f]]
                     ELSE due[n]]

\* Faulty variant: m_stReport keeps its rows for the next round.
PrintRowsKept ==
    /\ pc = "print"
    /\ file # NoFile \/ collected = EmptyReport
    /\ due' = DueAfterPrint
    /\ pc' = "open"
    /\ UNCHANGED <<dayVars, crashed, report, requests, job, node, overlap,
                   current, file, conn, visited, collected, queueVars, hiveVars>>

\* The loop that prints one row per name, then m_stReport = 0 and sleep.
PrintRows ==
    /\ pc = "print"
    /\ file # NoFile \/ collected = EmptyReport
    /\ due' = DueAfterPrint
    /\ collected' = EmptyReport
    /\ pc' = "open"
    /\ UNCHANGED <<dayVars, crashed, report, requests, job, node, overlap,
                   current, file, conn, visited, queueVars, hiveVars>>

\* fprintf to a null m_pFile ends the process.
PrintFails ==
    /\ pc = "print"
    /\ file = NoFile /\ collected # EmptyReport
    /\ crashed' = TRUE
    /\ UNCHANGED <<dayVars, report, workerVars, countVars, queueVars, hiveVars>>

CountNext ==
    \/ OpenFile \/ OpenFileFails \/ AddReport \/ EndOfReport \/ ClearReport
    \/ ConnectSql \/ ConnectFails \/ PrintRows \/ PrintFails

-----------------------------------------------------------------------------
(* The Hive-log thread, CUserQueryHiveLog::Core.                           *)

\* BdxQueryHiveLogOpenFile: every hour a file of its own, and a new day is a
\* new hour, too.
HiveOpenFile ==
    /\ hpc = "open"
    /\ hfile' = IF day \in dirs THEN day ELSE NoFile
    /\ NoteEarly
    /\ hpc' = "sql"
    /\ UNCHANGED <<day, dirs, failed, crashed, report, workerVars, countVars, queueVars,
                   hcurrent, hconn, hand, logged>>

\* The same, at the change of an hour: fopen fails with the directory there.
HiveOpenFileFails ==
    /\ hpc = "open"
    /\ day \in dirs
    /\ hfile' = NoFile
    /\ failed' = TRUE
    /\ hpc' = "sql"
    /\ UNCHANGED <<day, dirs, early, crashed, report, workerVars, countVars, queueVars,
                   hcurrent, hconn, hand, logged>>

\* The same as ConnectSql and ConnectFails, on a connection of its own; then
\* LOG(DEBUG, "create table ...").
HiveConnectSql ==
    /\ hpc = "sql"
    /\ hconn' = TRUE
    /\ dirs' = WithLogLine
    /\ hcurrent' = 1
    /\ hpc' = "drain"
    /\ UNCHANGED <<day, early, failed, crashed, report, workerVars, countVars, queueVars, hfile, hand, logged>>

HiveConnectFails ==
    /\ hpc = "sql"
    /\ ~hconn
    /\ crashed' = TRUE
    /\ UNCHANGED <<dayVars, report, workerVars, countVars, queueVars, hiveVars>>

\* Faulty variant: the record stays in the queue.
TakeRecordNoPop ==
    /\ hpc = "drain"
    /\ queue[hcurrent] # <<>>
    /\ hand' = Head(queue[hcurrent])
    /\ hpc' = "print"
    /\ UNCHANGED <<dayVars, crashed, report, workerVars, countVars, queueVars,
                   hcurrent, hfile, hconn, logged>>

\* front() and pop().
TakeRecord ==
    /\ hpc = "drain"
    /\ queue[hcurrent] # <<>>
    /\ hand' = Head(queue[hcurrent])
    /\ queue' = [queue EXCEPT ![hcurrent] = Tail(@)]
    /\ hpc' = "print"
    /\ UNCHANGED <<dayVars, crashed, report, workerVars, countVars, pushed,
                   hcurrent, hfile, hconn, logged>>

\* fprintf: the line is with stdio.
PrintRecord ==
    /\ hpc = "print"
    /\ hfile # NoFile
    /\ logged' = [logged EXCEPT ![hcurrent] = Append(@, hand)]
    /\ hand' = 0
    /\ hpc' = "drain"
    /\ UNCHANGED <<dayVars, crashed, report, workerVars, countVars, queueVars,
                   hcurrent, hfile, hconn>>

PrintRecordFails ==
    /\ hpc = "print"
    /\ hfile = NoFile
    /\ crashed' = TRUE
    /\ UNCHANGED <<dayVars, report, workerVars, countVars, queueVars, hiveVars>>

\* empty(): on to the next worker; after the last one fflush and sleep.
NextQueue ==
    /\ hpc = "drain"
    /\ queue[hcurrent] = <<>>
    /\ IF hcurrent = NumWorkers
       THEN hpc' = "open" /\ hcurrent' = 1
       ELSE hcurrent' = hcurrent + 1 /\ UNCHANGED hpc
    /\ UNCHANGED <<dayVars, crashed, report, workerVars, countVars, queueVars,
                   hfile, hconn, hand, logged>>

HiveNext ==
    \/ HiveOpenFile \/ HiveOpenFileFails \/ HiveConnectSql \/ HiveConnectFails
    \/ TakeRecord \/ PrintRecord \/ PrintRecordFails \/ NextQueue

-----------------------------------------------------------------------------
Next ==
    /\ ~crashed
    /\ Midnight \/ LogLine \/ (\E w \in Workers : WorkerNext(w)) \/ CountNext \/ HiveNext

Spec == Init /\ [][Next]_vars

-----------------------------------------------------------------------------
(* Properties.                                                             *)

\* Every variable has its type: what is printed never exceeds what was counted
\* (the counts still due stay natural numbers), and the collection stays inside
\* the vector of maps.
TypeOK ==
    /\ day \in 0..MaxDay /\ {dirs, early} \subseteq SUBSET (0..MaxDay)
    /\ failed \in BOOLEAN /\ crashed \in BOOLEAN /\ requests \in 0..MaxRequests
    /\ \A w \in Workers : /\ node[w] \subseteq Names
                          /\ DOMAIN report[w] \subseteq Names
                          /\ \A n \in DOMAIN report[w] : report[w][n] \in [Counters -> Nat]
    /\ pc \in {"open", "merge", "clear", "sql", "print"}
    /\ current \in Workers
    /\ file \in {NoFile} \cup dirs /\ conn \in BOOLEAN
    /\ visited \subseteq Names /\ DOMAIN collected \subseteq Names
    /\ \A n \in DOMAIN collected : collected[n] \in [Counters -> Nat]
    /\ due \in [Names -> [Counters -> Nat]]
    /\ overlap \in BOOLEAN
    /\ pushed \in [Workers -> 0..MaxRequests]
    /\ \A w \in Workers : {queue[w], logged[w]} \subseteq Seq(1..MaxRequests)
    /\ hpc \in {"open", "sql", "drain", "print"} /\ hcurrent \in Workers
    /\ hfile \in {NoFile} \cup dirs /\ hconn \in BOOLEAN
    /\ hand \in 0..MaxRequests

\* What worker w has counted under name n and the statistics thread has yet to
\* add: nothing for a name already visited in the collection under way.
Waiting(w, n, f) ==
    IF n \notin DOMAIN report[w] \/ (current = w /\ n \in visited)
    THEN 0 ELSE report[w][n][f]

\* The sum of F over the workers.
Sum(F) ==
    LET upTo[i \in 0..NumWorkers] == IF i = 0 THEN 0 ELSE upTo[i - 1] + F[i]
    IN upTo[NumWorkers]

\* What will still be printed for counter f of name n.
Pending(n, f) ==
    (IF n \in DOMAIN collected THEN collected[n][f] ELSE 0)
    + Sum([w \in Workers |-> Waiting(w, n, f)])

\* However the rounds interleave with the workers, no increment is printed
\* twice: what waits in the maps and in m_stReport is at most what is due
\* (BdxQueryCountGetReport adds a map and only then clears it).
NeverOvercounted ==
    \A n \in Names, f \in Counters : Pending(n, f) <= due[n][f]

\* An increment is lost only if some increment overlapped the collection of
\* its own worker's map; workers that count between two rounds, or while
\* another worker's map is collected, lose nothing.
LossNeedsOverlap ==
    ~overlap => \A n \in Names, f \in Counters : Pending(n, f) = due[n][f]

\* As long as mkdir and fopen work, the two threads can end the process in two
\* ways only: MySQL could not be reached when a thread began its first round, or
\* a thread began a round after midnight before the first line of the log made
\* the directory of the day.  In particular a file that was opened is never
\* given up for nothing, and a MySQL server that goes away later does no harm.
CrashExplained == crashed /\ ~failed => ~conn \/ ~hconn \/ early # {}

\* The record in the Hive-log thread's hand, if it is one of worker w.
InHand(w) == IF hand # 0 /\ hcurrent = w THEN <<hand>> ELSE <<>>

\* At every moment the lines printed, the record in m_stHiveLog and the queue
\* hold the records of a worker once each, in the order in which they were
\* made.  (What a process that ends leaves in the file is less: the lines since
\* the last fflush, the record in hand and the queue are gone.)
EveryFetchLoggedOnce ==
    \A w \in Workers : logged[w] \o InHand(w) \o queue[w] = [k \in 1..pushed[w] |-> k]

=============================================================================
