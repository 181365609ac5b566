------------------------------ MODULE Dispatch ------------------------------
(***************************************************************************)
(* The request dispatcher of the gateway: the epoll thread                 *)
(* (CUserQueryServer::Core), the pool of worker threads                    *)
(* (CUserQueryWorkThreads::Core) and the client connections between them.  *)
(*                                                                         *)
(* The server thread owns the epoll set and the map from descriptors to    *)
(* CTaskMain objects.  A readable connection is taken out of the epoll     *)
(* set and its task is pushed on the queue of the first worker whose mutex *)
(* can be had without waiting; a worker runs the task with its own mutex   *)
(* held, and hands the descriptor back through its status queue.  Nothing  *)
(* but this protocol keeps the two threads off each other's objects.       *)
(*                                                                         *)
(* The status queues (m_vecTaskStauts) are shared without a lock: one      *)
(* thread pushes and one pops.  A push and a pop are each one step here:   *)
(* in libstdc++ at -O0 they touch different ends of the deque, except when *)
(* 64 or more answers of one worker wait at once, which is not modelled.   *)
(***************************************************************************)
EXTENDS Integers, Sequences, FiniteSets

CONSTANTS
    NumWorkers,   \* m_uiWorkThreadNum, [WORKTHREADS] NUM of the configuration
    Fds,          \* descriptor numbers accept() may return
    Tasks,        \* addresses operator new may return for a CTaskMain
    EVENT,        \* the most events one epoll_wait returns
    MaxBacklog,   \* bound on connections waiting to be accepted
    Listen,       \* the listening descriptor
    NoFd,         \* the descriptor of an object that does not exist
    NoTask        \* a null CUserQueryTask*

Workers == 0..(NumWorkers - 1)

ASSUME DispatchAssumption ==
    /\ NumWorkers \in Nat \ {0}
    /\ EVENT \in Nat \ {0}
    /\ MaxBacklog \in Nat
    /\ Listen \notin Fds
    /\ NoFd \notin Fds
    /\ NoTask \notin Tasks

VARIABLES
    client,             \* what the peer of a descriptor has done ("none": not open)
    inbox,              \* bytes wait in the receive buffer of the descriptor
    backlog,            \* connections waiting in the listen queue
    epoll,              \* descriptors registered with the epoll instance
    m_mpSocketTask,     \* descriptor -> its task
    sock,               \* task -> descriptor of its m_pclSock, NoFd once deleted
    m_clLock,           \* holder of each worker's mutex
    m_queUserQueryTask, \* each worker's task queue
    m_vecTaskStauts,    \* each worker's queue of finished descriptors
    spc,                \* where the server thread is
    i,                  \* loop index of BdxServerGetFreeTask and BdxServerPutTask,
                        \* 0 outside of the two loops
    batch,              \* events of the current epoll_wait not handled yet
    iSockfd,            \* descriptor BdxServerReadEvent works on
    wpc,                \* where each worker thread is
    pclTask,            \* the task each worker runs
    iRes                \* whether the task each worker runs returned SUCCESS

netVars == <<client, inbox, backlog>>
taskVars == <<m_mpSocketTask, sock>>
serverVars == <<spc, i, batch, iSockfd>>
workerVars == <<wpc, pclTask, iRes>>
shared == <<m_clLock, m_queUserQueryTask, m_vecTaskStauts>>
vars == <<netVars, epoll, taskVars, shared, serverVars, workerVars>>

TaskStatus == [m_iSockFd : Fds, m_bStatus : BOOLEAN]
PeerStates == {"none", "open", "half", "gone", "reset"}
ServerStates == {"free", "events", "put", "notify"}
WorkerStates == {"lock", "check", "wait", "read", "serve", "reply",
                 "report", "unlock", "hung"}

\* Every variable has its type: descriptors and tasks in the queues exist, and
\* the loop indices of the server thread stay within the workers.
TypeOK ==
    /\ client \in [Fds -> PeerStates]
    /\ inbox \in [Fds -> BOOLEAN]
    /\ backlog \in 0..MaxBacklog
    /\ epoll \in SUBSET Fds
    /\ m_mpSocketTask \in [Fds -> Tasks \cup {NoTask}]
    /\ sock \in [Tasks -> Fds \cup {NoFd}]
    /\ m_clLock \in [Workers -> {"nobody", "server", "worker"}]
    /\ m_queUserQueryTask \in [Workers -> Seq(Tasks)]
    /\ m_vecTaskStauts \in [Workers -> Seq(TaskStatus)]
    /\ spc \in ServerStates
    /\ i \in 0..NumWorkers
    /\ batch \in SUBSET (Fds \cup {Listen})
    /\ iSockfd \in Fds \cup {NoFd}
    /\ wpc \in [Workers -> WorkerStates]
    /\ pclTask \in [Workers -> Tasks \cup {NoTask}]
    /\ iRes \in [Workers -> BOOLEAN]

\* BdxInitServer: the listening socket is in the epoll set from the start.
InitServer ==
    /\ epoll = {}
    /\ m_mpSocketTask = [fd \in Fds |-> NoTask]
    /\ sock = [t \in Tasks |-> NoFd]
    /\ spc = "free"
    /\ i = 0
    /\ batch = {}
    /\ iSockfd = NoFd

Init ==
    /\ client = [fd \in Fds |-> "none"]
    /\ inbox = [fd \in Fds |-> FALSE]
    /\ backlog = 0
    /\ InitServer
    /\ m_clLock = [w \in Workers |-> "nobody"]
    /\ m_queUserQueryTask = [w \in Workers |-> <<>>]
    /\ m_vecTaskStauts = [w \in Workers |-> <<>>]
    /\ wpc = [w \in Workers |-> "lock"]
    /\ pclTask = [w \in Workers |-> NoTask]
    /\ iRes = [w \in Workers |-> FALSE]

-----------------------------------------------------------------------------
(***************************************************************************)
(* Clients and the kernel.  "half": the peer has shut down its sending     *)
(* side; "gone": it has closed the connection; "reset": it has answered    *)
(* with a reset, and every further send fails.                             *)
(***************************************************************************)
Connect ==
    /\ backlog < MaxBacklog
    /\ backlog' = backlog + 1
    /\ UNCHANGED <<client, inbox, epoll, taskVars, shared, serverVars, workerVars>>

Send(fd) ==
    /\ client[fd] = "open"
    /\ ~inbox[fd]
    /\ inbox' = [inbox EXCEPT ![fd] = TRUE]
    /\ UNCHANGED <<client, backlog, epoll, taskVars, shared, serverVars, workerVars>>

Disconnect(fd) ==
    /\ \/ client[fd] = "open" /\ client' = [client EXCEPT ![fd] = "half"]
       \/ client[fd] \in {"open", "half"} /\ client' = [client EXCEPT ![fd] = "gone"]
    /\ UNCHANGED <<inbox, backlog, epoll, taskVars, shared, serverVars, workerVars>>

Reset(fd) ==
    /\ client[fd] \in {"open", "half", "gone"}
    /\ client' = [client EXCEPT ![fd] = "reset"]
    /\ inbox' = [inbox EXCEPT ![fd] = FALSE]
    /\ UNCHANGED <<backlog, epoll, taskVars, shared, serverVars, workerVars>>

Readable(fd) == inbox[fd] \/ client[fd] \in {"half", "gone", "reset"}

\* Closing a descriptor (SO_LINGER 0) also takes it out of the epoll set.
CloseFd(fd) ==
    /\ client' = [client EXCEPT ![fd] = "none"]
    /\ inbox' = [inbox EXCEPT ![fd] = FALSE]
    /\ epoll' = epoll \ {fd}

-----------------------------------------------------------------------------
(***************************************************************************)
(* The server thread.                                                      *)
(***************************************************************************)
\* delete mit->second; m_mpSocketTask.erase(mit->first): ~CTaskMain closes
\* the descriptor of the task's socket.
DeleteTask(fd) ==
    LET t == m_mpSocketTask[fd] IN
    /\ IF sock[t] = NoFd THEN UNCHANGED <<client, inbox, epoll>> ELSE CloseFd(sock[t])
    /\ sock' = [sock EXCEPT ![t] = NoFd]
    /\ m_mpSocketTask' = [m_mpSocketTask EXCEPT ![fd] = NoTask]

EpollRearm(fd) ==
    /\ fd \notin epoll
    /\ client[fd] # "none"
    /\ epoll' = epoll \cup {fd}

\* Faulty variant: a task that succeeded is not watched again.
GetFreeTaskNoRearm ==
    /\ spc = "free"
    /\ i < NumWorkers
    /\ m_vecTaskStauts[i] # <<>>
    /\ m_vecTaskStauts' = [m_vecTaskStauts EXCEPT ![i] = Tail(@)]
    /\ IF Head(m_vecTaskStauts[i]).m_bStatus
       THEN UNCHANGED <<client, inbox, epoll, taskVars>>
       ELSE DeleteTask(Head(m_vecTaskStauts[i]).m_iSockFd)
    /\ UNCHANGED <<backlog, m_clLock, m_queUserQueryTask, serverVars, workerVars>>

\* BdxServerGetFreeTask, one status taken from worker i: a task that
\* succeeded is watched again, any other is deleted, and so is one that
\* EPOLL_CTL_ADD refuses.
GetFreeTask ==
    /\ spc = "free"
    /\ i < NumWorkers
    /\ m_vecTaskStauts[i] # <<>>
    /\ m_vecTaskStauts' = [m_vecTaskStauts EXCEPT ![i] = Tail(@)]
    /\ LET st == Head(m_vecTaskStauts[i]) IN
       \/ /\ m_mpSocketTask[st.m_iSockFd] = NoTask    \* "can not find task"
          /\ UNCHANGED <<client, inbox, epoll, taskVars>>
       \/ /\ m_mpSocketTask[st.m_iSockFd] # NoTask
          /\ st.m_bStatus
          /\ EpollRearm(st.m_iSockFd)
          /\ UNCHANGED <<client, inbox, taskVars>>
       \/ /\ m_mpSocketTask[st.m_iSockFd] # NoTask
          /\ DeleteTask(st.m_iSockFd)
    /\ UNCHANGED <<backlog, m_clLock, m_queUserQueryTask, serverVars, workerVars>>

\* Faulty variant: the loop over the workers runs one step too far.
NextStatusQueueTooFar ==
    /\ spc = "free"
    /\ i <= NumWorkers
    /\ i < NumWorkers => m_vecTaskStauts[i] = <<>>
    /\ i' = i + 1
    /\ UNCHANGED <<netVars, epoll, taskVars, shared, spc, batch, iSockfd, workerVars>>

NextStatusQueue ==
    /\ spc = "free"
    /\ i < NumWorkers
    /\ m_vecTaskStauts[i] = <<>>
    /\ i' = i + 1
    /\ UNCHANGED <<netVars, epoll, taskVars, shared, spc, batch, iSockfd, workerVars>>

ReadyEvents ==
    {fd \in epoll : Readable(fd)} \cup (IF backlog > 0 THEN {Listen} ELSE {})

\* epoll_wait returns every ready descriptor, EVENT of them at most; when it
\* times out the batch is empty.
EpollWait ==
    /\ spc = "free"
    /\ i = NumWorkers
    /\ \E B \in SUBSET ReadyEvents :
          /\ Cardinality(B) = IF Cardinality(ReadyEvents) < EVENT
                              THEN Cardinality(ReadyEvents) ELSE EVENT
          /\ batch' = B
    /\ spc' = "events"
    /\ i' = 0
    /\ UNCHANGED <<netVars, epoll, taskVars, shared, iSockfd, workerVars>>

EndOfBatch ==
    /\ spc = "events"
    /\ batch = {}
    /\ spc' = "free"
    /\ UNCHANGED <<netVars, epoll, taskVars, shared, i, batch, iSockfd, workerVars>>

\* Faulty variant: the new connection is watched before, and without, being
\* entered in m_mpSocketTask.
AcceptEventNoInsert ==
    /\ spc = "events"
    /\ Listen \in batch
    /\ batch' = batch \ {Listen}
    /\ backlog' = backlog - 1
    /\ \E fd \in Fds :
          /\ client[fd] = "none"
          /\ client' = [client EXCEPT ![fd] = "open"]
          /\ epoll' = epoll \cup {fd}
    /\ UNCHANGED <<inbox, taskVars, shared, spc, i, iSockfd, workerVars>>

\* TcpAccept and BdxServerGetTask.  accept() may fail and leave the connection
\* waiting or lose it; when EPOLL_CTL_ADD fails the socket is deleted.
AcceptEvent ==
    /\ spc = "events"
    /\ Listen \in batch
    /\ batch' = batch \ {Listen}
    /\ \/ /\ \/ UNCHANGED backlog
             \/ backlog > 0 /\ backlog' = backlog - 1
          /\ UNCHANGED <<client, inbox, epoll, taskVars>>
       \/ /\ backlog > 0
          /\ backlog' = backlog - 1
          /\ \E fd \in Fds, t \in Tasks :
                /\ client[fd] = "none"
                /\ sock[t] = NoFd
                /\ client' = [client EXCEPT ![fd] = "open"]
                /\ epoll' = epoll \cup {fd}
                /\ sock' = [sock EXCEPT ![t] = fd]
                /\ m_mpSocketTask' = [m_mpSocketTask EXCEPT ![fd] = t]
          /\ UNCHANGED inbox
    /\ UNCHANGED <<shared, spc, i, iSockfd, workerVars>>

\* Faulty variant: the descriptor stays registered while its task is with a
\* worker (no EPOLL_CTL_DEL).
ReadEventNoDel(fd) ==
    /\ spc = "events"
    /\ fd \in batch
    /\ m_mpSocketTask[fd] # NoTask
    /\ batch' = batch \ {fd}
    /\ spc' = "put"
    /\ iSockfd' = fd
    /\ UNCHANGED <<netVars, epoll, taskVars, shared, i, workerVars>>

\* BdxServerReadEvent up to the call of BdxServerPutTask.
ReadEvent(fd) ==
    /\ spc = "events"
    /\ fd \in batch
    /\ batch' = batch \ {fd}
    /\ IF m_mpSocketTask[fd] = NoTask
       THEN /\ CloseFd(fd)                             \* "can not find [fd] Task"
            /\ UNCHANGED <<spc, iSockfd>>
       ELSE /\ epoll' = epoll \ {fd}
            /\ spc' = "put"
            /\ iSockfd' = fd
            /\ UNCHANGED <<client, inbox>>
    /\ UNCHANGED <<backlog, taskVars, shared, i, workerVars>>

\* BdxServerPutTask: MutexTryLock of worker i, and the push when it succeeds.
PutTask ==
    /\ spc = "put"
    /\ i < NumWorkers
    /\ IF m_clLock[i] = "nobody"
       THEN /\ m_clLock' = [m_clLock EXCEPT ![i] = "server"]
            /\ m_queUserQueryTask' =
                  [m_queUserQueryTask EXCEPT ![i] = Append(@, m_mpSocketTask[iSockfd])]
            /\ spc' = "notify"
            /\ iSockfd' = NoFd
            /\ UNCHANGED i
       ELSE /\ i' = i + 1
            /\ UNCHANGED <<m_clLock, m_queUserQueryTask, spc, iSockfd>>
    /\ UNCHANGED <<netVars, epoll, taskVars, m_vecTaskStauts, batch, workerVars>>

\* NOFREE_THREAD: the request is dropped and the connection closed.
NoFreeThread ==
    /\ spc = "put"
    /\ i = NumWorkers
    /\ DeleteTask(iSockfd)
    /\ spc' = "events"
    /\ iSockfd' = NoFd
    /\ i' = 0
    /\ UNCHANGED <<backlog, shared, batch, workerVars>>

\* Faulty variant: the worker is not signalled.
NotifyWorkerNoSignal ==
    /\ spc = "notify"
    /\ m_clLock' = [m_clLock EXCEPT ![i] = "nobody"]
    /\ spc' = "events"
    /\ i' = 0
    /\ UNCHANGED <<netVars, epoll, taskVars, m_queUserQueryTask, m_vecTaskStauts,
                   batch, iSockfd, workerVars>>

\* MutexNotify and MutexUnlock.
NotifyWorker ==
    /\ spc = "notify"
    /\ wpc' = IF wpc[i] = "wait" THEN [wpc EXCEPT ![i] = "lock"] ELSE wpc
    /\ m_clLock' = [m_clLock EXCEPT ![i] = "nobody"]
    /\ spc' = "events"
    /\ i' = 0
    /\ UNCHANGED <<netVars, epoll, taskVars, m_queUserQueryTask, m_vecTaskStauts,
                   batch, iSockfd, pclTask, iRes>>

ServerNext ==
    \/ GetFreeTask
    \/ NextStatusQueue
    \/ EpollWait
    \/ EndOfBatch
    \/ AcceptEvent
    \/ \E fd \in Fds : ReadEvent(fd)
    \/ PutTask
    \/ NoFreeThread
    \/ NotifyWorker

-----------------------------------------------------------------------------
(***************************************************************************)
(* Worker thread w.                                                        *)
(***************************************************************************)
Goto(w, from, to) == wpc[w] = from /\ wpc' = [wpc EXCEPT ![w] = to]

\* MutexLock at the top of the loop; a worker that is woken inside MutexWait
\* takes the mutex again in the same way.
LockQueue(w) ==
    /\ Goto(w, "lock", "check")
    /\ m_clLock[w] = "nobody"
    /\ m_clLock' = [m_clLock EXCEPT ![w] = "worker"]
    /\ UNCHANGED <<netVars, epoll, taskVars, m_queUserQueryTask, m_vecTaskStauts,
                   serverVars, pclTask, iRes>>

WaitForTask(w) ==
    /\ Goto(w, "check", "wait")
    /\ m_queUserQueryTask[w] = <<>>
    /\ m_clLock' = [m_clLock EXCEPT ![w] = "nobody"]
    /\ UNCHANGED <<netVars, epoll, taskVars, m_queUserQueryTask, m_vecTaskStauts,
                   serverVars, pclTask, iRes>>

\* pthread_cond_wait may return without having been signalled.
SpuriousWakeup(w) ==
    /\ Goto(w, "wait", "lock")
    /\ UNCHANGED <<netVars, epoll, taskVars, shared, serverVars, pclTask, iRes>>

\* Faulty variant: front() without pop().
PopTaskNoPop(w) ==
    /\ Goto(w, "check", "read")
    /\ m_queUserQueryTask[w] # <<>>
    /\ pclTask' = [pclTask EXCEPT ![w] = Head(m_queUserQueryTask[w])]
    /\ UNCHANGED <<netVars, epoll, taskVars, shared, serverVars, iRes>>

PopTask(w) ==
    /\ Goto(w, "check", "read")
    /\ m_queUserQueryTask[w] # <<>>
    /\ pclTask' = [pclTask EXCEPT ![w] = Head(m_queUserQueryTask[w])]
    /\ m_queUserQueryTask' = [m_queUserQueryTask EXCEPT ![w] = Tail(@)]
    /\ UNCHANGED <<netVars, epoll, taskVars, m_clLock, m_vecTaskStauts, serverVars, iRes>>

\* One recv of a nonblocking descriptor: end of file, an error and a
\* descriptor with nothing to read are all "no data" to the caller.
TcpRead(fd) == inbox[fd]

\* BdxGetHttpPacket: one TcpRead of what is there.  No data ends in an error
\* answer, and so does a packet that is not a whole GET request.
ReadRequest(w) ==
    LET fd == sock[pclTask[w]] IN
    /\ wpc[w] = "read"
    /\ fd \in Fds
    /\ \/ TcpRead(fd) /\ Goto(w, "read", "serve")
       \/ Goto(w, "read", "reply")
    /\ inbox' = [inbox EXCEPT ![fd] = FALSE]
    /\ UNCHANGED <<client, backlog, epoll, taskVars, shared, serverVars, pclTask, iRes>>

\* The rest of BdxRunTask up to the answer, which is never empty: m_httpType
\* is set for every request, so a header is always written.  The loops that
\* collect the remote body never end when the remote peer closes early.
ServeRequest(w) ==
    /\ \/ Goto(w, "serve", "reply")
       \/ Goto(w, "serve", "hung")
    /\ UNCHANGED <<netVars, epoll, taskVars, shared, serverVars, pclTask, iRes>>

\* Faulty variant: a failed send is taken for an answer.
WriteAnswerUnchecked(w) ==
    /\ Goto(w, "reply", "report")
    /\ iRes' = [iRes EXCEPT ![w] = TRUE]
    /\ UNCHANGED <<netVars, epoll, taskVars, shared, serverVars, pclTask>>

\* Sending to a peer that has closed succeeds once and provokes a reset;
\* sending to a peer that does not read gives up after 300000 tries.
TcpWrite(fd, ok) == ok => client[fd] \in {"open", "half", "gone"}

\* BdxSendRespones or BdxSendEmpyRespones.
WriteAnswer(w) ==
    LET fd == sock[pclTask[w]] IN
    /\ Goto(w, "reply", "report")
    /\ fd \in Fds
    /\ \E ok \in BOOLEAN :
          /\ TcpWrite(fd, ok)
          /\ iRes' = [iRes EXCEPT ![w] = ok]
    /\ client' = IF client[fd] = "gone" THEN [client EXCEPT ![fd] = "reset"] ELSE client
    /\ inbox' = IF client[fd] = "gone" THEN [inbox EXCEPT ![fd] = FALSE] ELSE inbox
    /\ UNCHANGED <<backlog, epoll, taskVars, shared, serverVars, pclTask>>

\* The last use of pclTask is BdxGetTaskFd; then the status is pushed.  The
\* two locals are dead until the next task, and are reset here.
ReportStatus(w) ==
    /\ Goto(w, "report", "unlock")
    /\ sock[pclTask[w]] \in Fds
    /\ m_vecTaskStauts' = [m_vecTaskStauts EXCEPT ![w] =
          Append(@, [m_iSockFd |-> sock[pclTask[w]], m_bStatus |-> iRes[w]])]
    /\ pclTask' = [pclTask EXCEPT ![w] = NoTask]
    /\ iRes' = [iRes EXCEPT ![w] = FALSE]
    /\ UNCHANGED <<netVars, epoll, taskVars, m_clLock, m_queUserQueryTask, serverVars>>

\* MutexUnlock, and a MutexNotify nobody waits for.
UnlockQueue(w) ==
    /\ Goto(w, "unlock", "lock")
    /\ m_clLock' = [m_clLock EXCEPT ![w] = "nobody"]
    /\ UNCHANGED <<netVars, epoll, taskVars, m_queUserQueryTask, m_vecTaskStauts,
                   serverVars, pclTask, iRes>>

WorkerNext(w) ==
    \/ LockQueue(w)
    \/ WaitForTask(w)
    \/ PopTask(w)
    \/ ReadRequest(w)
    \/ ServeRequest(w)
    \/ WriteAnswer(w)
    \/ ReportStatus(w)
    \/ UnlockQueue(w)

ClientNext ==
    \/ Connect
    \/ \E fd \in Fds : Send(fd) \/ Disconnect(fd) \/ Reset(fd)

Next ==
    \/ ServerNext
    \/ \E w \in Workers : WorkerNext(w) \/ SpuriousWakeup(w)
    \/ ClientNext

Spec == Init /\ [][Next]_vars

\* The server thread and the workers run for ever and are scheduled; clients
\* and spurious wakeups owe nothing.
Fairness ==
    /\ WF_vars(ServerNext)
    /\ \A w \in Workers : WF_vars(WorkerNext(w))

FairSpec == Spec /\ Fairness

-----------------------------------------------------------------------------
(***************************************************************************)
(* Correctness.                                                            *)
(***************************************************************************)
\* Besides the epoll set and the server thread's hand, a connection can be
\* held by a slot of a worker's task queue, by a worker, and by a slot of a
\* worker's status queue.
QueuedAt(w, k, t) == k \in 1..Len(m_queUserQueryTask[w]) /\ m_queUserQueryTask[w][k] = t

Queued(t) == \E w \in Workers : \E k \in 1..Len(m_queUserQueryTask[w]) : QueuedAt(w, k, t)

Runs(w, t) == pclTask[w] = t

Running(t) == \E w \in Workers : Runs(w, t)

ReportedAt(w, k, fd) ==
    k \in 1..Len(m_vecTaskStauts[w]) /\ m_vecTaskStauts[w][k].m_iSockFd = fd

Reported(fd) == \E w \in Workers : \E k \in 1..Len(m_vecTaskStauts[w]) : ReportedAt(w, k, fd)

\* No open connection is forgotten by every thread: it would never be read
\* again and never be closed.
HeldSomewhere ==
    \A fd \in Fds :
        client[fd] # "none" =>
            \/ fd \in epoll
            \/ iSockfd = fd
            \/ Queued(m_mpSocketTask[fd])
            \/ Running(m_mpSocketTask[fd])
            \/ Reported(fd)

\* No connection is held twice: the kinds of holder exclude each other and no
\* two queue slots, workers or status slots hold the same connection.
HeldOnce ==
    /\ \A fd \in Fds : fd \in epoll \/ iSockfd = fd =>
          /\ ~Queued(m_mpSocketTask[fd])
          /\ ~Running(m_mpSocketTask[fd])
          /\ ~Reported(fd)
    /\ iSockfd \notin epoll
    /\ \A t \in Tasks : Queued(t) => ~Running(t) /\ ~Reported(sock[t])
    /\ \A t \in Tasks : Running(t) => ~Reported(sock[t])
    /\ \A w1, w2 \in Workers, t \in Tasks :
          /\ Runs(w1, t) /\ Runs(w2, t) => w1 = w2
          /\ \A k1 \in 1..Len(m_queUserQueryTask[w1]), k2 \in 1..Len(m_queUserQueryTask[w2]) :
                QueuedAt(w1, k1, t) /\ QueuedAt(w2, k2, t) => w1 = w2 /\ k1 = k2
    /\ \A w1, w2 \in Workers, fd \in Fds :
          \A k1 \in 1..Len(m_vecTaskStauts[w1]), k2 \in 1..Len(m_vecTaskStauts[w2]) :
             ReportedAt(w1, k1, fd) /\ ReportedAt(w2, k2, fd) => w1 = w2 /\ k1 = k2

\* Every open connection is in exactly one place.  (This is the hand-over
\* protocol between BdxServerReadEvent, the workers' Core and
\* BdxServerGetFreeTask, which nothing but their order enforces.)
OnePlace == HeldSomewhere /\ HeldOnce

\* A task a worker is running or will run has not been deleted, and the map
\* still leads from its descriptor to it: no use after delete mit->second.
NoDanglingTask ==
    \A t \in Tasks :
        Queued(t) \/ Running(t) => sock[t] \in Fds /\ m_mpSocketTask[sock[t]] = t

\* Neither "can not find task  memory can not free !!!!!." nor "can not find
\* [fd] Task." is ever logged: a reported descriptor and a pending event
\* always belong to a task of the map.
LookupNeverFails ==
    /\ \A w \in Workers : \A k \in 1..Len(m_vecTaskStauts[w]) :
          m_mpSocketTask[m_vecTaskStauts[w][k].m_iSockFd] # NoTask
    /\ \A fd \in batch \ {Listen} : m_mpSocketTask[fd] # NoTask

\* A worker never sleeps on a queue that holds a task, except between the
\* server's push and its MutexNotify.
NoLostWakeup ==
    \A w \in Workers :
        wpc[w] = "wait" /\ m_queUserQueryTask[w] # <<>> => spc = "notify" /\ i = w

\* While a worker works on a connection nobody takes its descriptor away:
\* a step that closes a descriptor leaves no worker with a task on it.
CloseOnlyUnheld ==
    [][\A fd \in Fds :
          client[fd] # "none" /\ client'[fd] = "none"
              => ~Queued(m_mpSocketTask[fd]) /\ ~Running(m_mpSocketTask[fd])]_vars

\* The connection waits behind, or in, a worker whose remote fetch never ends.
BehindHungWorker(fd) ==
    \E w \in Workers :
        /\ wpc[w] = "hung"
        /\ \/ Runs(w, m_mpSocketTask[fd])
           \/ \E k \in 1..Len(m_queUserQueryTask[w]) : QueuedAt(w, k, m_mpSocketTask[fd])

\* Bytes a client has sent are eventually read by a worker, or the connection
\* is closed; the only way to starve is to be queued behind a hung worker.
RequestsTakenUp ==
    \A fd \in Fds : inbox[fd] ~> (~inbox[fd] \/ BehindHungWorker(fd))

\* The descriptor of a peer that has reset the connection is eventually
\* closed, unless its task sits behind a hung worker.
ResetPeersReleased ==
    \A fd \in Fds :
        client[fd] = "reset" ~> (client[fd] = "none" \/ BehindHungWorker(fd))

\* Worker Core calls LINKERROR "socket link break off", and BdxGetHttpPacket
\* returns LINKERROR when it reads end of file.  So a connection whose peer
\* has shut it down should be released.
HalfClosedReleased ==
    \A fd \in Fds :
        client[fd] = "half" ~> (client[fd] # "half" \/ BehindHungWorker(fd))

\* The hand-over of connections as ConnLife sees it.
ConnOf(fd) ==
    LET t == m_mpSocketTask[fd]
        inQueue == {w \in Workers : \E k \in 1..Len(m_queUserQueryTask[w]) : QueuedAt(w, k, t)}
        runner == {w \in Workers : Runs(w, t)}
    IN IF t = NoTask THEN <<"closed">>
       ELSE IF fd \in epoll THEN <<"watched">>
       ELSE IF iSockfd = fd THEN <<"handed">>
       ELSE IF inQueue # {} THEN <<"queued", CHOOSE w \in Workers : w \in inQueue>>
       ELSE IF runner # {} THEN <<"running", CHOOSE w \in Workers : w \in runner>>
       ELSE <<"reported">>

Life == INSTANCE ConnLife WITH conn <- [fd \in Fds |-> ConnOf(fd)]

\* The dispatcher implements ConnLife: every step moves at most one connection
\* one step along its life, and a worker starts a connection only when it runs
\* no other.
ImplementsConnLife == Life!Spec
=============================================================================
