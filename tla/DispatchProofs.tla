--------------------------- MODULE DispatchProofs ---------------------------
(***************************************************************************)
(* Proofs about Dispatch, for any number of workers, descriptors and heap  *)
(* addresses.                                                              *)
(***************************************************************************)
EXTENDS Dispatch, TLAPS

\* Who holds which mutex, and what the server thread's locals are worth.
ControlInv ==
    /\ \A w \in Workers :
          /\ m_clLock[w] = "worker" <=>
                wpc[w] \in {"check", "read", "serve", "reply", "report", "unlock", "hung"}
          /\ m_clLock[w] = "server" <=> spc = "notify" /\ i = w
          /\ pclTask[w] # NoTask <=> wpc[w] \in {"read", "serve", "reply", "report", "hung"}
    /\ spc = "events" => i = 0
    /\ spc = "notify" => i \in Workers
    /\ spc = "put" => iSockfd \in Fds /\ m_mpSocketTask[iSockfd] # NoTask
    /\ spc # "put" => iSockfd = NoFd

Inv1 == TypeOK /\ ControlInv

-----------------------------------------------------------------------------
LEMMA WorkersFact ==
    /\ 0 \in Workers
    /\ \A w \in Workers : w \in Int /\ 0 <= w /\ w < NumWorkers
    /\ \A n \in Int : 0 <= n /\ n < NumWorkers => n \in Workers
  BY DispatchAssumption DEF Workers

\* The index of the two server loops names a worker inside of them.
LEMMA IndexFact == TypeOK /\ i < NumWorkers => i \in Workers
  BY DispatchAssumption DEF TypeOK, Workers

\* The descriptor in the server's hand has a task.
LEMMA HandFact ==
    Inv1 /\ spc = "put" => iSockfd \in Fds /\ m_mpSocketTask[iSockfd] \in Tasks
  <1> SUFFICES ASSUME Inv1, spc = "put"
               PROVE  iSockfd \in Fds /\ m_mpSocketTask[iSockfd] \in Tasks
    OBVIOUS
  <1>1. iSockfd \in Fds /\ m_mpSocketTask[iSockfd] # NoTask
    BY DEF Inv1, ControlInv
  <1>2. m_mpSocketTask \in [Fds -> Tasks \cup {NoTask}]
    BY DEF Inv1, TypeOK
  <1> QED BY <1>1, <1>2

\* A nonempty status queue begins with a status.
LEMMA HeadStatusFact ==
    ASSUME TypeOK, NEW w \in Workers, m_vecTaskStauts[w] # <<>>
    PROVE  /\ Head(m_vecTaskStauts[w]) \in TaskStatus
           /\ Head(m_vecTaskStauts[w]).m_iSockFd \in Fds
  <1>1. m_vecTaskStauts[w] \in Seq(TaskStatus)
    BY DEF TypeOK
  <1>2. Head(m_vecTaskStauts[w]) \in TaskStatus
    BY <1>1
  <1> QED BY <1>2 DEF TaskStatus

LEMMA InitInv1 == Init => Inv1
  BY DispatchAssumption, WorkersFact DEF Init, InitServer, Inv1, TypeOK, ControlInv, PeerStates,
     ServerStates, WorkerStates

LEMMA ControlStep == Inv1 /\ [Next]_vars => ControlInv'
  <1> SUFFICES ASSUME Inv1, [Next]_vars
               PROVE  ControlInv'
    OBVIOUS
  <1>a. i < NumWorkers => i \in Workers
    BY IndexFact DEF Inv1
  <1>b. spc = "put" => iSockfd \in Fds /\ m_mpSocketTask[iSockfd] \in Tasks
    BY HandFact
  <1>c. /\ m_clLock \in [Workers -> {"nobody", "server", "worker"}]
        /\ wpc \in [Workers -> WorkerStates]
        /\ pclTask \in [Workers -> Tasks \cup {NoTask}]
        /\ m_queUserQueryTask \in [Workers -> Seq(Tasks)]
        /\ m_mpSocketTask \in [Fds -> Tasks \cup {NoTask}]
        /\ spc \in ServerStates
        /\ ControlInv
    BY DEF Inv1, TypeOK
  <1> USE DispatchAssumption, <1>c DEF ControlInv, ServerStates, WorkerStates,
          netVars, taskVars, serverVars, workerVars, shared
  <1>1. CASE GetFreeTask
    BY <1>1 DEF GetFreeTask
  <1>2. CASE NextStatusQueue
    BY <1>2 DEF NextStatusQueue
  <1>3. CASE EpollWait
    BY <1>3 DEF EpollWait
  <1>4. CASE EndOfBatch
    BY <1>4 DEF EndOfBatch
  <1>5. CASE AcceptEvent
    BY <1>5 DEF AcceptEvent
  <1>6. ASSUME NEW fd \in Fds, ReadEvent(fd)
        PROVE  ControlInv'
    BY <1>6 DEF ReadEvent
  <1>7. CASE PutTask
    BY <1>7, <1>a, <1>b DEF PutTask
  <1>8. CASE NoFreeThread
    BY <1>8 DEF NoFreeThread
  <1>9. CASE NotifyWorker
    BY <1>9 DEF NotifyWorker
  <1>10. ASSUME NEW w \in Workers, WorkerNext(w) \/ SpuriousWakeup(w)
         PROVE  ControlInv'
    <2>1. CASE LockQueue(w)
      BY <2>1 DEF LockQueue, Goto
    <2>2. CASE WaitForTask(w)
      BY <2>2 DEF WaitForTask, Goto
    <2>3. CASE PopTask(w)
      <3>1. Head(m_queUserQueryTask[w]) # NoTask
        BY <2>3 DEF PopTask
      <3> QED BY <2>3, <3>1 DEF PopTask, Goto
    <2>4. CASE ReadRequest(w)
      BY <2>4 DEF ReadRequest, TcpRead, Goto
    <2>5. CASE ServeRequest(w)
      BY <2>5 DEF ServeRequest, Goto
    <2>6. CASE WriteAnswer(w)
      BY <2>6 DEF WriteAnswer, TcpWrite, Goto
    <2>7. CASE ReportStatus(w)
      BY <2>7 DEF ReportStatus, Goto
    <2>8. CASE UnlockQueue(w)
      BY <2>8 DEF UnlockQueue, Goto
    <2>9. CASE SpuriousWakeup(w)
      BY <2>9 DEF SpuriousWakeup, Goto
    <2> QED BY <1>10, <2>1, <2>2, <2>3, <2>4, <2>5, <2>6, <2>7, <2>8, <2>9 DEF WorkerNext
  <1>11. CASE ClientNext
    BY <1>11 DEF ClientNext, Connect, Send, Disconnect, Reset
  <1>12. CASE UNCHANGED vars
    BY <1>12 DEF vars
  <1> QED
    BY <1>1, <1>2, <1>3, <1>4, <1>5, <1>6, <1>7, <1>8, <1>9, <1>10, <1>11, <1>12
       DEF Next, ServerNext

LEMMA TypeStep == Inv1 /\ [Next]_vars => TypeOK'
  <1> SUFFICES ASSUME Inv1, [Next]_vars
               PROVE  TypeOK'
    OBVIOUS
  <1>a. i < NumWorkers => i \in Workers
    BY IndexFact DEF Inv1
  <1>b. spc = "put" => iSockfd \in Fds /\ m_mpSocketTask[iSockfd] \in Tasks
    BY HandFact
  <1> USE DispatchAssumption DEF Inv1, TypeOK, PeerStates, ServerStates, WorkerStates,
          netVars, taskVars, serverVars, workerVars, shared
  <1> DEFINE ConnTypes ==
        /\ client' \in [Fds -> PeerStates]
        /\ inbox' \in [Fds -> BOOLEAN]
        /\ epoll' \in SUBSET Fds
        /\ sock' \in [Tasks -> Fds \cup {NoFd}]
        /\ m_mpSocketTask' \in [Fds -> Tasks \cup {NoTask}]
  <1>1. CASE GetFreeTask
    <2> DEFINE st == Head(m_vecTaskStauts[i])
    <2>1. i \in Workers
      BY <1>1, <1>a DEF GetFreeTask
    <2>2. st \in TaskStatus /\ st.m_iSockFd \in Fds
      BY <1>1, <2>1, HeadStatusFact DEF GetFreeTask
    <2>3. m_vecTaskStauts' \in [Workers -> Seq(TaskStatus)]
      BY <1>1, <2>1 DEF GetFreeTask
    <2>4. CASE m_mpSocketTask[st.m_iSockFd] # NoTask /\ DeleteTask(st.m_iSockFd)
      <3>1. m_mpSocketTask[st.m_iSockFd] \in Tasks
        BY <2>2, <2>4
      <3>2. ConnTypes
        BY <2>4, <3>1 DEF DeleteTask, CloseFd
      <3> QED BY <1>1, <2>3, <3>2 DEF GetFreeTask
    <2>5. CASE EpollRearm(st.m_iSockFd) /\ UNCHANGED <<client, inbox, taskVars>>
      BY <1>1, <2>2, <2>3, <2>5 DEF GetFreeTask, EpollRearm
    <2>6. CASE UNCHANGED <<client, inbox, epoll, taskVars>>
      BY <1>1, <2>3, <2>6 DEF GetFreeTask
    <2> QED BY <1>1, <2>4, <2>5, <2>6 DEF GetFreeTask
  <1>2. CASE NextStatusQueue
    BY <1>2 DEF NextStatusQueue
  <1>3. CASE EpollWait
    <2>1. batch' \in SUBSET (Fds \cup {Listen})
      BY <1>3 DEF EpollWait, ReadyEvents
    <2> QED BY <1>3, <2>1 DEF EpollWait
  <1>4. CASE EndOfBatch
    BY <1>4 DEF EndOfBatch
  <1>5. CASE AcceptEvent
    <2>1. backlog' \in 0..MaxBacklog /\ batch' \in SUBSET (Fds \cup {Listen})
      BY <1>5 DEF AcceptEvent
    <2>2. ConnTypes
      <3>1. CASE UNCHANGED <<client, inbox, epoll, taskVars>>
        BY <3>1
      <3>2. ASSUME NEW fd \in Fds, NEW t \in Tasks,
                   client' = [client EXCEPT ![fd] = "open"],
                   epoll' = epoll \cup {fd},
                   sock' = [sock EXCEPT ![t] = fd],
                   m_mpSocketTask' = [m_mpSocketTask EXCEPT ![fd] = t],
                   UNCHANGED inbox
            PROVE  ConnTypes
        BY <3>2
      <3> QED BY <1>5, <3>1, <3>2 DEF AcceptEvent
    <2> QED BY <1>5, <2>1, <2>2 DEF AcceptEvent
  <1>6. ASSUME NEW fd \in Fds, ReadEvent(fd)
        PROVE  TypeOK'
    BY <1>6 DEF ReadEvent, CloseFd
  <1>7. CASE PutTask
    <2>a. spc = "put" /\ i < NumWorkers
      BY <1>7 DEF PutTask
    <2>1. i \in Workers /\ m_mpSocketTask[iSockfd] \in Tasks
      BY <2>a, <1>a, <1>b, Zenon
    <2>2. m_queUserQueryTask' \in [Workers -> Seq(Tasks)]
      <3>1. Append(m_queUserQueryTask[i], m_mpSocketTask[iSockfd]) \in Seq(Tasks)
        BY <2>1
      <3> QED BY <1>7, <2>1, <3>1 DEF PutTask
    <2>3. /\ m_clLock' \in [Workers -> {"nobody", "server", "worker"}]
          /\ spc' \in ServerStates
          /\ i' \in 0..NumWorkers
          /\ iSockfd' \in Fds \cup {NoFd}
      BY <1>7, <2>1 DEF PutTask
    <2> QED BY <1>7, <2>2, <2>3 DEF PutTask
  <1>8. CASE NoFreeThread
    <2>a. spc = "put"
      BY <1>8 DEF NoFreeThread
    <2>1. iSockfd \in Fds /\ m_mpSocketTask[iSockfd] \in Tasks
      BY <2>a, <1>b, Zenon
    <2>2. ConnTypes
      BY <1>8, <2>1 DEF NoFreeThread, DeleteTask, CloseFd
    <2> QED BY <1>8, <2>2 DEF NoFreeThread
  <1>9. CASE NotifyWorker
    <2>1. i \in Workers
      BY <1>9 DEF NotifyWorker, ControlInv
    <2>2. /\ wpc' \in [Workers -> WorkerStates]
          /\ m_clLock' \in [Workers -> {"nobody", "server", "worker"}]
      BY <1>9, <2>1 DEF NotifyWorker
    <2> QED BY <1>9, <2>2 DEF NotifyWorker
  <1>10. ASSUME NEW w \in Workers, WorkerNext(w) \/ SpuriousWakeup(w)
         PROVE  TypeOK'
    <2>1. CASE LockQueue(w)
      BY <2>1 DEF LockQueue, Goto
    <2>2. CASE WaitForTask(w)
      BY <2>2 DEF WaitForTask, Goto
    <2>3. CASE PopTask(w)
      <3>1. /\ Head(m_queUserQueryTask[w]) \in Tasks
            /\ Tail(m_queUserQueryTask[w]) \in Seq(Tasks)
        BY <2>3 DEF PopTask
      <3>2. /\ m_queUserQueryTask' \in [Workers -> Seq(Tasks)]
            /\ pclTask' \in [Workers -> Tasks \cup {NoTask}]
            /\ wpc' \in [Workers -> WorkerStates]
        BY <2>3, <3>1 DEF PopTask, Goto
      <3> QED BY <2>3, <3>2 DEF PopTask
    <2>4. CASE ReadRequest(w)
      BY <2>4 DEF ReadRequest, TcpRead, Goto
    <2>5. CASE ServeRequest(w)
      BY <2>5 DEF ServeRequest, Goto
    <2>6. CASE WriteAnswer(w)
      <3>1. iRes' \in [Workers -> BOOLEAN] /\ wpc' \in [Workers -> WorkerStates]
        BY <2>6 DEF WriteAnswer, TcpWrite, Goto
      <3>2. client' \in [Fds -> PeerStates] /\ inbox' \in [Fds -> BOOLEAN]
        BY <2>6 DEF WriteAnswer, TcpWrite
      <3> QED BY <2>6, <3>1, <3>2 DEF WriteAnswer, TcpWrite
    <2>7. CASE ReportStatus(w)
      <3>1. [m_iSockFd |-> sock[pclTask[w]], m_bStatus |-> iRes[w]] \in TaskStatus
        BY <2>7 DEF ReportStatus, TaskStatus
      <3>2. m_vecTaskStauts' \in [Workers -> Seq(TaskStatus)]
        BY <2>7, <3>1 DEF ReportStatus
      <3> QED BY <2>7, <3>2 DEF ReportStatus, Goto
    <2>8. CASE UnlockQueue(w)
      BY <2>8 DEF UnlockQueue, Goto
    <2>9. CASE SpuriousWakeup(w)
      BY <2>9 DEF SpuriousWakeup, Goto
    <2> QED BY <1>10, <2>1, <2>2, <2>3, <2>4, <2>5, <2>6, <2>7, <2>8, <2>9 DEF WorkerNext
  <1>11. CASE ClientNext
    <2>1. CASE Connect
      BY <2>1 DEF Connect
    <2>2. ASSUME NEW fd \in Fds, Send(fd) \/ Disconnect(fd) \/ Reset(fd)
          PROVE  TypeOK'
      <3>1. CASE Send(fd)
        BY <3>1 DEF Send
      <3>2. CASE Disconnect(fd)
        BY <3>2 DEF Disconnect
      <3>3. CASE Reset(fd)
        BY <3>3 DEF Reset
      <3> QED BY <2>2, <3>1, <3>2, <3>3
    <2> QED BY <1>11, <2>1, <2>2 DEF ClientNext
  <1>12. CASE UNCHANGED vars
    BY <1>12 DEF vars
  <1> QED
    BY <1>1, <1>2, <1>3, <1>4, <1>5, <1>6, <1>7, <1>8, <1>9, <1>10, <1>11, <1>12
       DEF Next, ServerNext

-----------------------------------------------------------------------------
\* Inv1 holds for ever.
LEMMA Inv1Holds == Spec => []Inv1
  <1>1. Inv1 /\ [Next]_vars => Inv1'
    BY ControlStep, TypeStep DEF Inv1
  <1> QED BY InitInv1, <1>1, PTL DEF Spec

\* Every variable keeps its type.  This needs ControlInv: BdxServerPutTask
\* pushes m_mpSocketTask[iSockfd] and BdxServerReadEvent deletes it, which is
\* a task only because the map was looked up before, and MutexNotify signals
\* worker i, which is a worker only because a trylock succeeded.
THEOREM TypeCorrect == Spec => []TypeOK
  <1>1. Inv1 => TypeOK
    BY DEF Inv1
  <1> QED BY Inv1Holds, <1>1, PTL

-----------------------------------------------------------------------------
\* What makes the wakeup safe: a worker sleeps on an empty queue, and only
\* the server, with the mutex in its hand, makes it longer.
LEMMA WakeStep == Inv1 /\ NoLostWakeup /\ [Next]_vars => NoLostWakeup'
  <1> SUFFICES ASSUME Inv1, NoLostWakeup, [Next]_vars,
                      NEW w \in Workers, wpc'[w] = "wait", m_queUserQueryTask'[w] # <<>>
               PROVE  spc' = "notify" /\ i' = w
    BY DEF NoLostWakeup
  <1>c. /\ m_clLock \in [Workers -> {"nobody", "server", "worker"}]
        /\ wpc \in [Workers -> WorkerStates]
        /\ m_queUserQueryTask \in [Workers -> Seq(Tasks)]
        /\ spc \in ServerStates
        /\ ControlInv
        /\ i < NumWorkers => i \in Workers
    BY IndexFact DEF Inv1, TypeOK
  <1>d. wpc[w] = "wait" /\ m_queUserQueryTask[w] # <<>> => spc = "notify" /\ i = w
    BY DEF NoLostWakeup
  <1> USE DispatchAssumption, <1>c, <1>d DEF ServerStates, WorkerStates,
          netVars, taskVars, serverVars, workerVars, shared
  <1>1. CASE ServerNext
    <2>1. CASE PutTask
      BY <2>1 DEF PutTask
    <2>2. CASE NotifyWorker
      BY <2>2 DEF NotifyWorker, ControlInv
    <2>3. CASE GetFreeTask \/ NextStatusQueue \/ EpollWait \/ EndOfBatch \/ AcceptEvent
      BY <2>3 DEF GetFreeTask, NextStatusQueue, EpollWait, EndOfBatch, AcceptEvent
    <2>4. CASE NoFreeThread \/ \E fd \in Fds : ReadEvent(fd)
      BY <2>4 DEF NoFreeThread, ReadEvent
    <2> QED BY <1>1, <2>1, <2>2, <2>3, <2>4 DEF ServerNext
  <1>2. ASSUME NEW v \in Workers, WorkerNext(v) \/ SpuriousWakeup(v)
        PROVE  spc' = "notify" /\ i' = w
    <2>1. CASE LockQueue(v) \/ WaitForTask(v) \/ SpuriousWakeup(v)
      BY <2>1 DEF LockQueue, WaitForTask, SpuriousWakeup, Goto
    <2>2. CASE PopTask(v)
      BY <2>2 DEF PopTask, Goto
    <2>3. CASE ReadRequest(v) \/ ServeRequest(v) \/ WriteAnswer(v)
      BY <2>3 DEF ReadRequest, TcpRead, ServeRequest, WriteAnswer, TcpWrite, Goto
    <2>4. CASE ReportStatus(v) \/ UnlockQueue(v)
      BY <2>4 DEF ReportStatus, UnlockQueue, Goto
    <2> QED BY <1>2, <2>1, <2>2, <2>3, <2>4 DEF WorkerNext
  <1>3. CASE ClientNext
    BY <1>3 DEF ClientNext, Connect, Send, Disconnect, Reset
  <1>4. CASE UNCHANGED vars
    BY <1>4 DEF vars
  <1> QED BY <1>1, <1>2, <1>3, <1>4 DEF Next

\* No worker ever sleeps through a task: MutexWait is entered with the mutex
\* held and an empty queue, and BdxServerPutTask pushes only with that mutex
\* and signals before it releases it.
THEOREM WakeupNeverLost == Spec => []NoLostWakeup
  <1>1. Init => NoLostWakeup
    BY DEF Init, InitServer, NoLostWakeup
  <1> QED BY Inv1Holds, <1>1, WakeStep, PTL DEF Spec
=============================================================================
