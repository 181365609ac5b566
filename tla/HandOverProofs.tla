--------------------------- MODULE HandOverProofs ---------------------------
(***************************************************************************)
(* The hand-over of connections between the server thread and the workers  *)
(* keeps every connection in exactly one place, for any number of workers, *)
(* descriptors and heap addresses.                                         *)
(***************************************************************************)
EXTENDS DispatchProofs

\* The map, the tasks and the open descriptors describe the same connections.
MapInv ==
    /\ \A fd \in Fds : client[fd] = "none" <=> m_mpSocketTask[fd] = NoTask
    /\ \A fd \in Fds : m_mpSocketTask[fd] # NoTask => sock[m_mpSocketTask[fd]] = fd
    /\ \A t \in Tasks : sock[t] # NoFd => m_mpSocketTask[sock[t]] = t

\* Watched descriptors are open, the events still to be handled are of watched
\* descriptors, and the one in the server's hand is not watched.
EventInv ==
    /\ \A fd \in epoll : m_mpSocketTask[fd] # NoTask
    /\ \A fd \in batch : fd # Listen => fd \in epoll
    /\ iSockfd \notin epoll

\* A connection the server thread has neither in the epoll set nor in its hand.
Away(fd) == fd \in Fds /\ m_mpSocketTask[fd] # NoTask /\ fd \notin epoll /\ fd # iSockfd

QueueInv ==
    /\ \A w \in Workers : \A k \in 1..Len(m_queUserQueryTask[w]) :
          Away(sock[m_queUserQueryTask[w][k]])
    /\ \A w1, w2 \in Workers :
          \A k1 \in 1..Len(m_queUserQueryTask[w1]), k2 \in 1..Len(m_queUserQueryTask[w2]) :
             m_queUserQueryTask[w1][k1] = m_queUserQueryTask[w2][k2] => w1 = w2 /\ k1 = k2

RunInv ==
    /\ \A w \in Workers : pclTask[w] # NoTask => Away(sock[pclTask[w]])
    /\ \A w1, w2 \in Workers : pclTask[w1] # NoTask /\ pclTask[w1] = pclTask[w2] => w1 = w2

ReportInv ==
    /\ \A w \in Workers : \A k \in 1..Len(m_vecTaskStauts[w]) :
          Away(m_vecTaskStauts[w][k].m_iSockFd)
    /\ \A w1, w2 \in Workers :
          \A k1 \in 1..Len(m_vecTaskStauts[w1]), k2 \in 1..Len(m_vecTaskStauts[w2]) :
             m_vecTaskStauts[w1][k1].m_iSockFd = m_vecTaskStauts[w2][k2].m_iSockFd
                => w1 = w2 /\ k1 = k2

\* Queued, running and reported exclude each other.
ApartInv ==
    /\ \A w1, w2 \in Workers : \A k \in 1..Len(m_queUserQueryTask[w1]) :
          m_queUserQueryTask[w1][k] # pclTask[w2]
    /\ \A w1, w2 \in Workers :
          \A k1 \in 1..Len(m_queUserQueryTask[w1]), k2 \in 1..Len(m_vecTaskStauts[w2]) :
             sock[m_queUserQueryTask[w1][k1]] # m_vecTaskStauts[w2][k2].m_iSockFd
    /\ \A w1, w2 \in Workers : \A k \in 1..Len(m_vecTaskStauts[w2]) :
          pclTask[w1] # NoTask => sock[pclTask[w1]] # m_vecTaskStauts[w2][k].m_iSockFd

PlaceInv == MapInv /\ EventInv /\ QueueInv /\ RunInv /\ ReportInv /\ ApartInv /\ HeldSomewhere

Inv2 == Inv1 /\ PlaceInv

-----------------------------------------------------------------------------
\* The slots of a queue after a pop and after a push.
LEMMA TailSlots ==
    ASSUME NEW S, NEW s \in Seq(S), s # <<>>
    PROVE  /\ Tail(s) \in Seq(S)
           /\ Len(s) \in Nat /\ Len(s) >= 1
           /\ Len(Tail(s)) = Len(s) - 1
           /\ \A k \in 1..Len(Tail(s)) : k + 1 \in 1..Len(s) /\ Tail(s)[k] = s[k + 1]
           /\ Head(s) = s[1]
           /\ \A k \in 1..Len(s) : k # 1 => k - 1 \in 1..Len(Tail(s)) /\ Tail(s)[k - 1] = s[k]
  OBVIOUS

LEMMA AppendSlots ==
    ASSUME NEW S, NEW s \in Seq(S), NEW e \in S
    PROVE  /\ Append(s, e) \in Seq(S)
           /\ Len(s) \in Nat
           /\ Len(Append(s, e)) = Len(s) + 1
           /\ \A k \in 1..Len(s) : k \in 1..Len(Append(s, e)) /\ Append(s, e)[k] = s[k]
           /\ Len(s) + 1 \in 1..Len(Append(s, e)) /\ Append(s, e)[Len(s) + 1] = e
           /\ \A k \in 1..Len(Append(s, e)) : k = Len(s) + 1 \/ k \in 1..Len(s)
  OBVIOUS

\* The invariant is stronger than what is claimed.
LEMMA PlaceImplies == Inv2 => OnePlace /\ NoDanglingTask /\ LookupNeverFails
  <1> SUFFICES ASSUME Inv2
               PROVE  OnePlace /\ NoDanglingTask /\ LookupNeverFails
    OBVIOUS
  <1>c. /\ epoll \in SUBSET Fds
        /\ m_mpSocketTask \in [Fds -> Tasks \cup {NoTask}]
        /\ sock \in [Tasks -> Fds \cup {NoFd}]
        /\ m_queUserQueryTask \in [Workers -> Seq(Tasks)]
        /\ m_vecTaskStauts \in [Workers -> Seq(TaskStatus)]
        /\ pclTask \in [Workers -> Tasks \cup {NoTask}]
        /\ iSockfd \in Fds \cup {NoFd}
        /\ batch \in SUBSET (Fds \cup {Listen})
        /\ iSockfd \in Fds => m_mpSocketTask[iSockfd] # NoTask
    BY DispatchAssumption DEF Inv2, Inv1, TypeOK, ControlInv, ServerStates
  <1>d. MapInv /\ EventInv /\ QueueInv /\ RunInv /\ ReportInv /\ ApartInv /\ HeldSomewhere
    BY DEF Inv2, PlaceInv
  <1> USE DispatchAssumption
  <1>1. \A t \in Tasks : Queued(t) => sock[t] \in Fds /\ Away(sock[t])
    BY <1>d DEF Queued, QueuedAt, QueueInv, Away
  <1>2. \A t \in Tasks : Running(t) => sock[t] \in Fds /\ Away(sock[t])
    BY <1>d DEF Running, Runs, RunInv, Away
  <1>3. \A fd \in Fds : Reported(fd) => Away(fd)
    BY <1>d DEF Reported, ReportedAt, ReportInv
  <1>4. HeldOnce
    <2>1. ASSUME NEW fd \in Fds, fd \in epoll \/ iSockfd = fd
          PROVE  ~Queued(m_mpSocketTask[fd]) /\ ~Running(m_mpSocketTask[fd]) /\ ~Reported(fd)
      <3>1. m_mpSocketTask[fd] \in Tasks /\ sock[m_mpSocketTask[fd]] = fd
        BY <1>c, <1>d, <2>1 DEF MapInv, EventInv
      <3> QED BY <2>1, <3>1, <1>1, <1>2, <1>3 DEF Away
    <2>2. iSockfd \notin epoll
      BY <1>d DEF EventInv
    <2>3. ASSUME NEW t \in Tasks, Queued(t)
          PROVE  ~Running(t) /\ ~Reported(sock[t])
      BY <1>d, <2>3 DEF Queued, QueuedAt, Running, Runs, Reported, ReportedAt, ApartInv
    <2>4. ASSUME NEW t \in Tasks, Running(t)
          PROVE  ~Reported(sock[t])
      BY <1>d, <2>4 DEF Running, Runs, Reported, ReportedAt, ApartInv
    <2>5. \A w1, w2 \in Workers, t \in Tasks : Runs(w1, t) /\ Runs(w2, t) => w1 = w2
      BY <1>d DEF Runs, RunInv
    <2>6. \A w1, w2 \in Workers, t \in Tasks :
             \A k1 \in 1..Len(m_queUserQueryTask[w1]), k2 \in 1..Len(m_queUserQueryTask[w2]) :
                QueuedAt(w1, k1, t) /\ QueuedAt(w2, k2, t) => w1 = w2 /\ k1 = k2
      BY <1>d DEF QueuedAt, QueueInv
    <2>7. \A w1, w2 \in Workers, fd \in Fds :
             \A k1 \in 1..Len(m_vecTaskStauts[w1]), k2 \in 1..Len(m_vecTaskStauts[w2]) :
                ReportedAt(w1, k1, fd) /\ ReportedAt(w2, k2, fd) => w1 = w2 /\ k1 = k2
      BY <1>d DEF ReportedAt, ReportInv
    <2> QED BY <2>1, <2>2, <2>3, <2>4, <2>5, <2>6, <2>7 DEF HeldOnce
  <1>5. NoDanglingTask
    BY <1>1, <1>2, <1>c, <1>d DEF NoDanglingTask, MapInv
  <1>6. LookupNeverFails
    BY <1>c, <1>d DEF LookupNeverFails, ReportInv, EventInv, Away
  <1> QED BY <1>4, <1>5, <1>6, <1>d DEF OnePlace

LEMMA InitPlace == Init => PlaceInv
  BY DispatchAssumption DEF Init, InitServer, PlaceInv, MapInv, EventInv, QueueInv, RunInv, ReportInv,
     ApartInv, HeldSomewhere

\* A step that moves no connection.
LEMMA PlaceFrame ==
    ASSUME PlaceInv,
           UNCHANGED <<epoll, taskVars, m_queUserQueryTask, m_vecTaskStauts, pclTask, iSockfd>>,
           \A fd \in Fds : client'[fd] = "none" <=> client[fd] = "none",
           \A fd \in batch' : fd # Listen => fd \in epoll
    PROVE  PlaceInv'
  <1> USE DEF PlaceInv, taskVars, Away
  <1>1. MapInv'
    BY DEF MapInv
  <1>2. EventInv'
    BY DEF EventInv
  <1>3. QueueInv' /\ RunInv'
    BY DEF QueueInv, RunInv
  <1>4. ReportInv' /\ ApartInv'
    BY DEF ReportInv, ApartInv
  <1>5. HeldSomewhere'
    BY DEF HeldSomewhere, Queued, QueuedAt, Running, Runs, Reported, ReportedAt
  <1> QED BY <1>1, <1>2, <1>3, <1>4, <1>5

\* delete of the task of an open descriptor that is in no other place.
LEMMA DeleteTaskFact ==
    ASSUME Inv2, NEW fd \in Fds, m_mpSocketTask[fd] # NoTask, DeleteTask(fd), fd \notin epoll
    PROVE  /\ m_mpSocketTask[fd] \in Tasks
           /\ client' = [client EXCEPT ![fd] = "none"]
           /\ sock' = [sock EXCEPT ![m_mpSocketTask[fd]] = NoFd]
           /\ m_mpSocketTask' = [m_mpSocketTask EXCEPT ![fd] = NoTask]
           /\ epoll' = epoll
  <1>1. /\ m_mpSocketTask \in [Fds -> Tasks \cup {NoTask}]
        /\ MapInv
    BY DEF Inv2, Inv1, TypeOK, PlaceInv
  <1>2. m_mpSocketTask[fd] \in Tasks /\ sock[m_mpSocketTask[fd]] = fd
    BY <1>1 DEF MapInv
  <1>3. sock[m_mpSocketTask[fd]] # NoFd
    BY <1>2, DispatchAssumption
  <1> QED BY <1>2, <1>3 DEF DeleteTask, CloseFd

LEMMA PutPlace == Inv2 /\ PutTask => PlaceInv'
  <1> SUFFICES ASSUME Inv2, PutTask
               PROVE  PlaceInv'
    OBVIOUS
  <1>0. PlaceInv /\ Inv1
    BY DEF Inv2
  <1>1. CASE m_clLock[i] # "nobody"
    <2>1. /\ UNCHANGED <<epoll, taskVars, m_queUserQueryTask, m_vecTaskStauts, pclTask, iSockfd>>
          /\ UNCHANGED <<client, batch>>
      BY <1>1 DEF PutTask, netVars, taskVars, workerVars
    <2>2. \A fd \in batch' : fd # Listen => fd \in epoll
      BY <1>0, <2>1 DEF PlaceInv, EventInv
    <2> QED BY <1>0, <2>1, <2>2, PlaceFrame
  <1>2. CASE m_clLock[i] = "nobody"
    <2> DEFINE t == m_mpSocketTask[iSockfd]
               q == m_queUserQueryTask[i]
    <2>1. i \in Workers /\ iSockfd \in Fds /\ t \in Tasks
      BY <1>0, IndexFact, HandFact DEF Inv1, PutTask
    <2>2. /\ m_queUserQueryTask' = [m_queUserQueryTask EXCEPT ![i] = Append(q, t)]
          /\ iSockfd' = NoFd
          /\ UNCHANGED <<client, batch, epoll, m_mpSocketTask, sock, m_vecTaskStauts, pclTask>>
      BY <1>2 DEF PutTask, netVars, taskVars, workerVars
    <2>3. /\ epoll \in SUBSET Fds
          /\ m_mpSocketTask \in [Fds -> Tasks \cup {NoTask}]
          /\ sock \in [Tasks -> Fds \cup {NoFd}]
          /\ m_queUserQueryTask \in [Workers -> Seq(Tasks)]
          /\ pclTask \in [Workers -> Tasks \cup {NoTask}]
      BY <1>0 DEF Inv1, TypeOK
    <2>4. MapInv /\ EventInv /\ QueueInv /\ RunInv /\ ReportInv /\ ApartInv /\ HeldSomewhere
      BY <1>0 DEF PlaceInv
    <2>5. sock[t] = iSockfd
      BY <2>1, <2>4, DispatchAssumption DEF MapInv
    <2>6. /\ Len(q) \in Nat
          /\ Len(Append(q, t)) = Len(q) + 1
          /\ \A k \in 1..Len(q) : k \in 1..Len(Append(q, t)) /\ Append(q, t)[k] = q[k]
          /\ Len(q) + 1 \in 1..Len(Append(q, t)) /\ Append(q, t)[Len(q) + 1] = t
          /\ \A k \in 1..Len(Append(q, t)) : k = Len(q) + 1 \/ k \in 1..Len(q)
      BY <2>1, <2>3, AppendSlots
    <2>a. \A w \in Workers : m_queUserQueryTask'[w] =
              IF w = i THEN Append(q, t) ELSE m_queUserQueryTask[w]
      BY <2>2, <2>3
    <2> HIDE DEF t, q
    <2>b. \A w \in Workers : \A k \in 1..Len(m_queUserQueryTask'[w]) :
             \/ w = i /\ k = Len(q) + 1 /\ m_queUserQueryTask'[w][k] = t
             \/ k \in 1..Len(m_queUserQueryTask[w])
                   /\ m_queUserQueryTask'[w][k] = m_queUserQueryTask[w][k]
      BY <2>a, <2>6 DEF q
    <2>7. MapInv'
      BY <2>2, <2>4 DEF MapInv
    <2>8. EventInv'
      BY <2>2, <2>3, <2>4, DispatchAssumption DEF EventInv
    <2>c. \A w \in Workers : \A k \in 1..Len(m_queUserQueryTask[w]) :
             m_queUserQueryTask[w][k] # t
      BY <2>4, <2>5 DEF QueueInv, Away
    <2>d. \A w \in Workers : pclTask[w] # t
      BY <2>1, <2>4, <2>5, DispatchAssumption DEF RunInv, Away
    <2>e. \A w \in Workers : \A k \in 1..Len(m_vecTaskStauts[w]) :
             m_vecTaskStauts[w][k].m_iSockFd # iSockfd
      BY <2>4 DEF ReportInv, Away
    <2>9. QueueInv'
      <3>1. ASSUME NEW w \in Workers, NEW k \in 1..Len(m_queUserQueryTask'[w])
            PROVE  Away(sock[m_queUserQueryTask[w][k]])'
        <4>1. CASE k \in 1..Len(m_queUserQueryTask[w])
                      /\ m_queUserQueryTask'[w][k] = m_queUserQueryTask[w][k]
          BY <4>1, <2>2, <2>4, DispatchAssumption DEF QueueInv, Away
        <4>2. CASE m_queUserQueryTask'[w][k] = t
          BY <4>2, <2>1, <2>2, <2>3, <2>4, <2>5, DispatchAssumption DEF Away, EventInv, t
        <4> QED BY <3>1, <4>1, <4>2, <2>b
      <3>2. ASSUME NEW w1 \in Workers, NEW w2 \in Workers,
                   NEW k1 \in 1..Len(m_queUserQueryTask'[w1]),
                   NEW k2 \in 1..Len(m_queUserQueryTask'[w2]),
                   m_queUserQueryTask'[w1][k1] = m_queUserQueryTask'[w2][k2]
            PROVE  w1 = w2 /\ k1 = k2
        <4>1. \/ w1 = i /\ k1 = Len(q) + 1 /\ m_queUserQueryTask'[w1][k1] = t
              \/ k1 \in 1..Len(m_queUserQueryTask[w1])
                    /\ m_queUserQueryTask'[w1][k1] = m_queUserQueryTask[w1][k1]
          BY <3>2, <2>b
        <4>2. \/ w2 = i /\ k2 = Len(q) + 1 /\ m_queUserQueryTask'[w2][k2] = t
              \/ k2 \in 1..Len(m_queUserQueryTask[w2])
                    /\ m_queUserQueryTask'[w2][k2] = m_queUserQueryTask[w2][k2]
          BY <3>2, <2>b
        <4> QED BY <3>2, <4>1, <4>2, <2>c, <2>4 DEF QueueInv
      <3> QED BY <3>1, <3>2 DEF QueueInv
    <2>10. RunInv'
      BY <2>2, <2>4, DispatchAssumption DEF RunInv, Away
    <2>11. ReportInv'
      BY <2>2, <2>4, DispatchAssumption DEF ReportInv, Away
    <2>12. ApartInv'
      BY <2>2, <2>4, <2>5, <2>b, <2>d, <2>e DEF ApartInv
    <2>13. HeldSomewhere'
      <3> SUFFICES ASSUME NEW fd \in Fds, client[fd] # "none"
                   PROVE  \/ fd \in epoll
                          \/ Queued(m_mpSocketTask[fd])'
                          \/ Running(m_mpSocketTask[fd])
                          \/ Reported(fd)
        BY <2>2 DEF HeldSomewhere, Running, Runs, Reported, ReportedAt
      <3>1. CASE iSockfd = fd
        <4>1. /\ Len(q) + 1 \in 1..Len(m_queUserQueryTask'[i])
              /\ m_queUserQueryTask'[i][Len(q) + 1] = m_mpSocketTask'[fd]
          BY <3>1, <2>1, <2>2, <2>a, <2>6 DEF t
        <4> QED BY <2>1, <4>1 DEF Queued, QueuedAt
      <3>2. CASE Queued(m_mpSocketTask[fd])
        <4>0. PICK w \in Workers : \E k \in 1..Len(m_queUserQueryTask[w]) :
                 m_queUserQueryTask[w][k] = m_mpSocketTask[fd]
          BY <3>2 DEF Queued, QueuedAt
        <4>1. PICK k \in 1..Len(m_queUserQueryTask[w]) :
                 m_queUserQueryTask[w][k] = m_mpSocketTask[fd]
          BY <4>0
        <4>2. k \in 1..Len(m_queUserQueryTask'[w])
                /\ m_queUserQueryTask'[w][k] = m_mpSocketTask'[fd]
          BY <4>1, <2>2, <2>a, <2>6 DEF q
        <4> QED BY <4>2 DEF Queued, QueuedAt
      <3> QED BY <3>1, <3>2, <2>4 DEF HeldSomewhere
    <2> QED BY <2>7, <2>8, <2>9, <2>10, <2>11, <2>12, <2>13 DEF PlaceInv
  <1> QED BY <1>1, <1>2

LEMMA PopPlace ==
    ASSUME Inv2, NEW v \in Workers, PopTask(v)
    PROVE  PlaceInv'
  <1> DEFINE q == m_queUserQueryTask[v]
             t == Head(q)
             Old(w, k) == IF w = v THEN k + 1 ELSE k
  <1>1. /\ epoll \in SUBSET Fds
        /\ m_mpSocketTask \in [Fds -> Tasks \cup {NoTask}]
        /\ sock \in [Tasks -> Fds \cup {NoFd}]
        /\ m_queUserQueryTask \in [Workers -> Seq(Tasks)]
        /\ pclTask \in [Workers -> Tasks \cup {NoTask}]
        /\ ControlInv
    BY DEF Inv2, Inv1, TypeOK
  <1>2. MapInv /\ EventInv /\ QueueInv /\ RunInv /\ ReportInv /\ ApartInv /\ HeldSomewhere
    BY DEF Inv2, PlaceInv
  <1>3. /\ q # <<>>
        /\ m_queUserQueryTask' = [m_queUserQueryTask EXCEPT ![v] = Tail(q)]
        /\ pclTask' = [pclTask EXCEPT ![v] = t]
        /\ UNCHANGED <<client, batch, epoll, m_mpSocketTask, sock, m_vecTaskStauts, iSockfd>>
    BY DEF PopTask, netVars, taskVars, serverVars
  <1>4. pclTask[v] = NoTask
    BY <1>1 DEF PopTask, Goto, ControlInv
  <1>5. /\ Len(q) \in Nat /\ Len(q) >= 1
        /\ Len(Tail(q)) = Len(q) - 1
        /\ \A k \in 1..Len(Tail(q)) : k + 1 \in 1..Len(q) /\ Tail(q)[k] = q[k + 1]
        /\ t = q[1]
        /\ \A k \in 1..Len(q) : k # 1 => k - 1 \in 1..Len(Tail(q)) /\ Tail(q)[k - 1] = q[k]
    BY <1>1, <1>3, TailSlots
  <1>a. \A w \in Workers : m_queUserQueryTask'[w] =
            IF w = v THEN Tail(q) ELSE m_queUserQueryTask[w]
    BY <1>1, <1>3
  <1>b. \A w \in Workers : pclTask'[w] = IF w = v THEN t ELSE pclTask[w]
    BY <1>1, <1>3
  <1> HIDE DEF q, t
  <1>c. 1 \in 1..Len(m_queUserQueryTask[v]) /\ t = m_queUserQueryTask[v][1]
    BY <1>5 DEF q
  <1>d. \A w \in Workers : \A k \in 1..Len(m_queUserQueryTask'[w]) :
            /\ Old(w, k) \in 1..Len(m_queUserQueryTask[w])
            /\ w = v => Old(w, k) # 1
            /\ m_queUserQueryTask'[w][k] = m_queUserQueryTask[w][Old(w, k)]
    <2> SUFFICES ASSUME NEW w \in Workers, NEW k \in 1..Len(m_queUserQueryTask'[w])
                 PROVE  /\ Old(w, k) \in 1..Len(m_queUserQueryTask[w])
                        /\ w = v => Old(w, k) # 1
                        /\ m_queUserQueryTask'[w][k] = m_queUserQueryTask[w][Old(w, k)]
      OBVIOUS
    <2>1. CASE w = v
      <3>1. k \in 1..Len(Tail(q)) /\ m_queUserQueryTask'[w][k] = Tail(q)[k]
        BY <2>1, <1>a
      <3> QED BY <2>1, <3>1, <1>5 DEF q
    <2>2. CASE w # v
      BY <2>2, <1>a
    <2> QED BY <2>1, <2>2
  <1>e. \A w1, w2 \in Workers : \A k1, k2 \in Int :
            w1 = w2 /\ Old(w1, k1) = Old(w2, k2) => k1 = k2
    OBVIOUS
  <1> HIDE DEF Old
  <1>f. t # NoTask /\ t \in Tasks
    BY <1>1, <1>c, DispatchAssumption
  <1>6. MapInv' /\ EventInv'
    BY <1>2, <1>3 DEF MapInv, EventInv
  <1>7. QueueInv'
    <2>1. \A w \in Workers : \A k \in 1..Len(m_queUserQueryTask'[w]) :
             Away(sock[m_queUserQueryTask[w][k]])'
      <3> SUFFICES ASSUME NEW w \in Workers, NEW k \in 1..Len(m_queUserQueryTask'[w])
                   PROVE  Away(sock[m_queUserQueryTask[w][k]])'
        OBVIOUS
      <3>1. Away(sock[m_queUserQueryTask[w][Old(w, k)]])
        BY <1>2, <1>d DEF QueueInv
      <3> QED BY <3>1, <1>3, <1>d DEF Away
    <2>2. ASSUME NEW w1 \in Workers, NEW w2 \in Workers,
                 NEW k1 \in 1..Len(m_queUserQueryTask'[w1]),
                 NEW k2 \in 1..Len(m_queUserQueryTask'[w2]),
                 m_queUserQueryTask'[w1][k1] = m_queUserQueryTask'[w2][k2]
          PROVE  w1 = w2 /\ k1 = k2
      <3>a. /\ Old(w1, k1) \in 1..Len(m_queUserQueryTask[w1])
            /\ m_queUserQueryTask'[w1][k1] = m_queUserQueryTask[w1][Old(w1, k1)]
        BY <1>d
      <3>b. /\ Old(w2, k2) \in 1..Len(m_queUserQueryTask[w2])
            /\ m_queUserQueryTask'[w2][k2] = m_queUserQueryTask[w2][Old(w2, k2)]
        BY <1>d
      <3>c. m_queUserQueryTask[w1][Old(w1, k1)] = m_queUserQueryTask[w2][Old(w2, k2)]
        BY <2>2, <3>a, <3>b
      <3>d. \A j1 \in 1..Len(m_queUserQueryTask[w1]), j2 \in 1..Len(m_queUserQueryTask[w2]) :
                m_queUserQueryTask[w1][j1] = m_queUserQueryTask[w2][j2] => w1 = w2 /\ j1 = j2
        BY <1>2 DEF QueueInv
      <3>1. w1 = w2 /\ Old(w1, k1) = Old(w2, k2)
        BY <3>a, <3>b, <3>c, <3>d
      <3> QED BY <3>1, <1>e
    <2> QED BY <2>1, <2>2 DEF QueueInv
  <1>8. RunInv'
    <2>1. \A w \in Workers : pclTask'[w] # NoTask => Away(sock[pclTask[w]])'
      BY <1>2, <1>3, <1>b, <1>c DEF RunInv, QueueInv, Away
    <2>2. \A w1, w2 \in Workers :
             pclTask'[w1] # NoTask /\ pclTask'[w1] = pclTask'[w2] => w1 = w2
      BY <1>2, <1>b, <1>c DEF RunInv, ApartInv
    <2> QED BY <2>1, <2>2 DEF RunInv
  <1>9. ReportInv'
    BY <1>2, <1>3 DEF ReportInv, Away
  <1>10. ApartInv'
    <2>1. \A w1, w2 \in Workers : \A k \in 1..Len(m_queUserQueryTask'[w1]) :
             m_queUserQueryTask'[w1][k] # pclTask'[w2]
      BY <1>2, <1>b, <1>c, <1>d DEF ApartInv, QueueInv
    <2>2. ASSUME NEW w1 \in Workers, NEW w2 \in Workers,
                 NEW k1 \in 1..Len(m_queUserQueryTask'[w1]),
                 NEW k2 \in 1..Len(m_vecTaskStauts'[w2])
          PROVE  sock'[m_queUserQueryTask'[w1][k1]] # m_vecTaskStauts'[w2][k2].m_iSockFd
      <3>1. k2 \in 1..Len(m_vecTaskStauts[w2])
        BY <1>3
      <3>2. sock[m_queUserQueryTask[w1][Old(w1, k1)]] # m_vecTaskStauts[w2][k2].m_iSockFd
        BY <3>1, <1>2, <1>d DEF ApartInv
      <3> QED BY <3>2, <1>3, <1>d
    <2>3. ASSUME NEW w1 \in Workers, NEW w2 \in Workers,
                 NEW k \in 1..Len(m_vecTaskStauts'[w2]), pclTask'[w1] # NoTask
          PROVE  sock'[pclTask'[w1]] # m_vecTaskStauts'[w2][k].m_iSockFd
      BY <2>3, <1>2, <1>3, <1>b, <1>c DEF ApartInv
    <2> QED BY <2>1, <2>2, <2>3 DEF ApartInv
  <1>11. HeldSomewhere'
    <2> SUFFICES ASSUME NEW fd \in Fds, client[fd] # "none"
                 PROVE  \/ fd \in epoll
                        \/ iSockfd = fd
                        \/ Queued(m_mpSocketTask[fd])'
                        \/ Running(m_mpSocketTask[fd])'
                        \/ Reported(fd)
      BY <1>3 DEF HeldSomewhere, Reported, ReportedAt
    <2>1. CASE Queued(m_mpSocketTask[fd])
      <3>0. PICK w \in Workers : \E k \in 1..Len(m_queUserQueryTask[w]) :
               m_queUserQueryTask[w][k] = m_mpSocketTask[fd]
        BY <2>1 DEF Queued, QueuedAt
      <3>1. PICK k \in 1..Len(m_queUserQueryTask[w]) :
               m_queUserQueryTask[w][k] = m_mpSocketTask[fd]
        BY <3>0
      <3>2. CASE w = v /\ k = 1
        BY <3>1, <3>2, <1>3, <1>b, <1>c DEF Running, Runs
      <3>3. CASE w = v /\ k # 1
        <4>1. k - 1 \in 1..Len(m_queUserQueryTask'[w])
                /\ m_queUserQueryTask'[w][k - 1] = m_mpSocketTask'[fd]
          <5>1. k \in 1..Len(q) /\ k # 1 /\ q[k] = m_mpSocketTask[fd]
            BY <3>1, <3>3 DEF q
          <5>2. k - 1 \in 1..Len(Tail(q)) /\ Tail(q)[k - 1] = q[k]
            BY <5>1, <1>5
          <5>3. m_queUserQueryTask'[w] = Tail(q) /\ m_mpSocketTask'[fd] = m_mpSocketTask[fd]
            BY <3>3, <1>3, <1>a
          <5> QED BY <5>1, <5>2, <5>3
        <4> QED BY <4>1 DEF Queued, QueuedAt
      <3>4. CASE w # v
        <4>1. k \in 1..Len(m_queUserQueryTask'[w])
                /\ m_queUserQueryTask'[w][k] = m_mpSocketTask'[fd]
          BY <3>1, <3>4, <1>3, <1>a
        <4> QED BY <4>1 DEF Queued, QueuedAt
      <3> QED BY <3>2, <3>3, <3>4
    <2>2. CASE Running(m_mpSocketTask[fd])
      <3>1. PICK w \in Workers : pclTask[w] = m_mpSocketTask[fd]
        BY <2>2 DEF Running, Runs
      <3>2. m_mpSocketTask[fd] # NoTask
        BY <1>2 DEF MapInv
      <3> QED BY <3>1, <3>2, <1>3, <1>4, <1>b DEF Running, Runs
    <2> QED BY <2>1, <2>2, <1>2 DEF HeldSomewhere
  <1> QED BY <1>6, <1>7, <1>8, <1>9, <1>10, <1>11 DEF PlaceInv

LEMMA ReportPlace ==
    ASSUME Inv2, NEW v \in Workers, ReportStatus(v)
    PROVE  PlaceInv'
  <1> DEFINE s == m_vecTaskStauts[v]
             t == pclTask[v]
             st == [m_iSockFd |-> sock[t], m_bStatus |-> iRes[v]]
  <1>1. /\ epoll \in SUBSET Fds
        /\ m_mpSocketTask \in [Fds -> Tasks \cup {NoTask}]
        /\ sock \in [Tasks -> Fds \cup {NoFd}]
        /\ m_vecTaskStauts \in [Workers -> Seq(TaskStatus)]
        /\ pclTask \in [Workers -> Tasks \cup {NoTask}]
        /\ iRes \in [Workers -> BOOLEAN]
        /\ ControlInv
    BY DEF Inv2, Inv1, TypeOK
  <1>2. MapInv /\ EventInv /\ QueueInv /\ RunInv /\ ReportInv /\ ApartInv /\ HeldSomewhere
    BY DEF Inv2, PlaceInv
  <1>3. /\ m_vecTaskStauts' = [m_vecTaskStauts EXCEPT ![v] = Append(s, st)]
        /\ pclTask' = [pclTask EXCEPT ![v] = NoTask]
        /\ UNCHANGED <<client, batch, epoll, m_mpSocketTask, sock, m_queUserQueryTask, iSockfd>>
    BY DEF ReportStatus, netVars, taskVars, serverVars
  <1>4. t # NoTask
    BY <1>1 DEF ReportStatus, Goto, ControlInv
  <1>5. st \in TaskStatus /\ st.m_iSockFd = sock[t]
    BY <1>1 DEF ReportStatus, TaskStatus
  <1>6. /\ Len(s) \in Nat
        /\ Len(Append(s, st)) = Len(s) + 1
        /\ \A k \in 1..Len(s) : k \in 1..Len(Append(s, st)) /\ Append(s, st)[k] = s[k]
        /\ Len(s) + 1 \in 1..Len(Append(s, st)) /\ Append(s, st)[Len(s) + 1] = st
        /\ \A k \in 1..Len(Append(s, st)) : k = Len(s) + 1 \/ k \in 1..Len(s)
    BY <1>1, <1>5, AppendSlots
  <1>a. \A w \in Workers : m_vecTaskStauts'[w] =
            IF w = v THEN Append(s, st) ELSE m_vecTaskStauts[w]
    BY <1>1, <1>3
  <1>b. \A w \in Workers : pclTask'[w] = IF w = v THEN NoTask ELSE pclTask[w]
    BY <1>1, <1>3
  <1> HIDE DEF s, st
  <1>c. \A w \in Workers : \A k \in 1..Len(m_vecTaskStauts'[w]) :
           \/ w = v /\ k = Len(s) + 1 /\ m_vecTaskStauts'[w][k].m_iSockFd = sock[t]
           \/ k \in 1..Len(m_vecTaskStauts[w])
                 /\ m_vecTaskStauts'[w][k] = m_vecTaskStauts[w][k]
    BY <1>a, <1>5, <1>6 DEF s
  <1>7. MapInv' /\ EventInv'
    BY <1>2, <1>3 DEF MapInv, EventInv
  <1>8. QueueInv'
    BY <1>2, <1>3 DEF QueueInv, Away
  <1>9. RunInv'
    BY <1>2, <1>3, <1>b DEF RunInv, Away
  <1>10. ReportInv'
    <2>1. ASSUME NEW w \in Workers, NEW k \in 1..Len(m_vecTaskStauts'[w])
          PROVE  Away(m_vecTaskStauts[w][k].m_iSockFd)'
      <3>1. Away(sock[t])
        BY <1>2, <1>4 DEF RunInv
      <3>2. Away(m_vecTaskStauts'[w][k].m_iSockFd)
        BY <3>1, <1>c, <1>2 DEF ReportInv
      <3> QED BY <3>2, <1>3 DEF Away
    <2>2. ASSUME NEW w1 \in Workers, NEW w2 \in Workers,
                 NEW k1 \in 1..Len(m_vecTaskStauts'[w1]),
                 NEW k2 \in 1..Len(m_vecTaskStauts'[w2]),
                 m_vecTaskStauts'[w1][k1].m_iSockFd = m_vecTaskStauts'[w2][k2].m_iSockFd
          PROVE  w1 = w2 /\ k1 = k2
      <3>1. \/ w1 = v /\ k1 = Len(s) + 1 /\ m_vecTaskStauts'[w1][k1].m_iSockFd = sock[t]
            \/ k1 \in 1..Len(m_vecTaskStauts[w1])
                  /\ m_vecTaskStauts'[w1][k1] = m_vecTaskStauts[w1][k1]
        BY <1>c
      <3>2. \/ w2 = v /\ k2 = Len(s) + 1 /\ m_vecTaskStauts'[w2][k2].m_iSockFd = sock[t]
            \/ k2 \in 1..Len(m_vecTaskStauts[w2])
                  /\ m_vecTaskStauts'[w2][k2] = m_vecTaskStauts[w2][k2]
        BY <1>c
      <3>3. \A w \in Workers : \A k \in 1..Len(m_vecTaskStauts[w]) :
               m_vecTaskStauts[w][k].m_iSockFd # sock[t]
        BY <1>2, <1>4 DEF ApartInv
      <3>4. CASE k1 \in 1..Len(m_vecTaskStauts[w1]) /\ k2 \in 1..Len(m_vecTaskStauts[w2])
                  /\ m_vecTaskStauts'[w1][k1] = m_vecTaskStauts[w1][k1]
                  /\ m_vecTaskStauts'[w2][k2] = m_vecTaskStauts[w2][k2]
        <4>1. m_vecTaskStauts[w1][k1].m_iSockFd = m_vecTaskStauts[w2][k2].m_iSockFd
          BY <2>2, <3>4
        <4> QED BY <3>4, <4>1, <1>2 DEF ReportInv
      <3> QED BY <2>2, <3>1, <3>2, <3>3, <3>4
    <2> QED BY <2>1, <2>2 DEF ReportInv
  <1>11. ApartInv'
    <2>1. \A w1, w2 \in Workers : \A k \in 1..Len(m_queUserQueryTask'[w1]) :
             m_queUserQueryTask'[w1][k] # pclTask'[w2]
      <3>1. \A w \in Workers : \A k \in 1..Len(m_queUserQueryTask[w]) :
               m_queUserQueryTask[w][k] # NoTask
        BY DispatchAssumption DEF Inv2, Inv1, TypeOK
      <3> QED BY <3>1, <1>2, <1>3, <1>b DEF ApartInv
    <2>2. ASSUME NEW w1 \in Workers, NEW w2 \in Workers,
                 NEW k1 \in 1..Len(m_queUserQueryTask'[w1]),
                 NEW k2 \in 1..Len(m_vecTaskStauts'[w2])
          PROVE  sock'[m_queUserQueryTask'[w1][k1]] # m_vecTaskStauts'[w2][k2].m_iSockFd
      <3>0. k1 \in 1..Len(m_queUserQueryTask[w1])
        BY <1>3
      <3>1. CASE m_vecTaskStauts'[w2][k2].m_iSockFd = sock[t]
        <4>1. Away(sock[m_queUserQueryTask[w1][k1]]) /\ Away(sock[t])
          BY <3>0, <1>2, <1>4 DEF QueueInv, RunInv
        <4>2. m_queUserQueryTask[w1][k1] \in Tasks /\ t \in Tasks
          BY <3>0, <1>1, <1>4 DEF Inv2, Inv1, TypeOK
        <4>3. m_queUserQueryTask[w1][k1] # t
          BY <3>0, <1>2 DEF ApartInv
        <4> QED BY <3>1, <4>1, <4>2, <4>3, <1>2, <1>3, DispatchAssumption DEF MapInv, Away
      <3>2. CASE k2 \in 1..Len(m_vecTaskStauts[w2])
                   /\ m_vecTaskStauts'[w2][k2] = m_vecTaskStauts[w2][k2]
        BY <3>0, <3>2, <1>2, <1>3 DEF ApartInv
      <3> QED BY <3>1, <3>2, <1>c
    <2>3. ASSUME NEW w1 \in Workers, NEW w2 \in Workers,
                 NEW k \in 1..Len(m_vecTaskStauts'[w2]), pclTask'[w1] # NoTask
          PROVE  sock'[pclTask'[w1]] # m_vecTaskStauts'[w2][k].m_iSockFd
      <3>0. w1 # v /\ pclTask'[w1] = pclTask[w1] /\ pclTask[w1] # NoTask
        BY <2>3, <1>b
      <3>1. CASE m_vecTaskStauts'[w2][k].m_iSockFd = sock[t]
        <4>1. Away(sock[pclTask[w1]]) /\ Away(sock[t])
          BY <3>0, <1>2, <1>4 DEF RunInv
        <4>2. pclTask[w1] # t
          BY <3>0, <1>2, <1>4 DEF RunInv
        <4>3. pclTask[w1] \in Tasks /\ t \in Tasks
          BY <3>0, <1>1, <1>4
        <4> QED BY <3>0, <3>1, <4>1, <4>2, <4>3, <1>2, <1>3, DispatchAssumption
               DEF MapInv, Away
      <3>2. CASE k \in 1..Len(m_vecTaskStauts[w2])
                   /\ m_vecTaskStauts'[w2][k] = m_vecTaskStauts[w2][k]
        BY <3>0, <3>2, <1>2, <1>3 DEF ApartInv
      <3> QED BY <3>1, <3>2, <1>c
    <2> QED BY <2>1, <2>2, <2>3 DEF ApartInv
  <1>12. HeldSomewhere'
    <2> SUFFICES ASSUME NEW fd \in Fds, client[fd] # "none"
                 PROVE  \/ fd \in epoll
                        \/ iSockfd = fd
                        \/ Queued(m_mpSocketTask[fd])
                        \/ Running(m_mpSocketTask[fd])'
                        \/ Reported(fd)'
      BY <1>3 DEF HeldSomewhere, Queued, QueuedAt
    <2>1. CASE Running(m_mpSocketTask[fd])
      <3>1. PICK w \in Workers : pclTask[w] = m_mpSocketTask[fd]
        BY <2>1 DEF Running, Runs
      <3>2. CASE w # v
        BY <3>1, <3>2, <1>3, <1>b DEF Running, Runs
      <3>3. CASE w = v
        <4>1. sock[t] = fd
          BY <3>1, <3>3, <1>2 DEF MapInv
        <4>2. Len(s) + 1 \in 1..Len(m_vecTaskStauts'[v])
                /\ m_vecTaskStauts'[v][Len(s) + 1].m_iSockFd = fd
          BY <4>1, <1>a, <1>5, <1>6
        <4> QED BY <4>2 DEF Reported, ReportedAt
      <3> QED BY <3>2, <3>3
    <2>2. CASE Reported(fd)
      <3>0. PICK w \in Workers : \E k \in 1..Len(m_vecTaskStauts[w]) :
               m_vecTaskStauts[w][k].m_iSockFd = fd
        BY <2>2 DEF Reported, ReportedAt
      <3>1. PICK k \in 1..Len(m_vecTaskStauts[w]) : m_vecTaskStauts[w][k].m_iSockFd = fd
        BY <3>0
      <3>2. k \in 1..Len(m_vecTaskStauts'[w]) /\ m_vecTaskStauts'[w][k].m_iSockFd = fd
        BY <3>1, <1>a, <1>6 DEF s
      <3> QED BY <3>2 DEF Reported, ReportedAt
    <2> QED BY <2>1, <2>2, <1>2 DEF HeldSomewhere
  <1> QED BY <1>7, <1>8, <1>9, <1>10, <1>11, <1>12 DEF PlaceInv

-----------------------------------------------------------------------------
\* After the step, the status queues hold what they held before except fd.
StatusesLeft(fd) ==
    /\ \A w \in Workers : \A k \in 1..Len(m_vecTaskStauts'[w]) :
          /\ Away(m_vecTaskStauts'[w][k].m_iSockFd)
          /\ m_vecTaskStauts'[w][k].m_iSockFd # fd
    /\ \A w1, w2 \in Workers :
          \A k1 \in 1..Len(m_vecTaskStauts'[w1]), k2 \in 1..Len(m_vecTaskStauts'[w2]) :
             m_vecTaskStauts'[w1][k1].m_iSockFd = m_vecTaskStauts'[w2][k2].m_iSockFd
                => w1 = w2 /\ k1 = k2
    /\ \A w1, w2 \in Workers :
          \A k1 \in 1..Len(m_queUserQueryTask[w1]), k2 \in 1..Len(m_vecTaskStauts'[w2]) :
             sock[m_queUserQueryTask[w1][k1]] # m_vecTaskStauts'[w2][k2].m_iSockFd
    /\ \A w1, w2 \in Workers : \A k \in 1..Len(m_vecTaskStauts'[w2]) :
          pclTask[w1] # NoTask => sock[pclTask[w1]] # m_vecTaskStauts'[w2][k].m_iSockFd
    /\ \A x \in Fds : x # fd /\ Reported(x) =>
          \E w \in Workers : \E k \in 1..Len(m_vecTaskStauts'[w]) :
             m_vecTaskStauts'[w][k].m_iSockFd = x

\* No worker has, or will have, a task on fd.
WithoutWorker(fd) ==
    /\ \A w \in Workers : \A k \in 1..Len(m_queUserQueryTask[w]) :
          sock[m_queUserQueryTask[w][k]] # fd
    /\ \A w \in Workers : pclTask[w] # NoTask => sock[pclTask[w]] # fd

LEMMA PopStatus ==
    ASSUME Inv2, i \in Workers, m_vecTaskStauts[i] # <<>>,
           m_vecTaskStauts' = [m_vecTaskStauts EXCEPT ![i] = Tail(@)]
    PROVE  LET fd == Head(m_vecTaskStauts[i]).m_iSockFd
           IN  StatusesLeft(fd) /\ WithoutWorker(fd) /\ Away(fd)
  <1> DEFINE s == m_vecTaskStauts[i]
             fd == Head(s).m_iSockFd
             Old(w, k) == IF w = i THEN k + 1 ELSE k
  <1>1. m_vecTaskStauts \in [Workers -> Seq(TaskStatus)]
    BY DEF Inv2, Inv1, TypeOK
  <1>2. MapInv /\ EventInv /\ QueueInv /\ RunInv /\ ReportInv /\ ApartInv /\ HeldSomewhere
    BY DEF Inv2, PlaceInv
  <1>3. /\ Len(s) \in Nat /\ Len(s) >= 1
        /\ Len(Tail(s)) = Len(s) - 1
        /\ \A k \in 1..Len(Tail(s)) : k + 1 \in 1..Len(s) /\ Tail(s)[k] = s[k + 1]
        /\ Head(s) = s[1]
        /\ \A k \in 1..Len(s) : k # 1 => k - 1 \in 1..Len(Tail(s)) /\ Tail(s)[k - 1] = s[k]
    BY <1>1, TailSlots
  <1>a. \A w \in Workers : m_vecTaskStauts'[w] =
            IF w = i THEN Tail(s) ELSE m_vecTaskStauts[w]
    BY <1>1
  <1> HIDE DEF s
  <1>c. 1 \in 1..Len(m_vecTaskStauts[i]) /\ fd = m_vecTaskStauts[i][1].m_iSockFd
    BY <1>3 DEF s
  <1> HIDE DEF fd
  <1>d. \A w \in Workers : \A k \in 1..Len(m_vecTaskStauts'[w]) :
            /\ Old(w, k) \in 1..Len(m_vecTaskStauts[w])
            /\ w = i => Old(w, k) # 1
            /\ m_vecTaskStauts'[w][k] = m_vecTaskStauts[w][Old(w, k)]
    <2> SUFFICES ASSUME NEW w \in Workers, NEW k \in 1..Len(m_vecTaskStauts'[w])
                 PROVE  /\ Old(w, k) \in 1..Len(m_vecTaskStauts[w])
                        /\ w = i => Old(w, k) # 1
                        /\ m_vecTaskStauts'[w][k] = m_vecTaskStauts[w][Old(w, k)]
      OBVIOUS
    <2>1. CASE w = i
      <3>1. k \in 1..Len(Tail(s)) /\ m_vecTaskStauts'[w][k] = Tail(s)[k]
        BY <2>1, <1>a
      <3> QED BY <2>1, <3>1, <1>3 DEF s
    <2>2. CASE w # i
      BY <2>2, <1>a
    <2> QED BY <2>1, <2>2
  <1>e. \A w1, w2 \in Workers : \A k1, k2 \in Int :
            w1 = w2 /\ Old(w1, k1) = Old(w2, k2) => k1 = k2
    OBVIOUS
  <1> HIDE DEF Old
  <1>4. Away(fd) /\ WithoutWorker(fd)
    BY <1>2, <1>c DEF ReportInv, ApartInv, WithoutWorker
  <1>5. \A w \in Workers : \A k \in 1..Len(m_vecTaskStauts'[w]) :
          /\ Away(m_vecTaskStauts'[w][k].m_iSockFd)
          /\ m_vecTaskStauts'[w][k].m_iSockFd # fd
    BY <1>2, <1>c, <1>d DEF ReportInv
  <1>6. ASSUME NEW w1 \in Workers, NEW w2 \in Workers,
               NEW k1 \in 1..Len(m_vecTaskStauts'[w1]),
               NEW k2 \in 1..Len(m_vecTaskStauts'[w2]),
               m_vecTaskStauts'[w1][k1].m_iSockFd = m_vecTaskStauts'[w2][k2].m_iSockFd
        PROVE  w1 = w2 /\ k1 = k2
    <2>a. /\ Old(w1, k1) \in 1..Len(m_vecTaskStauts[w1])
          /\ m_vecTaskStauts'[w1][k1] = m_vecTaskStauts[w1][Old(w1, k1)]
      BY <1>d
    <2>b. /\ Old(w2, k2) \in 1..Len(m_vecTaskStauts[w2])
          /\ m_vecTaskStauts'[w2][k2] = m_vecTaskStauts[w2][Old(w2, k2)]
      BY <1>d
    <2>c. \A j1 \in 1..Len(m_vecTaskStauts[w1]), j2 \in 1..Len(m_vecTaskStauts[w2]) :
              m_vecTaskStauts[w1][j1].m_iSockFd = m_vecTaskStauts[w2][j2].m_iSockFd
                 => w1 = w2 /\ j1 = j2
      BY <1>2 DEF ReportInv
    <2>1. w1 = w2 /\ Old(w1, k1) = Old(w2, k2)
      BY <1>6, <2>a, <2>b, <2>c
    <2> QED BY <2>1, <1>e
  <1>7. ASSUME NEW w1 \in Workers, NEW w2 \in Workers,
               NEW k1 \in 1..Len(m_queUserQueryTask[w1]),
               NEW k2 \in 1..Len(m_vecTaskStauts'[w2])
        PROVE  sock[m_queUserQueryTask[w1][k1]] # m_vecTaskStauts'[w2][k2].m_iSockFd
    BY <1>2, <1>d DEF ApartInv
  <1>8. ASSUME NEW w1 \in Workers, NEW w2 \in Workers,
               NEW k \in 1..Len(m_vecTaskStauts'[w2]), pclTask[w1] # NoTask
        PROVE  sock[pclTask[w1]] # m_vecTaskStauts'[w2][k].m_iSockFd
    BY <1>8, <1>2, <1>d DEF ApartInv
  <1>9. ASSUME NEW x \in Fds, x # fd, Reported(x)
        PROVE  \E w \in Workers : \E k \in 1..Len(m_vecTaskStauts'[w]) :
                  m_vecTaskStauts'[w][k].m_iSockFd = x
    <2>0. PICK w \in Workers : \E k \in 1..Len(m_vecTaskStauts[w]) :
             m_vecTaskStauts[w][k].m_iSockFd = x
      BY <1>9 DEF Reported, ReportedAt
    <2>1. PICK k \in 1..Len(m_vecTaskStauts[w]) : m_vecTaskStauts[w][k].m_iSockFd = x
      BY <2>0
    <2>2. CASE w = i
      <3>1. k # 1
        BY <1>9, <1>c, <2>1, <2>2
      <3>2. k - 1 \in 1..Len(m_vecTaskStauts'[w])
              /\ m_vecTaskStauts'[w][k - 1].m_iSockFd = x
        <4>1. k \in 1..Len(s) /\ s[k].m_iSockFd = x
          BY <2>1, <2>2 DEF s
        <4>2. k - 1 \in 1..Len(Tail(s)) /\ Tail(s)[k - 1] = s[k]
          BY <4>1, <3>1, <1>3
        <4>3. m_vecTaskStauts'[w] = Tail(s)
          BY <2>2, <1>a
        <4> QED BY <4>1, <4>2, <4>3
      <3> QED BY <3>2
    <2>3. CASE w # i
      <3>1. k \in 1..Len(m_vecTaskStauts'[w]) /\ m_vecTaskStauts'[w][k].m_iSockFd = x
        BY <2>1, <2>3, <1>a
      <3> QED BY <3>1
    <2> QED BY <2>2, <2>3
  <1>10. StatusesLeft(fd)
    BY <1>5, <1>6, <1>7, <1>8, <1>9 DEF StatusesLeft
  <1> QED BY <1>4, <1>10 DEF fd, s

\* The task of fd is deleted: BdxServerGetFreeTask after a failure and
\* BdxServerReadEvent when no worker is free.
LEMMA DeletePlace ==
    ASSUME Inv2, NEW fd \in Fds, Away(fd) \/ fd = iSockfd, DeleteTask(fd),
           StatusesLeft(fd), WithoutWorker(fd),
           iSockfd' = NoFd, iSockfd \in {NoFd, fd},
           UNCHANGED <<batch, m_queUserQueryTask, pclTask>>
    PROVE  PlaceInv'
  <1> DEFINE t == m_mpSocketTask[fd]
  <1>1. /\ epoll \in SUBSET Fds
        /\ client \in [Fds -> PeerStates]
        /\ m_mpSocketTask \in [Fds -> Tasks \cup {NoTask}]
        /\ sock \in [Tasks -> Fds \cup {NoFd}]
        /\ m_queUserQueryTask \in [Workers -> Seq(Tasks)]
        /\ pclTask \in [Workers -> Tasks \cup {NoTask}]
        /\ iSockfd \in Fds => t # NoTask \/ fd # iSockfd
    BY DispatchAssumption DEF Inv2, Inv1, TypeOK, ControlInv
  <1>2. MapInv /\ EventInv /\ QueueInv /\ RunInv /\ HeldSomewhere /\ ApartInv
    BY DEF Inv2, PlaceInv
  <1>3. t # NoTask /\ fd \notin epoll
    BY <1>1, <1>2 DEF Away, EventInv
  <1>4. /\ t \in Tasks
        /\ client' = [client EXCEPT ![fd] = "none"]
        /\ sock' = [sock EXCEPT ![t] = NoFd]
        /\ m_mpSocketTask' = [m_mpSocketTask EXCEPT ![fd] = NoTask]
        /\ epoll' = epoll
    BY <1>3, DeleteTaskFact
  <1>5. sock[t] = fd
    BY <1>2, <1>3 DEF MapInv
  <1>6. \A x \in Fds : x # fd => client'[x] = client[x] /\ m_mpSocketTask'[x] = m_mpSocketTask[x]
    BY <1>1, <1>4
  <1>7. client'[fd] = "none" /\ m_mpSocketTask'[fd] = NoTask
    BY <1>1, <1>4
  <1>8. sock'[t] = NoFd /\ \A u \in Tasks : u # t => sock'[u] = sock[u]
    BY <1>1, <1>4
  <1>a. \A x : Away(x) /\ x # fd => Away(x)'
    BY <1>4, <1>6, DispatchAssumption DEF Away
  <1>b. \A w \in Workers : \A k \in 1..Len(m_queUserQueryTask[w]) :
           sock'[m_queUserQueryTask[w][k]] = sock[m_queUserQueryTask[w][k]]
    <2> TAKE w \in Workers
    <2> TAKE k \in 1..Len(m_queUserQueryTask[w])
    <2>1. m_queUserQueryTask[w][k] \in Tasks
      BY <1>1
    <2>2. m_queUserQueryTask[w][k] # t
      BY <1>5 DEF WithoutWorker
    <2> QED BY <2>1, <2>2, <1>8
  <1>c. \A w \in Workers : pclTask[w] # NoTask => sock'[pclTask[w]] = sock[pclTask[w]]
    BY <1>1, <1>5, <1>8 DEF WithoutWorker
  <1> HIDE DEF t
  <1>9. MapInv'
    <2>1. \A x \in Fds : client'[x] = "none" <=> m_mpSocketTask'[x] = NoTask
      BY <1>2, <1>6, <1>7 DEF MapInv
    <2>2. ASSUME NEW x \in Fds, m_mpSocketTask'[x] # NoTask
          PROVE  sock'[m_mpSocketTask'[x]] = x
      <3>1. x # fd /\ m_mpSocketTask'[x] = m_mpSocketTask[x] /\ sock[m_mpSocketTask[x]] = x
        BY <2>2, <1>2, <1>6, <1>7 DEF MapInv
      <3>2. m_mpSocketTask[x] \in Tasks /\ m_mpSocketTask[x] # t
        BY <2>2, <3>1, <1>1, <1>5
      <3> QED BY <3>1, <3>2, <1>8
    <2>3. ASSUME NEW u \in Tasks, sock'[u] # NoFd
          PROVE  m_mpSocketTask'[sock'[u]] = u
      <3>1. u # t /\ sock'[u] = sock[u]
        BY <2>3, <1>8
      <3>2. sock[u] \in Fds /\ m_mpSocketTask[sock[u]] = u
        BY <2>3, <3>1, <1>1, <1>2 DEF MapInv
      <3>3. sock[u] # fd
        BY <3>1, <3>2 DEF t
      <3> QED BY <3>1, <3>2, <3>3, <1>6
    <2> QED BY <2>1, <2>2, <2>3 DEF MapInv
  <1>10. EventInv'
    BY <1>1, <1>2, <1>3, <1>4, <1>6, DispatchAssumption DEF EventInv
  <1>11. QueueInv'
    <2>1. ASSUME NEW w \in Workers, NEW k \in 1..Len(m_queUserQueryTask'[w])
          PROVE  Away(sock[m_queUserQueryTask[w][k]])'
      <3>1. Away(sock[m_queUserQueryTask[w][k]])
        BY <1>2 DEF QueueInv
      <3>2. sock[m_queUserQueryTask[w][k]] # fd
        BY DEF WithoutWorker
      <3> QED BY <3>1, <3>2, <1>a, <1>b DEF Away
    <2> QED BY <2>1, <1>2 DEF QueueInv
  <1>12. RunInv'
    <2>1. ASSUME NEW w \in Workers, pclTask'[w] # NoTask
          PROVE  Away(sock[pclTask[w]])'
      <3>1. Away(sock[pclTask[w]]) /\ sock[pclTask[w]] # fd
        BY <2>1, <1>2 DEF RunInv, WithoutWorker
      <3> QED BY <2>1, <3>1, <1>a, <1>c DEF Away
    <2> QED BY <2>1, <1>2 DEF RunInv
  <1>13. ReportInv'
    BY <1>a DEF ReportInv, StatusesLeft, Away
  <1>14. ApartInv'
    <2>1. \A w1, w2 \in Workers : \A k \in 1..Len(m_queUserQueryTask'[w1]) :
             m_queUserQueryTask'[w1][k] # pclTask'[w2]
      BY <1>2 DEF ApartInv
    <2>2. ASSUME NEW w1 \in Workers, NEW w2 \in Workers,
                 NEW k1 \in 1..Len(m_queUserQueryTask'[w1]),
                 NEW k2 \in 1..Len(m_vecTaskStauts'[w2])
          PROVE  sock'[m_queUserQueryTask'[w1][k1]] # m_vecTaskStauts'[w2][k2].m_iSockFd
      BY <1>b DEF StatusesLeft
    <2>3. ASSUME NEW w1 \in Workers, NEW w2 \in Workers,
                 NEW k \in 1..Len(m_vecTaskStauts'[w2]), pclTask'[w1] # NoTask
          PROVE  sock'[pclTask'[w1]] # m_vecTaskStauts'[w2][k].m_iSockFd
      BY <2>3, <1>c DEF StatusesLeft
    <2> QED BY <2>1, <2>2, <2>3 DEF ApartInv
  <1>15. HeldSomewhere'
    <2> SUFFICES ASSUME NEW x \in Fds, client'[x] # "none"
                 PROVE  \/ x \in epoll'
                        \/ Queued(m_mpSocketTask[x])'
                        \/ Running(m_mpSocketTask[x])'
                        \/ Reported(x)'
      BY DEF HeldSomewhere
    <2>1. x # fd /\ client[x] # "none" /\ m_mpSocketTask'[x] = m_mpSocketTask[x]
      BY <1>6, <1>7
    <2>2. x # iSockfd
      BY <2>1, DispatchAssumption
    <2>3. CASE x \in epoll
      BY <2>3, <1>4
    <2>4. CASE Queued(m_mpSocketTask[x])
      BY <2>4, <2>1 DEF Queued, QueuedAt
    <2>5. CASE Running(m_mpSocketTask[x])
      BY <2>5, <2>1 DEF Running, Runs
    <2>6. CASE Reported(x)
      BY <2>6, <2>1 DEF StatusesLeft, Reported, ReportedAt
    <2> QED BY <2>1, <2>2, <2>3, <2>4, <2>5, <2>6, <1>2 DEF HeldSomewhere
  <1> QED BY <1>9, <1>10, <1>11, <1>12, <1>13, <1>14, <1>15 DEF PlaceInv

\* EPOLL_CTL_ADD of a descriptor a worker has given back.
LEMMA RearmPlace ==
    ASSUME Inv2, NEW fd \in Fds, Away(fd), StatusesLeft(fd), WithoutWorker(fd),
           epoll' = epoll \cup {fd},
           UNCHANGED <<client, batch, m_mpSocketTask, sock, m_queUserQueryTask, pclTask, iSockfd>>
    PROVE  PlaceInv'
  <1>1. MapInv /\ EventInv /\ QueueInv /\ RunInv /\ HeldSomewhere /\ ApartInv
    BY DEF Inv2, PlaceInv
  <1>2. \A x : Away(x) /\ x # fd => Away(x)'
    BY DEF Away
  <1>3. MapInv'
    BY <1>1 DEF MapInv
  <1>4. EventInv'
    BY <1>1 DEF EventInv, Away
  <1>5. QueueInv'
    BY <1>1, <1>2 DEF QueueInv, WithoutWorker, Away
  <1>6. RunInv'
    BY <1>1, <1>2 DEF RunInv, WithoutWorker, Away
  <1>7. ReportInv'
    BY <1>2 DEF ReportInv, StatusesLeft, Away
  <1>8. ApartInv'
    BY <1>1 DEF ApartInv, StatusesLeft
  <1>9. HeldSomewhere'
    <2> SUFFICES ASSUME NEW x \in Fds, client[x] # "none", x # fd
                 PROVE  \/ x \in epoll'
                        \/ iSockfd = x
                        \/ Queued(m_mpSocketTask[x])'
                        \/ Running(m_mpSocketTask[x])'
                        \/ Reported(x)'
      BY DEF HeldSomewhere
    <2>1. CASE Queued(m_mpSocketTask[x])
      BY <2>1 DEF Queued, QueuedAt
    <2>2. CASE Running(m_mpSocketTask[x])
      BY <2>2 DEF Running, Runs
    <2>3. CASE Reported(x)
      BY <2>3 DEF StatusesLeft, Reported, ReportedAt
    <2> QED BY <2>1, <2>2, <2>3, <1>1 DEF HeldSomewhere
  <1> QED BY <1>3, <1>4, <1>5, <1>6, <1>7, <1>8, <1>9 DEF PlaceInv

LEMMA GetFreePlace == Inv2 /\ GetFreeTask => PlaceInv'
  <1> SUFFICES ASSUME Inv2, GetFreeTask
               PROVE  PlaceInv'
    OBVIOUS
  <1> DEFINE st == Head(m_vecTaskStauts[i])
             fd == st.m_iSockFd
  <1>1. i \in Workers /\ m_vecTaskStauts[i] # <<>> /\ iSockfd = NoFd
    BY IndexFact DEF Inv2, Inv1, ControlInv, GetFreeTask
  <1>2. m_vecTaskStauts' = [m_vecTaskStauts EXCEPT ![i] = Tail(@)]
    BY DEF GetFreeTask
  <1>3. StatusesLeft(fd) /\ WithoutWorker(fd) /\ Away(fd)
    BY <1>1, <1>2, PopStatus
  <1>4. UNCHANGED <<batch, m_queUserQueryTask, pclTask, iSockfd>>
    BY DEF GetFreeTask, serverVars, workerVars
  <1>5. fd \in Fds /\ m_mpSocketTask[fd] # NoTask
    BY <1>3 DEF Away
  <1>6. CASE DeleteTask(fd)
    <2> HIDE DEF fd
    <2> QED BY <1>1, <1>3, <1>4, <1>5, <1>6, DeletePlace
  <1>7. CASE EpollRearm(fd) /\ UNCHANGED <<client, inbox, taskVars>>
    <2>1. epoll' = epoll \cup {fd} /\ UNCHANGED <<client, m_mpSocketTask, sock>>
      BY <1>7 DEF EpollRearm, taskVars
    <2> HIDE DEF fd
    <2> QED BY <1>3, <1>4, <1>5, <2>1, RearmPlace
  <1> QED BY <1>5, <1>6, <1>7 DEF GetFreeTask

LEMMA NoFreePlace == Inv2 /\ NoFreeThread => PlaceInv'
  <1> SUFFICES ASSUME Inv2, NoFreeThread
               PROVE  PlaceInv'
    OBVIOUS
  <1>1. iSockfd \in Fds
    BY HandFact DEF Inv2, NoFreeThread
  <1>2. /\ DeleteTask(iSockfd) /\ iSockfd' = NoFd
        /\ UNCHANGED <<batch, m_queUserQueryTask, m_vecTaskStauts, pclTask>>
    BY DEF NoFreeThread, shared, workerVars
  <1>3. QueueInv /\ RunInv /\ ReportInv /\ ApartInv
    BY DEF Inv2, PlaceInv
  <1>4. WithoutWorker(iSockfd)
    BY <1>3 DEF WithoutWorker, QueueInv, RunInv, Away
  <1>5. StatusesLeft(iSockfd)
    <2>1. \A w \in Workers : \A k \in 1..Len(m_vecTaskStauts[w]) :
             /\ Away(m_vecTaskStauts[w][k].m_iSockFd)
             /\ m_vecTaskStauts[w][k].m_iSockFd # iSockfd
      BY <1>3 DEF ReportInv, Away
    <2>2. m_vecTaskStauts' = m_vecTaskStauts
      BY <1>2
    <2> QED BY <2>1, <2>2, <1>3 DEF StatusesLeft, ReportInv, ApartInv, Reported, ReportedAt
  <1> QED BY <1>1, <1>2, <1>4, <1>5, DeletePlace

\* BdxServerReadEvent takes a watched descriptor into the server's hand.
LEMMA ReadPlace ==
    ASSUME Inv2, NEW fd \in Fds, ReadEvent(fd)
    PROVE  PlaceInv'
  <1>1. MapInv /\ EventInv /\ QueueInv /\ RunInv /\ ReportInv /\ ApartInv /\ HeldSomewhere
    BY DEF Inv2, PlaceInv
  <1>2. iSockfd = NoFd /\ fd \in batch /\ fd # Listen
    BY DispatchAssumption DEF Inv2, Inv1, ControlInv, ReadEvent
  <1>3. fd \in epoll /\ m_mpSocketTask[fd] # NoTask
    BY <1>1, <1>2 DEF EventInv
  <1>4. /\ epoll' = epoll \ {fd} /\ iSockfd' = fd /\ batch' = batch \ {fd}
        /\ UNCHANGED <<client, m_mpSocketTask, sock, m_queUserQueryTask, m_vecTaskStauts, pclTask>>
    BY <1>3 DEF ReadEvent, taskVars, shared, workerVars
  <1>5. \A x : Away(x) => Away(x)'
    BY <1>3, <1>4 DEF Away
  <1>6. MapInv' /\ ApartInv'
    BY <1>1, <1>4 DEF MapInv, ApartInv
  <1>7. EventInv'
    BY <1>1, <1>4 DEF EventInv
  <1>8. QueueInv' /\ RunInv'
    BY <1>1, <1>3, <1>4 DEF QueueInv, RunInv, Away
  <1>9. ReportInv'
    BY <1>1, <1>3, <1>4 DEF ReportInv, Away
  <1>10. HeldSomewhere'
    <2> SUFFICES ASSUME NEW x \in Fds, client[x] # "none"
                 PROVE  \/ x \in epoll'
                        \/ iSockfd' = x
                        \/ Queued(m_mpSocketTask[x])
                        \/ Running(m_mpSocketTask[x])
                        \/ Reported(x)
      BY <1>4 DEF HeldSomewhere, Queued, QueuedAt, Running, Runs, Reported, ReportedAt
    <2> QED BY <1>1, <1>2, <1>4, DispatchAssumption DEF HeldSomewhere
  <1> QED BY <1>6, <1>7, <1>8, <1>9, <1>10 DEF PlaceInv

\* TcpAccept and BdxServerGetTask bring in a new connection.
LEMMA AcceptPlace == Inv2 /\ AcceptEvent => PlaceInv'
  <1> SUFFICES ASSUME Inv2, AcceptEvent
               PROVE  PlaceInv'
    OBVIOUS
  <1>0. PlaceInv /\ EventInv
    BY DEF Inv2, PlaceInv
  <1>1. /\ batch' = batch \ {Listen}
        /\ UNCHANGED <<m_queUserQueryTask, m_vecTaskStauts, pclTask, iSockfd>>
    BY DEF AcceptEvent, shared, workerVars
  <1>2. CASE UNCHANGED <<client, inbox, epoll, taskVars>>
    <2>1. \A fd \in batch' : fd # Listen => fd \in epoll
      BY <1>0, <1>1 DEF EventInv
    <2> QED BY <1>0, <1>1, <1>2, <2>1, PlaceFrame
  <1>3. ASSUME NEW fd \in Fds, NEW t \in Tasks,
               client[fd] = "none",
               sock[t] = NoFd,
               client' = [client EXCEPT ![fd] = "open"],
               epoll' = epoll \cup {fd},
               sock' = [sock EXCEPT ![t] = fd],
               m_mpSocketTask' = [m_mpSocketTask EXCEPT ![fd] = t]
        PROVE  PlaceInv'
    <2>1. /\ client \in [Fds -> PeerStates]
          /\ m_mpSocketTask \in [Fds -> Tasks \cup {NoTask}]
          /\ sock \in [Tasks -> Fds \cup {NoFd}]
          /\ m_queUserQueryTask \in [Workers -> Seq(Tasks)]
          /\ pclTask \in [Workers -> Tasks \cup {NoTask}]
          /\ iSockfd = NoFd
      BY DEF Inv2, Inv1, TypeOK, ControlInv, AcceptEvent
    <2>2. MapInv /\ QueueInv /\ RunInv /\ ReportInv /\ ApartInv /\ HeldSomewhere
      BY <1>0 DEF PlaceInv
    <2>3. m_mpSocketTask[fd] = NoTask
      BY <1>3, <2>2 DEF MapInv
    <2>4. /\ client'[fd] = "open" /\ m_mpSocketTask'[fd] = t
          /\ \A x \in Fds : x # fd =>
                client'[x] = client[x] /\ m_mpSocketTask'[x] = m_mpSocketTask[x]
          /\ sock'[t] = fd /\ \A u \in Tasks : u # t => sock'[u] = sock[u]
      BY <1>3, <2>1
    <2>5. \A x : Away(x) => x # fd /\ Away(x)'
      BY <1>1, <1>3, <2>3, <2>4 DEF Away
    <2>6. \A u \in Tasks : Away(sock[u]) => sock'[u] = sock[u]
      BY <1>3, <2>4, DispatchAssumption DEF Away
    <2>7. MapInv'
      <3>1. \A x \in Fds : client'[x] = "none" <=> m_mpSocketTask'[x] = NoTask
        BY <2>2, <2>4, DispatchAssumption DEF MapInv
      <3>2. ASSUME NEW x \in Fds, m_mpSocketTask'[x] # NoTask
            PROVE  sock'[m_mpSocketTask'[x]] = x
        <4>1. CASE x = fd
          BY <4>1, <2>4
        <4>2. CASE x # fd
          <5>1. m_mpSocketTask'[x] \in Tasks /\ sock[m_mpSocketTask'[x]] = x
            BY <3>2, <4>2, <2>1, <2>2, <2>4 DEF MapInv
          <5>2. m_mpSocketTask'[x] # t
            BY <5>1, <1>3, DispatchAssumption
          <5> QED BY <5>1, <5>2, <2>4
        <4> QED BY <4>1, <4>2
      <3>3. ASSUME NEW u \in Tasks, sock'[u] # NoFd
            PROVE  m_mpSocketTask'[sock'[u]] = u
        <4>1. CASE u = t
          BY <4>1, <2>4
        <4>2. CASE u # t
          <5>1. sock'[u] = sock[u] /\ sock[u] \in Fds /\ m_mpSocketTask[sock[u]] = u
            BY <3>3, <4>2, <2>1, <2>2, <2>4 DEF MapInv
          <5>2. sock[u] # fd
            BY <5>1, <2>3, DispatchAssumption
          <5> QED BY <5>1, <5>2, <2>4
        <4> QED BY <4>1, <4>2
      <3> QED BY <3>1, <3>2, <3>3 DEF MapInv
    <2>8. EventInv'
      BY <1>0, <1>1, <1>3, <2>1, <2>4, DispatchAssumption DEF EventInv, Inv2, Inv1, TypeOK
    <2>9. QueueInv'
      <3>1. ASSUME NEW w \in Workers, NEW k \in 1..Len(m_queUserQueryTask'[w])
            PROVE  Away(sock[m_queUserQueryTask[w][k]])'
        <4>1. m_queUserQueryTask[w][k] \in Tasks /\ Away(sock[m_queUserQueryTask[w][k]])
          BY <1>1, <2>1, <2>2 DEF QueueInv
        <4> QED BY <4>1, <1>1, <2>5, <2>6 DEF Away
      <3> QED BY <3>1, <1>1, <2>2 DEF QueueInv
    <2>10. RunInv'
      <3>1. ASSUME NEW w \in Workers, pclTask'[w] # NoTask
            PROVE  Away(sock[pclTask[w]])'
        <4>1. pclTask[w] \in Tasks /\ Away(sock[pclTask[w]])
          BY <3>1, <1>1, <2>1, <2>2 DEF RunInv
        <4> QED BY <4>1, <1>1, <2>5, <2>6 DEF Away
      <3> QED BY <3>1, <1>1, <2>2 DEF RunInv
    <2>11. ReportInv'
      <3>1. ASSUME NEW w \in Workers, NEW k \in 1..Len(m_vecTaskStauts'[w])
            PROVE  Away(m_vecTaskStauts[w][k].m_iSockFd)'
        <4>1. Away(m_vecTaskStauts[w][k].m_iSockFd)
          BY <1>1, <2>2 DEF ReportInv
        <4>2. m_vecTaskStauts'[w][k] = m_vecTaskStauts[w][k]
          BY <1>1
        <4> QED BY <4>1, <4>2, <1>1, <2>5 DEF Away
      <3> QED BY <3>1, <1>1, <2>2 DEF ReportInv
    <2>12. ApartInv'
      <3>1. \A w \in Workers : \A k \in 1..Len(m_queUserQueryTask[w]) :
               sock'[m_queUserQueryTask[w][k]] = sock[m_queUserQueryTask[w][k]]
        BY <2>1, <2>2, <2>6 DEF QueueInv
      <3>2. \A w \in Workers : pclTask[w] # NoTask => sock'[pclTask[w]] = sock[pclTask[w]]
        BY <2>1, <2>2, <2>6 DEF RunInv
      <3> QED BY <3>1, <3>2, <1>1, <2>2 DEF ApartInv
    <2>13. HeldSomewhere'
      <3> SUFFICES ASSUME NEW x \in Fds, client'[x] # "none", x # fd
                   PROVE  \/ x \in epoll'
                          \/ Queued(m_mpSocketTask[x])'
                          \/ Running(m_mpSocketTask[x])'
                          \/ Reported(x)'
        BY <1>3 DEF HeldSomewhere
      <3>1. client[x] # "none" /\ m_mpSocketTask'[x] = m_mpSocketTask[x] /\ iSockfd # x
        BY <2>1, <2>4, DispatchAssumption
      <3>2. CASE Queued(m_mpSocketTask[x])
        BY <3>1, <3>2, <1>1 DEF Queued, QueuedAt
      <3>3. CASE Running(m_mpSocketTask[x])
        BY <3>1, <3>3, <1>1 DEF Running, Runs
      <3>4. CASE Reported(x)
        BY <3>4, <1>1 DEF Reported, ReportedAt
      <3> QED BY <3>1, <3>2, <3>3, <3>4, <1>3, <2>2 DEF HeldSomewhere
    <2> QED BY <2>7, <2>8, <2>9, <2>10, <2>11, <2>12, <2>13 DEF PlaceInv
  <1> QED BY <1>2, <1>3 DEF AcceptEvent

-----------------------------------------------------------------------------
LEMMA PlaceStep == Inv2 /\ [Next]_vars => PlaceInv'
  <1> SUFFICES ASSUME Inv2, [Next]_vars
               PROVE  PlaceInv'
    OBVIOUS
  <1>0. PlaceInv /\ EventInv
    BY DEF Inv2, PlaceInv
  <1>f. ASSUME UNCHANGED <<epoll, taskVars, m_queUserQueryTask, m_vecTaskStauts, pclTask, iSockfd>>,
               \A fd \in Fds : client'[fd] = "none" <=> client[fd] = "none",
               \A fd \in batch' : fd \in batch \/ fd = Listen \/ fd \in epoll
        PROVE  PlaceInv'
    BY <1>f, <1>0, PlaceFrame DEF EventInv
  <1>t. client \in [Fds -> PeerStates] /\ batch \in SUBSET (Fds \cup {Listen})
    BY DEF Inv2, Inv1, TypeOK
  <1>1. CASE ServerNext
    <2>1. CASE NextStatusQueue \/ EndOfBatch \/ NotifyWorker
      BY <2>1, <1>f DEF NextStatusQueue, EndOfBatch, NotifyWorker, netVars, taskVars, shared,
         workerVars
    <2>2. CASE EpollWait
      BY <2>2, <1>f DEF EpollWait, ReadyEvents, netVars, taskVars, shared, workerVars
    <2> QED BY <1>1, <2>1, <2>2, GetFreePlace, AcceptPlace, ReadPlace, PutPlace, NoFreePlace
            DEF ServerNext
  <1>2. ASSUME NEW w \in Workers, WorkerNext(w) \/ SpuriousWakeup(w)
        PROVE  PlaceInv'
    <2>1. CASE LockQueue(w) \/ WaitForTask(w) \/ SpuriousWakeup(w) \/ UnlockQueue(w)
      BY <2>1, <1>f DEF LockQueue, WaitForTask, SpuriousWakeup, UnlockQueue, netVars, taskVars,
         shared, serverVars
    <2>2. CASE ReadRequest(w) \/ ServeRequest(w)
      BY <2>2, <1>f DEF ReadRequest, TcpRead, ServeRequest, netVars, taskVars, shared, serverVars
    <2>3. CASE WriteAnswer(w)
      <3>1. \A fd \in Fds : client'[fd] = "none" <=> client[fd] = "none"
        BY <2>3, <1>t DEF WriteAnswer, TcpWrite
      <3> QED BY <2>3, <3>1, <1>f DEF WriteAnswer, TcpWrite, taskVars, shared, serverVars
    <2> QED BY <1>2, <2>1, <2>2, <2>3, PopPlace, ReportPlace DEF WorkerNext
  <1>3. CASE ClientNext
    <2>1. \A fd \in Fds : client'[fd] = "none" <=> client[fd] = "none"
      BY <1>3, <1>t DEF ClientNext, Connect, Send, Disconnect, Reset
    <2>2. UNCHANGED <<epoll, taskVars, shared, serverVars, workerVars>>
      BY <1>3 DEF ClientNext, Connect, Send, Disconnect, Reset
    <2> QED BY <2>1, <2>2, <1>f DEF shared, serverVars, workerVars
  <1>4. CASE UNCHANGED vars
    BY <1>4, <1>f DEF vars, netVars, shared, serverVars, workerVars
  <1> QED BY <1>1, <1>2, <1>3, <1>4 DEF Next

LEMMA Inv2Holds == Spec => []Inv2
  <1>1. Init => Inv2
    BY InitInv1, InitPlace DEF Inv2
  <1>2. Inv2 /\ [Next]_vars => Inv2'
    BY ControlStep, TypeStep, PlaceStep DEF Inv2, Inv1
  <1> QED BY <1>1, <1>2, PTL DEF Spec

\* Every open connection is in exactly one of the epoll set, the server's
\* hand, a task queue, a worker and a status queue.
THEOREM OnePlaceAlways == Spec => []OnePlace
  <1>1. Inv2 => OnePlace
    BY PlaceImplies
  <1> QED BY Inv2Holds, <1>1, PTL

\* No worker has a task that BdxServerGetFreeTask or BdxServerReadEvent has
\* deleted.
THEOREM NeverDangling == Spec => []NoDanglingTask
  <1>1. Inv2 => NoDanglingTask
    BY PlaceImplies
  <1> QED BY Inv2Holds, <1>1, PTL

\* The "can not find task" branches of BdxServerGetFreeTask and
\* BdxServerReadEvent are dead code.
THEOREM LookupsSucceed == Spec => []LookupNeverFails
  <1>1. Inv2 => LookupNeverFails
    BY PlaceImplies
  <1> QED BY Inv2Holds, <1>1, PTL

\* No task queue and no worker holds the task of a descriptor without a worker.
LEMMA UnheldFact ==
    ASSUME Inv2, NEW fd \in Fds, m_mpSocketTask[fd] # NoTask, WithoutWorker(fd)
    PROVE  ~Queued(m_mpSocketTask[fd]) /\ ~Running(m_mpSocketTask[fd])
  <1>1. sock[m_mpSocketTask[fd]] = fd
    BY DEF Inv2, PlaceInv, MapInv
  <1> QED BY <1>1 DEF Queued, QueuedAt, Running, Runs, WithoutWorker

LEMMA CloseStep ==
    ASSUME Inv2, [Next]_vars, NEW fd \in Fds, client[fd] # "none", client'[fd] = "none"
    PROVE  ~Queued(m_mpSocketTask[fd]) /\ ~Running(m_mpSocketTask[fd])
  <1>0. /\ client \in [Fds -> PeerStates]
        /\ MapInv /\ EventInv /\ QueueInv /\ RunInv
    BY DEF Inv2, Inv1, TypeOK, PlaceInv
  <1>m. m_mpSocketTask[fd] # NoTask
    BY <1>0 DEF MapInv
  <1>d. ASSUME NEW x \in Fds, m_mpSocketTask[x] # NoTask, x \notin epoll, DeleteTask(x)
        PROVE  x = fd
    <2>1. client' = [client EXCEPT ![x] = "none"]
      BY <1>d, DeleteTaskFact
    <2> QED BY <2>1, <1>0
  <1>1. CASE ServerNext
    <2>1. CASE GetFreeTask
      <3> DEFINE x == Head(m_vecTaskStauts[i]).m_iSockFd
      <3>1. i \in Workers /\ m_vecTaskStauts[i] # <<>>
        BY <2>1, IndexFact DEF Inv2, Inv1, GetFreeTask
      <3>2. WithoutWorker(x) /\ Away(x)
        BY <2>1, <3>1, PopStatus DEF GetFreeTask
      <3>3. CASE DeleteTask(x)
        <4> HIDE DEF x
        <4>1. x = fd
          BY <3>2, <3>3, <1>d DEF Away
        <4> QED BY <3>2, <4>1, <1>m, UnheldFact
      <3>4. CASE client' = client
        BY <3>4
      <3> QED BY <2>1, <3>3, <3>4 DEF GetFreeTask
    <2>2. CASE NoFreeThread
      <3>1. iSockfd \in Fds /\ m_mpSocketTask[iSockfd] # NoTask
        BY <2>2 DEF Inv2, Inv1, ControlInv, NoFreeThread
      <3>2. iSockfd = fd
        BY <2>2, <3>1, <1>0, <1>d DEF NoFreeThread, EventInv
      <3>3. WithoutWorker(fd)
        BY <3>2, <1>0 DEF WithoutWorker, QueueInv, RunInv, Away
      <3> QED BY <3>3, <1>m, UnheldFact
    <2>3. ASSUME NEW x \in Fds, ReadEvent(x)
          PROVE  FALSE
      <3>1. m_mpSocketTask[x] # NoTask
        BY <2>3, <1>0, DispatchAssumption DEF ReadEvent, EventInv
      <3> QED BY <2>3, <3>1 DEF ReadEvent
    <2>4. CASE NextStatusQueue \/ EpollWait \/ EndOfBatch \/ PutTask \/ NotifyWorker
      BY <2>4 DEF NextStatusQueue, EpollWait, EndOfBatch, PutTask, NotifyWorker, netVars
    <2>5. CASE AcceptEvent
      BY <2>5, <1>0 DEF AcceptEvent
    <2> QED BY <1>1, <2>1, <2>2, <2>3, <2>4, <2>5 DEF ServerNext
  <1>2. ASSUME NEW w \in Workers, WorkerNext(w) \/ SpuriousWakeup(w)
        PROVE  FALSE
    <2>1. CASE WriteAnswer(w)
      BY <2>1, <1>0 DEF WriteAnswer, TcpWrite
    <2>2. CASE client' = client
      BY <2>2
    <2> QED
      BY <1>2, <2>1, <2>2 DEF WorkerNext, LockQueue, WaitForTask, PopTask, ReadRequest, TcpRead,
         ServeRequest, ReportStatus, UnlockQueue, SpuriousWakeup, netVars
  <1>3. CASE ClientNext
    BY <1>3, <1>0 DEF ClientNext, Connect, Send, Disconnect, Reset
  <1>4. CASE UNCHANGED vars
    BY <1>4 DEF vars, netVars
  <1> QED BY <1>1, <1>2, <1>3, <1>4 DEF Next

\* A step that closes a descriptor (delete mit->second, or close in
\* BdxServerReadEvent) never takes it from a worker that has or will have its
\* task.
THEOREM CloseUnheldAlways == Spec => CloseOnlyUnheld
  <1>1. Inv2 /\ [Next]_vars =>
          [\A fd \in Fds :
              client[fd] # "none" /\ client'[fd] = "none"
                  => ~Queued(m_mpSocketTask[fd]) /\ ~Running(m_mpSocketTask[fd])]_vars
    BY CloseStep
  <1> QED BY Inv2Holds, <1>1, PTL DEF Spec, CloseOnlyUnheld

-----------------------------------------------------------------------------
(* The refinement of ConnLife: where Inv2 says a connection is.            *)

\* A slot of worker w's task queue holds the task of descriptor fd.
Holds(w, fd) ==
    \E k \in 1..Len(m_queUserQueryTask[w]) : m_queUserQueryTask[w][k] = m_mpSocketTask[fd]

\* Each party that has a connection has it in the eyes of ConnLife, too.
SaysWhere(fd) ==
    /\ m_mpSocketTask[fd] = NoTask => ConnOf(fd) = <<"closed">>
    /\ fd \in epoll => ConnOf(fd) = <<"watched">>
    /\ iSockfd = fd => ConnOf(fd) = <<"handed">>
    /\ \A w \in Workers : m_mpSocketTask[fd] # NoTask /\ Holds(w, fd) => ConnOf(fd) = <<"queued", w>>
    /\ \A w \in Workers :
          m_mpSocketTask[fd] # NoTask /\ pclTask[w] = m_mpSocketTask[fd] => ConnOf(fd) = <<"running", w>>
    /\ \A w \in Workers : ConnOf(fd) = <<"running", w>> => pclTask[w] # NoTask
    /\ Reported(fd) => ConnOf(fd) = <<"reported">>

QueuesOf(fd) == {w \in Workers : Holds(w, fd)}
RunnersOf(fd) == {w \in Workers : pclTask[w] = m_mpSocketTask[fd]}

\* ConnOf in these words.
PlaceOf(t, isWatched, inHand, Q, R) ==
    IF t = NoTask THEN <<"closed">>
    ELSE IF isWatched THEN <<"watched">>
    ELSE IF inHand THEN <<"handed">>
    ELSE IF Q # {} THEN <<"queued", CHOOSE w \in Workers : w \in Q>>
    ELSE IF R # {} THEN <<"running", CHOOSE w \in Workers : w \in R>>
    ELSE <<"reported">>

ConnOfPlace(fd) ==
    ConnOf(fd) = PlaceOf(m_mpSocketTask[fd], fd \in epoll, iSockfd = fd, QueuesOf(fd), RunnersOf(fd))

LEMMA ConnOfDef == \A fd : ConnOfPlace(fd)
  <1> SUFFICES ASSUME NEW fd PROVE ConnOfPlace(fd)
    OBVIOUS
  <1> DEFINE t == m_mpSocketTask[fd]
             Q == {w \in Workers : \E k \in 1..Len(m_queUserQueryTask[w]) : QueuedAt(w, k, t)}
             R == {w \in Workers : Runs(w, t)}
  <1>1. Q = QueuesOf(fd)
    BY DEF QueuesOf, Holds, QueuedAt
  <1>2. R = RunnersOf(fd)
    BY DEF RunnersOf, Runs
  <1>3. ConnOf(fd) = PlaceOf(t, fd \in epoll, iSockfd = fd, Q, R)
    BY Zenon DEF ConnOf, PlaceOf
  <1> HIDE DEF Q, R
  <1> QED BY <1>1, <1>2, <1>3 DEF ConnOfPlace

AllPlaces == \A fd : ConnOfPlace(fd)

LEMMA ConnOfDefNext == AllPlaces'
  <1>1. AllPlaces
    BY ConnOfDef DEF AllPlaces
  <1> QED BY <1>1, PTL

\* A connection that no party has given away or taken stays where it is.
LEMMA StaysPut ==
    ASSUME NEW fd \in Fds, m_mpSocketTask'[fd] = m_mpSocketTask[fd],
           m_mpSocketTask[fd] # NoTask =>
              /\ fd \in epoll' <=> fd \in epoll
              /\ iSockfd' = fd <=> iSockfd = fd
              /\ \A w \in Workers : Holds(w, fd)' <=> Holds(w, fd)
              /\ \A w \in Workers : pclTask'[w] = m_mpSocketTask[fd] <=> pclTask[w] = m_mpSocketTask[fd]
    PROVE  ConnOf(fd)' = ConnOf(fd)
  <1>1. CASE m_mpSocketTask[fd] = NoTask
    BY <1>1 DEF ConnOf
  <1>2. CASE m_mpSocketTask[fd] # NoTask
    <2>1. QueuesOf(fd)' = QueuesOf(fd)
      BY <1>2 DEF QueuesOf
    <2>2. RunnersOf(fd)' = RunnersOf(fd)
      BY <1>2 DEF RunnersOf
    <2>3. /\ ConnOf(fd) = PlaceOf(m_mpSocketTask[fd], fd \in epoll, iSockfd = fd, QueuesOf(fd), RunnersOf(fd))
          /\ ConnOf(fd)' = PlaceOf(m_mpSocketTask'[fd], fd \in epoll', iSockfd' = fd,
                                   QueuesOf(fd)', RunnersOf(fd)')
      BY ConnOfDef, ConnOfDefNext DEF ConnOfPlace, AllPlaces
    <2> QED BY <1>2, <2>1, <2>2, <2>3 DEF PlaceOf
  <1> QED BY <1>1, <1>2

LEMMA ConnSays == Inv2 => \A fd \in Fds : SaysWhere(fd)
  <1> SUFFICES ASSUME Inv2, NEW fd \in Fds
               PROVE  SaysWhere(fd)
    OBVIOUS
  <1>1. MapInv /\ EventInv /\ QueueInv /\ RunInv /\ ReportInv /\ ApartInv
    BY DEF Inv2, PlaceInv
  <1>2. /\ pclTask \in [Workers -> Tasks \cup {NoTask}]
        /\ m_mpSocketTask \in [Fds -> Tasks \cup {NoTask}]
        /\ iSockfd \in Fds => m_mpSocketTask[iSockfd] # NoTask
    BY DispatchAssumption DEF Inv2, Inv1, TypeOK, ControlInv, ServerStates
  <1> DEFINE t == m_mpSocketTask[fd]
  <1>3. ConnOf(fd) = PlaceOf(t, fd \in epoll, iSockfd = fd, QueuesOf(fd), RunnersOf(fd))
    BY ConnOfDef DEF ConnOfPlace
  <1>4. t # NoTask => sock[t] = fd
    BY <1>1 DEF MapInv
  <1>5. ASSUME t # NoTask, NEW w \in Workers, Holds(w, fd)
        PROVE  /\ fd \notin epoll /\ iSockfd # fd /\ QueuesOf(fd) = {w}
    <2>1. fd \notin epoll /\ iSockfd # fd
      BY <1>1, <1>4, <1>5 DEF Holds, QueueInv, Away
    <2>2. ASSUME NEW v \in Workers, Holds(v, fd)
          PROVE  v = w
      BY <1>1, <1>5, <2>2 DEF Holds, QueueInv
    <2> QED BY <1>5, <2>1, <2>2 DEF QueuesOf
  <1>6. ASSUME t # NoTask, NEW w \in Workers, pclTask[w] = t
        PROVE  /\ fd \notin epoll /\ iSockfd # fd /\ QueuesOf(fd) = {} /\ RunnersOf(fd) = {w}
    <2>1. fd \notin epoll /\ iSockfd # fd
      BY <1>1, <1>4, <1>6 DEF RunInv, Away
    <2>2. QueuesOf(fd) = {}
      BY <1>1, <1>6 DEF QueuesOf, Holds, ApartInv
    <2>3. RunnersOf(fd) = {w}
      BY <1>1, <1>6 DEF RunnersOf, RunInv
    <2> QED BY <2>1, <2>2, <2>3
  <1>7. ASSUME Reported(fd)
        PROVE  t # NoTask /\ fd \notin epoll /\ iSockfd # fd /\ QueuesOf(fd) = {} /\ RunnersOf(fd) = {}
    <2>1. t # NoTask /\ fd \notin epoll /\ iSockfd # fd
      BY <1>1, <1>7 DEF Reported, ReportedAt, ReportInv, Away
    <2>2. QueuesOf(fd) = {}
      BY <1>1, <1>4, <1>7, <2>1 DEF QueuesOf, Holds, Reported, ReportedAt, ApartInv
    <2>3. RunnersOf(fd) = {}
      BY <1>1, <1>4, <1>7, <2>1 DEF RunnersOf, Reported, ReportedAt, ApartInv
    <2> QED BY <2>1, <2>2, <2>3
  <1>8. fd \in epoll => t # NoTask /\ ConnOf(fd) = <<"watched">>
    BY <1>1, <1>3 DEF EventInv, PlaceOf
  <1>9. iSockfd = fd => ConnOf(fd) = <<"handed">>
    BY <1>1, <1>2, <1>3 DEF EventInv, PlaceOf
  <1>10. \A w \in Workers : t # NoTask /\ Holds(w, fd) => ConnOf(fd) = <<"queued", w>>
    BY <1>3, <1>5 DEF PlaceOf
  <1>11. \A w \in Workers : t # NoTask /\ pclTask[w] = t => ConnOf(fd) = <<"running", w>>
    BY <1>3, <1>6 DEF PlaceOf
  <1>12. ASSUME NEW w \in Workers, ConnOf(fd) = <<"running", w>>
         PROVE  pclTask[w] # NoTask
    <2>1. t # NoTask /\ RunnersOf(fd) # {} /\ w = (CHOOSE v \in Workers : v \in RunnersOf(fd))
      BY <1>3, <1>12 DEF PlaceOf
    <2>2. w \in RunnersOf(fd)
      BY <2>1 DEF RunnersOf
    <2> QED BY <2>1, <2>2 DEF RunnersOf
  <1>13. Reported(fd) => ConnOf(fd) = <<"reported">>
    BY <1>3, <1>7 DEF PlaceOf
  <1>14. t = NoTask => ConnOf(fd) = <<"closed">>
    BY <1>3 DEF PlaceOf
  <1> QED BY <1>8, <1>9, <1>10, <1>11, <1>12, <1>13, <1>14 DEF SaysWhere

LEMMA ConnSaysNext == Inv2' => \A fd \in Fds : SaysWhere(fd)'
  <1> DEFINE SaysAll == \A fd \in Fds : SaysWhere(fd)
  <1>1. Inv2 => SaysAll
    BY ConnSays
  <1> HIDE DEF SaysAll
  <1>2. Inv2' => SaysAll'
    BY <1>1, PTL
  <1> QED BY <1>2 DEF SaysAll

\* One connection moves, all others stay.
LEMMA OneMoves ==
    ASSUME NEW fd \in Fds, NEW from, NEW to, ConnOf(fd) = from, ConnOf(fd)' = to,
           \A other \in Fds \ {fd} : ConnOf(other)' = ConnOf(other)
    PROVE  Life!Move(fd, from, to)
  BY DEF Life!Move

LEMMA NoneMoves ==
    ASSUME \A fd \in Fds : ConnOf(fd)' = ConnOf(fd)
    PROVE  UNCHANGED Life!vars
  BY DEF Life!vars

\* Two connections never have the same task.
LEMMA OwnTask ==
    ASSUME Inv2, NEW fd \in Fds, NEW other \in Fds \ {fd}, m_mpSocketTask[other] # NoTask
    PROVE  m_mpSocketTask[fd] # m_mpSocketTask[other]
  BY DEF Inv2, PlaceInv, MapInv

\* BdxServerGetFreeTask moves a reported connection to the epoll set or closes it.
LEMMA FreeRefines ==
    ASSUME Inv2, Inv2', GetFreeTask
    PROVE  Life!Next
  <1>1. i \in Workers /\ m_vecTaskStauts[i] # <<>>
    BY IndexFact DEF Inv2, Inv1, GetFreeTask
  <1>2. PICK fd \in Fds : fd = Head(m_vecTaskStauts[i]).m_iSockFd
    BY <1>1, HeadStatusFact DEF Inv2, Inv1
  <1>3. Away(fd)
    BY <1>1, <1>2, PopStatus DEF GetFreeTask
  <1>4. ConnOf(fd) = <<"reported">>
    <2>1. 1 \in 1..Len(m_vecTaskStauts[i]) /\ m_vecTaskStauts[i][1] = Head(m_vecTaskStauts[i])
      <3>1. m_vecTaskStauts[i] \in Seq(TaskStatus)
        BY <1>1 DEF Inv2, Inv1, TypeOK
      <3> QED BY <1>1, <3>1, TailSlots
    <2>2. Reported(fd)
      BY <1>1, <1>2, <2>1 DEF Reported, ReportedAt
    <2> QED BY <2>2, ConnSays DEF SaysWhere
  <1>5. UNCHANGED <<m_queUserQueryTask, pclTask, iSockfd>>
    BY DEF GetFreeTask, serverVars, workerVars
  <1>6. m_mpSocketTask \in [Fds -> Tasks \cup {NoTask}] /\ m_mpSocketTask[fd] # NoTask
    BY <1>3 DEF Inv2, Inv1, TypeOK, Away
  <1>7. CASE DeleteTask(fd)
    <2>1. m_mpSocketTask' = [m_mpSocketTask EXCEPT ![fd] = NoTask] /\ epoll' = epoll
      BY <1>3, <1>6, <1>7, DeleteTaskFact DEF Away
    <2>2. ConnOf(fd)' = <<"closed">>
      BY <1>6, <2>1, ConnSaysNext DEF SaysWhere
    <2>3. \A other \in Fds \ {fd} : ConnOf(other)' = ConnOf(other)
      BY <1>5, <1>6, <2>1, StaysPut DEF Holds
    <2>4. Life!Move(fd, <<"reported">>, <<"closed">>)
      BY <1>4, <2>2, <2>3, OneMoves
    <2> QED BY <2>4 DEF Life!Next, Life!Release, Life!Reported, Life!Closed
  <1>8. CASE EpollRearm(fd) /\ UNCHANGED <<client, inbox, taskVars>>
    <2>1. epoll' = epoll \cup {fd} /\ UNCHANGED m_mpSocketTask
      BY <1>8 DEF EpollRearm, taskVars
    <2>2. ConnOf(fd)' = <<"watched">>
      BY <2>1, ConnSaysNext DEF SaysWhere
    <2>3. \A other \in Fds \ {fd} : ConnOf(other)' = ConnOf(other)
      BY <1>5, <2>1, StaysPut DEF Holds
    <2>4. Life!Move(fd, <<"reported">>, <<"watched">>)
      BY <1>4, <2>2, <2>3, OneMoves
    <2> QED BY <2>4 DEF Life!Next, Life!Rearm, Life!Reported, Life!Watched
  <1> QED BY <1>2, <1>6, <1>7, <1>8 DEF GetFreeTask

LEMMA AcceptRefines ==
    ASSUME Inv2, Inv2', AcceptEvent
    PROVE  Life!Next \/ UNCHANGED Life!vars
  <1>1. UNCHANGED <<m_queUserQueryTask, pclTask, iSockfd>>
    BY DEF AcceptEvent, shared, workerVars
  <1>2. CASE UNCHANGED <<epoll, m_mpSocketTask>>
    <2>1. \A fd \in Fds : ConnOf(fd)' = ConnOf(fd)
      BY <1>1, <1>2, StaysPut DEF Holds
    <2> QED BY <2>1, NoneMoves
  <1>3. ASSUME NEW fd \in Fds, NEW t \in Tasks, client[fd] = "none", epoll' = epoll \cup {fd},
               m_mpSocketTask' = [m_mpSocketTask EXCEPT ![fd] = t]
        PROVE  Life!Next
    <2>1. m_mpSocketTask \in [Fds -> Tasks \cup {NoTask}] /\ m_mpSocketTask[fd] = NoTask
      BY <1>3 DEF Inv2, Inv1, TypeOK, PlaceInv, MapInv
    <2>2. ConnOf(fd) = <<"closed">>
      BY <2>1, ConnSays DEF SaysWhere
    <2>3. ConnOf(fd)' = <<"watched">>
      BY <1>3, ConnSaysNext DEF SaysWhere
    <2>4. \A other \in Fds \ {fd} : ConnOf(other)' = ConnOf(other)
      BY <1>1, <1>3, <2>1, StaysPut DEF Holds
    <2>5. Life!Move(fd, <<"closed">>, <<"watched">>)
      BY <2>2, <2>3, <2>4, OneMoves
    <2> QED BY <2>5 DEF Life!Next, Life!Accept, Life!Closed, Life!Watched
  <1> QED BY <1>2, <1>3 DEF AcceptEvent, taskVars

LEMMA ReadRefines ==
    ASSUME Inv2, Inv2', NEW fd \in Fds, ReadEvent(fd)
    PROVE  Life!Next
  <1>1. iSockfd = NoFd /\ fd \in batch /\ fd # Listen /\ fd # NoFd
    BY DispatchAssumption DEF Inv2, Inv1, ControlInv, ReadEvent
  <1>2. fd \in epoll /\ m_mpSocketTask[fd] # NoTask
    BY <1>1 DEF Inv2, PlaceInv, EventInv
  <1>3. /\ epoll' = epoll \ {fd} /\ iSockfd' = fd
        /\ UNCHANGED <<m_mpSocketTask, m_queUserQueryTask, pclTask>>
    BY <1>2 DEF ReadEvent, taskVars, shared, workerVars
  <1>4. ConnOf(fd) = <<"watched">>
    BY <1>2, ConnSays DEF SaysWhere
  <1>5. ConnOf(fd)' = <<"handed">>
    BY <1>3, ConnSaysNext DEF SaysWhere
  <1>6. \A other \in Fds \ {fd} : ConnOf(other)' = ConnOf(other)
    BY <1>1, <1>3, StaysPut, DispatchAssumption DEF Holds
  <1>7. Life!Move(fd, <<"watched">>, <<"handed">>)
    BY <1>4, <1>5, <1>6, OneMoves
  <1> QED BY <1>7 DEF Life!Next, Life!TakeEvent, Life!Watched, Life!Handed

LEMMA NoFreeRefines ==
    ASSUME Inv2, Inv2', NoFreeThread
    PROVE  Life!Next
  <1>1. PICK fd \in Fds : fd = iSockfd /\ m_mpSocketTask[fd] # NoTask
    BY DEF Inv2, Inv1, ControlInv, NoFreeThread
  <1>2. /\ iSockfd' = NoFd /\ NoFd \notin Fds /\ DeleteTask(fd)
        /\ UNCHANGED <<m_queUserQueryTask, pclTask>>
    BY <1>1, DispatchAssumption DEF NoFreeThread, shared, workerVars
  <1>3. m_mpSocketTask \in [Fds -> Tasks \cup {NoTask}] /\ fd \notin epoll
    BY <1>1 DEF Inv2, Inv1, TypeOK, PlaceInv, EventInv
  <1>4. m_mpSocketTask' = [m_mpSocketTask EXCEPT ![fd] = NoTask] /\ epoll' = epoll
    BY <1>1, <1>2, <1>3, DeleteTaskFact
  <1>5. ConnOf(fd) = <<"handed">>
    BY <1>1, ConnSays DEF SaysWhere
  <1>6. ConnOf(fd)' = <<"closed">>
    BY <1>3, <1>4, ConnSaysNext DEF SaysWhere
  <1>7. \A other \in Fds \ {fd} : ConnOf(other)' = ConnOf(other)
    BY <1>1, <1>2, <1>3, <1>4, StaysPut DEF Holds
  <1>8. Life!Move(fd, <<"handed">>, <<"closed">>)
    BY <1>5, <1>6, <1>7, OneMoves
  <1> QED BY <1>8 DEF Life!Next, Life!Refuse, Life!Handed, Life!Closed

LEMMA PutRefines ==
    ASSUME Inv2, Inv2', PutTask
    PROVE  Life!Next \/ UNCHANGED Life!vars
  <1>1. UNCHANGED <<epoll, m_mpSocketTask, pclTask>>
    BY DEF PutTask, taskVars, workerVars
  <1>2. CASE m_clLock[i] # "nobody"
    <2>1. UNCHANGED <<m_queUserQueryTask, iSockfd>>
      BY <1>2 DEF PutTask
    <2>2. \A fd \in Fds : ConnOf(fd)' = ConnOf(fd)
      BY <1>1, <2>1, StaysPut DEF Holds
    <2> QED BY <2>2, NoneMoves
  <1>3. CASE m_clLock[i] = "nobody"
    <2>1. PICK w \in Workers : w = i
      BY IndexFact DEF Inv2, Inv1, PutTask
    <2>2. PICK fd \in Fds : fd = iSockfd /\ m_mpSocketTask[fd] \in Tasks
      BY HandFact DEF Inv2, PutTask
    <2> DEFINE q == m_queUserQueryTask[w]
               t == m_mpSocketTask[fd]
    <2>3. /\ m_queUserQueryTask' = [m_queUserQueryTask EXCEPT ![w] = Append(q, t)]
          /\ iSockfd' = NoFd /\ NoFd \notin Fds /\ NoTask \notin Tasks
      BY <1>3, <2>1, <2>2, DispatchAssumption DEF PutTask
    <2>4. m_queUserQueryTask \in [Workers -> Seq(Tasks)]
      BY DEF Inv2, Inv1, TypeOK
    <2>5. /\ \A k \in 1..Len(q) : k \in 1..Len(Append(q, t)) /\ Append(q, t)[k] = q[k]
          /\ Len(q) + 1 \in 1..Len(Append(q, t)) /\ Append(q, t)[Len(q) + 1] = t
          /\ \A k \in 1..Len(Append(q, t)) : k = Len(q) + 1 \/ k \in 1..Len(q)
      BY <2>2, <2>4, AppendSlots
    <2>6. /\ m_queUserQueryTask'[w] = Append(q, t)
          /\ \A v \in Workers \ {w} : m_queUserQueryTask'[v] = m_queUserQueryTask[v]
      BY <2>3, <2>4
    <2>7. ConnOf(fd) = <<"handed">>
      BY <2>2, ConnSays DEF SaysWhere
    <2>8. ConnOf(fd)' = <<"queued", w>>
      <3>1. Holds(w, fd)'
        BY <1>1, <2>5, <2>6 DEF Holds
      <3>2. m_mpSocketTask'[fd] # NoTask
        BY <1>1, <2>2, <2>3
      <3> QED BY <3>1, <3>2, ConnSaysNext DEF SaysWhere
    <2>9. ASSUME NEW other \in Fds \ {fd}
          PROVE  ConnOf(other)' = ConnOf(other)
      <3>1. ASSUME m_mpSocketTask[other] # NoTask, NEW v \in Workers
            PROVE  Holds(v, other)' <=> Holds(v, other)
        <4>1. CASE v # w
          BY <1>1, <2>6, <4>1 DEF Holds
        <4>2. CASE v = w
          <5>1. m_mpSocketTask[other] # t
            BY <3>1, OwnTask
          <5> HIDE DEF q, t
          <5>2. Holds(w, other) <=> \E k \in 1..Len(q) : q[k] = m_mpSocketTask[other]
            BY DEF Holds, q
          <5>3. Holds(w, other)' <=> \E k \in 1..Len(Append(q, t)) : Append(q, t)[k] = m_mpSocketTask[other]
            BY <1>1, <2>6 DEF Holds
          <5> QED BY <2>5, <4>2, <5>1, <5>2, <5>3
        <4> QED BY <4>1, <4>2
      <3> QED BY <1>1, <2>2, <2>3, <3>1, StaysPut
    <2>10. Life!Move(fd, <<"handed">>, <<"queued", w>>)
      BY <2>7, <2>8, <2>9, OneMoves
    <2> QED BY <2>10 DEF Life!Next, Life!Give, Life!Handed, Life!Queued
  <1> QED BY <1>2, <1>3

LEMMA PopRefines ==
    ASSUME Inv2, Inv2', NEW w \in Workers, PopTask(w)
    PROVE  Life!Next
  <1> DEFINE q == m_queUserQueryTask[w]
             t == Head(q)
  <1>1. /\ q # <<>> /\ pclTask' = [pclTask EXCEPT ![w] = t]
        /\ m_queUserQueryTask' = [m_queUserQueryTask EXCEPT ![w] = Tail(q)]
        /\ UNCHANGED <<epoll, m_mpSocketTask, iSockfd>>
    BY DEF PopTask, taskVars, serverVars
  <1>2. /\ m_queUserQueryTask \in [Workers -> Seq(Tasks)] /\ pclTask \in [Workers -> Tasks \cup {NoTask}]
        /\ sock \in [Tasks -> Fds \cup {NoFd}] /\ NoFd \notin Fds /\ NoTask \notin Tasks
    BY DispatchAssumption DEF Inv2, Inv1, TypeOK
  <1>3. pclTask[w] = NoTask
    BY DEF Inv2, Inv1, PopTask, Goto, ControlInv
  <1>4. /\ q \in Seq(Tasks) /\ Len(q) \in Nat /\ Len(q) >= 1
        /\ \A k \in 1..Len(Tail(q)) : k + 1 \in 1..Len(q) /\ Tail(q)[k] = q[k + 1]
        /\ t = q[1]
        /\ \A k \in 1..Len(q) : k # 1 => k - 1 \in 1..Len(Tail(q)) /\ Tail(q)[k - 1] = q[k]
    BY <1>1, <1>2, TailSlots
  <1>5. 1 \in 1..Len(q) /\ t \in Tasks
    BY <1>4
  <1>6. Away(sock[t])
    BY <1>4, <1>5 DEF Inv2, PlaceInv, QueueInv
  <1>7. PICK fd \in Fds : fd = sock[t]
    BY <1>6 DEF Away
  <1>8. m_mpSocketTask[fd] = t
    BY <1>2, <1>5, <1>7 DEF Inv2, PlaceInv, MapInv
  <1>9. /\ pclTask'[w] = t /\ m_queUserQueryTask'[w] = Tail(q)
        /\ \A v \in Workers \ {w} : pclTask'[v] = pclTask[v] /\ m_queUserQueryTask'[v] = m_queUserQueryTask[v]
    BY <1>1, <1>2
  <1>10. ConnOf(fd) = <<"queued", w>>
    <2>1. Holds(w, fd) /\ m_mpSocketTask[fd] # NoTask
      BY <1>2, <1>4, <1>5, <1>8 DEF Holds
    <2> QED BY <2>1, ConnSays DEF SaysWhere
  <1>11. ConnOf(fd)' = <<"running", w>>
    <2>1. pclTask'[w] = m_mpSocketTask'[fd] /\ m_mpSocketTask'[fd] # NoTask
      BY <1>1, <1>2, <1>5, <1>8, <1>9
    <2> QED BY <2>1, ConnSaysNext DEF SaysWhere
  <1>12. ASSUME NEW other \in Fds \ {fd}
         PROVE  ConnOf(other)' = ConnOf(other)
    <2>1. ASSUME m_mpSocketTask[other] # NoTask
          PROVE  m_mpSocketTask[other] # t
      BY <1>8, <2>1, OwnTask
    <2>2. ASSUME m_mpSocketTask[other] # NoTask, NEW v \in Workers
          PROVE  Holds(v, other)' <=> Holds(v, other)
      <3>1. CASE v # w
        BY <1>1, <1>9, <3>1 DEF Holds
      <3>2. CASE v = w
        <4> HIDE DEF q, t
        <4>1. Holds(w, other) <=> \E k \in 1..Len(q) : q[k] = m_mpSocketTask[other]
          BY DEF Holds, q
        <4>2. Holds(w, other)' <=> \E k \in 1..Len(Tail(q)) : Tail(q)[k] = m_mpSocketTask[other]
          BY <1>1, <1>9 DEF Holds
        <4> QED BY <1>4, <2>1, <2>2, <3>2, <4>1, <4>2
      <3> QED BY <3>1, <3>2
    <2>3. ASSUME m_mpSocketTask[other] # NoTask, NEW v \in Workers
          PROVE  pclTask'[v] = m_mpSocketTask[other] <=> pclTask[v] = m_mpSocketTask[other]
      BY <1>3, <1>9, <2>1, <2>3
    <2> QED BY <1>1, <2>2, <2>3, StaysPut
  <1>13. \A other \in Fds : ConnOf(other) # <<"running", w>>
    BY <1>3, ConnSays DEF SaysWhere
  <1>14. Life!Move(fd, <<"queued", w>>, <<"running", w>>)
    BY <1>10, <1>11, <1>12, OneMoves
  <1>15. Life!Start(fd, w)
    BY <1>13, <1>14 DEF Life!Start, Life!Queued, Life!Running
  <1> QED BY <1>15 DEF Life!Next

LEMMA ReportRefines ==
    ASSUME Inv2, Inv2', NEW w \in Workers, ReportStatus(w)
    PROVE  Life!Next
  <1> DEFINE t == pclTask[w]
  <1>1. /\ pclTask \in [Workers -> Tasks \cup {NoTask}] /\ NoTask \notin Tasks
        /\ m_vecTaskStauts \in [Workers -> Seq(TaskStatus)] /\ NoFd \notin Fds
        /\ iRes \in [Workers -> BOOLEAN]
    BY DispatchAssumption DEF Inv2, Inv1, TypeOK
  <1>2. t \in Tasks
    BY <1>1 DEF Inv2, Inv1, ReportStatus, Goto, ControlInv
  <1>3. PICK fd \in Fds : fd = sock[t]
    BY DEF ReportStatus
  <1>4. m_mpSocketTask[fd] = t
    BY <1>1, <1>2, <1>3 DEF Inv2, PlaceInv, MapInv
  <1> DEFINE st == [m_iSockFd |-> fd, m_bStatus |-> iRes[w]]
             s == m_vecTaskStauts[w]
  <1>5. /\ m_vecTaskStauts' = [m_vecTaskStauts EXCEPT ![w] = Append(s, st)]
        /\ pclTask' = [pclTask EXCEPT ![w] = NoTask]
        /\ UNCHANGED <<epoll, m_mpSocketTask, m_queUserQueryTask, iSockfd>>
    BY <1>3 DEF ReportStatus, taskVars, serverVars
  <1>6. Reported(fd)'
    <2>1. st \in TaskStatus
      BY <1>1 DEF TaskStatus
    <2>2. s \in Seq(TaskStatus)
      BY <1>1
    <2>3. st.m_iSockFd = fd
      OBVIOUS
    <2> HIDE DEF st, s
    <2>4. Len(s) + 1 \in 1..Len(Append(s, st)) /\ Append(s, st)[Len(s) + 1] = st
      BY <2>1, <2>2, AppendSlots
    <2>5. m_vecTaskStauts'[w] = Append(s, st)
      BY <1>1, <1>5
    <2> QED BY <2>3, <2>4, <2>5 DEF Reported, ReportedAt
  <1>7. ConnOf(fd) = <<"running", w>>
    BY <1>1, <1>2, <1>4, ConnSays DEF SaysWhere
  <1>8. ConnOf(fd)' = <<"reported">>
    BY <1>6, ConnSaysNext DEF SaysWhere
  <1>9. ASSUME NEW other \in Fds \ {fd}
        PROVE  ConnOf(other)' = ConnOf(other)
    <2>1. ASSUME m_mpSocketTask[other] # NoTask
          PROVE  m_mpSocketTask[other] # t
      BY <1>4, <2>1, OwnTask
    <2>2. ASSUME m_mpSocketTask[other] # NoTask, NEW v \in Workers
          PROVE  pclTask'[v] = m_mpSocketTask[other] <=> pclTask[v] = m_mpSocketTask[other]
      BY <1>1, <1>5, <2>1, <2>2
    <2> QED BY <1>5, <2>2, StaysPut DEF Holds
  <1>10. Life!Move(fd, <<"running", w>>, <<"reported">>)
    BY <1>7, <1>8, <1>9, OneMoves
  <1>11. Life!Finish(fd, w)
    BY <1>10 DEF Life!Finish, Life!Running, Life!Reported
  <1> QED BY <1>11 DEF Life!Next

LEMMA StepRefines ==
    ASSUME Inv2, Inv2', [Next]_vars
    PROVE  Life!Next \/ UNCHANGED Life!vars
  <1>s. ASSUME UNCHANGED <<epoll, m_mpSocketTask, m_queUserQueryTask, pclTask, iSockfd>>
        PROVE  UNCHANGED Life!vars
    <2>1. \A fd \in Fds : ConnOf(fd)' = ConnOf(fd)
      BY <1>s, StaysPut DEF Holds
    <2> QED BY <2>1, NoneMoves
  <1>1. CASE ServerNext
    <2>1. CASE NextStatusQueue \/ EpollWait \/ EndOfBatch \/ NotifyWorker
      <3>1. UNCHANGED <<epoll, m_mpSocketTask, m_queUserQueryTask, pclTask, iSockfd>>
        BY <2>1 DEF NextStatusQueue, EpollWait, EndOfBatch, NotifyWorker, taskVars, shared, workerVars
      <3> QED BY <1>s, <3>1
    <2> QED BY <1>1, <2>1, FreeRefines, AcceptRefines, ReadRefines, PutRefines, NoFreeRefines
            DEF ServerNext
  <1>2. ASSUME NEW w \in Workers, WorkerNext(w) \/ SpuriousWakeup(w)
        PROVE  Life!Next \/ UNCHANGED Life!vars
    <2>1. CASE LockQueue(w) \/ WaitForTask(w) \/ SpuriousWakeup(w) \/ UnlockQueue(w)
      <3>1. UNCHANGED <<epoll, m_mpSocketTask, m_queUserQueryTask, pclTask, iSockfd>>
        BY <2>1 DEF LockQueue, WaitForTask, SpuriousWakeup, UnlockQueue, taskVars, shared, serverVars
      <3> QED BY <1>s, <3>1
    <2>2. CASE ReadRequest(w) \/ ServeRequest(w) \/ WriteAnswer(w)
      <3>1. UNCHANGED <<epoll, m_mpSocketTask, m_queUserQueryTask, pclTask, iSockfd>>
        BY <2>2 DEF ReadRequest, ServeRequest, WriteAnswer, taskVars, shared, serverVars
      <3> QED BY <1>s, <3>1
    <2> QED BY <1>2, <2>1, <2>2, PopRefines, ReportRefines DEF WorkerNext
  <1>3. CASE ClientNext
    <2>1. UNCHANGED <<epoll, m_mpSocketTask, m_queUserQueryTask, pclTask, iSockfd>>
      BY <1>3 DEF ClientNext, Connect, Send, Disconnect, Reset, taskVars, shared, serverVars, workerVars
    <2> QED BY <1>s, <2>1
  <1>4. CASE UNCHANGED vars
    <2>1. UNCHANGED <<epoll, m_mpSocketTask, m_queUserQueryTask, pclTask, iSockfd>>
      BY <1>4 DEF vars, taskVars, shared, serverVars, workerVars
    <2> QED BY <1>s, <2>1
  <1> QED BY <1>1, <1>2, <1>3, <1>4 DEF Next

LEMMA InitRefines == Init => Life!Init
  BY DEF Init, InitServer, ConnOf, Life!Init, Life!Closed

\* The dispatcher implements ConnLife, for any number of workers, descriptors and
\* heap addresses: queues, mutexes, epoll set and map together pass every connection
\* from one party to the next in the order ConnLife gives.
THEOREM DispatchImplementsConnLife == Spec => ImplementsConnLife
  <1>1. Inv2 /\ Inv2' /\ [Next]_vars => [Life!Next]_(Life!vars)
    BY StepRefines
  <1> QED BY <1>1, Inv2Holds, InitRefines, PTL DEF Spec, ImplementsConnLife, Life!Spec
=============================================================================
