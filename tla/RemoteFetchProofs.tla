------------------------- MODULE RemoteFetchProofs -------------------------
(***************************************************************************)
(* Proofs about RemoteFetch, for any answers and any number of             *)
(* descriptors: the types, the descriptors, and the two statements about   *)
(* the value a fetch returns.                                              *)
(***************************************************************************)
EXTENDS RemoteFetch, TLAPS

\* Between two fetches nothing of the last one is left, so that the next may
\* bring another answer.
IdleClean == pc = "idle" => sent = 0 /\ uiReadLen = 0 /\ remote = "closed"

\* Where the worker is decides whether it has a socket and whether TcpClose
\* would close it.
SocketPhase ==
    /\ pc \in {"idle", "replace", "ended"} => sock = "none"
    /\ pc = "connect" => sock = "created"
    /\ pc \in {"handshake", "write", "spin", "head", "line", "data"} => sock = "connected"
    /\ pc = "length" => sock # "created"

\* What each loop knows of the answer and of the bytes it has.
LoopKnows ==
    /\ pc = "length" => resp.enc = "length" /\ uiReadLen >= HeadLen
    /\ pc \in {"line", "data"} => resp.enc # "length" /\ uiReadLen >= HeadLen
    /\ pc = "data" => resp.enc = "chunked" /\ uiReadLen - HeadLen >= LineEnd(chunk)
                      /\ lChunkLen = ChunkLen(chunk)

FInv ==
    /\ TypeOK /\ IdleClean /\ SocketPhase /\ LoopKnows
    /\ DescriptorsAccounted /\ AllOrNothing /\ ChunkNeverPadded

\* The length of an answer is a number that covers its header and, for a
\* chunk, its framing.
LEMMA TotalFacts ==
    ASSUME NEW r \in Responses
    PROVE  /\ r.enc \in Encodings /\ r.len \in Nat /\ r.digits \in Nat
           /\ r.enc = "chunked" => r.len > 0 /\ r.digits > 0
           /\ Total(r) \in Nat
           /\ r.enc # "chunked" => Total(r) = 2 + r.len
           /\ r.enc = "chunked" => Total(r) = r.digits + r.len + 11
  BY FetchAssumption DEF Total, BodyBytes, HeadLen

LEMMA FInvInit == Init => FInv
  <1> SUFFICES ASSUME Init PROVE FInv
    OBVIOUS
  <1>1. TypeOK
    <2>1. resp \in Responses /\ Total(resp) \in Nat
      BY TotalFacts DEF Init
    <2>2. https \in BOOLEAN /\ asked \in BOOLEAN
      BY Zenon DEF Init
    <2>3. sent \in 0..Total(resp) /\ uiReadLen \in 0..sent /\ fds \in 0..MaxFds
      BY <2>1, FetchAssumption DEF Init
    <2> QED BY <2>1, <2>2, <2>3 DEF Init, TypeOK
  <1> QED
    BY <1>1 DEF Init, FInv, IdleClean, SocketPhase, LoopKnows, DescriptorsAccounted, AllOrNothing, ChunkNeverPadded

\* A return with a value that fits the answer re-establishes the invariant.
LEMMA ReturnKeeps ==
    ASSUME FInv, NEW res \in {"SUCCESS", "OTHERERROR", "LINKERROR"}, NEW value \in Nat,
           Result(res, value), sock' = "none", fds' \in Nat, failures' \in Nat,
           fds' <= fds, fds' = failures',
           res = "SUCCESS" /\ resp.enc = "length" => value \in {0, resp.len},
           res = "SUCCESS" /\ resp.enc = "chunked" /\ resp.digits = 1 /\ resp.len >= 5
               => value <= resp.len
    PROVE  FInv'
  <1>1. resp' = resp /\ Total(resp) \in Nat
    BY TotalFacts DEF Result, FInv, TypeOK
  <1>2. TypeOK'
    <2>1. https' \in BOOLEAN /\ asked' \in BOOLEAN
      BY Zenon DEF FInv, TypeOK, Result
    <2>2. sent' \in 0..Total(resp') /\ uiReadLen' \in 0..sent'
      BY <1>1 DEF Result
    <2>3. fds' \in 0..MaxFds
      BY FetchAssumption DEF FInv, TypeOK
    <2> QED BY <1>1, <2>1, <2>2, <2>3 DEF FInv, TypeOK, Result
  <1>3. IdleClean' /\ SocketPhase' /\ LoopKnows'
    BY DEF Result, IdleClean, SocketPhase, LoopKnows
  <1>4. DescriptorsAccounted'
    <2>1. fds' = failures' + 0
      <3>1. \A n \in Nat : n = n + 0
        OBVIOUS
      <3> QED BY <3>1, Zenon
    <2>2. pc' # "ended"
      BY DEF Result
    <2> QED BY <2>1, <2>2, Zenon DEF DescriptorsAccounted
  <1> QED
    BY <1>1, <1>2, <1>3, <1>4 DEF FInv, Result, AllOrNothing, ChunkNeverPadded

\* A return after TcpClose leaves no descriptor of its own behind.
LEMMA CloseKeeps ==
    ASSUME FInv, NEW res \in {"SUCCESS", "OTHERERROR", "LINKERROR"}, NEW value \in Nat,
           CloseAndReturn(res, value), sock # "created",
           res = "SUCCESS" /\ resp.enc = "length" => value \in {0, resp.len},
           res = "SUCCESS" /\ resp.enc = "chunked" /\ resp.digits = 1 /\ resp.len >= 5
               => value <= resp.len
    PROVE  FInv'
  <1>1. Result(res, value) /\ sock' = "none" /\ failures' = failures
    BY DEF CloseAndReturn
  <1>2. failures \in Nat /\ fds \in Nat /\ fds' = failures /\ fds' <= fds
    <2>1. /\ sock \in {"none", "connected"} /\ fds \in Nat /\ failures \in Nat
          /\ fds = failures + (IF sock = "none" THEN 0 ELSE 1)
      BY DEF FInv, TypeOK, DescriptorsAccounted
    <2> QED BY <2>1 DEF CloseAndReturn, TcpClose
  <1> QED BY <1>1, <1>2, ReturnKeeps

LEMMA FInvStep == FInv /\ [Next]_vars => FInv'
  <1> SUFFICES ASSUME FInv, [Next]_vars PROVE FInv'
    OBVIOUS
  <1> USE DEF FInv
  <1>t. /\ resp \in Responses
        /\ resp.enc \in Encodings /\ resp.len \in Nat /\ resp.digits \in Nat
        /\ resp.enc = "chunked" => resp.len > 0 /\ resp.digits > 0
        /\ Total(resp) \in Nat
        /\ resp.enc # "chunked" => Total(resp) = 2 + resp.len
        /\ resp.enc = "chunked" => Total(resp) = resp.digits + resp.len + 11
    BY TotalFacts DEF TypeOK
  <1>1. ASSUME NEW n \in 1..Total(resp), Deliver(n) PROVE FInv'
    BY <1>1, <1>t
    DEF Deliver, TypeOK, IdleClean, SocketPhase, LoopKnows, DescriptorsAccounted, AllOrNothing, ChunkNeverPadded,
        outVars, fdVars, chunkVars, LineEnd, ChunkLen
  <1>2. CASE Break
    BY <1>2, <1>t
    DEF Break, TypeOK, IdleClean, SocketPhase, LoopKnows, DescriptorsAccounted, AllOrNothing, ChunkNeverPadded,
        outVars, fdVars, chunkVars, LineEnd, ChunkLen
  <1>s. CASE StartThrows
    BY <1>s, <1>t
    DEF StartThrows, TypeOK, IdleClean, SocketPhase, LoopKnows, DescriptorsAccounted, AllOrNothing,
        ChunkNeverPadded, conVars, fdVars, chunkVars, outVars
  <1>3. CASE Start
    BY <1>3, TotalFacts, FetchAssumption
    DEF Start, TypeOK, IdleClean, SocketPhase, LoopKnows, DescriptorsAccounted, AllOrNothing, ChunkNeverPadded, chunkVars
  <1>r. CASE ReplaceForever
    BY <1>r, <1>t
    DEF ReplaceForever, TypeOK, IdleClean, SocketPhase, LoopKnows, DescriptorsAccounted, AllOrNothing, ChunkNeverPadded,
        conVars, fdVars, chunkVars
  <1>4. CASE TcpConnect
    BY <1>4, <1>t
    DEF TcpConnect, TypeOK, IdleClean, SocketPhase, LoopKnows, DescriptorsAccounted, AllOrNothing,
        ChunkNeverPadded, outVars, fdVars, chunkVars
  <1>f. CASE TcpConnectFails
    <2>1. /\ fds \in Nat /\ failures \in Nat /\ fds = failures + 1
          /\ fds' = fds /\ failures' = failures + 1
      BY <1>f DEF TcpConnectFails, TcpClose, TypeOK, SocketPhase, DescriptorsAccounted
    <2> QED BY <1>f, <2>1, ReturnKeeps DEF TcpConnectFails
  <1>5. CASE TcpSslConnect
    <2>1. CASE CloseAndReturn("SUCCESS", 0)
      BY <1>5, <2>1, CloseKeeps, <1>t DEF TcpSslConnect, SocketPhase
    <2>2. CASE ~CloseAndReturn("SUCCESS", 0)
      BY <1>5, <2>2, <1>t
      DEF TcpSslConnect, TypeOK, IdleClean, SocketPhase, LoopKnows, DescriptorsAccounted, AllOrNothing, ChunkNeverPadded,
          outVars, fdVars, chunkVars, conVars
    <2> QED BY <2>1, <2>2
  <1>6. CASE TcpWrite
    <2>1. CASE CloseAndReturn("SUCCESS", 0)
      BY <1>6, <2>1, CloseKeeps, <1>t DEF TcpWrite, SocketPhase
    <2>2. CASE ~CloseAndReturn("SUCCESS", 0)
      BY <1>6, <2>2, <1>t
      DEF TcpWrite, TypeOK, IdleClean, SocketPhase, LoopKnows, DescriptorsAccounted, AllOrNothing, ChunkNeverPadded,
          outVars, fdVars, chunkVars
    <2> QED BY <2>1, <2>2
  <1>7. CASE TcpSslWriteLen
    BY <1>7, <1>t
    DEF TcpSslWriteLen, TypeOK, IdleClean, SocketPhase, LoopKnows, DescriptorsAccounted, AllOrNothing, ChunkNeverPadded,
        outVars, fdVars, chunkVars
  <1>8. CASE ReadHead
    <2>1. CASE CloseAndReturn("OTHERERROR", 0)
      BY <1>8, <2>1, CloseKeeps DEF ReadHead, SocketPhase
    <2>2. CASE ~CloseAndReturn("OTHERERROR", 0)
      <3>1. PICK n \in 1..sent :
               /\ Read(n, Total(resp))
               /\ HeaderRead(n)
               /\ uiReadLen' = n
               /\ UNCHANGED <<conVars, fdVars, chunk, lChunkLen, outVars>>
               /\ \/ pc' = "length" /\ resp.enc = "length" /\ UNCHANGED iTmpBodyLen
                  \/ pc' = "line" /\ resp.enc # "length" /\ ~https /\ iTmpBodyLen' = n - HeadLen
        BY <1>8, <2>2 DEF ReadHead, chunkVars
      <3>2. pc = "head" /\ sock' = sock /\ sent' = sent /\ resp' = resp /\ n >= 2
        BY <1>8, <3>1 DEF ReadHead, conVars, fdVars, HeaderRead, HeadLen
      <3> QED
        BY <3>1, <3>2, <1>t
        DEF TypeOK, IdleClean, SocketPhase, LoopKnows, DescriptorsAccounted, AllOrNothing, ChunkNeverPadded,
            outVars, fdVars, conVars, HeadLen
    <2> QED BY <2>1, <2>2
  <1>9. CASE CollectBody
    <2>1. CASE /\ resp.len <= uiReadLen - HeadLen
               /\ CloseAndReturn("SUCCESS", uiReadLen - HeadLen)
      <3>1. resp.enc = "length" /\ uiReadLen >= 2 /\ uiReadLen - HeadLen = resp.len
        BY <1>9, <2>1, <1>t DEF CollectBody, TypeOK, LoopKnows, HeadLen
      <3> QED
        BY <1>9, <2>1, <3>1, <1>t, CloseKeeps DEF CollectBody, SocketPhase
    <2>2. ASSUME NEW n \in 1..resp.len, Read(n, resp.len - (uiReadLen - HeadLen)),
                 uiReadLen' = uiReadLen + n, resp.len > uiReadLen - HeadLen,
                 UNCHANGED <<pc, conVars, fdVars, chunkVars, outVars>>
          PROVE  FInv'
      <3>1. uiReadLen + n <= sent
        BY <2>2, <1>t, <1>9
        DEF Read, TcpRead, TcpSslRead, TypeOK, HeadLen, CollectBody, LoopKnows
      <3> QED
        BY <1>9, <2>2, <3>1, <1>t
        DEF CollectBody, TypeOK, IdleClean, SocketPhase, LoopKnows, DescriptorsAccounted, AllOrNothing, ChunkNeverPadded,
            outVars, fdVars, chunkVars, conVars, HeadLen
    <2>3. CASE /\ IF https THEN UNCHANGED fdVars ELSE TcpClose /\ sock' = "none"
               /\ UNCHANGED <<pc, conVars, uiReadLen, chunkVars, outVars>>
      <3>1. /\ sock' \in {"none", "connected"} /\ fds' \in 0..MaxFds
            /\ fds' = failures + (IF sock' = "none" THEN 0 ELSE 1)
        <4>1. /\ pc = "length" /\ sock \in {"none", "connected"}
              /\ fds \in 0..MaxFds /\ failures \in Nat /\ MaxFds \in Nat
              /\ fds = failures + (IF sock = "none" THEN 0 ELSE 1)
          BY <1>9, FetchAssumption
          DEF CollectBody, TypeOK, SocketPhase, DescriptorsAccounted
        <4> QED BY <2>3, <4>1 DEF TcpClose, fdVars
      <3> QED
        BY <1>9, <2>3, <3>1, <1>t
        DEF CollectBody, TypeOK, IdleClean, SocketPhase, LoopKnows, DescriptorsAccounted,
            AllOrNothing, ChunkNeverPadded, outVars, chunkVars, conVars, HeadLen
    <2> QED BY <1>9, <2>1, <2>2, <2>3 DEF CollectBody
  <1>a. ASSUME ChunkError, sock = "connected" PROVE FInv'
    <2>1. /\ fds \in Nat /\ failures \in Nat /\ fds = failures + 1
          /\ fds' = fds /\ failures' = failures + 1
      BY <1>a DEF ChunkError, TypeOK, DescriptorsAccounted
    <2> QED BY <1>a, <2>1, ReturnKeeps DEF ChunkError
  <1>10. CASE ChunkLine
    <2>0. sock = "connected" /\ uiReadLen >= 2 /\ pc = "line" /\ resp.enc # "length"
      BY <1>10 DEF ChunkLine, SocketPhase, LoopKnows, HeadLen
    <2>1. CASE /\ LineThere
               /\ pc' = "data"
               /\ iTmpBodyLen' = iTmpBodyLen - LineLen(chunk)
               /\ lChunkLen' = ChunkLen(chunk)
               /\ UNCHANGED <<conVars, fdVars, uiReadLen, chunk, outVars>>
      BY <2>0, <2>1, <1>t
      DEF TypeOK, IdleClean, SocketPhase, LoopKnows, DescriptorsAccounted, AllOrNothing, ChunkNeverPadded, LineThere,
          LineLen, LineEnd, ChunkLen, outVars, fdVars, conVars, HeadLen
    <2>2. ASSUME NEW n \in 1..sent, TcpRead(n, Total(resp)), uiReadLen' = uiReadLen + n,
                 UNCHANGED <<pc, conVars, fdVars, chunkVars, outVars>>
          PROVE  FInv'
      <3>1. uiReadLen + n <= sent
        BY <2>2, <1>t DEF TcpRead, TypeOK
      <3> QED
        BY <2>0, <2>2, <3>1, <1>t
        DEF TypeOK, IdleClean, SocketPhase, LoopKnows, DescriptorsAccounted, AllOrNothing, ChunkNeverPadded,
            outVars, fdVars, chunkVars, conVars, HeadLen
    <2> QED BY <1>10, <2>0, <2>1, <2>2, <1>a DEF ChunkLine
  <1>11. CASE ChunkData
    <2>0. /\ sock = "connected" /\ uiReadLen >= 2 /\ pc = "data" /\ resp.enc = "chunked"
          /\ uiReadLen - HeadLen >= LineEnd(chunk) /\ lChunkLen = ChunkLen(chunk)
      BY <1>11 DEF ChunkData, SocketPhase, LoopKnows, HeadLen
    <2>1. CASE /\ lChunkLen > 0
               /\ pc' = "line"
               /\ chunk' = 2
               /\ UNCHANGED <<conVars, fdVars, uiReadLen, lChunkLen, iTmpBodyLen, outVars>>
      BY <2>0, <2>1, <1>t
      DEF TypeOK, IdleClean, SocketPhase, LoopKnows, DescriptorsAccounted, AllOrNothing, ChunkNeverPadded,
          outVars, fdVars, conVars, HeadLen
    <2>2. CASE lChunkLen = 0 /\ CloseAndReturn("SUCCESS", ChunkValue)
      <3>1. chunk = 2
        BY <2>0, <2>2, <1>t DEF ChunkLen, TypeOK
      <3>2. uiReadLen - 2 >= resp.digits + resp.len + 4
        BY <2>0, <3>1, <1>t DEF LineEnd, HeadLen
      <3>3. uiReadLen \in Nat /\ uiReadLen <= resp.digits + resp.len + 11
        BY <2>0, <1>t DEF TypeOK
      <3>4. /\ ChunkValue \in Nat
            /\ resp.digits = 1 /\ resp.len >= 5 => ChunkValue <= resp.len
        BY <3>2, <3>3, <1>t DEF ChunkValue, HeadLen
      <3> QED
        BY <2>0, <2>2, <3>4, CloseKeeps
    <2>3. ASSUME NEW n \in 1..sent, TcpRead(n, Total(resp)), uiReadLen' = uiReadLen + n,
                 iTmpBodyLen' = iTmpBodyLen + n,
                 UNCHANGED <<pc, conVars, fdVars, chunk, lChunkLen, outVars>>
          PROVE  FInv'
      <3>1. uiReadLen + n <= sent
        BY <2>3, <1>t DEF TcpRead, TypeOK
      <3>2. LineEnd(chunk) \in Nat /\ LineEnd(chunk)' = LineEnd(chunk)
            /\ ChunkLen(chunk)' = ChunkLen(chunk)
        BY <2>3, <1>t DEF LineEnd, ChunkLen, conVars
      <3> QED
        BY <2>0, <2>3, <3>1, <3>2, <1>t
        DEF TypeOK, IdleClean, SocketPhase, LoopKnows, DescriptorsAccounted, AllOrNothing, ChunkNeverPadded,
            outVars, fdVars, conVars, HeadLen
    <2> QED BY <1>11, <2>0, <2>1, <2>2, <2>3, <1>a DEF ChunkData
  <1>12. CASE UNCHANGED vars
    BY <1>12
    DEF vars, TypeOK, IdleClean, SocketPhase, LoopKnows, DescriptorsAccounted, AllOrNothing, ChunkNeverPadded,
        outVars, fdVars, conVars, chunkVars, LineEnd, ChunkLen
  <1> QED
    BY <1>1, <1>2, <1>3, <1>r, <1>s, <1>4, <1>f, <1>5, <1>6, <1>7, <1>8, <1>9, <1>10, <1>11, <1>12
    DEF Next, WorkerNext

LEMMA FInvAlways == Spec => []FInv
  BY FInvInit, FInvStep, PTL DEF Spec

\* The byte counts of BdxGetRemoteGateWayData keep their ranges for every
\* answer: in particular never more is counted as read than has arrived.
THEOREM FetchTypeCorrect == Spec => []TypeOK
  BY FInvAlways, PTL DEF FInv

\* Only a refused connection and a chunked answer given up cost a descriptor,
\* and it takes as many of them as there are descriptors to end the process.
THEOREM DescriptorsAlwaysAccounted == Spec => []DescriptorsAccounted
  BY FInvAlways, PTL DEF FInv

\* A Content-Length answer is returned whole or not at all, however TCP cuts
\* it.
THEOREM AllOrNothingAlways == Spec => []AllOrNothing
  BY FInvAlways, PTL DEF FInv

\* A chunk of 5 to 15 bytes is never returned with bytes of its framing.
THEOREM NeverPadded == Spec => []ChunkNeverPadded
  BY FInvAlways, PTL DEF FInv
=============================================================================
