---------------------------- MODULE RemoteFetch ----------------------------
(***************************************************************************)
(* CTaskMain::BdxGetRemoteGateWayData: a worker fetches the answer of the  *)
(* remote service over HTTP or HTTPS, from a peer that may refuse, stall,  *)
(* close or reset at any moment and whose answer TCP cuts as it likes.     *)
(*                                                                         *)
(* Bytes are counted, not stored: a header is HeadLen bytes, and of the    *)
(* body only the places of the line ends matter.  A chunked answer is one  *)
(* chunk and the closing chunk ("hex CRLF data CRLF 0 CRLF CRLF"); answers *)
(* fit the buffer, and contain no zero byte.                               *)
(***************************************************************************)
EXTENDS Integers

CONSTANTS
    Responses,    \* the answers the remote service may give
    MaxFds        \* descriptors the rest of the process leaves for remote sockets

HeadLen == 2      \* long enough to be cut in two

\* "length": with a Content-Length; "chunked"; "bare": neither, and no line
\* end in the body.  digits: the length of the chunk's size in hex.
Encodings == {"length", "chunked", "bare"}

ASSUME FetchAssumption ==
    /\ Responses \subseteq [enc : Encodings, len : Nat, digits : Nat]
    /\ \A r \in Responses : r.enc = "chunked" => r.len > 0 /\ r.digits > 0
    /\ MaxFds \in Nat

VARIABLES
    pc,           \* where the worker is
    https,        \* mIntIsHttps of the action
    resp,         \* the answer the remote service is going to give
    asked,        \* the request has reached the remote service
    remote,       \* whether the remote peer has closed or reset the connection
    sent,         \* bytes of the answer that have arrived at the gateway
    sock,         \* remoteSocket: no descriptor, a created or a connected one
    fds,          \* the descriptors of remote sockets that are open
    uiReadLen,
    chunk,        \* which size line the chunk loop is at
    lChunkLen,
    iTmpBodyLen,
    iRes,         \* the result of the last fetch
    mResValue,    \* and the length of its value
    failures      \* history: the fetches that ended in "2001 connect remote is
                  \* error" or in "Get Http Body error."

conVars == <<resp, https, asked, remote, sent>>
chunkVars == <<chunk, lChunkLen, iTmpBodyLen>>
fdVars == <<sock, fds>>
outVars == <<iRes, mResValue, failures>>
vars == <<pc, conVars, fdVars, uiReadLen, chunkVars, outVars>>

BodyBytes(r) == IF r.enc = "chunked" THEN r.digits + 2 + r.len + 7 ELSE r.len
Total(r) == HeadLen + BodyBytes(r)

\* Every variable has its type: no read returns more than has arrived.
TypeOK ==
    /\ pc \in {"idle", "connect", "handshake", "write", "head", "length", "line", "data", "spin", "replace", "ended"}
    /\ https \in BOOLEAN
    /\ resp \in Responses
    /\ asked \in BOOLEAN
    /\ remote \in {"open", "closed"}
    /\ sent \in 0..Total(resp)
    /\ sock \in {"none", "created", "connected"}
    /\ fds \in 0..MaxFds
    /\ uiReadLen \in 0..sent
    /\ chunk \in 1..2
    /\ lChunkLen \in Nat
    /\ iTmpBodyLen \in Int
    /\ iRes \in {"none", "SUCCESS", "OTHERERROR", "LINKERROR"}
    /\ mResValue \in Nat
    /\ failures \in Nat

Init ==
    /\ pc = "idle"
    /\ https = FALSE
    /\ resp \in Responses
    /\ asked = FALSE
    /\ remote = "closed"
    /\ sent = 0
    /\ sock = "none" /\ fds = 0
    /\ uiReadLen = 0
    /\ chunk = 1
    /\ lChunkLen = 0
    /\ iTmpBodyLen = 0
    /\ iRes = "none"
    /\ mResValue = 0
    /\ failures = 0

-----------------------------------------------------------------------------
(***************************************************************************)
(* The remote service.                                                     *)
(***************************************************************************)
Deliver(n) ==
    /\ asked
    /\ remote = "open"
    /\ sent + n <= Total(resp)
    /\ sent' = sent + n
    /\ UNCHANGED <<pc, resp, https, asked, remote, fdVars, uiReadLen, chunkVars, outVars>>

\* An orderly close, or a reset, which discards what has not been read.
Break ==
    /\ remote = "open"
    /\ remote' = "closed"
    /\ sent' \in {sent, uiReadLen}
    /\ UNCHANGED <<pc, resp, https, asked, fdVars, uiReadLen, chunkVars, outVars>>

-----------------------------------------------------------------------------
(***************************************************************************)
(* The worker.                                                             *)
(***************************************************************************)
\* The number of bytes one recv with room for max returns.  SSL_read may
\* return less than there is.
TcpRead(n, max) == n > 0 /\ n = IF sent - uiReadLen < max THEN sent - uiReadLen ELSE max
TcpSslRead(n, max) == n \in 1..max /\ n <= sent - uiReadLen

Read(n, max) == IF https THEN TcpSslRead(n, max) ELSE TcpRead(n, max)

\* End of file, an error, the timeout of the socket, or no descriptor.
ReadFails == sent = uiReadLen \/ sock = "none"

\* The whole function returns; its locals are dead.
Result(res, value) ==
    /\ pc' = "idle"
    /\ iRes' = res
    /\ mResValue' = value
    /\ asked' = FALSE
    /\ remote' = "closed"
    /\ sent' = 0
    /\ uiReadLen' = 0
    /\ chunk' = 1
    /\ lChunkLen' = 0
    /\ iTmpBodyLen' = 0
    /\ UNCHANGED <<resp, https>>

\* TcpClose, alone or in TcpSslDestroy, closes a connected socket only
\* (m_bConnect).
TcpClose == fds' = IF sock = "connected" THEN fds - 1 ELSE fds

\* The return drops remoteSocket, which is never deleted.
CloseAndReturn(res, value) ==
    /\ TcpClose
    /\ sock' = "none"
    /\ Result(res, value)
    /\ UNCHANGED failures

\* BdxGenerateReqUrl with a parameter of a POST whose value contains the
\* placeholder it is put in place of: BdxTaskMainReplace_All finds the placeholder
\* again in what it has just written.
ReplaceForever ==
    /\ pc \in {"idle", "replace"}
    /\ pc' = "replace"
    /\ iRes' = "none"
    /\ mResValue' = 0
    /\ UNCHANGED <<conVars, fdVars, uiReadLen, chunkVars, failures>>

\* Any other request, then new CTcpSocket: the socket exists before it is
\* connected.
Start ==
    /\ pc = "idle"
    /\ fds < MaxFds
    /\ pc' = "connect"
    /\ sock' = "created" /\ fds' = fds + 1
    /\ https' \in BOOLEAN
    /\ resp' \in Responses
    /\ iRes' = "none"
    /\ mResValue' = 0
    /\ UNCHANGED <<asked, remote, sent, uiReadLen, chunkVars, failures>>

\* Without a descriptor the constructor of CTcpSocket throws; no worker catches
\* anything, and the process ends.
StartThrows ==
    /\ pc = "idle"
    /\ fds = MaxFds
    /\ pc' = "ended"
    /\ UNCHANGED <<conVars, fdVars, uiReadLen, chunkVars, outVars>>

TcpConnect ==
    /\ pc = "connect"
    /\ pc' = IF https THEN "handshake" ELSE "write"
    /\ sock' = "connected"
    /\ remote' = "open"
    /\ UNCHANGED <<resp, https, asked, sent, fds, uiReadLen, chunkVars, outVars>>

\* "2001 connect remote is error": TcpClose finds the socket not connected.
TcpConnectFails ==
    /\ pc = "connect"
    /\ TcpClose
    /\ sock' = "none"
    /\ Result("OTHERERROR", 0)
    /\ failures' = failures + 1

\* Faulty variant: a failed handshake returns at once.
TcpSslConnectReturns ==
    /\ pc = "handshake"
    /\ \/ /\ remote = "open"
          /\ pc' = "write"
          /\ UNCHANGED <<conVars, fdVars, uiReadLen, chunkVars, outVars>>
       \/ Result("SUCCESS", 0) /\ sock' = "none" /\ UNCHANGED <<fds, failures>>

\* A failed handshake skips everything but TcpSslDestroy.
TcpSslConnect ==
    /\ pc = "handshake"
    /\ \/ /\ remote = "open"
          /\ pc' = "write"
          /\ UNCHANGED <<conVars, fdVars, uiReadLen, chunkVars, outVars>>
       \/ CloseAndReturn("SUCCESS", 0)

\* A failed TcpWrite skips everything but TcpClose.
TcpWrite ==
    /\ pc = "write"
    /\ ~https
    /\ \/ /\ pc' = "head"
          /\ asked' = (remote = "open")
          /\ UNCHANGED <<resp, https, remote, sent, fdVars, uiReadLen, chunkVars, outVars>>
       \/ CloseAndReturn("SUCCESS", 0)

\* TcpSslWriteLen returns the length or -1, both of which are not 0; when the
\* peer has closed the session it tries for ever.
TcpSslWriteLen ==
    /\ https
    /\ \/ pc = "write" /\ pc' = "head" /\ asked' \in {remote = "open", FALSE}
       \/ pc = "write" /\ remote = "closed" /\ pc' = "spin" /\ UNCHANGED asked
       \/ pc = "spin" /\ UNCHANGED <<pc, asked>>
    /\ UNCHANGED <<resp, https, remote, sent, fdVars, uiReadLen, chunkVars, outVars>>

HeaderRead(n) == n >= HeadLen

\* The first read must bring the whole header.  Without a Content-Length the
\* answer is taken for a chunked one over HTTP and refused over HTTPS; a
\* Content-Length of 0 is refused.
ReadHead ==
    /\ pc = "head"
    /\ \/ ReadFails /\ CloseAndReturn("OTHERERROR", 0)
       \/ \E n \in 1..sent :
             /\ Read(n, Total(resp))
             /\ \/ /\ HeaderRead(n)
                   /\ resp.enc = "length" /\ resp.len > 0
                   /\ pc' = "length"
                   /\ uiReadLen' = n
                   /\ UNCHANGED <<conVars, fdVars, chunkVars, outVars>>
                \/ /\ HeaderRead(n)
                   /\ resp.enc # "length" /\ ~https
                   /\ pc' = "line"
                   /\ uiReadLen' = n
                   /\ iTmpBodyLen' = n - HeadLen
                   /\ UNCHANGED <<conVars, fdVars, chunk, lChunkLen, outVars>>
                \/ /\ \/ ~HeaderRead(n)
                      \/ resp.enc = "length" /\ resp.len = 0
                      \/ resp.enc # "length" /\ https
                   /\ CloseAndReturn("OTHERERROR", 0)

\* Faulty variant: the loop stops when a read fails, as if the body were whole.
CollectBodyGivesUp ==
    /\ pc = "length"
    /\ \/ /\ resp.len <= uiReadLen - HeadLen \/ ReadFails
          /\ CloseAndReturn("SUCCESS", uiReadLen - HeadLen)
       \/ /\ \E n \in 1..resp.len : Read(n, resp.len - (uiReadLen - HeadLen)) /\ uiReadLen' = uiReadLen + n
          /\ UNCHANGED <<pc, conVars, fdVars, chunkVars, outVars>>

\* Faulty variant: the loop runs until one byte more than the body is read.
CollectBodyOneMore ==
    /\ pc = "length"
    /\ \/ /\ resp.len < uiReadLen - HeadLen
          /\ CloseAndReturn("SUCCESS", uiReadLen - HeadLen)
       \/ /\ resp.len >= uiReadLen - HeadLen
          /\ \E n \in 1..resp.len :
                Read(n, resp.len - (uiReadLen - HeadLen)) /\ uiReadLen' = uiReadLen + n
          /\ UNCHANGED <<pc, conVars, fdVars, chunkVars, outVars>>

\* The loop over a body with Content-Length.  A failed read is tried again;
\* over HTTP the socket is closed first, so that no read can succeed any more.
CollectBody ==
    /\ pc = "length"
    /\ \/ /\ resp.len <= uiReadLen - HeadLen
          /\ CloseAndReturn("SUCCESS", uiReadLen - HeadLen)
       \/ /\ resp.len > uiReadLen - HeadLen
          /\ sock = "connected"
          /\ \E n \in 1..resp.len :
                Read(n, resp.len - (uiReadLen - HeadLen)) /\ uiReadLen' = uiReadLen + n
          /\ UNCHANGED <<pc, conVars, fdVars, chunkVars, outVars>>
       \/ /\ resp.len > uiReadLen - HeadLen
          /\ ReadFails
          /\ IF https THEN UNCHANGED fdVars ELSE TcpClose /\ sock' = "none"
          /\ UNCHANGED <<pc, conVars, uiReadLen, chunkVars, outVars>>

\* Offset in the body of the line end the loop looks for, and the length of
\* the size line in front of it.  The line end after the data is not skipped:
\* the second search finds it, and strtol reads on to the closing chunk.
LineEnd(k) == resp.digits + 2 + (IF k = 1 THEN 0 ELSE resp.len + 2)
LineLen(k) == IF k = 1 THEN resp.digits + 2 ELSE 2
ChunkLen(k) == IF k = 1 THEN resp.len ELSE 0

LineThere == resp.enc = "chunked" /\ uiReadLen - HeadLen >= LineEnd(chunk)

\* "Get Http Body error.": returns without TcpClose.
ChunkError ==
    /\ ReadFails
    /\ sock' = "none"
    /\ Result("LINKERROR", 0)
    /\ failures' = failures + 1
    /\ UNCHANGED fds

\* Bytes read while looking for the line end are not added to iTmpBodyLen.
ChunkLine ==
    /\ pc = "line"
    /\ \/ /\ LineThere
          /\ pc' = "data"
          /\ iTmpBodyLen' = iTmpBodyLen - LineLen(chunk)
          /\ lChunkLen' = ChunkLen(chunk)
          /\ UNCHANGED <<conVars, fdVars, uiReadLen, chunk, outVars>>
       \/ /\ ~LineThere
          /\ \E n \in 1..sent : TcpRead(n, Total(resp)) /\ uiReadLen' = uiReadLen + n
          /\ UNCHANGED <<pc, conVars, fdVars, chunkVars, outVars>>
       \/ ~LineThere /\ ChunkError

\* Faulty variant: 9 is cut off.
ChunkValueShort == IF uiReadLen - HeadLen >= 9 THEN uiReadLen - HeadLen - 9 ELSE uiReadLen - HeadLen

\* What is left of the buffer when 10 is cut off its end; a shorter buffer is
\* taken whole.
ChunkValue == IF uiReadLen - HeadLen >= 10 THEN uiReadLen - HeadLen - 10 ELSE uiReadLen - HeadLen

\* The chunk is moved to the front of the body; a chunk of length 0 ends it.
ChunkData ==
    /\ pc = "data"
    /\ \/ /\ lChunkLen <= iTmpBodyLen
          /\ lChunkLen > 0
          /\ pc' = "line"
          /\ chunk' = 2
          /\ UNCHANGED <<conVars, fdVars, uiReadLen, lChunkLen, iTmpBodyLen, outVars>>
       \/ /\ lChunkLen <= iTmpBodyLen
          /\ lChunkLen = 0
          /\ CloseAndReturn("SUCCESS", ChunkValue)
       \/ /\ lChunkLen > iTmpBodyLen
          /\ \E n \in 1..sent :
                /\ TcpRead(n, Total(resp))
                /\ uiReadLen' = uiReadLen + n
                /\ iTmpBodyLen' = iTmpBodyLen + n
          /\ UNCHANGED <<pc, conVars, fdVars, chunk, lChunkLen, outVars>>
       \/ lChunkLen > iTmpBodyLen /\ ChunkError

WorkerNext ==
    \/ ReplaceForever
    \/ Start
    \/ StartThrows
    \/ TcpConnect
    \/ TcpConnectFails
    \/ TcpSslConnect
    \/ TcpWrite
    \/ TcpSslWriteLen
    \/ ReadHead
    \/ CollectBody
    \/ ChunkLine
    \/ ChunkData

Next ==
    \/ WorkerNext
    \/ \E n \in 1..Total(resp) : Deliver(n)
    \/ Break

Spec == Init /\ [][Next]_vars

\* The worker is scheduled for ever and its reads time out; the remote
\* service owes nothing.
FairSpec == Spec /\ WF_vars(WorkerNext)

-----------------------------------------------------------------------------
(***************************************************************************)
(* Correctness.                                                            *)
(***************************************************************************)
\* A fetch that returns SUCCESS for an answer with a Content-Length has the
\* whole body, however TCP cut it and wherever the peer broke off; or it has
\* nothing, when the handshake or the write failed and no answer was read.
AllOrNothing ==
    iRes = "SUCCESS" /\ resp.enc = "length" => mResValue \in {0, resp.len}

\* The end of the buffer that the chunk loop cuts off hides what it leaves
\* behind the data: an answer of 5 to 15 bytes (a size of one digit) is never
\* padded with bytes of its framing, however much of the closing chunk had
\* arrived.
ChunkNeverPadded ==
    iRes = "SUCCESS" /\ resp.enc = "chunked" /\ resp.digits = 1 /\ resp.len >= 5
        => mResValue <= resp.len

\* Descriptors are lost in two places only: a fetch that was refused the
\* connection or that gave up a chunked answer keeps one, every other fetch
\* gives back what it took, on every path and wherever the peer breaks off.
\* So the process runs out of descriptors, and ends, only after as many of
\* these failures as it had descriptors.
DescriptorsAccounted ==
    /\ fds = failures + (IF sock = "none" THEN 0 ELSE 1)
    /\ pc = "ended" => failures = MaxFds

\* The worker comes back from every fetch, except from a body that the
\* Content-Length announced and that stays incomplete because nothing more
\* arrives or the socket was closed after a failed read, from a TLS session
\* that was closed before the request, from a request whose parameter
\* contains its own placeholder, and when the process ends.
FetchEnds ==
    \/ []<>(pc = "idle")
    \/ <>[](pc \in {"spin", "replace", "ended"})
    \/ <>[](/\ pc = "length"
            /\ uiReadLen < Total(resp)
            /\ sock = "none" \/ sent = uiReadLen)

\* "Get Http Body error.": the chunk loop gives up only on an answer that has
\* not arrived as a whole.
WholeAnswerAccepted ==
    [][resp.enc = "chunked" /\ iRes = "none" /\ iRes' = "LINKERROR"
          => sent < Total(resp)]_vars
=============================================================================
