------------------------------ MODULE ConnLife ------------------------------
(***************************************************************************)
(* What the dispatcher promises about one client connection, without       *)
(* queues, locks or epoll: a connection is at every moment in the hands of *)
(* exactly one party, and it changes hands in this order only.             *)
(*                                                                         *)
(*   closed -> watched -> handed -> queued -> running -> reported          *)
(*                ^          |                               |             *)
(*                |          +--> closed                     +--> closed   *)
(*                +------------------------------------------+             *)
(*                                                                         *)
(* In particular a connection is never closed while a worker has it, never *)
(* given to two workers, and a worker runs one connection at a time.       *)
(***************************************************************************)
CONSTANTS Fds, Workers

VARIABLE conn   \* where each connection is, with the worker that has it

vars == conn

Closed == <<"closed">>
Watched == <<"watched">>
Handed == <<"handed">>
Queued(w) == <<"queued", w>>
Running(w) == <<"running", w>>
Reported == <<"reported">>

Places == {Closed, Watched, Handed, Reported}
          \cup {Queued(w) : w \in Workers} \cup {Running(w) : w \in Workers}

Init == conn = [fd \in Fds |-> Closed]

Move(fd, from, to) ==
    /\ conn[fd] = from
    /\ conn' = [conn EXCEPT ![fd] = to]

Accept(fd) == Move(fd, Closed, Watched)

TakeEvent(fd) == Move(fd, Watched, Handed)

Refuse(fd) == Move(fd, Handed, Closed)

Give(fd, w) == Move(fd, Handed, Queued(w))

Start(fd, w) ==
    /\ Move(fd, Queued(w), Running(w))
    /\ \A other \in Fds : conn[other] # Running(w)

Finish(fd, w) == Move(fd, Running(w), Reported)

Rearm(fd) == Move(fd, Reported, Watched)

Release(fd) == Move(fd, Reported, Closed)

Next ==
    \E fd \in Fds :
        \/ Accept(fd)
        \/ TakeEvent(fd)
        \/ Refuse(fd)
        \/ \E w \in Workers : Give(fd, w) \/ Start(fd, w) \/ Finish(fd, w)
        \/ Rearm(fd)
        \/ Release(fd)

Spec == Init /\ [][Next]_vars
=============================================================================
