------------------------------- MODULE Orders -------------------------------
(***************************************************************************)
(* How the workers charge queries to the orders of a user: the part of     *)
(* CTaskMain::BdxParseBody that selects an order, fetches new orders from  *)
(* the DataHub, checks the quota, calls the remote service and counts the  *)
(* query.  Everything is for one user, repository and item.                *)
(*                                                                         *)
(* The orders live in Redis: a sorted set of subscription ids, and for     *)
(* each id the keys order_count, order_limit, order_expire, order_status.  *)
(* Every Redis command and every DataHub call is one step; between any two *)
(* of them another worker may run, and any of them may fail.  The process  *)
(* may end between any two steps and be started again: the workers are     *)
(* back where they began, Redis and the DataHub are as they were.          *)
(***************************************************************************)
EXTENDS Integers, FiniteSetsExt

CONSTANTS
    Workers,        \* the worker threads, each serving one request at a time
    Subs,           \* subscription ids: also their scores in the sorted set
    Units,          \* the quota of each subscription
    MaxFaults,      \* bound on the failed commands and calls and the ends of the process
    MaxServed       \* bound on the successful fetches per order

ASSUME OrdersAssumption ==
    /\ IsFiniteSet(Workers) /\ Workers # {}
    /\ Subs \subseteq Nat
    /\ Units \in [Subs -> Nat]
    /\ MaxFaults \in Nat /\ MaxServed \in Nat

Absent == -1        \* a key that is not in Redis
NoSub == -1         \* the empty subscription id

VARIABLES
    zset,     \* members of the user's sorted set
    count,    \* order_count of each subscription
    limit,    \* order_limit
    expire,   \* order_expire: never written, live, or lapsed by its TTL
    status,   \* order_status
    hub,      \* what the DataHub knows of each subscription
    pc,       \* where each worker is in BdxParseBody
    sub,      \* strTempSubID of each worker
    iCount,   \* iCountOrderId of each worker
    todo,     \* vecDataHubOrder of each worker, from the current entry on

    \* History:
    served,    \* remote fetches for each order that returned SUCCESS
    uncounted, \* orders of which order_count has lost a query
    mishaps,   \* what has failed so far
    faults,    \* how often something has failed
    orderUse   \* "exclusive" until a worker pulls, stores or removes an order while
               \* another one is using an order

redis == <<zset, count, limit, expire, status>>
locals == <<sub, iCount, todo>>
history == <<served, uncounted, mishaps, faults, orderUse>>
vars == <<redis, hub, pc, locals, history>>

Points == {"idle", "pick", "pull", "next", "count", "expire", "limit", "status",
           "retrieve", "jump", "pickNew", "getCount", "getLimit", "getExpire",
           "remove", "getStatus", "report", "mark", "remote", "charge"}

\* A call to the DataHub or a Redis command has failed, or the process has ended
\* in the middle of a request.
Mishaps == {"datahub", "redis", "crash"}

\* Every variable has its type; a stored limit is the quota of its subscription,
\* and no worker keeps a count that was not in Redis.
TypeOK ==
    /\ zset \in SUBSET Subs
    /\ count \in [Subs -> Nat \cup {Absent}]
    /\ limit \in [Subs -> Nat \cup {Absent}]
    /\ \A s \in Subs : limit[s] \in {Absent, Units[s]}
    /\ expire \in [Subs -> {"unset", "live", "lapsed"}]
    /\ status \in [Subs -> {"unset", "0", "1"}]
    /\ hub \in [Subs -> {"none", "paid", "retrieved", "used"}]
    /\ pc \in [Workers -> Points]
    /\ sub \in [Workers -> Subs \cup {NoSub}]
    /\ iCount \in [Workers -> Nat]
    /\ todo \in [Workers -> SUBSET Subs]
    /\ served \in [Subs -> Nat]
    /\ uncounted \in SUBSET Subs
    /\ mishaps \in SUBSET Mishaps
    /\ faults \in Nat
    /\ orderUse \in {"exclusive", "shared"}

Init ==
    /\ zset = {}
    /\ count = [s \in Subs |-> Absent]
    /\ limit = [s \in Subs |-> Absent]
    /\ expire = [s \in Subs |-> "unset"]
    /\ status = [s \in Subs |-> "unset"]
    /\ hub = [s \in Subs |-> "none"]
    /\ pc = [w \in Workers |-> "idle"]
    /\ sub = [w \in Workers |-> NoSub]
    /\ iCount = [w \in Workers |-> 0]
    /\ todo = [w \in Workers |-> {}]
    /\ served = [s \in Subs |-> 0]
    /\ uncounted = {}
    /\ mishaps = {}
    /\ faults = 0
    /\ orderUse = "exclusive"

-----------------------------------------------------------------------------
(***************************************************************************)
(* The user and the clock.                                                 *)
(***************************************************************************)
Buy(s) ==
    /\ hub[s] = "none"
    /\ hub' = [hub EXCEPT ![s] = "paid"]
    /\ UNCHANGED <<redis, pc, locals, history>>

Lapse(s) ==
    /\ expire[s] = "live"
    /\ expire' = [expire EXCEPT ![s] = "lapsed"]
    /\ UNCHANGED <<zset, count, limit, status, hub, pc, locals, history>>

-----------------------------------------------------------------------------
(***************************************************************************)
(* Worker w.                                                               *)
(***************************************************************************)
Goto(w, from, to) == pc[w] = from /\ pc' = [pc EXCEPT ![w] = to]

\* The locals are dead once the request is answered.
Return(w) ==
    /\ pc' = [pc EXCEPT ![w] = "idle"]
    /\ sub' = [sub EXCEPT ![w] = NoSub]
    /\ iCount' = [iCount EXCEPT ![w] = 0]
    /\ todo' = [todo EXCEPT ![w] = {}]

\* ZRANGE key 0 0 and ZREMRANGEBYRANK key 0 0.
Lowest == IF zset = {} THEN NoSub ELSE Min(zset)
WithoutLowest == zset \ {Lowest}

\* ZADD key sub sub, SET key value and INCR key, for the keys of order s.
WithOrder(s) == zset \cup {s}
UserPut(key, s, value) == [key EXCEPT ![s] = value]
UserIncr(key, s) == [key EXCEPT ![s] = @ + 1]

Fault(kind) ==
    /\ faults < MaxFaults
    /\ faults' = faults + 1
    /\ mishaps' = mishaps \cup {kind}

\* BdxGetDatafromDataHub: an answer that does not arrive, or not whole, is an
\* empty string to the caller, whether or not the DataHub has acted.
DataHubCall(answered, unanswered) ==
    \/ answered /\ UNCHANGED <<mishaps, faults>>
    \/ Fault("datahub") /\ unanswered

\* A method of CDataRedis: KeepConnect or the command fails, and false is returned.
\* A write whose reply alone was lost has had its effect; nobody looks at the
\* result of a write.  (Without a reply, the methods for sorted sets end the
\* process: Crash.)
RedisCommand(works, fails) ==
    \/ works /\ UNCHANGED <<mishaps, faults>>
    \/ Fault("redis") /\ fails

\* Another worker is past its choice of an order.
OthersBusy(w) == \E v \in Workers \ {w} : pc[v] \notin {"idle", "pick"}
NoteOverlap(w) == orderUse' = IF OthersBusy(w) THEN "shared" ELSE orderUse

\* A request with all its parameters, and a user and a gateway whose tokens
\* the token cache or the DataHub accepts (any other request is refused
\* before it touches an order).
Authenticate(w) ==
    /\ Goto(w, "idle", "pick")
    /\ UNCHANGED <<redis, hub, locals, history>>

\* UserGetSortedSet: a failure looks like a user without orders.
PickOrder(w) ==
    /\ pc[w] = "pick"
    /\ RedisCommand(sub' = [sub EXCEPT ![w] = Lowest], sub' = [sub EXCEPT ![w] = NoSub])
    /\ pc' = [pc EXCEPT ![w] = IF sub'[w] = NoSub THEN "pull" ELSE "getCount"]
    /\ UNCHANGED <<redis, hub, iCount, todo, served, uncounted, orderUse>>

\* BdxApiGetUserOrder: the orders in phase 1, or none when the call fails.
PullOrders(w) ==
    /\ Goto(w, "pull", "next")
    /\ DataHubCall(todo' = [todo EXCEPT ![w] = {s \in Subs : hub[s] = "paid"}], UNCHANGED todo)
    /\ NoteOverlap(w)
    /\ UNCHANGED <<redis, hub, sub, iCount, served, uncounted>>

\* The next of the pulled orders: UserPutOrderSet.
AddOrder(w) ==
    /\ Goto(w, "next", "count")
    /\ \E s \in todo[w] :
          /\ sub' = [sub EXCEPT ![w] = s]
          /\ todo' = [todo EXCEPT ![w] = @ \ {s}]
          /\ RedisCommand(zset' = WithOrder(s), UNCHANGED zset)
    /\ NoteOverlap(w)
    /\ UNCHANGED <<count, limit, expire, status, hub, iCount, served, uncounted>>

\* Faulty variant: order_expire is left out.
PutCountThenLimit(w) ==
    /\ Goto(w, "count", "limit")
    /\ count' = UserPut(count, sub[w], 0)
    /\ UNCHANGED <<zset, limit, expire, status, hub, locals, history>>

\* An order that is stored a second time loses its count.
PutCount(w) ==
    /\ Goto(w, "count", "expire")
    /\ RedisCommand(/\ count' = UserPut(count, sub[w], 0)
                    /\ uncounted' = uncounted \cup {s \in {sub[w]} : count[s] > 0},
                    UNCHANGED <<count, uncounted>>)
    /\ NoteOverlap(w)
    /\ UNCHANGED <<zset, limit, expire, status, hub, locals, served>>

PutExpire(w) ==
    /\ Goto(w, "expire", "limit")
    /\ RedisCommand(expire' = [expire EXCEPT ![sub[w]] = "live"], UNCHANGED expire)
    /\ NoteOverlap(w)
    /\ UNCHANGED <<zset, count, limit, status, hub, locals, served, uncounted>>

\* Faulty variant: the limit is not stored.
PutLimitForgotten(w) ==
    /\ Goto(w, "limit", "status")
    /\ UNCHANGED <<redis, hub, locals, history>>

PutLimit(w) ==
    /\ Goto(w, "limit", "status")
    /\ RedisCommand(limit' = UserPut(limit, sub[w], Units[sub[w]]), UNCHANGED limit)
    /\ UNCHANGED <<zset, count, expire, status, hub, locals, served, uncounted, orderUse>>

PutStatus(w) ==
    /\ Goto(w, "status", "retrieve")
    /\ RedisCommand(status' = UserPut(status, sub[w], "0"), UNCHANGED status)
    /\ UNCHANGED <<zset, count, limit, expire, hub, locals, served, uncounted, orderUse>>

\* BdxApiSetUserOrderStatus (set_retrieved).  A DataHub that answers and refuses
\* counts as a fault, too: to the caller all that is not "OK" is the same.
SetRetrieved(w) ==
    LET retrieved == hub' = [hub EXCEPT ![sub[w]] = IF @ = "paid" THEN "retrieved" ELSE @] IN
    /\ DataHubCall(/\ Goto(w, "retrieve", "next")
                   /\ retrieved,
                   /\ Goto(w, "retrieve", "jump")
                   /\ retrieved \/ UNCHANGED hub)
    /\ UNCHANGED <<redis, locals, served, uncounted, orderUse>>

\* UserRemoveSortedSet after set_retrieved has failed.
JumpOrder(w) ==
    /\ Goto(w, "jump", "next")
    /\ RedisCommand(zset' = WithoutLowest, UNCHANGED zset)
    /\ NoteOverlap(w)
    /\ UNCHANGED <<count, limit, expire, status, hub, locals, served, uncounted>>

\* UserGetSortedSet after the loop over the pulled orders.
PickNewOrder(w) ==
    /\ Goto(w, "next", "getCount")
    /\ todo[w] = {}
    /\ RedisCommand(sub' = [sub EXCEPT ![w] = Lowest], sub' = [sub EXCEPT ![w] = NoSub])
    /\ UNCHANGED <<redis, hub, iCount, todo, served, uncounted, orderUse>>

\* Faulty variant: a missing key is read as a value.
GetCountUnchecked(w) ==
    /\ pc[w] = "getCount"
    /\ IF sub[w] = NoSub
       THEN Return(w)
       ELSE /\ iCount' = [iCount EXCEPT ![w] = count[sub[w]]]
            /\ pc' = [pc EXCEPT ![w] = "getLimit"]
            /\ UNCHANGED <<sub, todo>>
    /\ UNCHANGED <<redis, hub, history>>

\* UserGet(strCountOrderId): "8004 can't get order info" when it is missing.
GetCount(w) ==
    /\ pc[w] = "getCount"
    /\ RedisCommand(IF sub[w] = NoSub \/ count[sub[w]] = Absent
                    THEN Return(w)
                    ELSE /\ iCount' = [iCount EXCEPT ![w] = count[sub[w]]]
                         /\ pc' = [pc EXCEPT ![w] = "getLimit"]
                         /\ UNCHANGED <<sub, todo>>,
                    Return(w))
    /\ UNCHANGED <<redis, hub, served, uncounted, orderUse>>

\* Faulty variant: an order may be used once more than its limit.
GetLimitOffByOne(w) ==
    /\ pc[w] = "getLimit"
    /\ IF limit[sub[w]] = Absent
       THEN Return(w)
       ELSE /\ pc' = [pc EXCEPT ![w] = IF iCount[w] > limit[sub[w]] THEN "remove"
                                       ELSE "getExpire"]
            /\ UNCHANGED locals
    /\ UNCHANGED <<redis, hub, history>>

\* UserGet(strLimitOrderId), "8004" when it is missing, and the comparison.
GetLimit(w) ==
    /\ pc[w] = "getLimit"
    /\ RedisCommand(IF limit[sub[w]] = Absent
                    THEN Return(w)
                    ELSE /\ pc' = [pc EXCEPT ![w] = IF iCount[w] >= limit[sub[w]] THEN "remove"
                                                    ELSE "getExpire"]
                         /\ UNCHANGED locals,
                    Return(w))
    /\ UNCHANGED <<redis, hub, served, uncounted, orderUse>>

\* UserGet(strExpireOrderId): a failure looks like an order that has expired.
GetExpire(w) ==
    /\ pc[w] = "getExpire"
    /\ RedisCommand(pc' = [pc EXCEPT ![w] = IF expire[sub[w]] = "live" THEN "remote" ELSE "remove"],
                    pc' = [pc EXCEPT ![w] = "remove"])
    /\ UNCHANGED <<redis, hub, locals, served, uncounted, orderUse>>

\* Faulty variant: the highest order is removed.
DeleteHighest(w) ==
    /\ Goto(w, "remove", "getStatus")
    /\ zset' = IF zset = {} THEN zset ELSE zset \ {Max(zset)}
    /\ UNCHANGED <<count, limit, expire, status, hub, locals, history>>

\* "delete order": UserRemoveSortedSet of the order that is used up.
DeleteOrder(w) ==
    /\ Goto(w, "remove", "getStatus")
    /\ RedisCommand(zset' = WithoutLowest, UNCHANGED zset)
    /\ NoteOverlap(w)
    /\ UNCHANGED <<count, limit, expire, status, hub, locals, served, uncounted>>

\* Faulty variant: the DataHub is told only of orders already marked.
GetStatusInverted(w) ==
    /\ pc[w] = "getStatus"
    /\ IF status[sub[w]] = "1"
       THEN pc' = [pc EXCEPT ![w] = "report"] /\ UNCHANGED locals
       ELSE Return(w)
    /\ UNCHANGED <<redis, hub, history>>

\* UserGet(strStatusOrderId): "8003" unless the DataHub has to be told.
GetStatus(w) ==
    /\ pc[w] = "getStatus"
    /\ RedisCommand(IF status[sub[w]] = "0"
                    THEN pc' = [pc EXCEPT ![w] = "report"] /\ UNCHANGED locals
                    ELSE Return(w),
                    Return(w))
    /\ UNCHANGED <<redis, hub, served, uncounted, orderUse>>

\* BdxApiUpdateUserOrder (set_plan_used), whose result nobody looks at.
ReportUsed(w) ==
    /\ Goto(w, "report", "mark")
    /\ LET used == hub' = [hub EXCEPT ![sub[w]] = "used"]
       IN DataHubCall(used, used \/ UNCHANGED hub)
    /\ UNCHANGED <<redis, locals, served, uncounted, orderUse>>

\* UserPut(status, "1"), and "8003".  The SMOVE before it moves nothing: the
\* line that would have entered the order in need_updated_datahub_order is
\* commented out.
MarkUsed(w) ==
    /\ pc[w] = "mark"
    /\ RedisCommand(status' = UserPut(status, sub[w], "1"), UNCHANGED status)
    /\ Return(w)
    /\ UNCHANGED <<zset, count, limit, expire, hub, served, uncounted, orderUse>>

\* The configuration of the action, its parameters and the call of the remote
\* service; every failure ("1103", "1400", "1401", "1104") is not charged.
RemoteFails(w) ==
    /\ pc[w] = "remote"
    /\ Return(w)
    /\ UNCHANGED <<redis, hub, history>>

\* BdxGetRemoteGateWayData returns SUCCESS.
RemoteAnswers(w) ==
    /\ Goto(w, "remote", "charge")
    /\ served[sub[w]] < MaxServed
    /\ served' = [served EXCEPT ![sub[w]] = @ + 1]
    /\ UNCHANGED <<redis, hub, locals, uncounted, mishaps, faults, orderUse>>

\* Faulty variant: the query is counted twice.
ChargeTwice(w) ==
    /\ pc[w] = "charge"
    /\ count' = [count EXCEPT ![sub[w]] = @ + 2]
    /\ Return(w)
    /\ UNCHANGED <<zset, limit, expire, status, hub, history>>

\* Faulty variant: the query is not counted.
ChargeSkipped(w) ==
    /\ pc[w] = "charge"
    /\ Return(w)
    /\ UNCHANGED <<redis, hub, history>>

\* UserIncr(strCountOrderId).
Charge(w) ==
    /\ pc[w] = "charge"
    /\ RedisCommand(count' = UserIncr(count, sub[w]) /\ UNCHANGED uncounted,
                    uncounted' = uncounted \cup {sub[w]} /\ UNCHANGED count)
    /\ Return(w)
    /\ UNCHANGED <<zset, limit, expire, status, hub, served, orderUse>>

WorkerNext(w) ==
    \/ Authenticate(w)
    \/ PickOrder(w)
    \/ PullOrders(w)
    \/ AddOrder(w)
    \/ PutCount(w)
    \/ PutExpire(w)
    \/ PutLimit(w)
    \/ PutStatus(w)
    \/ SetRetrieved(w)
    \/ JumpOrder(w)
    \/ PickNewOrder(w)
    \/ GetCount(w)
    \/ GetLimit(w)
    \/ GetExpire(w)
    \/ DeleteOrder(w)
    \/ GetStatus(w)
    \/ ReportUsed(w)
    \/ MarkUsed(w)
    \/ RemoteFails(w)
    \/ RemoteAnswers(w)
    \/ Charge(w)

\* The process ends in the middle of a request, and is started again.
Crash ==
    /\ Fault("crash")
    /\ \E w \in Workers : pc[w] # "idle"
    /\ pc' = [w \in Workers |-> "idle"]
    /\ sub' = [w \in Workers |-> NoSub]
    /\ iCount' = [w \in Workers |-> 0]
    /\ todo' = [w \in Workers |-> {}]
    /\ uncounted' = uncounted \cup {sub[w] : w \in {v \in Workers : pc[v] = "charge"}}
    /\ UNCHANGED <<redis, hub, served, orderUse>>

Next ==
    \/ \E w \in Workers : WorkerNext(w)
    \/ Crash
    \/ \E s \in Subs : Buy(s) \/ Lapse(s)

Spec == Init /\ [][Next]_vars

-----------------------------------------------------------------------------
(***************************************************************************)
(* Correctness.                                                            *)
(***************************************************************************)
\* The check and the charge are separate commands, so workers may pass the
\* check together; but no order is charged beyond its limit by more than the
\* other workers' one query each.
OvershootBounded ==
    \A s \in Subs : count[s] <= Units[s] + Cardinality(Workers) - 1

\* As long as no charge was lost (to a failed INCR, a process that ended before it,
\* or an order stored again over its count), no order answers more queries than
\* were paid for, but for one by each other worker.
ServedBounded ==
    \A s \in Subs \ uncounted : served[s] <= Units[s] + Cardinality(Workers) - 1

\* A worker that finds count and limit of an order that another worker is
\* still storing, or was storing when the process ended, also finds the key
\* whose absence means "expired": unless a command failed, a fresh order is
\* never taken for an expired one.
FreshNotExpired ==
    "redis" \notin mishaps =>
        \A s \in Subs : count[s] # Absent /\ limit[s] # Absent => expire[s] # "unset"

\* Nobody pays for more queries than BdxGetRemoteGateWayData returned SUCCESS
\* for.  (RemoteFetch says when it does.)
NeverOvercharged == \A s \in Subs : count[s] <= served[s]

\* No order the DataHub takes for delivered, and would not hand out again, is lost:
\* it stays selectable until it is used up or has expired.  This
\* survives a process that ends at any point; it does not survive a failed
\* command or call, nor two workers of which one pulls, stores or removes an order.
NoOrderLost ==
    mishaps \subseteq {"crash"} /\ orderUse = "exclusive" =>
        \A s \in Subs :
            hub[s] = "retrieved" /\ count[s] < Units[s] /\ expire[s] = "live" => s \in zset

AtRest == \A w \in Workers : pc[w] = "idle"

\* Between requests every order in the sorted set has the keys without which
\* the request is answered "8004": however the workers overlap and whatever
\* becomes of the calls to the DataHub, no order without keys blocks the
\* orders behind it.
KeysComplete ==
    AtRest /\ mishaps \subseteq {"datahub"} =>
        \A s \in zset : count[s] # Absent /\ limit[s] # Absent /\ status[s] # "unset"

\* Between requests, an order that is no longer selectable has been reported
\* to the DataHub as used.
UsedUpReported ==
    AtRest /\ mishaps = {} /\ orderUse = "exclusive" =>
        \A s \in Subs : hub[s] = "retrieved" => s \in zset

\* "delete order" after the quota check, and "update datahub status retrieve
\* faild,then jump it" after a failed set_retrieved: the order removed from the
\* sorted set is the one the worker has just dealt with, and no other.
OnlyOwnOrderRemoved ==
    [][\A w \in Workers :
          pc[w] \in {"remove", "jump"} /\ pc'[w] # pc[w] => zset \ {sub[w]} \subseteq zset']_vars
=============================================================================
