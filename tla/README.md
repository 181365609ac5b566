# LdpApiGateWay in TLA+

LdpApiGateWay is a multi-threaded C++ server that sells access to remote HTTP
APIs.  A client sends a request with its access key; the gateway checks the
client's token with the *DataHub*, finds an order (a prepaid number of queries)
in Redis, calls the remote API, counts the query against the order and returns
the answer.  This directory models the parts of the server in which threads,
queues, counters, sockets and outside services meet, model-checks them with TLC
and proves the main safety properties with TLAPS.

Paths below are relative to `src/src/`; `TM` stands for
`UserQueryTask/TaskMain/TaskMain.cpp`.

## 1. Inventory

| component | state it keeps | operations | talks to |
|---|---|---|---|
| Server thread (`UserQueryServer/`) | epoll set, `m_mpSocketTask` (descriptor → task) | accept, take an event, hand a task to a worker, take finished descriptors back | workers: task queue, mutex, condition variable, status queue |
| Worker threads (`UserQueryWorkThreads/`) | per worker: `m_queUserQueryTask`, `m_clLock`, `m_vecTaskStauts`, `m_vecReport`, `m_vecHiveLog` | wait for a task, run it, report its descriptor | server, Redis, DataHub, remote API |
| Request handling (`UserQueryTask/TaskMain/`) | locals of `BdxParseBody`, the connection's token and region | parse, authenticate, select or pull an order, check the quota, fetch, charge | Redis, DataHub, `g_MapApiGateWayconfig`, remote API |
| Redis access (`redisCommon/`) | one connection per server, shards by key | GET, SET, INCR, DEL, sorted-set commands, TTL | Redis |
| DataHub client (`TM` 667-928) | the gateway's token | check token, list orders, `set_retrieved`, `set_plan_used` | DataHub over HTTP |
| Remote fetch (`TM` 981-1272, `CommonTools/Socket/TcpSocket.cpp`) | socket, byte counters | connect, TLS handshake, write, read a Content-Length or chunked answer | remote API |
| Update thread (`UserQueryUpdate/`) | MySQL connection, temporary map, `g_MapApiGateWayconfig` | daily order synchronisation, refresh of the routing table every 6 s | MySQL, Redis, workers (shared map) |
| Statistics thread (`UserQueryCount/`) | `m_stReport`, file, MySQL connection | collect and clear the workers' counters, print | workers (shared maps), MySQL |
| Hive-log thread (`UserQueryHiveLog/`) | file, MySQL connection | drain the workers' queues, print | workers (shared queues), MySQL |
| Start-up, configuration (`UserQueryMain/`, `CommonTools/Conf`, `Thread`) | ini values, `m_vecTaskBuf` and its companions, thread ids | read the ini file, open the log, start the threads one by one, join them | all |
| Log (`CommonTools/Log`) | `m_pFile`, `m_Mutex`, the directory of the day | find or make the directory, change the file, write a line | all threads, statistics and Hive files (same directories) |
| Base64, Md5, UrlEncode, Time, File, UdpSocket | – | helpers | – |

What is hard about this code:

* **Ownership without locks.** A connection wanders between the epoll set, the
  server's stack, a worker's queue, a worker and a status queue; only the order
  of the calls keeps two threads from using one `CTaskMain`.
* **Check-then-act over Redis.** The quota check, the deletion of used orders
  and the storing of new ones are sequences of single commands; other workers
  run between any two of them, Redis commands fail, the DataHub may lose calls
  and answers, and the process may end anywhere and be started again while Redis
  and the DataHub remember.
* **Shared containers.** The routing map, the counters and the log queues are
  standard containers used by two threads without a lock.
* **Failing services.** MySQL connections break in the middle of a result, the
  remote peer stalls, closes or resets at any byte, TCP cuts answers anywhere.
* **Half-built state.** Workers run while the vectors they index still grow, and
  the log, the statistics and the Hive log share directories that whoever comes
  first must make.
* **Nothing may stop.** A worker keeps its mutex during the whole remote call,
  so whatever never ends there starves everything queued behind it.

The properties that make each part correct are named in section 3; the file and
line at which each of the hazards bites is under `hazards` in `PROJECT.json`.

## 2. Modules

| module | models | state and actions |
|---|---|---|
| `Dispatch` | server thread, workers, client sockets | Variables have the names of the code's members.  One action per handler of the server thread and per step of a worker's `Core`; clients connect, send, half-close and reset at any time; condition variables wake spuriously. |
| `ConnLife` | abstract specification | what `Dispatch` promises for one connection: closed → watched → handed → queued → running → reported, in this order only |
| `TokenCache` | `BdxParseBody` up to the lookup of an order, `CDataAdapter`/`CDataRedis` | every Redis command and DataHub call is an action of a worker; every worker's connection breaks at any time and is made again by the command after the failed one; the cache is the sequence of keys in the order in which they expire; tokens are revoked |
| `Orders` | `BdxParseBody` from the lookup of an order to the charge, the Redis keys of the orders, the DataHub | every Redis command and DataHub call is an action of a worker; users buy orders, keys expire; a Redis command or a DataHub call may fail with or without effect, and the process may end at any point and start again |
| `ConfigRefresh` | the refresh loop of the update thread, `CMYSQL`, `MapGateWayConfigIsEqual`, `SwapApiGateWayMap`, the workers' lookups | reading of the rows one by one, comparison, clear and refill of the map, lookups in two steps (`find`, copy); the table is edited, also to rows with an empty column, and the connection breaks at any time |
| `RemoteFetch` | `BdxGenerateReqUrl`, `BdxGetRemoteGateWayData` with the TCP and TLS calls | bytes are counted, not stored; every read returns any non-empty part of what has arrived; a socket takes a descriptor when it is created and gives it back in `TcpClose` only if it was connected; without one the constructor throws and the process ends |
| `Statistics` | `CUserQueryCount`, `operator+=`, `CUserQueryHiveLog`, the workers' increments and log records | search of a map node and increment are separate steps of a worker; name by name collection, clear, print are steps of the statistics thread; take and print of a record are steps of the Hive-log thread; the directories of the days are shared with the log; every `mkdir` and `fopen` may fail |
| `LogFile` | `CLog`: `write_d`, `LogCreatLogDir` | the look for the directory under the mutex, the printing of the line, and the `fclose` after a failed line are steps of a writer; midnight may come between any two |
| `Startup` (extends `LogFile`) | `CUserQueryMain`, `BdxInitConfig`, `CThreads`, `m_vecTaskBuf` | every step of main that can fail; a `push_back` that moves the vector frees the old buffer and then makes the new one known; a worker reads the address of the buffer and then its element, and runs or hangs in its task with its mutex locked while the server puts tasks into the first queue whose trylock succeeds; the writers of the log write once the log is there |
| `MCDispatch`, `MCOrders`, `MCConfig`, `MCRemoteFetch`, `MCStatistics`, `MCTokenCache`, `MCStartup` | – | instances for TLC |
| `DispatchProofs`, `HandOverProofs`, `OrdersProofs`, `ConfigProofs`, `RemoteFetchProofs`, `StatisticsProofs`, `TokenProofs`, `StartupProofs` | – | theorems |

The modules are cut where the code communicates.  `Dispatch` treats what a worker
does between reading a request and answering it as one step that may end well, end
in an error or hang; `TokenCache`, `Orders` and `RemoteFetch` open that step: the
first up to the lookup of an order, the second from there to the charge with a fetch
that returns `SUCCESS` or an error, the third the fetch itself.  That a fetch can
hang is `FetchEnds` of `RemoteFetch`, and is why `Dispatch` has the worker state
`hung`.  `ConfigRefresh` and `Statistics` model the three places where another
thread works on data of the workers.  `Startup` is what comes before all of them; it
is composed with the log, which main and the first workers already use.

Definitions called *Faulty variant* are plausible mistakes in the code next to
which they stand.  No specification uses them; `PROJECT.json` pairs each with a
property that fails when the variant takes the definition's place.

Abstractions worth knowing:

* A push or pop of a status queue, a lookup in or an insertion into a map, is
  one step.  The finer races inside the containers (a reallocation of a deque's
  map, a rotation of a tree under an iterator) are undefined behaviour that no
  model here follows.
* `TokenCache` has one Redis server, which keeps its data while connections
  break; all keys have the same time to live (3 hours), so they expire in the
  order in which they were set.  The code shards keys over several servers with
  a connection each; a broken connection then hits only some of the commands.
* `Orders` is for one user, repository and item.  The score of an order in the
  sorted set is its subscription id, as in the code.  A process that ends loses
  the locals of its workers and nothing else.  That it is started again is taken
  from `Dockerfile` and `start.sh`.
* In `ConfigRefresh` a row without request parameters stands for a row with any
  empty column: `strtok_r` skips it, and the last column is missing.
* `RemoteFetch` has answers of one chunk that fit the buffer; a header is two
  bytes long, enough to be cut in two.
* `Statistics` takes the date as it is when a round begins, and leaves the
  INSERT statements out because the code ignores their results.  A push to or a
  pop from a log queue is one step.  `LogSharesDirs` says whether the log has the
  path of the statistics, as it has in `config/userQuery.conf`.
* In `Startup` main's own log lines are steps of the writer `main` that may come
  at any time after the log was opened, not only where the code has them.

## 3. Runs

A run of kind *pass* must hold.  A run of kind *violation* checks what a comment
or a message of the code says and shows the trace on which the code does
otherwise; each has an entry under `findings`.

| run | instance | properties | what it shows |
|---|---|---|---|
| `dispatch_safety` | 2 workers, 2 descriptors, 2 task addresses, 2 events per `epoll_wait`, backlog 1; descriptors and addresses symmetric | `TypeOK`, `OnePlace`, `NoDanglingTask`, `LookupNeverFails`, `NoLostWakeup`, `CloseOnlyUnheld`, `ImplementsConnLife` | An open connection is always in exactly one place, no deleted task is queued or run, the two look-ups that log an error always succeed, no worker sleeps on a task, no descriptor is closed under a worker; the dispatcher implements `ConnLife`. |
| `dispatch_live` | 1 worker, 2 connections | `RequestsTakenUp`, `ResetPeersReleased` | Every request is read and every reset connection released, except behind a worker whose remote fetch hangs. |
| `dispatch_half_close` (violation) | 1 worker, 1 connection | `HalfClosedReleased` | After a half-close the connection is answered with an error and re-armed for ever: `BdxRunTask` overwrites `LINKERROR` by the result of sending the error answer. |
| `orders_safety` | 2 workers (symmetric), 2 orders of 1 query, 1 failure of any kind | `TypeOK`, `OvershootBounded`, `ServedBounded`, `FreshNotExpired`, `NeverOvercharged`, `NoOrderLost`, `KeysComplete`, `UsedUpReported` | Workers that race on the last unit exceed the quota by at most one query per other worker, in what is charged and in what is answered; a half-stored order is not taken for an expired one; nobody pays for a fetch that did not return `SUCCESS`; between requests every selectable order has its keys; no order leaves the set early, also when the process ends (one left without its keys then waits until it is pulled again); without overlap and failures every order that has left the set was reported used. |
| `orders_delete_race` (violation) | 2 workers, 2 orders | `OnlyOwnOrderRemoved` | Two workers find the same order used up; the second `ZREMRANGEBYRANK 0 0` removes a fresh order.  (With one worker and a DataHub that fails, the removal after a failed `set_retrieved`, which names no order either, violates it, too.) |
| `config_refresh` | 2 actions, 1 worker, 1 edit, 3 failures | `TypeOK`, `EntriesWereRows`, `SteadyActionsRoutable`, `CrashNeedsTwoFailures`, `FieldsConverge` | The map holds only rows the table has had, loses no steady action between swaps, comes to agree with the table in the compared columns; once a query has succeeded a single failed one does not end the process; a failed first query and a row with an empty column do. |
| `config_swap_window` (violation) | 2 actions, 1 edit, no failure | `MissMeansAbsent` | While the map is refilled, a request for an unchanged action is answered "1103 apiname is not exists". |
| `remote_fetch` | bodies of 0 and 3 bytes with a length, chunks of 5, 15 and 16 bytes, an unframed body; 2 descriptors | `DescriptorsAccounted`, `AllOrNothing`, `ChunkNeverPadded`, `FetchEnds` | A Content-Length body is returned whole or (after a failed handshake or write) empty; short chunks carry no framing; the worker hangs only on an incomplete Content-Length body, a TLS session closed before the request, or a POST parameter that contains its own placeholder; a fetch loses its descriptor exactly when it is refused the connection or gives up a chunked body, and the process ends after as many of these as it has descriptors. |
| `remote_chunk_split` (violation) | one chunk of 5 bytes | `WholeAnswerAccepted` | A header in a segment of its own makes the chunk loop miscount and refuse a complete answer. |
| `statistics` | 2 workers, 2 requests, 1 user, 2 days | `TypeOK`, `NeverOvercounted`, `LossNeedsOverlap`, `CrashExplained`, `EveryFetchLoggedOnce` | Nothing is printed twice; an increment is lost only by overlapping the collection of its own map; every fetch is printed to the Hive log once and in the order of the fetches of its worker (what a process that ends leaves in the file is less: lines are buffered until the `fflush` at the end of a round); as long as `mkdir` and `fopen` work the threads end the process only when MySQL cannot be reached at their start, or when a round begins before the directory of its day exists. |
| `token_cache` | 2 workers, 1 user, a token that was issued and one that was not | `OnlyIssuedTokens`, `RegionIsUsers`, `BreakNoticedAtOnce`, `RevokedRefused` | Whatever breaks or overtakes, only a token issued to the user passes; the orders are looked up under the user's region unless one of four named events intervenes; the command that cannot bear a broken connection meets only one that has just broken; a revoked token is refused in the end. |
| `startup` | up to 3 workers, 2 tasks per queue, 5 configuration files, 2 writers, 2 days, 1 kind of failing system call | `StaleNeedsMove`, `LinesInTheirDay`, `MissingDirSurvived`, `StartEnds`, `TasksTaken` | A worker reads a freed buffer only if the vector moves after the worker's creation; log lines are in the file of their day unless a call failed or somebody else made the directory; only a failed `fopen` or line makes the log end the process; every start ends unless a section has no reader; every task handed over is taken, except by a worker that could not be created and behind a task that hangs. |

### Bounds, and why they are enough

* *Dispatch.* Two workers, two descriptors and two task addresses let a worker
  be busy while another is tried, a task wait behind another, a descriptor and
  an address be reused at once by a new connection, and both connections sit in
  one batch of events.  The proofs cover every other number.  Liveness is
  checked with one worker, where starving is easiest.
* *Orders.* Two workers and a unit let both pass the check that one should; two
  orders let the removal of one hit the other.  One failure per behaviour is enough for every
  property: each says which kinds of failure it survives, and what a second
  failure of the same kind adds is covered by the proofs, which have no bound.
  `MaxServed` bounds fetches per order to one more than can be charged; the
  constraint `FewAnswers` follows a behaviour up to its third answer (with a
  failure, to its second) and until both orders have expired.
* *ConfigRefresh.* Two actions suffice for a swap to be half done; three
  failures for one at start-up, one in a query and one in a result.
* *RemoteFetch.* Body lengths lie on both sides of each decision of the chunk loop:
  the smallest chunk whose tail is cut correctly, the largest and the first beyond
  one hex digit.  Two descriptors let the two kinds of lost descriptor come together
  and exhaust them.  The types are left to the proof.
* *Statistics.* The workers' maps are disjoint, so two workers add nothing but
  the loop over the maps; one request makes up to five increments under two
  names, with every interleaving of collections between them, and the end of a
  request is no different from any other point between two increments.  Two
  requests give a queue of two records, or a record in each of two queues.  The
  two threads share the directories, which neither makes while it runs but for
  the Hive-log thread's log line, and that `LogLine` may write at any time; so
  the constraint `OneThreadAtATime` follows the statistics thread with one
  request while the Hive-log thread has nothing logged, and the Hive-log thread
  with two before the statistics thread's first round.  After a failed `mkdir` or
  `fopen` it follows the first worker with one request that does not overlap a
  collection, enough for the null `FILE*` to be met; `StatisticsProofs` has no
  such restriction.
* *Startup.* With three workers the vector moves at the first, second and third
  `push_back`, so that a worker may hold an address over one or two moves; the first
  push that does not move it would be the fourth.  Two tasks per queue (`MaxQueue`)
  let one be put behind another, and one be left behind a task that hangs.  The five
  files are a complete one, one without the number of threads, one without the log,
  one with a section that has no reader and an empty one.  The log and the vector do
  not touch each other, so the constraint `OnePartAtATime` follows the log with at
  most one worker, and several workers while nobody writes to the log;
  `StartupProofs` has no such restriction.
* *TokenCache.* Two workers can be between the two puts and the two gets at the
  same time.  A token that was never issued tells "some token is cached" from
  "this token is cached".  The safety properties were also checked once with two
  users (2.2 million states) and with two issued tokens (11.8 million states),
  which is too long for a run that is repeated.
* `CHECK_DEADLOCK FALSE` stands where the process may really end (`ConfigRefresh`,
  `RemoteFetch`, `Statistics`, `TokenCache`, `Startup`).

### Fairness

* `Dispatch`: weak fairness of the server thread and of each worker.  They are
  POSIX threads that block only in `epoll_wait`, on their mutexes and on the
  condition variable; a blocked step is not enabled.  Clients, spurious wakeups
  and the end of a hung fetch are not fair.
* `ConfigRefresh`: weak fairness of the update thread, which sleeps a fixed time
  between rounds.  Edits and failures are bounded, not fair.
* `RemoteFetch`: weak fairness of the worker, whose reads time out.  The peer
  owes nothing.
* `TokenCache`: weak fairness of the expiry of keys and of every worker's Redis
  commands, which end because the server answers or the connection breaks.  The
  DataHub need not answer, clients need not send, connections need not break.
* `Startup`: weak fairness of main, none of whose steps waits for another
  thread, and of every worker that has something to do.  Log lines, midnight,
  spurious wakeups and the server are not fair, and a task may hang.

### What the checks found

The four violation runs are disagreements between the code and its own comments or
messages.  Some more were met and are documented by passing properties that say
exactly when they happen: a failed TLS handshake or HTTP write yields `SUCCESS` with
an empty value that is charged (`AllOrNothing`, `TM` 1030 and 1128); the statistics
and Hive-log threads do not make the directory of a new day, so when their round
begins before a log line has made it (or the log has another path) the first row
goes to a null `FILE*` (`CrashExplained`, `UserQueryCount.cpp` 189 and
`UserQueryHiveLog.cpp` 222), as it does after any other failed `fopen`, whose result
nobody looks at; a refused connection and an error in the chunk loop lose a
descriptor each, and the socket that finds none left throws in a thread that catches
nothing (`DescriptorsAccounted`, `CommonTools/Socket/TcpSocket.cpp` 482 and 32, `TM`
1203); when one of the constructors of these threads has made the directory, the log
goes on in the file of the day before (`LinesInTheirDay`, `CommonTools/Log/Log.cpp`
218); a worker that runs while main still adds workers may read a freed buffer
(`StaleNeedsMove`, `UserQueryMain.cpp` 65); a failed `pthread_create` leaves the
server counting on a worker that does not exist, whose mutex is always free and
whose tasks nobody takes (`TasksTaken`, `Thread.cpp` 34); a section without a reader
is compared for ever (`StartEnds`, `UserQueryMain.cpp` 138); a POST parameter that
contains its own placeholder is replaced for ever (`FetchEnds`, `TM` 1495); one row
with an empty column ends the process (`CrashNeedsTwoFailures`,
`UserQueryUpdate.cpp` 149); one failed GET of `order_expire` deletes a live order,
and one lost `set_plan_used` is never repeated (`NoOrderLost`, `UsedUpReported`,
`TM` 480 and 494); orders are stored in the order of the DataHub's answer, so that a
worker that picks between two insertions may take a higher one first, and after a
crash an order stored again over its old keys may be removed by a worker that still
holds the old count (why `NoOrderLost` asks for no overlap); a statistics or
Hive-log thread whose first `mysql_real_connect` fails executes CREATE TABLE on a
null connection (`CrashExplained`, `UserQueryCount.cpp` 109); `m_sRegion` is never
cleared and the result of fetching it is ignored, so after an overtaken put, an
expiry, a failed command or a cut answer the region of the previous request on the
connection is used (`RegionIsUsers`, `TM` 354, 372 and 676); and `GetValueSortedSet`
reads the reply before it tests it for NULL (`BreakNoticedAtOnce`,
`redisCommon/data_redis.cpp` 279).  `FieldsConverge` speaks of the compared columns
only, because a change of the request parameters alone is never installed
(`UserQueryUpdate.cpp` 471).

## 4. Proofs

All theorems are of the form `Spec => []P` or `Spec => [][A]_vars`, or say that a
specification implements another, and hold for every value of the constants that
satisfies the named assumption of the module (`DispatchAssumption`,
`OrdersAssumption`, `ConfigAssumption`, `FetchAssumption`, `TokenAssumption`,
`StatisticsAssumption`, `LogAssumption`, `StartupAssumption`), none of which bounds
the number of workers, connections, orders, users, tokens, requests, rows, bytes,
failures, writers or days.  `OrdersAssumption` asks for a finite set of workers,
`FetchAssumption` for chunked answers that have a size line and data.

The prover has no induction rule for data.  Where one is needed (sums over the
workers, the capacities of a growing vector, the lowest of a set of orders) the proofs
take the least element of the set of counterexamples, which exists because `<` on the
natural numbers is well-founded, and contradict it; recursive definitions are recursive
functions, of which the same argument shows that they exist.

* `DispatchProofs`: `TypeCorrect`, `WakeupNeverLost`.  The types are not
  inductive: an action indexes `m_queUserQueryTask` by the loop variable, which
  is a worker only because a trylock succeeded.  `ControlInv` ties program
  counters, mutex holders and loop variables together; `Inv1` adds the types and
  `NoLostWakeup`.  A wakeup is not lost because both sides test and change the
  queue with the mutex held, and the server signals before it unlocks.
* `HandOverProofs`: `OnePlaceAlways`, `NeverDangling`, `LookupsSucceed`,
  `CloseUnheldAlways`, `DispatchImplementsConnLife`.  `Inv2` = `Inv1` with `MapInv`
  (map and tasks are inverse to each other), `EventInv` (pending events are of
  watched descriptors), `QueueInv`, `RunInv`, `ReportInv` (what is queued, run or
  reported is away from the server, and no two slots hold the same), `ApartInv` (the
  three exclude each other) and `HeldSomewhere`.  The lemmas `TailSlots` and its
  companion turn a pop or push into a statement about slots, so that no induction is
  needed.  The refinement rests on `Inv2`: where a connection is (`ConnOf`) is read
  off the queues, the workers and the map, and because no two of them hold the same
  connection, a step that moves one descriptor or task leaves all other connections
  where they are (`OneMoves`).  There is one lemma per action or group of actions,
  each a step of `ConnLife` or a stutter.
* `OrdersProofs`: `OrdersTypeCorrect`, `FreshNeverExpired`,
  `OvershootAlwaysBounded`, `NeverOverchargedAlways`, `ServedAlwaysBounded`,
  `KeysAlwaysComplete`, `NoOrderEverLost`, `OwnOrderAlwaysRemoved`,
  `UsedUpAlwaysReported`, all with failing commands and calls and a process that
  may end anywhere.  The bound on the overshoot
  needs the workers that have passed the check: count plus those workers stays
  below the quota plus the number of workers (`OvershootInv`).  A worker joins
  them only when it reads a count below the quota, and a reset of the count
  only lowers the sum.  `ChargeInv` does the same for the charge, and a further
  invariant bounds what was served by the count and the charges under way of
  every order whose count was never lost.  `KeysComplete` speaks of the time between
  requests; its invariant says which keys an order that a worker is storing has
  by then, so that the orders in the set without all keys are exactly in some
  worker's hands.  `LostInv` is what a run without a failed command and without an
  overlap keeps: at most one worker stores orders, those it has to store are not yet
  delivered (`StoreInv`); the order a worker has chosen stays the lowest, and what the
  worker has read of it stays true, until the worker removes it (`ChoiceInv`).  So the
  removal, which names only a rank, hits the worker's own order, and that one is used
  up or has expired.  A process that ends disturbs none of this.  `TellInv` adds,
  for runs in which nothing fails at all, that a delivered order keeps `order_status`
  "0" until the DataHub has been told, and that whoever removes one tells it.
* `ConfigProofs`: `ConfigTypeCorrect`, `EntriesAlwaysRows`,
  `SteadyAlwaysRoutable`, `CrashNeedsTwo`, `MissNeedsSwap`.  `CInv` follows a steady action from
  the table through the unread rows and the temporary map to the entries still to
  be inserted, and reads off the MySQL pointers which queries have failed.  A
  row with an empty column is in the table and in a result, never in a map.
* `RemoteFetchProofs`: `FetchTypeCorrect`, `DescriptorsAlwaysAccounted`,
  `AllOrNothingAlways`, `NeverPadded`.
  `FInv` states what each loop knows of the kind of answer and of the bytes it
  has, that nothing of a fetch is left when the next begins, and in which phase of a
  fetch its socket is created or connected (`SocketPhase`): past the connect
  `TcpClose` finds it connected, so only the two error paths that do not close it
  add to what is lost.
* `TokenProofs`: `BreakNoticed`, `IssuedOnly`, `RegionOfUser`.
  `LinkInv` bounds how old a break may be that a worker has not noticed: a command
  that works shows the connection to be whole, one that fails makes the next command
  connect again.  `TokensOwned` and `CacheOwned` support each other: a worker past the
  verification has a token of its user, so what it stores under the user's key is one,
  and so is what the next worker finds there.  For the region the order of expiry
  matters: until something disturbs it, each cached token has its region behind it in
  the sequence, or a worker about to put it there (`RegionBehind`), so the token is
  gone before its region is.
* `StatisticsProofs`: `TypesCorrect`, `NeverPrintedTwice`, `LossOnlyByOverlap`,
  `CrashCauses`, `FetchesLoggedOnce`.  `DayInv` relates dates, directories and files: a
  thread is without its file only after one was too early or a call failed.
  `HiveInv` says that what is logged, in the thread's hand and queued of a worker is
  the sequence of its records, in this order.  `CounterInv` keeps the balance: no
  step makes what is pending (in the workers' maps ahead of the iterator and in the
  collected report) grow more than what is due, and without an overlap not less
  either (`BalanceStep`); the latter needs that what the iterator has passed without
  adding it is zero (`PassedIsZero`).  The pending counts are a sum over the workers
  of which a step changes one summand.
* `StartupProofs`: `LinesAlwaysInTheirDay`, `MissingDirAlwaysSurvived`,
  `StaleAlwaysNeedsMove`, `LastWorkerAlwaysSafe`.  `LInv` is for the log: nobody
  writes before it is opened (`LogUnused`), who prints holds the mutex
  (`PrintLocked`), the file is open while `fopen` and `fprintf` work (`FileOpen`),
  and while nothing fails every directory newer than the file was made by somebody
  else (`FileOfTheDay`), which is why a line finds either the file of its day or
  such a directory.  `VInv` is for the vector: the buffer freed last is the current
  one only while main is between the two halves of a moving `push_back`, and then
  the worker to come is one for which the vector moves, because its capacity is
  always the doubling of the one before (`Doubled`) and it moves exactly when it is
  full.

Only model-checked: liveness (`RequestsTakenUp`, `ResetPeersReleased`,
`FieldsConverge`, `FetchEnds`, `RevokedRefused`, `StartEnds`, `TasksTaken`), which
needs fairness and `ENABLED` and is out of the prover's reach.  Every invariant and
every action property of a passing run, and the refinement, is also a theorem.

## 5. Not modelled

* Third-party headers: 18 085 of the 28 313 lines of code in the repository are
  the headers of the MySQL client, jsoncpp and hiredis under `src/include/`.
  They are not this program; the modules model them by how it uses them.  Of the
  10 228 lines of its own, more than a third is mapped.  The rest is
  mostly what follows.
* The bytes of HTTP and JSON (`TM` 106-300, 930-979): a request is well formed
  or refused, an answer whole or cut.  Base64, Md5, UrlEncode: byte-level,
  stateless, and no property depends on them.
* The daily order synchronisation (`UserQueryUpdate.cpp` 579-653): nothing fills
  `need_updated_datahub_order`, so it finds an empty set and does nothing.
* The choice among several Redis servers: the number of servers is 1.
  (`UserPutOrderSet` picks by the score and `UserGetSortedSet` by the key, which
  would differ otherwise.)
* `Time`, `File`, `UdpSocket`: wrappers of system calls; `UdpSocket` is not used
  by the server.  The methods of `CLog`, `CConf` and `CThreads` that nobody calls.
* The values of the configuration file but for the log and the number of threads.
* The TcpWrite retry loop, reconnecting sockets and SMTP in `TcpSocket.cpp`.
* Code that is compiled out (`#if 0`) or that only such code or the daily
  synchronisation calls: `GetMysqlFieldsUserInfo`, `CUserQueryUpdate`'s own copy
  of the DataHub client.

## 6. Plan

Modelled and checked: `Dispatch` with `ConnLife`, `Orders` with failures and
restarts, `ConfigRefresh`, `RemoteFetch`, `Statistics` with the Hive log,
`TokenCache`, `Startup` with `LogFile`.  All their safety properties are proved.
What is left:

1. The safety halves of the liveness properties as theorems: what cannot be undone
   once it is reached (a request read, a connection released, a section read), and
   which states a fetch or a start can stand still in.
2. The converse of `remote_chunk_split`: the segmentations under which
   `WholeAnswerAccepted` does hold, as `OwnOrderAlwaysRemoved` and `MissNeedsSwap` are
   for `orders_delete_race` and `config_swap_window`.
