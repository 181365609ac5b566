--------------------------- MODULE ConfigRefresh ---------------------------
(***************************************************************************)
(* The routing configuration of the gateway: the update thread             *)
(* (CUserQueryUpdate::Core) reads the table api_gateway_config over a      *)
(* MySQL connection that may break, and installs it in the map             *)
(* g_MapApiGateWayconfig, which the workers search while they serve a      *)
(* request.  Thread and workers share the map without a lock.              *)
(*                                                                         *)
(* A row is its request parameters and everything else ("fields").  A row  *)
(* without parameters stands for a row with an empty column, whichever it  *)
(* is: strtok_r skips it, and the last of the eleven columns is missing.   *)
(* A lookup, the clearing of the map and the insertion of a row are steps; *)
(* what a lookup meets in the middle of one of them is not modelled.       *)
(***************************************************************************)
EXTENDS Integers, FiniteSetsExt

CONSTANTS
    Actions,      \* values of the key column reqaction
    Fields,       \* values of the columns that are compared
    Params,       \* request parameters
    Workers,
    NoRow,        \* an action that is not in a table or map
    MaxEdits,     \* bound on changes of the table
    MaxFailures   \* bound on broken connections and failed calls

TableRows == [fields : Fields, params : SUBSET Params]
Short(row) == row.params = {}
Rows == {row \in TableRows : ~Short(row)}
Tables == [Actions -> TableRows \cup {NoRow}]
Maps == [Actions -> Rows \cup {NoRow}]

ASSUME ConfigAssumption ==
    /\ Actions \subseteq Nat /\ IsFiniteSet(Actions)
    /\ NoRow \notin TableRows
    /\ MaxEdits \in Nat /\ MaxFailures \in Nat

VARIABLES
    table,      \* api_gateway_config
    link,       \* the connection: open, broken, or no valid pmysqlConn
    bInitFlag,
    pmysqlRes,  \* unset, null, the last result, or that result after it was freed
    upc,        \* where the update thread is
    unread,     \* rows of the current result that were not fetched yet
    mid,        \* mid_MapApiGateWayconfig, reused for every row
    temp,       \* temp_g_MapApiGateWayconfig
    g,          \* g_MapApiGateWayconfig
    left,       \* entries SwapApiGateWayMap has still to insert
    lookup,     \* each worker's lookup: the action, and what itr is by now
    crash,      \* what ended the process, if anything did
    edits, failures,                 \* bounded counters
    past,       \* history: the rows each action has had
    steady,     \* history: the actions the table has held from the start
    complete,   \* history: g was installed from a result read to its end, and so
                \* is what replaces it
    streak      \* history: queries that failed since the last one that succeeded

mysqlVars == <<link, bInitFlag, pmysqlRes>>
history == <<past, steady, complete, streak>>
vars == <<table, mysqlVars, upc, unread, mid, temp, g, left, lookup, crash, edits, failures, history>>

Domain(m) == {a \in Actions : m[a] # NoRow}
EmptyMap == [a \in Actions |-> NoRow]
NoLookup == [action |-> -1, itr |-> "end"]

\* Every variable has its type; in particular a row with an empty column never
\* gets into a map.
TypeOK ==
    /\ table \in Tables
    /\ link \in {"none", "open", "broken"}
    /\ bInitFlag \in BOOLEAN
    /\ pmysqlRes \in {"unset", "null", "result", "freed"}
    /\ upc \in {"top", "fetch", "compare", "swap"}
    /\ unread \in Tables
    /\ mid \in Rows \cup {NoRow}
    /\ temp \in Maps
    /\ g \in Maps
    /\ left \in SUBSET Actions
    /\ lookup \in [Workers -> [action : Actions, itr : {"end", "node", "freed"}] \cup {NoLookup}]
    /\ crash \in {"none", "mysql", "column", "map"}
    /\ edits \in 0..MaxEdits /\ failures \in 0..MaxFailures
    /\ past \in [Actions -> SUBSET TableRows]
    /\ steady \in SUBSET Actions
    /\ complete \in BOOLEAN
    /\ streak \in Nat

\* The constructor calls InitMysql once.  bInitFlag is not initialised, so
\* when that call fails it may hold anything.
Init ==
    /\ table \in {[a \in Actions |-> r] : r \in Rows}
    /\ \/ link = "open" /\ bInitFlag = TRUE
       \/ link = "none" /\ bInitFlag \in BOOLEAN /\ MaxFailures > 0
    /\ pmysqlRes = "unset"
    /\ upc = "top"
    /\ unread = EmptyMap
    /\ mid = NoRow
    /\ temp = EmptyMap
    /\ g = EmptyMap
    /\ left = {}
    /\ lookup = [w \in Workers |-> NoLookup]
    /\ crash = "none"
    /\ edits = 0
    /\ failures = IF link = "none" THEN 1 ELSE 0
    /\ past = [a \in Actions |-> {table[a]}]
    /\ steady = Actions
    /\ complete = FALSE
    /\ streak = 0

-----------------------------------------------------------------------------
(***************************************************************************)
(* The administrator and the MySQL server.                                 *)
(***************************************************************************)
Edit(a) ==
    /\ edits < MaxEdits
    /\ edits' = edits + 1
    /\ \E r \in (TableRows \cup {NoRow}) \ {table[a]} :
          /\ table' = [table EXCEPT ![a] = r]
          /\ past' = IF r = NoRow THEN past ELSE [past EXCEPT ![a] = @ \cup {r}]
          /\ steady' = IF r = NoRow THEN steady \ {a} ELSE steady
    /\ UNCHANGED <<mysqlVars, upc, unread, mid, temp, g, left, lookup, crash, failures, complete, streak>>

Fail == failures < MaxFailures /\ failures' = failures + 1

Break ==
    /\ link = "open"
    /\ link' = "broken"
    /\ Fail
    /\ UNCHANGED <<table, bInitFlag, pmysqlRes, upc, unread, mid, temp, g, left, lookup, crash, edits, history>>

-----------------------------------------------------------------------------
(***************************************************************************)
(* The update thread.  The process ends when it uses an invalid pointer.   *)
(***************************************************************************)
\* "Reconnect mysql": InitMysql.
Reconnect ==
    /\ upc = "top"
    /\ ~bInitFlag
    /\ \/ link' = "open" /\ bInitFlag' = TRUE /\ UNCHANGED failures
       \/ Fail /\ link' = "none" /\ UNCHANGED bInitFlag
    /\ temp' = EmptyMap
    /\ UNCHANGED <<table, pmysqlRes, upc, unread, mid, g, left, lookup, crash, edits, history>>

\* ExecuteMySql fails: DestroyResultEnv.  mysql_query of a null connection,
\* and mysql_free_result of a pointer that was never set or is freed already,
\* end the process.
QueryFails ==
    /\ upc = "top"
    /\ bInitFlag
    /\ \/ link # "open" /\ UNCHANGED failures
       \/ link = "open" /\ Fail
    /\ temp' = EmptyMap
    /\ streak' = streak + 1
    /\ IF link = "none" \/ pmysqlRes \in {"unset", "freed"}
       THEN crash' = "mysql" /\ UNCHANGED mysqlVars
       ELSE /\ pmysqlRes' = IF pmysqlRes = "result" THEN "freed" ELSE pmysqlRes
            /\ link' = "none"
            /\ bInitFlag' = FALSE
            /\ UNCHANGED crash
    /\ UNCHANGED <<table, upc, unread, mid, g, left, lookup, edits, past, steady, complete>>

\* ExecuteMySql and MysqlUseResult.  The result before is not freed.
Query ==
    /\ upc = "top"
    /\ bInitFlag
    /\ link = "open"
    /\ temp' = EmptyMap
    /\ \/ /\ pmysqlRes' = "result"
          /\ unread' = table
          /\ upc' = "fetch"
          /\ streak' = 0
          /\ UNCHANGED failures
       \/ /\ Fail                              \* MysqlUseResult returns false
          /\ pmysqlRes' = "null"
          /\ streak' = 0
          /\ UNCHANGED <<unread, upc>>
    /\ UNCHANGED <<table, link, bInitFlag, mid, g, left, lookup, crash, edits, past, steady, complete>>

\* Faulty variant: the parameters of the row before are not cleared.
GetMysqlFieldsUncleared(row) ==
    [row EXCEPT !.params = IF mid = NoRow THEN @ ELSE @ \cup mid.params]

\* Faulty variant: the column reqparams is not taken apart.
GetMysqlFieldsNoParams(row) == [row EXCEPT !.params = {}]

\* GetMysqlFieldsApiGateWayConfig: mid is cleared and filled from the row.
GetMysqlFields(row) == row

\* MysqlFetchRow returns a row.
FetchRow ==
    /\ upc = "fetch"
    /\ link = "open"
    /\ \E a \in Domain(unread) :
          /\ ~Short(unread[a])
          /\ unread' = [unread EXCEPT ![a] = NoRow]
          /\ mid' = GetMysqlFields(unread[a])
          /\ temp' = [temp EXCEPT ![a] = mid']
    /\ UNCHANGED <<table, mysqlVars, upc, g, left, lookup, crash, edits, failures, history>>

\* A row with an empty column: temp[10] is NULL, and std::string(NULL) throws.
FetchShortRow ==
    /\ upc = "fetch"
    /\ link = "open"
    /\ \E a \in Domain(unread) : Short(unread[a])
    /\ crash' = "column"
    /\ UNCHANGED <<table, mysqlVars, upc, unread, mid, temp, g, left, lookup, edits, failures, history>>

\* Faulty variant: the result is freed after the loop, the pointer kept.
FetchEndFrees ==
    /\ upc = "fetch"
    /\ link # "open" \/ Domain(unread) = {}
    /\ upc' = "compare"
    /\ pmysqlRes' = "freed"
    /\ UNCHANGED <<table, link, bInitFlag, unread, mid, temp, g, left, lookup, crash, edits, failures, history>>

\* MysqlFetchRow returns NULL: no more rows, or a broken connection.
FetchEnd ==
    /\ upc = "fetch"
    /\ link # "open" \/ Domain(unread) = {}
    /\ upc' = "compare"
    /\ UNCHANGED <<table, mysqlVars, unread, mid, temp, g, left, lookup, crash, edits, failures, history>>

\* Faulty variant: the sizes are not compared.
MapGateWayConfigIsEqualUnsized(src, dest) ==
    \A a \in Domain(src) : a \in Domain(dest) /\ src[a].fields = dest[a].fields

MapGateWayConfigIsEqual(src, dest) ==
    /\ Cardinality(Domain(src)) = Cardinality(Domain(dest))
    /\ \A a \in Domain(src) : a \in Domain(dest) /\ src[a].fields = dest[a].fields

CompareEqual ==
    /\ upc = "compare"
    /\ MapGateWayConfigIsEqual(temp, g)
    /\ upc' = "top"
    /\ complete' = (Domain(unread) = {})
    /\ unread' = EmptyMap
    /\ UNCHANGED <<table, mysqlVars, mid, temp, g, left, lookup, crash, edits, failures, past, steady, streak>>

\* The refreshed map differs: destMap.clear() frees every node.
SwapBegin ==
    /\ upc = "compare"
    /\ ~MapGateWayConfigIsEqual(temp, g)
    /\ upc' = "swap"
    /\ g' = EmptyMap
    /\ left' = Domain(temp)
    /\ lookup' = [w \in Workers |->
          IF lookup[w].itr = "node" THEN [lookup[w] EXCEPT !.itr = "freed"] ELSE lookup[w]]
    /\ complete' = (complete /\ Domain(unread) = {})
    /\ UNCHANGED <<table, mysqlVars, unread, mid, temp, crash, edits, failures, past, steady, streak>>

SwapEnd ==
    /\ upc' = "top"
    /\ complete' = (Domain(unread) = {})
    /\ unread' = EmptyMap

\* Faulty variant: the loop stops before the last entry.
SwapInsertShort ==
    /\ upc = "swap"
    /\ IF Cardinality(left) <= 1
       THEN SwapEnd /\ left' = {} /\ UNCHANGED g
       ELSE /\ g' = [g EXCEPT ![Min(left)] = temp[Min(left)]]
            /\ left' = left \ {Min(left)}
            /\ UNCHANGED <<upc, unread, complete>>
    /\ UNCHANGED <<table, mysqlVars, mid, temp, lookup, crash, edits, failures, past, steady, streak>>

\* The entries are inserted in the order of their keys.
SwapInsert ==
    /\ upc = "swap"
    /\ IF left = {}
       THEN SwapEnd /\ UNCHANGED <<g, left>>
       ELSE /\ g' = [g EXCEPT ![Min(left)] = temp[Min(left)]]
            /\ left' = left \ {Min(left)}
            /\ UNCHANGED <<upc, unread, complete>>
    /\ UNCHANGED <<table, mysqlVars, mid, temp, lookup, crash, edits, failures, past, steady, streak>>

UpdateNext ==
    \/ Reconnect
    \/ QueryFails
    \/ Query
    \/ FetchRow
    \/ FetchShortRow
    \/ FetchEnd
    \/ CompareEqual
    \/ SwapBegin
    \/ SwapInsert

-----------------------------------------------------------------------------
(***************************************************************************)
(* Worker w in BdxParseBody: the lookup of the action, and then either the *)
(* answer "1103 apiname is not exists" or the copy of the entry.           *)
(***************************************************************************)
Find(w, a) ==
    /\ lookup[w] = NoLookup
    /\ lookup' = [lookup EXCEPT ![w] =
          [action |-> a, itr |-> IF g[a] = NoRow THEN "end" ELSE "node"]]
    /\ UNCHANGED <<table, mysqlVars, upc, unread, mid, temp, g, left, crash, edits, failures, history>>

\* A copy from a freed node may end the process.
UseLookup(w) ==
    /\ lookup[w] # NoLookup
    /\ lookup' = [lookup EXCEPT ![w] = NoLookup]
    /\ \/ UNCHANGED crash
       \/ lookup[w].itr = "freed" /\ crash' = "map"
    /\ UNCHANGED <<table, mysqlVars, upc, unread, mid, temp, g, left, edits, failures, history>>

WorkerNext(w) == UseLookup(w) \/ \E a \in Actions : Find(w, a)

Running == crash = "none"

Next ==
    /\ Running
    /\ \/ UpdateNext
       \/ \E a \in Actions : Edit(a)
       \/ Break
       \/ \E w \in Workers : WorkerNext(w)

Spec == Init /\ [][Next]_vars

\* The update thread is scheduled for ever; its sleeps end.
FairSpec == Spec /\ WF_vars(Running /\ UpdateNext)

-----------------------------------------------------------------------------
(***************************************************************************)
(* Correctness.                                                            *)
(***************************************************************************)
\* Every entry of the map is a row the table has had for that action: the
\* reuse of mid_MapApiGateWayconfig for all rows mixes no two of them.
EntriesWereRows == \A a \in Domain(g) : g[a] \in past[a]

\* Between two swaps an action that the table has always held is in the map,
\* unless the last result read was cut short by a broken connection.
SteadyActionsRoutable == complete /\ upc # "swap" => steady \subseteq Domain(g)

\* A failed query ends the process only when the query before it failed too
\* (DestroyResultEnv then frees pmysqlRes again) or no query ever succeeded.
\* In particular the thread survives a single broken connection.  A row it
\* cannot take apart ends it only when the table has held such a row.
CrashNeedsTwoFailures ==
    /\ crash = "mysql" => streak >= 2 \/ pmysqlRes = "unset"
    /\ crash = "column" => \E a \in Actions : \E row \in past[a] : Short(row)

\* When the table and the connection are left alone, and neither an empty
\* column nor a pointer used twice has ended the process, the map comes to
\* agree with the table in its actions and in every compared column.
FieldsConverge ==
    <>[](\/ ~Running
         \/ /\ Domain(g) = Domain(table)
            /\ \A a \in Domain(g) : g[a].fields = table[a].fields)

\* "1103 apiname is not exists": once the whole table has been loaded, a
\* lookup does not miss an action the table has held from the start.
MissMeansAbsent ==
    [][\A w \in Workers, a \in Actions :
          complete /\ lookup[w] = NoLookup /\ lookup'[w] = [action |-> a, itr |-> "end"]
              => a \notin steady]_vars
=============================================================================
