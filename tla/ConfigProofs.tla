---------------------------- MODULE ConfigProofs ----------------------------
(***************************************************************************)
(* Proofs about ConfigRefresh, for any table, any number of workers and    *)
(* any number of edits and failures.                                       *)
(***************************************************************************)
EXTENDS ConfigRefresh, TLAPS

\* Whatever the thread holds of an action was a row of it.
RowsSeen ==
    \A a \in Actions :
        /\ table[a] \in past[a] \cup {NoRow}
        /\ unread[a] \in past[a] \cup {NoRow}
        /\ temp[a] \in past[a] \cup {NoRow}
        /\ g[a] \in past[a] \cup {NoRow}

\* Where the steady actions are while a result is read and installed.
SteadyCovered ==
    /\ \A a \in steady : table[a] # NoRow
    /\ upc \in {"fetch", "compare"} =>
          \A a \in steady : unread[a] # NoRow \/ temp[a] # NoRow
    /\ upc = "swap" =>
          /\ (\A a \in Actions : unread[a] = NoRow) => \A a \in steady : temp[a] # NoRow
          /\ \A a \in Actions : temp[a] # NoRow /\ a \notin left => g[a] # NoRow
    /\ complete /\ upc # "swap" => \A a \in steady : g[a] # NoRow

\* What the pointers of the MySQL client tell about the queries so far.
PointersTell ==
    /\ link = "none" /\ bInitFlag => pmysqlRes = "unset"
    /\ pmysqlRes = "freed" => streak >= 1
    /\ CrashNeedsTwoFailures

CInv == TypeOK /\ RowsSeen /\ SteadyCovered /\ PointersTell

LEMMA EmptyIsMap ==
    /\ EmptyMap \in Maps /\ EmptyMap \in Tables
    /\ \A a \in Actions : EmptyMap[a] = NoRow
  BY DEF EmptyMap, Maps, Tables

LEMMA RowsOfTables == Rows \subseteq TableRows /\ NoRow \notin Rows
  BY ConfigAssumption DEF Rows

LEMMA DomainEmpty ==
    ASSUME NEW m
    PROVE  Domain(m) = {} <=> \A a \in Actions : m[a] = NoRow
  BY DEF Domain

LEMMA CInvInit == Init => CInv
  <1> SUFFICES ASSUME Init PROVE CInv
    OBVIOUS
  <1>1. table \in Tables /\ \A a \in Actions : table[a] \in TableRows /\ table[a] # NoRow
    BY RowsOfTables, ConfigAssumption DEF Init, Tables
  <1>2. TypeOK
    <2>1. past \in [Actions -> SUBSET TableRows]
      BY <1>1 DEF Init
    <2>2. lookup \in [Workers -> [action : Actions, itr : {"end", "node", "freed"}] \cup {NoLookup}]
      BY DEF Init
    <2>3. bInitFlag \in BOOLEAN /\ complete \in BOOLEAN
      BY Zenon DEF Init
    <2>4. failures \in 0..MaxFailures /\ edits \in 0..MaxEdits
      BY ConfigAssumption DEF Init
    <2> QED BY <1>1, <2>1, <2>2, <2>3, <2>4, EmptyIsMap DEF Init, TypeOK
  <1>3. RowsSeen
    BY <1>1, EmptyIsMap DEF Init, RowsSeen
  <1>4. SteadyCovered
    BY <1>1 DEF Init, SteadyCovered
  <1>5. PointersTell
    BY DEF Init, PointersTell, CrashNeedsTwoFailures
  <1> QED BY <1>2, <1>3, <1>4, <1>5 DEF CInv

\* The actions of the administrator, the server and the workers.
LEMMA CInvEnvironment ==
    ASSUME CInv, Running,
           \/ \E a \in Actions : Edit(a)
           \/ Break
           \/ \E w \in Workers : WorkerNext(w)
    PROVE  CInv'
  <1> USE DEF CInv
  <1>1. ASSUME NEW a \in Actions, Edit(a) PROVE CInv'
    <2>1. PICK r \in (TableRows \cup {NoRow}) \ {table[a]} :
             /\ table' = [table EXCEPT ![a] = r]
             /\ past' = IF r = NoRow THEN past ELSE [past EXCEPT ![a] = @ \cup {r}]
             /\ steady' = IF r = NoRow THEN steady \ {a} ELSE steady
      BY <1>1 DEF Edit
    <2>2. TypeOK'
      <3>1. table' \in Tables /\ past' \in [Actions -> SUBSET TableRows] /\ steady' \in SUBSET Actions
        BY <2>1 DEF TypeOK, Tables
      <3>2. edits' \in 0..MaxEdits
        BY <1>1, ConfigAssumption DEF Edit, TypeOK
      <3> QED BY <1>1, <3>1, <3>2 DEF Edit, TypeOK, mysqlVars
    <2>3. RowsSeen'
      BY <1>1, <2>1 DEF Edit, TypeOK, RowsSeen, Tables
    <2>4. SteadyCovered'
      BY <1>1, <2>1 DEF Edit, TypeOK, SteadyCovered, Tables
    <2>5. PointersTell'
      BY <1>1 DEF Edit, PointersTell, CrashNeedsTwoFailures, mysqlVars
    <2> QED BY <2>2, <2>3, <2>4, <2>5
  <1>2. CASE Break
    <2>1. TypeOK'
      BY <1>2, ConfigAssumption DEF Break, Fail, TypeOK, history
    <2> QED
      BY <1>2, <2>1
      DEF Break, Fail, history, RowsSeen, SteadyCovered, PointersTell, CrashNeedsTwoFailures
  <1>3. ASSUME NEW w \in Workers, NEW a \in Actions, Find(w, a) PROVE CInv'
    <2>1. lookup' \in [Workers -> [action : Actions, itr : {"end", "node", "freed"}] \cup {NoLookup}]
      BY <1>3 DEF Find, TypeOK
    <2> QED
      BY <1>3, <2>1
      DEF Find, TypeOK, history, mysqlVars, RowsSeen, SteadyCovered, PointersTell,
          CrashNeedsTwoFailures
  <1>4. ASSUME NEW w \in Workers, UseLookup(w) PROVE CInv'
    <2>1. lookup' \in [Workers -> [action : Actions, itr : {"end", "node", "freed"}] \cup {NoLookup}]
      BY <1>4 DEF UseLookup, TypeOK
    <2>2. crash' \in {"none", "mysql", "column", "map"} /\ (crash' # crash => crash' = "map")
      BY <1>4 DEF UseLookup, TypeOK
    <2> QED
      BY <1>4, <2>1, <2>2
      DEF UseLookup, TypeOK, history, mysqlVars, RowsSeen, SteadyCovered, PointersTell,
          CrashNeedsTwoFailures
  <1> QED BY <1>1, <1>2, <1>3, <1>4 DEF WorkerNext

\* The actions of the update thread.
LEMMA CInvUpdate ==
    ASSUME CInv, Running, UpdateNext
    PROVE  CInv'
  <1> USE DEF CInv
  <1>1. CASE Reconnect
    <2>1. temp' \in Maps /\ \A a \in Actions : temp'[a] = NoRow
      BY <1>1, EmptyIsMap DEF Reconnect
    <2>2. bInitFlag' \in BOOLEAN
      BY <1>1 DEF Reconnect, TypeOK
    <2>3. TypeOK'
      BY <1>1, <2>1, <2>2, ConfigAssumption DEF Reconnect, Fail, TypeOK, history
    <2>4. RowsSeen' /\ SteadyCovered'
      BY <1>1, <2>1 DEF Reconnect, history, RowsSeen, SteadyCovered
    <2>5. PointersTell'
      BY <1>1 DEF Reconnect, history, PointersTell, CrashNeedsTwoFailures
    <2> QED BY <2>3, <2>4, <2>5
  <1>2. CASE QueryFails
    <2>1. temp' \in Maps /\ \A a \in Actions : temp'[a] = NoRow
      BY <1>2, EmptyIsMap DEF QueryFails
    <2>2. bInitFlag' \in BOOLEAN /\ link' \in {"none", "open", "broken"}
          /\ pmysqlRes' \in {"unset", "null", "result", "freed"}
          /\ crash' \in {"none", "mysql", "column", "map"}
      <3>1. bInitFlag' = bInitFlag \/ bInitFlag' = FALSE
        BY <1>2, Zenon DEF QueryFails, mysqlVars
      <3>2. bInitFlag' \in BOOLEAN
        BY <3>1, Zenon DEF TypeOK
      <3> QED
        BY <1>2, <3>2 DEF QueryFails, TypeOK, mysqlVars
    <2>3. failures' \in 0..MaxFailures /\ streak' \in Nat /\ streak' = streak + 1
      BY <1>2, ConfigAssumption DEF QueryFails, Fail, TypeOK
    <2>4. TypeOK'
      BY <1>2, <2>1, <2>2, <2>3 DEF QueryFails, TypeOK
    <2>5. RowsSeen' /\ SteadyCovered'
      BY <1>2, <2>1 DEF QueryFails, RowsSeen, SteadyCovered
    <2>6. PointersTell'
      <3>1. CASE link = "none" \/ pmysqlRes \in {"unset", "freed"}
        <4>1. link' = link /\ bInitFlag' = bInitFlag /\ pmysqlRes' = pmysqlRes
          BY <1>2, <3>1, Zenon DEF QueryFails, mysqlVars
        <4>2. link' = "none" /\ bInitFlag' => pmysqlRes' = "unset"
          BY <4>1, Zenon DEF PointersTell
        <4>3. pmysqlRes = "unset" \/ pmysqlRes = "freed"
          BY <1>2, <3>1 DEF QueryFails, PointersTell
        <4> QED
          BY <1>2, <2>3, <4>1, <4>2, <4>3
          DEF QueryFails, Running, TypeOK, PointersTell, CrashNeedsTwoFailures
      <3>2. CASE ~(link = "none" \/ pmysqlRes \in {"unset", "freed"})
        <4>1. bInitFlag' = FALSE /\ crash' = crash
          BY <1>2, <3>2, Zenon DEF QueryFails
        <4>2. crash' # "mysql" /\ crash' # "column"
          BY <4>1 DEF Running
        <4> QED
          BY <2>3, <4>1, <4>2 DEF TypeOK, PointersTell, CrashNeedsTwoFailures
      <3> QED BY <3>1, <3>2
    <2> QED BY <2>4, <2>5, <2>6
  <1>3. CASE Query
    <2>1. temp' \in Maps /\ \A a \in Actions : temp'[a] = NoRow
      BY <1>3, EmptyIsMap DEF Query
    <2>2. /\ unread' \in Tables /\ upc' \in {"top", "fetch"} /\ streak' = 0
          /\ pmysqlRes' \in {"null", "result"}
          /\ unread' = table \/ (unread' = unread /\ upc' = "top")
      BY <1>3 DEF Query, TypeOK
    <2>3. failures' \in 0..MaxFailures
      BY <1>3, ConfigAssumption DEF Query, Fail, TypeOK
    <2>4. TypeOK'
      BY <1>3, <2>1, <2>2, <2>3 DEF Query, TypeOK
    <2>5. RowsSeen' /\ SteadyCovered'
      BY <1>3, <2>1, <2>2 DEF Query, RowsSeen, SteadyCovered
    <2>6. PointersTell'
      BY <1>3, <2>2 DEF Query, PointersTell, CrashNeedsTwoFailures, Running
    <2> QED BY <2>4, <2>5, <2>6
  <1>4. CASE FetchRow
    <2>1. PICK a \in Actions :
             /\ unread[a] # NoRow /\ ~Short(unread[a])
             /\ unread' = [unread EXCEPT ![a] = NoRow]
             /\ mid' = unread[a]
             /\ temp' = [temp EXCEPT ![a] = unread[a]]
      BY <1>4 DEF FetchRow, Domain, GetMysqlFields
    <2>2. TypeOK'
      <3>1. unread[a] \in Rows
        BY <2>1 DEF TypeOK, Tables, Rows
      <3> QED
        BY <1>4, <2>1, <3>1 DEF FetchRow, TypeOK, Maps, Tables, history, mysqlVars
    <2>3. RowsSeen'
      BY <1>4, <2>1 DEF FetchRow, TypeOK, Maps, Tables, history, RowsSeen
    <2>4. SteadyCovered'
      BY <1>4, <2>1 DEF FetchRow, TypeOK, Maps, Tables, history, SteadyCovered
    <2>5. PointersTell'
      BY <1>4 DEF FetchRow, history, mysqlVars, PointersTell, CrashNeedsTwoFailures
    <2> QED BY <2>2, <2>3, <2>4, <2>5
  <1>5. CASE FetchEnd
    BY <1>5
    DEF FetchEnd, TypeOK, history, mysqlVars, RowsSeen, SteadyCovered, PointersTell,
        CrashNeedsTwoFailures
  <1>6. CASE CompareEqual
    <2>1. unread' \in Tables /\ \A a \in Actions : unread'[a] = NoRow
      BY <1>6, EmptyIsMap DEF CompareEqual
    <2>2. \A a \in Actions : temp[a] # NoRow => g[a] # NoRow
      BY <1>6 DEF CompareEqual, MapGateWayConfigIsEqual, Domain
    <2>3. complete' \in BOOLEAN /\ (complete' => \A a \in Actions : unread[a] = NoRow)
      BY <1>6, DomainEmpty DEF CompareEqual
    <2>4. TypeOK'
      BY <1>6, <2>1, <2>3 DEF CompareEqual, TypeOK, mysqlVars
    <2>5. RowsSeen'
      BY <1>6, <2>1 DEF CompareEqual, RowsSeen
    <2>6. SteadyCovered'
      BY <1>6, <2>2, <2>3 DEF CompareEqual, SteadyCovered, TypeOK
    <2>7. PointersTell'
      BY <1>6 DEF CompareEqual, mysqlVars, PointersTell, CrashNeedsTwoFailures
    <2> QED BY <2>4, <2>5, <2>6, <2>7
  <1>7. CASE SwapBegin
    <2>1. g' \in Maps /\ \A a \in Actions : g'[a] = NoRow
      BY <1>7, EmptyIsMap DEF SwapBegin
    <2>2. left' = {a \in Actions : temp[a] # NoRow} /\ complete' \in BOOLEAN
      BY <1>7 DEF SwapBegin, Domain, TypeOK
    <2>3. lookup' \in [Workers -> [action : Actions, itr : {"end", "node", "freed"}] \cup {NoLookup}]
      BY <1>7 DEF SwapBegin, TypeOK, NoLookup
    <2>4. TypeOK'
      BY <1>7, <2>1, <2>2, <2>3 DEF SwapBegin, TypeOK, mysqlVars
    <2>5. RowsSeen'
      BY <1>7, <2>1 DEF SwapBegin, RowsSeen
    <2>6. SteadyCovered'
      BY <1>7, <2>2 DEF SwapBegin, SteadyCovered, TypeOK
    <2>7. PointersTell'
      BY <1>7 DEF SwapBegin, mysqlVars, PointersTell, CrashNeedsTwoFailures
    <2> QED BY <2>4, <2>5, <2>6, <2>7
  <1>8. CASE SwapInsert
    <2> DEFINE m == Min(left)
    <2>1. CASE left = {}
      <3>1. unread' \in Tables /\ \A a \in Actions : unread'[a] = NoRow
        BY <1>8, <2>1, EmptyIsMap DEF SwapInsert, SwapEnd
      <3>2. complete' \in BOOLEAN /\ (complete' => \A a \in Actions : unread[a] = NoRow)
        BY <1>8, <2>1, DomainEmpty DEF SwapInsert, SwapEnd
      <3>3. TypeOK'
        BY <1>8, <2>1, <3>1, <3>2 DEF SwapInsert, SwapEnd, TypeOK, mysqlVars
      <3>4. RowsSeen'
        BY <1>8, <2>1, <3>1 DEF SwapInsert, SwapEnd, RowsSeen
      <3>5. SteadyCovered'
        BY <1>8, <2>1, <3>2 DEF SwapInsert, SwapEnd, SteadyCovered, TypeOK
      <3>6. PointersTell'
        BY <1>8, <2>1
        DEF SwapInsert, SwapEnd, mysqlVars, PointersTell, CrashNeedsTwoFailures
      <3> QED BY <3>3, <3>4, <3>5, <3>6
    <2>2. CASE left # {}
      <3> HIDE DEF m
      <3>1. /\ g' = [g EXCEPT ![m] = temp[m]]
            /\ left' = left \ {m}
            /\ UNCHANGED <<upc, unread, complete>>
        BY <1>8, <2>2 DEF SwapInsert, m
      <3>2. /\ g' \in Maps
            /\ \A a \in Actions : g'[a] = IF a = m THEN temp[a] ELSE g[a]
        BY <3>1 DEF TypeOK, Maps
      <3>3. TypeOK'
        BY <1>8, <3>1, <3>2 DEF SwapInsert, TypeOK, mysqlVars
      <3>4. RowsSeen'
        BY <1>8, <3>1, <3>2 DEF SwapInsert, RowsSeen
      <3>5. SteadyCovered'
        BY <1>8, <3>1, <3>2 DEF SwapInsert, SteadyCovered, TypeOK
      <3>6. PointersTell'
        BY <1>8, <3>1 DEF SwapInsert, mysqlVars, PointersTell, CrashNeedsTwoFailures
      <3> QED BY <3>3, <3>4, <3>5, <3>6
    <2> QED BY <2>1, <2>2
  <1>9. CASE FetchShortRow
    <2>1. PICK a \in Actions : unread[a] # NoRow /\ Short(unread[a])
      BY <1>9 DEF FetchShortRow, Domain
    <2>2. unread[a] \in past[a]
      BY <2>1 DEF RowsSeen
    <2>3. TypeOK'
      BY <1>9 DEF FetchShortRow, TypeOK, history, mysqlVars
    <2>4. RowsSeen' /\ SteadyCovered'
      BY <1>9 DEF FetchShortRow, RowsSeen, SteadyCovered, history
    <2>5. PointersTell'
      BY <1>9, <2>1, <2>2
      DEF FetchShortRow, PointersTell, CrashNeedsTwoFailures, history, mysqlVars
    <2> QED BY <2>3, <2>4, <2>5
  <1> QED
    BY <1>1, <1>2, <1>3, <1>4, <1>5, <1>6, <1>7, <1>8, <1>9 DEF UpdateNext

LEMMA CInvStep == CInv /\ [Next]_vars => CInv'
  <1> SUFFICES ASSUME CInv, [Next]_vars PROVE CInv'
    OBVIOUS
  <1>1. CASE Next
    BY <1>1, CInvEnvironment, CInvUpdate DEF Next
  <1>2. CASE UNCHANGED vars
    BY <1>2
    DEF vars, CInv, TypeOK, history, mysqlVars, RowsSeen, SteadyCovered, PointersTell,
        CrashNeedsTwoFailures
  <1> QED BY <1>1, <1>2

LEMMA CInvAlways == Spec => []CInv
  BY CInvInit, CInvStep, PTL DEF Spec

\* Every variable of the update thread and of the lookups keeps its type.
THEOREM ConfigTypeCorrect == Spec => []TypeOK
  BY CInvAlways, PTL DEF CInv

\* The map g_MapApiGateWayconfig only ever holds rows the table has had for
\* that action, whatever breaks while they are read.
THEOREM EntriesAlwaysRows == Spec => []EntriesWereRows
  <1>1. CInv => EntriesWereRows
    BY DEF CInv, RowsSeen, EntriesWereRows, Domain
  <1> QED BY <1>1, CInvAlways, PTL

\* Between two swaps of an untruncated configuration no action that stayed in
\* the table is missing from the map.
THEOREM SteadyAlwaysRoutable == Spec => []SteadyActionsRoutable
  <1>1. CInv => SteadyActionsRoutable
    BY DEF CInv, TypeOK, SteadyCovered, SteadyActionsRoutable, Domain
  <1> QED BY <1>1, CInvAlways, PTL

\* DestroyResultEnv frees a result a second time only after two queries in a
\* row have failed (or before any query succeeded).
THEOREM CrashNeedsTwo == Spec => []CrashNeedsTwoFailures
  <1>1. CInv => CrashNeedsTwoFailures
    BY DEF CInv, PointersTell
  <1> QED BY <1>1, CInvAlways, PTL

\* Once the whole table has been loaded, a lookup misses an action the table has held
\* from the start only while the map is being refilled.
MissesOnlyInSwap ==
    \A w \in Workers, a \in Actions :
        complete /\ lookup[w] = NoLookup /\ lookup'[w] = [action |-> a, itr |-> "end"]
            => a \notin steady \/ upc = "swap"

\* "1103 apiname is not exists" for an action that was always in the table comes from
\* nothing but the window in which SwapApiGateWayMap has cleared the map and not yet
\* inserted the action again: no edit, failed query or other worker leads to it.
THEOREM MissNeedsSwap == Spec => [][MissesOnlyInSwap]_vars
  <1>1. CInv /\ [Next]_vars => [MissesOnlyInSwap]_vars
    <2> SUFFICES ASSUME CInv, Next, NEW w \in Workers, NEW a \in Actions, complete,
                        lookup[w] = NoLookup, lookup'[w] = [action |-> a, itr |-> "end"],
                        upc # "swap"
                 PROVE  a \notin steady
      BY DEF MissesOnlyInSwap
    <2>1. a \in Nat /\ lookup'[w] # lookup[w]
      BY ConfigAssumption DEF NoLookup
    <2>2. lookup \in [Workers -> [action : Actions, itr : {"end", "node", "freed"}] \cup {NoLookup}]
      BY DEF CInv, TypeOK
    <2>3. ASSUME UpdateNext
          PROVE  FALSE
      <3>1. CASE SwapBegin
        BY <2>1, <3>1 DEF SwapBegin, NoLookup
      <3>2. CASE lookup' = lookup
        BY <2>1, <3>2
      <3> QED
        BY <2>3, <3>1, <3>2
        DEF UpdateNext, Reconnect, QueryFails, Query, FetchRow, FetchShortRow, FetchEnd,
            CompareEqual, SwapInsert
    <2>4. ASSUME NEW b \in Actions, Edit(b) \/ Break
          PROVE  FALSE
      BY <2>1, <2>4 DEF Edit, Break
    <2>5. ASSUME NEW v \in Workers, UseLookup(v)
          PROVE  FALSE
      <3>1. lookup' = [lookup EXCEPT ![v] = NoLookup]
        BY <2>5 DEF UseLookup
      <3> QED BY <2>1, <2>2, <3>1
    <2>6. ASSUME NEW v \in Workers, NEW b \in Actions, Find(v, b)
          PROVE  a \notin steady
      <3>1. v = w
        BY <2>1, <2>2, <2>6 DEF Find
      <3>2. lookup'[w] = [action |-> b, itr |-> IF g[b] = NoRow THEN "end" ELSE "node"]
        BY <2>2, <2>6, <3>1 DEF Find
      <3>3. a = b /\ g[b] = NoRow
        BY <3>2
      <3> QED BY <3>3 DEF CInv, SteadyCovered
    <2> QED BY <2>3, <2>4, <2>5, <2>6 DEF Next, WorkerNext
  <1> QED BY <1>1, CInvAlways, PTL DEF Spec
=============================================================================
