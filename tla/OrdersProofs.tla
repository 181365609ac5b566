---------------------------- MODULE OrdersProofs ----------------------------
(***************************************************************************)
(* Proofs about Orders, for any number of workers and orders and any       *)
(* quotas, with Redis commands and calls to the DataHub that fail and a    *)
(* process that ends and is started again.                                 *)
(***************************************************************************)
EXTENDS Orders, FiniteSetTheorems, WellFoundedInduction, TLAPS

\* Where a worker has an order in strTempSubID.
HasSub == {"count", "expire", "limit", "status", "retrieve", "jump", "getLimit", "getExpire",
           "remove", "getStatus", "report", "mark", "remote", "charge"}

\* What a worker knows of its order at each point.
LocalInv ==
    \A w \in Workers :
        /\ pc[w] \in HasSub => sub[w] \in Subs
        /\ pc[w] \in {"getLimit", "getExpire", "remote", "charge"} => count[sub[w]] # Absent
        /\ pc[w] \in {"getExpire", "remote", "charge"} => iCount[w] < Units[sub[w]]
        /\ pc[w] = "limit" /\ "redis" \notin mishaps => expire[sub[w]] # "unset"

\* The workers that have read a count of order s below its limit and may
\* still charge it, and those that will certainly charge it.
Pending(s) ==
    {w \in Workers : /\ pc[w] \in {"getLimit", "getExpire", "remote", "charge"}
                     /\ sub[w] = s
                     /\ iCount[w] < Units[s]}

Charging(s) == {w \in Workers : pc[w] = "charge" /\ sub[w] = s}

OvershootInv ==
    \A s \in Subs : count[s] + Cardinality(Pending(s)) <= Units[s] + Cardinality(Workers) - 1

ChargeInv == \A s \in Subs : count[s] + Cardinality(Charging(s)) <= served[s]

\* Every query that was answered is in order_count or about to be, unless its
\* order is among the uncounted.
Counted(s) == IF count[s] = Absent THEN 0 ELSE count[s]

AccountInv ==
    \A s \in Subs : s \notin uncounted => served[s] <= Counted(s) + Cardinality(Charging(s))

WriteOrderInv ==
    "redis" \notin mishaps => \A s \in Subs : limit[s] # Absent => expire[s] # "unset"

OInv == TypeOK /\ LocalInv /\ WriteOrderInv

-----------------------------------------------------------------------------
\* The effect of the Redis commands is used throughout.
USE DEF WithOrder, UserPut, UserIncr, RedisCommand, DataHubCall

LEMMA InitOInv == Init => OInv
  BY OrdersAssumption DEF Init, OInv, TypeOK, LocalInv, WriteOrderInv, HasSub, Points, Absent, Mishaps

LEMMA LowestFact == TypeOK => Lowest \in Subs \cup {NoSub}
  <1> SUFFICES ASSUME TypeOK, zset # {}
               PROVE  Min(zset) \in zset
    BY DEF TypeOK, Lowest
  <1>1. zset \subseteq Nat
    BY OrdersAssumption DEF TypeOK
  <1>2. \E x \in zset : \A y \in zset : <<y, x>> \notin OpToRel(<, Nat)
    BY <1>1, NatLessThanWellFounded, WFMin
  <1>3. PICK x \in zset : \A y \in zset : <<y, x>> \notin OpToRel(<, Nat)
    BY <1>2
  <1>4. ASSUME NEW y \in zset
        PROVE  x <= y
    <2>1. <<y, x>> \in Nat \X Nat /\ <<y, x>>[1] = y /\ <<y, x>>[2] = x
      BY <1>1
    <2>2. ~(<<y, x>>[1] < <<y, x>>[2])
      BY <1>3, <2>1 DEF OpToRel
    <2> QED BY <1>1, <2>1, <2>2
  <1> QED BY <1>4 DEF Min

\* What a failure leaves in the history variables.
LEMMA FaultFact ==
    ASSUME TypeOK, NEW kind \in Mishaps, Fault(kind)
    PROVE  /\ mishaps' = mishaps \cup {kind}
           /\ mishaps' \in SUBSET Mishaps
           /\ faults' \in Nat
  <1>1. mishaps' = mishaps \cup {kind}
    BY DEF Fault
  <1>2. faults' \in Nat
    BY DEF Fault, TypeOK
  <1> QED BY <1>1, <1>2 DEF TypeOK

LEMMA OInvStep == OInv /\ [Next]_vars => OInv'
  <1> SUFFICES ASSUME OInv, [Next]_vars
               PROVE  OInv'
    OBVIOUS
  <1>t. TypeOK /\ LocalInv /\ WriteOrderInv /\ Lowest \in Subs \cup {NoSub}
    BY LowestFact DEF OInv
  <1> HIDE DEF Lowest
  <1>s. NoSub \notin Subs /\ Units \in [Subs -> Nat] /\ Absent \notin Nat /\ Absent \in Int
    BY OrdersAssumption DEF NoSub, Absent
  <1>f. \A kind \in {"datahub", "redis", "crash"} : Fault(kind) =>
            /\ mishaps' \in SUBSET Mishaps /\ kind \in mishaps' /\ mishaps \subseteq mishaps'
            /\ faults' \in Nat
    BY <1>t, FaultFact DEF Mishaps
  <1>n. ASSUME NEW w \in Workers, NoteOverlap(w)
        PROVE  orderUse' \in {"exclusive", "shared"}
    BY <1>t, <1>n DEF NoteOverlap, TypeOK
  <1> USE <1>t, <1>s, <1>f, <1>n
      DEF OInv, TypeOK, LocalInv, WriteOrderInv, HasSub, Points, redis, locals, history
  <1>1. ASSUME NEW w \in Workers, WorkerNext(w)
        PROVE  OInv'
    <2>1. CASE Authenticate(w)
      BY <2>1 DEF Authenticate, Goto
    <2>2. CASE PickOrder(w)
      BY <2>2 DEF PickOrder, Lowest
    <2>3. CASE PullOrders(w)
      BY <2>3 DEF PullOrders, Goto
    <2>4. CASE AddOrder(w)
      BY <2>4 DEF AddOrder, Goto
    <2>5. CASE PutCount(w)
      BY <2>5 DEF PutCount, Goto
    <2>6. CASE PutExpire(w)
      BY <2>6 DEF PutExpire, Goto
    <2>7. CASE PutLimit(w)
      BY <2>7 DEF PutLimit, Goto
    <2>8. CASE PutStatus(w)
      BY <2>8 DEF PutStatus, Goto
    <2>9. CASE SetRetrieved(w)
      BY <2>9 DEF SetRetrieved, Goto
    <2>10. CASE JumpOrder(w) \/ DeleteOrder(w)
      BY <2>10 DEF JumpOrder, DeleteOrder, Goto, WithoutLowest
    <2>11. CASE PickNewOrder(w)
      BY <2>11 DEF PickNewOrder, Goto
    <2>12. CASE GetCount(w)
      BY <2>12 DEF GetCount, Return
    <2>13. CASE GetLimit(w)
      BY <2>13, SMTT(30) DEF GetLimit, Return
    <2>14. CASE GetExpire(w)
      BY <2>14 DEF GetExpire
    <2>15. CASE GetStatus(w)
      BY <2>15, SMTT(30) DEF GetStatus, Return
    <2>16. CASE ReportUsed(w)
      BY <2>16 DEF ReportUsed, Goto
    <2>17. CASE MarkUsed(w)
      BY <2>17 DEF MarkUsed, Return
    <2>18. CASE RemoteFails(w)
      BY <2>18 DEF RemoteFails, Return
    <2>19. CASE RemoteAnswers(w)
      BY <2>19 DEF RemoteAnswers, Goto
    <2>20. CASE Charge(w)
      BY <2>20 DEF Charge, Return
    <2> QED BY <1>1, <2>1, <2>2, <2>3, <2>4, <2>5, <2>6, <2>7, <2>8, <2>9, <2>10, <2>11,
              <2>12, <2>13, <2>14, <2>15, <2>16, <2>17, <2>18, <2>19, <2>20
            DEF WorkerNext
  <1>2. ASSUME NEW s \in Subs, Buy(s) \/ Lapse(s)
        PROVE  OInv'
    BY <1>2 DEF Buy, Lapse
  <1>3. CASE Crash
    BY <1>3 DEF Crash
  <1>4. CASE UNCHANGED vars
    BY <1>4 DEF vars
  <1> QED BY <1>1, <1>2, <1>3, <1>4 DEF Next

LEMMA OInvHolds == Spec => []OInv
  BY InitOInv, OInvStep, PTL DEF Spec

\* Every variable keeps its type.
THEOREM OrdersTypeCorrect == Spec => []TypeOK
  <1>1. OInv => TypeOK
    BY DEF OInv
  <1> QED BY OInvHolds, <1>1, PTL

\* Because BdxParseBody writes order_expire before order_limit, no worker ever
\* sees a fresh order without its order_expire key.
THEOREM FreshNeverExpired == Spec => []FreshNotExpired
  <1>1. OInv => FreshNotExpired
    BY DEF OInv, WriteOrderInv, FreshNotExpired
  <1> QED BY OInvHolds, <1>1, PTL

-----------------------------------------------------------------------------
\* Sets of workers are finite, and grow or shrink by one worker at a time.
LEMMA WorkerSets ==
    ASSUME NEW S \in SUBSET Workers
    PROVE  /\ Cardinality(S) \in Nat
           /\ Cardinality(S) <= Cardinality(Workers)
           /\ \A T \in SUBSET S : Cardinality(T) \in Nat /\ Cardinality(T) <= Cardinality(S)
           /\ \A w \in S : Cardinality(S \ {w}) = Cardinality(S) - 1
           /\ \A w \in Workers \ S : Cardinality(S \cup {w}) = Cardinality(S) + 1
           /\ S = {} => Cardinality(S) = 0
  <1>1. IsFiniteSet(Workers)
    BY OrdersAssumption
  <1>2. IsFiniteSet(S) /\ Cardinality(S) <= Cardinality(Workers)
    BY <1>1, FS_Subset
  <1>3. Cardinality(S) \in Nat
    BY <1>2, FS_CardinalityType
  <1>4. \A T \in SUBSET S : Cardinality(T) \in Nat /\ Cardinality(T) <= Cardinality(S)
    BY <1>2, FS_Subset, FS_CardinalityType
  <1>5. \A w \in S : Cardinality(S \ {w}) = Cardinality(S) - 1
    BY <1>2, FS_RemoveElement
  <1>6. \A w \in Workers \ S : Cardinality(S \cup {w}) = Cardinality(S) + 1
    BY <1>2, FS_AddElement
  <1> QED BY <1>2, <1>3, <1>4, <1>5, <1>6, FS_EmptySet

LEMMA WorkersCount == Cardinality(Workers) \in Nat /\ Cardinality(Workers) >= 1
  <1>1. Cardinality(Workers) \in Nat /\ Cardinality(Workers) # 0
    BY OrdersAssumption, FS_CardinalityType, FS_EmptySet
  <1> QED BY <1>1

\* Only four steps bring a worker closer to charging, or change a count.
LEMMA QuietStep ==
    ASSUME OInv, [Next]_vars,
           \A w \in Workers : ~GetCount(w) /\ ~Charge(w) /\ ~PutCount(w) /\ ~RemoteAnswers(w),
           NEW s \in Subs
    PROVE  /\ Pending(s)' \subseteq Pending(s)
           /\ Charging(s)' \subseteq Charging(s)
           /\ count' = count
           /\ served' = served
           /\ uncounted \subseteq uncounted'
           /\ s \notin uncounted' => Charging(s)' = Charging(s)
  <1>t. /\ pc \in [Workers -> Points]
        /\ sub \in [Workers -> Subs \cup {NoSub}]
        /\ iCount \in [Workers -> Nat]
    BY DEF OInv, TypeOK
  <1> USE <1>t DEF Pending, Charging, Points, redis, locals, history
  <1>1. ASSUME NEW w \in Workers, WorkerNext(w)
        PROVE  /\ Pending(s)' \subseteq Pending(s)
               /\ Charging(s)' \subseteq Charging(s)
               /\ count' = count
               /\ served' = served
               /\ uncounted \subseteq uncounted'
               /\ s \notin uncounted' => Charging(s)' = Charging(s)
    <2>1. CASE Authenticate(w) \/ PickOrder(w) \/ PullOrders(w) \/ AddOrder(w)
      BY <2>1 DEF Authenticate, PickOrder, PullOrders, AddOrder, Goto
    <2>2. CASE PutExpire(w) \/ PutLimit(w) \/ PutStatus(w)
      BY <2>2 DEF PutExpire, PutLimit, PutStatus, Goto
    <2>3. CASE SetRetrieved(w) \/ JumpOrder(w) \/ PickNewOrder(w)
      BY <2>3 DEF SetRetrieved, JumpOrder, PickNewOrder, Goto
    <2>4. CASE GetLimit(w) \/ GetExpire(w)
      BY <2>4 DEF GetLimit, GetExpire, Return
    <2>5. CASE DeleteOrder(w) \/ GetStatus(w) \/ ReportUsed(w)
      BY <2>5 DEF DeleteOrder, GetStatus, ReportUsed, Goto, Return
    <2>6. CASE MarkUsed(w) \/ RemoteFails(w)
      BY <2>6 DEF MarkUsed, RemoteFails, Return
    <2> QED BY <1>1, <2>1, <2>2, <2>3, <2>4, <2>5, <2>6 DEF WorkerNext
  <1>2. ASSUME NEW x \in Subs, Buy(x) \/ Lapse(x)
        PROVE  /\ Pending(s)' \subseteq Pending(s)
               /\ Charging(s)' \subseteq Charging(s)
               /\ count' = count
               /\ served' = served
               /\ uncounted \subseteq uncounted'
               /\ s \notin uncounted' => Charging(s)' = Charging(s)
    BY <1>2 DEF Buy, Lapse
  <1>3. CASE Crash
    BY <1>3 DEF Crash
  <1>4. CASE UNCHANGED vars
    BY <1>4 DEF vars
  <1> QED BY <1>1, <1>2, <1>3, <1>4 DEF Next

-----------------------------------------------------------------------------
LEMMA InitCounts == Init => OvershootInv /\ ChargeInv /\ AccountInv
  <1> SUFFICES ASSUME Init, NEW s \in Subs
               PROVE  /\ count[s] + Cardinality(Pending(s)) <= Units[s] + Cardinality(Workers) - 1
                      /\ count[s] + Cardinality(Charging(s)) <= served[s]
                      /\ served[s] <= Counted(s) + Cardinality(Charging(s))
    BY DEF OvershootInv, ChargeInv, AccountInv
  <1>1. Pending(s) = {} /\ Charging(s) = {}
    BY DEF Init, Pending, Charging
  <1>2. Cardinality(Pending(s)) = 0 /\ Cardinality(Charging(s)) = 0
    BY <1>1, FS_EmptySet
  <1>3. count[s] = -1 /\ served[s] = 0 /\ Units[s] \in Nat /\ Counted(s) = 0
    BY OrdersAssumption DEF Init, Absent, Counted
  <1> QED BY <1>2, <1>3, WorkersCount

\* The counts are numbers, and a worker that may still charge an order keeps
\* the order's count from being absent.
LEMMA CountFacts ==
    ASSUME OInv, NEW s \in Subs
    PROVE  /\ count[s] \in Int /\ count[s] >= -1 /\ served[s] \in Nat /\ Units[s] \in Nat
           /\ Pending(s) \in SUBSET Workers /\ Charging(s) \in SUBSET Pending(s)
           /\ count[s] = -1 => Pending(s) = {}
  <1>1. count[s] \in Int /\ count[s] >= -1 /\ served[s] \in Nat /\ Units[s] \in Nat
    BY OrdersAssumption DEF OInv, TypeOK, Absent
  <1>2. Pending(s) \in SUBSET Workers /\ Charging(s) \in SUBSET Pending(s)
    BY DEF OInv, LocalInv, Pending, Charging
  <1>3. count[s] = -1 => Pending(s) = {}
    BY DEF OInv, LocalInv, Pending, Absent
  <1> QED BY <1>1, <1>2, <1>3

LEMMA CountStep ==
    OInv /\ OvershootInv /\ ChargeInv /\ AccountInv /\ [Next]_vars
        => OvershootInv' /\ ChargeInv' /\ AccountInv'
  <1> SUFFICES ASSUME OInv, OvershootInv, ChargeInv, AccountInv, [Next]_vars, NEW s \in Subs
               PROVE  /\ (count[s] + Cardinality(Pending(s)) <= Units[s] + Cardinality(Workers) - 1)'
                      /\ (count[s] + Cardinality(Charging(s)) <= served[s])'
                      /\ (s \notin uncounted => served[s] <= Counted(s) + Cardinality(Charging(s)))'
    BY DEF OvershootInv, ChargeInv, AccountInv
  <1> DEFINE P == Pending(s)  C == Charging(s)  W == Cardinality(Workers)
  <1>o. OInv'
    BY OInvStep
  <1>a. /\ count[s] \in Int /\ count[s] >= -1 /\ served[s] \in Nat /\ Units[s] \in Nat
        /\ P \in SUBSET Workers /\ C \in SUBSET P
        /\ count[s] = -1 => P = {}
    BY CountFacts
  <1>b. /\ count'[s] \in Int /\ count'[s] >= -1 /\ served'[s] \in Nat
        /\ P' \in SUBSET Workers /\ C' \in SUBSET P'
    <2>1. /\ count'[s] \in Int /\ count'[s] >= -1 /\ served'[s] \in Nat
      BY <1>o DEF OInv, TypeOK, Absent
    <2>2. P' \in SUBSET Workers /\ C' \in SUBSET P'
      BY <1>o DEF OInv, LocalInv, Pending, Charging
    <2> QED BY <2>1, <2>2
  <1>c. /\ count[s] + Cardinality(P) <= Units[s] + W - 1
        /\ count[s] + Cardinality(C) <= served[s]
        /\ s \notin uncounted => served[s] <= Counted(s) + Cardinality(C)
    BY DEF OvershootInv, ChargeInv, AccountInv
  <1>e. /\ Counted(s) = IF count[s] = -1 THEN 0 ELSE count[s]
        /\ Counted(s)' = IF count'[s] = -1 THEN 0 ELSE count'[s]
    BY DEF Counted, Absent
  <1>d. /\ Cardinality(P) \in Nat /\ Cardinality(C) \in Nat
        /\ Cardinality(P') \in Nat /\ Cardinality(C') \in Nat /\ Cardinality(P') <= W
        /\ P = {} => Cardinality(P) = 0
        /\ C = {} => Cardinality(C) = 0
        /\ \A T \in SUBSET P : Cardinality(T) <= Cardinality(P)
        /\ \A T \in SUBSET C : Cardinality(T) <= Cardinality(C)
        /\ \A w \in P : Cardinality(P \ {w}) = Cardinality(P) - 1
        /\ \A w \in C : Cardinality(C \ {w}) = Cardinality(C) - 1
        /\ \A w \in Workers \ C : Cardinality(C \cup {w}) = Cardinality(C) + 1
    BY <1>a, <1>b, WorkerSets
  <1>t. /\ pc \in [Workers -> Points]
        /\ sub \in [Workers -> Subs \cup {NoSub}]
        /\ iCount \in [Workers -> Nat]
        /\ count \in [Subs -> Nat \cup {Absent}]
        /\ served \in [Subs -> Nat]
        /\ LocalInv
    BY DEF OInv, TypeOK
  <1> HIDE DEF P, C, W
  <1>1. CASE \A w \in Workers : ~GetCount(w) /\ ~Charge(w) /\ ~PutCount(w) /\ ~RemoteAnswers(w)
    <2>1. /\ P' \subseteq P /\ C' \subseteq C /\ count' = count /\ served' = served
          /\ uncounted \subseteq uncounted'
          /\ s \notin uncounted' => C' = C
      BY <1>1, QuietStep DEF P, C
    <2>2. Cardinality(P') <= Cardinality(P) /\ Cardinality(C') <= Cardinality(C)
      BY <2>1, <1>d
    <2>3. (s \notin uncounted => served[s] <= Counted(s) + Cardinality(C))'
      BY <2>1, <1>c, <1>e
    <2> QED BY <2>1, <2>2, <2>3, <1>a, <1>c, <1>d, WorkersCount DEF P, C, W
  <1>2. ASSUME NEW w \in Workers, GetCount(w)
        PROVE  /\ (count[s] + Cardinality(P) <= Units[s] + W - 1)'
               /\ (count[s] + Cardinality(C) <= served[s])'
               /\ (s \notin uncounted => served[s] <= Counted(s) + Cardinality(C))'
    <2>1. count' = count /\ served' = served /\ C' = C /\ uncounted' = uncounted
      BY <1>2, <1>t DEF GetCount, Return, redis, C, Charging, Points
    <2>2. P' \subseteq P \/ count[s] < Units[s]
      BY <1>2, <1>t DEF GetCount, Return, P, Pending, Points
    <2>3. count[s] + Cardinality(P') <= Units[s] + W - 1
      <3>1. CASE P' \subseteq P
        <4>1. Cardinality(P') <= Cardinality(P)
          BY <3>1, <1>d
        <4> QED BY <4>1, <1>a, <1>c, <1>d, WorkersCount DEF W
      <3>2. CASE count[s] < Units[s]
        BY <3>2, <1>a, <1>d, WorkersCount DEF W
      <3> QED BY <2>2, <3>1, <3>2
    <2> QED BY <2>1, <2>3, <1>a, <1>c, <1>d, <1>e DEF W
  <1>3. ASSUME NEW w \in Workers, Charge(w)
        PROVE  /\ (count[s] + Cardinality(P) <= Units[s] + W - 1)'
               /\ (count[s] + Cardinality(C) <= served[s])'
               /\ (s \notin uncounted => served[s] <= Counted(s) + Cardinality(C))'
    <2>0. /\ served' = served /\ sub[w] \in Subs /\ sub[w] # NoSub /\ pc[w] = "charge"
          /\ iCount[w] < Units[sub[w]] /\ uncounted \subseteq uncounted'
      BY <1>3, <1>t, OrdersAssumption DEF Charge, LocalInv, HasSub, NoSub
    <2>1. CASE sub[w] = s
      <3>1. \/ count'[s] = count[s] + 1 /\ uncounted' = uncounted
            \/ count'[s] = count[s] /\ s \in uncounted'
        BY <1>3, <2>0, <2>1, <1>t DEF Charge
      <3>2. w \in P /\ w \in C
        BY <2>0, <2>1 DEF P, C, Pending, Charging
      <3>3. P' = P \ {w} /\ C' = C \ {w}
        BY <1>3, <2>0, <2>1, <1>t DEF Charge, Return, P, C, Pending, Charging, Points
      <3>4. Cardinality(P') = Cardinality(P) - 1 /\ Cardinality(C') = Cardinality(C) - 1
        BY <3>2, <3>3, <1>d
      <3>5. count[s] # -1
        BY <3>2, <1>a
      <3> QED BY <3>1, <3>4, <3>5, <2>0, <1>a, <1>c, <1>d, <1>e, WorkersCount DEF W
    <2>2. CASE sub[w] # s
      <3>1. count'[s] = count[s]
        BY <1>3, <2>2, <1>t DEF Charge
      <3>2. P' \subseteq P /\ C' = C
        BY <1>3, <2>2, <1>t DEF Charge, Return, P, C, Pending, Charging, Points
      <3>3. Cardinality(P') <= Cardinality(P)
        BY <3>2, <1>d
      <3> QED BY <3>1, <3>2, <3>3, <2>0, <1>a, <1>c, <1>d, <1>e, WorkersCount DEF W
    <2> QED BY <2>1, <2>2
  <1>4. ASSUME NEW w \in Workers, PutCount(w)
        PROVE  /\ (count[s] + Cardinality(P) <= Units[s] + W - 1)'
               /\ (count[s] + Cardinality(C) <= served[s])'
               /\ (s \notin uncounted => served[s] <= Counted(s) + Cardinality(C))'
    <2>1. served' = served /\ P' \subseteq P /\ C' = C /\ uncounted \subseteq uncounted'
      BY <1>4, <1>t DEF PutCount, Goto, locals, P, C, Pending, Charging, Points
    <2>2. Cardinality(P') <= Cardinality(P) /\ Cardinality(C') = Cardinality(C)
      BY <2>1, <1>d
    <2>3. \/ count'[s] = count[s]
          \/ count'[s] = 0 /\ (count[s] > 0 => s \in uncounted')
      BY <1>4, <1>t DEF PutCount
    <2>4. CASE count[s] = -1
      <3>1. Cardinality(P) = 0 /\ Cardinality(C) = 0
        BY <2>4, <1>a, <1>d
      <3> QED BY <3>1, <2>1, <2>2, <2>3, <2>4, <1>a, <1>c, <1>d, <1>e, WorkersCount DEF W
    <2>5. CASE count[s] # -1
      <3>1. count'[s] \in Int /\ count'[s] <= count[s]
        BY <2>3, <2>5, <1>a
      <3> QED BY <3>1, <2>1, <2>2, <2>3, <2>5, <1>a, <1>c, <1>d, <1>e, WorkersCount DEF W
    <2> QED BY <2>4, <2>5
  <1>5. ASSUME NEW w \in Workers, RemoteAnswers(w)
        PROVE  /\ (count[s] + Cardinality(P) <= Units[s] + W - 1)'
               /\ (count[s] + Cardinality(C) <= served[s])'
               /\ (s \notin uncounted => served[s] <= Counted(s) + Cardinality(C))'
    <2>1. count' = count /\ uncounted' = uncounted /\ P' \subseteq P
      BY <1>5, <1>t DEF RemoteAnswers, Goto, redis, locals, P, Pending, Points
    <2>2. Cardinality(P') <= Cardinality(P)
      BY <2>1, <1>d
    <2>3. CASE sub[w] = s
      <3>1. served'[s] = served[s] + 1
        BY <1>5, <2>3, <1>t DEF RemoteAnswers
      <3>2. w \notin C /\ C' = C \cup {w}
        BY <1>5, <2>3, <1>t DEF RemoteAnswers, Goto, locals, C, Charging, Points
      <3>3. Cardinality(C') = Cardinality(C) + 1
        BY <3>2, <1>d
      <3> QED BY <3>1, <3>3, <2>1, <2>2, <1>a, <1>c, <1>d, <1>e, WorkersCount DEF W
    <2>4. CASE sub[w] # s
      <3>1. served'[s] = served[s] /\ C' = C
        BY <1>5, <2>4, <1>t DEF RemoteAnswers, Goto, locals, C, Charging, Points
      <3> QED BY <3>1, <2>1, <2>2, <1>a, <1>c, <1>d, <1>e, WorkersCount DEF W
    <2> QED BY <2>3, <2>4
  <1> QED BY <1>1, <1>2, <1>3, <1>4, <1>5 DEF P, C, W

LEMMA CountsHold == Spec => [](OInv /\ OvershootInv /\ ChargeInv /\ AccountInv)
  <1>1. Init => OInv /\ OvershootInv /\ ChargeInv /\ AccountInv
    BY InitOInv, InitCounts
  <1>2. OInv /\ OvershootInv /\ ChargeInv /\ AccountInv /\ [Next]_vars
            => (OInv /\ OvershootInv /\ ChargeInv /\ AccountInv)'
    BY OInvStep, CountStep
  <1> QED BY <1>1, <1>2, PTL DEF Spec

\* However the workers interleave between UserGet and UserIncr of order_count,
\* an order is charged at most one query per other worker beyond its quota.
THEOREM OvershootAlwaysBounded == Spec => []OvershootBounded
  <1>1. OInv /\ OvershootInv => OvershootBounded
    <2> SUFFICES ASSUME OInv, OvershootInv, NEW s \in Subs
                 PROVE  count[s] <= Units[s] + Cardinality(Workers) - 1
      BY DEF OvershootBounded
    <2>1. Cardinality(Pending(s)) \in Nat
      BY CountFacts, WorkerSets
    <2> QED BY <2>1, CountFacts, WorkersCount DEF OvershootInv
  <1> QED BY CountsHold, <1>1, PTL

\* order_count never exceeds the queries the remote service answered.
THEOREM NeverOverchargedAlways == Spec => []NeverOvercharged
  <1>1. OInv /\ ChargeInv => NeverOvercharged
    <2> SUFFICES ASSUME OInv, ChargeInv, NEW s \in Subs
                 PROVE  count[s] <= served[s]
      BY DEF NeverOvercharged
    <2>1. Cardinality(Charging(s)) \in Nat
      BY CountFacts, WorkerSets
    <2> QED BY <2>1, CountFacts DEF ChargeInv
  <1> QED BY CountsHold, <1>1, PTL

\* Without a lost charge, an order answers at most one query per other worker
\* beyond its quota.
THEOREM ServedAlwaysBounded == Spec => []ServedBounded
  <1>1. OInv /\ OvershootInv /\ AccountInv => ServedBounded
    <2> SUFFICES ASSUME OInv, OvershootInv, AccountInv, NEW s \in Subs, s \notin uncounted
                 PROVE  served[s] <= Units[s] + Cardinality(Workers) - 1
      BY DEF ServedBounded
    <2>1. /\ Cardinality(Charging(s)) \in Nat /\ Cardinality(Pending(s)) \in Nat
          /\ Cardinality(Charging(s)) <= Cardinality(Pending(s))
          /\ Pending(s) = {} => Cardinality(Pending(s)) = 0
      BY CountFacts, WorkerSets
    <2>2. Counted(s) = IF count[s] = -1 THEN 0 ELSE count[s]
      BY DEF Counted, Absent
    <2> QED BY <2>1, <2>2, CountFacts, WorkersCount DEF OvershootInv, AccountInv
  <1> QED BY CountsHold, <1>1, PTL

-----------------------------------------------------------------------------
\* Worker w is storing order s and has not come further than one of the points.
Storing(w, s, points) == pc[w] \in points /\ sub[w] = s

\* What order s lacks, some worker is about to write.
HasKeys(s) ==
    /\ count[s] # Absent \/ \E w \in Workers : Storing(w, s, {"count"})
    /\ limit[s] # Absent \/ \E w \in Workers : Storing(w, s, {"count", "expire", "limit"})
    /\ \/ status[s] # "unset"
       \/ \E w \in Workers : Storing(w, s, {"count", "expire", "limit", "status"})

KeysInv == mishaps \subseteq {"datahub"} => \A s \in zset : HasKeys(s)

LEMMA KeysStep == OInv /\ KeysInv /\ [Next]_vars => KeysInv'
  <1> SUFFICES ASSUME OInv, KeysInv, [Next]_vars, (mishaps \subseteq {"datahub"})', NEW s \in zset'
               PROVE  HasKeys(s)'
    BY DEF KeysInv
  <1>t. /\ pc \in [Workers -> Points]
        /\ sub \in [Workers -> Subs \cup {NoSub}]
        /\ count \in [Subs -> Nat \cup {Absent}]
        /\ limit \in [Subs -> Nat \cup {Absent}]
        /\ status \in [Subs -> {"unset", "0", "1"}]
        /\ zset \in SUBSET Subs
        /\ LocalInv
    BY DEF OInv, TypeOK
  <1>u. Absent \notin Nat /\ Units \in [Subs -> Nat]
    BY OrdersAssumption DEF Absent
  <1>f. ~Fault("redis") /\ ~Fault("crash")
    BY DEF Fault
  <1>g. Fault("datahub") => mishaps \subseteq mishaps'
    BY DEF Fault
  <1>h. ASSUME mishaps \subseteq mishaps', s \in zset
        PROVE  HasKeys(s)
    BY <1>h DEF KeysInv
  <1> USE <1>t, <1>u, <1>f, <1>g, <1>h
      DEF LocalInv, HasSub, HasKeys, Storing, Points, redis, locals, history
  <1>1. ASSUME NEW w \in Workers, WorkerNext(w)
        PROVE  HasKeys(s)'
    <2>1. CASE Authenticate(w) \/ PickOrder(w) \/ PullOrders(w)
      BY <2>1 DEF Authenticate, PickOrder, PullOrders, Goto
    <2>2. CASE AddOrder(w)
      BY <2>2 DEF AddOrder, Goto
    <2>3. CASE PutCount(w)
      BY <2>3 DEF PutCount, Goto
    <2>4. CASE PutExpire(w)
      BY <2>4 DEF PutExpire, Goto
    <2>5. CASE PutLimit(w)
      BY <2>5 DEF PutLimit, Goto
    <2>6. CASE PutStatus(w)
      BY <2>6 DEF PutStatus, Goto
    <2>7. CASE SetRetrieved(w) \/ PickNewOrder(w)
      BY <2>7 DEF SetRetrieved, PickNewOrder, Goto
    <2>8. CASE JumpOrder(w) \/ DeleteOrder(w)
      BY <2>8 DEF JumpOrder, DeleteOrder, WithoutLowest, Goto
    <2>9. CASE GetCount(w) \/ GetLimit(w) \/ GetExpire(w) \/ GetStatus(w)
      BY <2>9 DEF GetCount, GetLimit, GetExpire, GetStatus, Return
    <2>10. CASE ReportUsed(w) \/ MarkUsed(w)
      BY <2>10 DEF ReportUsed, MarkUsed, Goto, Return
    <2>11. CASE RemoteFails(w) \/ RemoteAnswers(w) \/ Charge(w)
      BY <2>11 DEF RemoteFails, RemoteAnswers, Charge, Goto, Return
    <2> QED BY <1>1, <2>1, <2>2, <2>3, <2>4, <2>5, <2>6, <2>7, <2>8, <2>9, <2>10, <2>11
            DEF WorkerNext
  <1>2. ASSUME NEW x \in Subs, Buy(x) \/ Lapse(x)
        PROVE  HasKeys(s)'
    BY <1>2 DEF Buy, Lapse
  <1>3. CASE UNCHANGED vars
    BY <1>3 DEF vars
  <1> QED BY <1>1, <1>2, <1>3 DEF Next, Crash

\* No order without its keys stands in the way between two requests, unless a
\* Redis command has failed or the process has ended while storing it.
THEOREM KeysAlwaysComplete == Spec => []KeysComplete
  <1>1. Init => KeysInv
    BY DEF Init, KeysInv
  <1>2. Spec => [](OInv /\ KeysInv)
    <2>1. Init => OInv /\ KeysInv
      BY InitOInv, <1>1
    <2>2. OInv /\ KeysInv /\ [Next]_vars => (OInv /\ KeysInv)'
      BY OInvStep, KeysStep
    <2> QED BY <2>1, <2>2, PTL DEF Spec
  <1>3. OInv /\ KeysInv => KeysComplete
    BY DEF KeysInv, HasKeys, Storing, KeysComplete, AtRest
  <1> QED BY <1>2, <1>3, PTL

-----------------------------------------------------------------------------
\* The workers between the pull of the orders and the end of the loop that stores them.
Pulled(w) == pc[w] \in {"next", "count", "expire", "limit", "status", "retrieve", "jump"}

\* One worker stores orders at a time, and the orders it has to store are not yet
\* taken for delivered; the one it is storing stays in the sorted set.
StoreInv ==
    /\ \A v, w \in Workers : Pulled(v) /\ Pulled(w) => v = w
    /\ \A w \in Workers :
          /\ pc[w] # "jump"
          /\ todo[w] # {} => Pulled(w)
          /\ \A s \in todo[w] : hub[s] \in {"paid", "used"}
          /\ pc[w] \in {"count", "expire", "limit", "status", "retrieve"} =>
                hub[sub[w]] \in {"paid", "used"} /\ sub[w] \in zset /\ sub[w] \notin todo[w]

\* The order a worker has chosen stays the lowest until it is removed, and it is
\* removed only once it is used up or has expired.
ChoiceInv ==
    \A w \in Workers :
        /\ pc[w] \in {"getCount", "getLimit", "getExpire", "remove"} => sub[w] = Lowest
        /\ pc[w] = "getLimit" => iCount[w] <= count[sub[w]]
        /\ pc[w] = "remove" => count[sub[w]] >= Units[sub[w]] \/ expire[sub[w]] # "live"

Selectable ==
    \A s \in Subs : hub[s] = "retrieved" /\ count[s] < Units[s] /\ expire[s] = "live" => s \in zset

OrderlyRun == mishaps \subseteq {"crash"} /\ orderUse = "exclusive"

LostInv == OrderlyRun => StoreInv /\ ChoiceInv /\ Selectable

\* A delivered order has order_status "0" until the DataHub has been told that it is
\* used up, and a worker that has removed one is about to tell it.
Told ==
    /\ \A w \in Workers :
          /\ pc[w] = "retrieve" => status[sub[w]] = "0" \/ hub[sub[w]] = "used"
          /\ pc[w] = "mark" => hub[sub[w]] = "used"
    /\ \A s \in Subs : hub[s] = "retrieved" =>
          /\ status[s] = "0"
          /\ s \in zset \/ \E w \in Workers : pc[w] \in {"getStatus", "report"} /\ sub[w] = s

TellInv == mishaps = {} /\ orderUse = "exclusive" => Told

-----------------------------------------------------------------------------
\* What has failed, and that workers have met, is never forgotten.
LEMMA HistoryGrows ==
    ASSUME [Next]_vars
    PROVE  /\ mishaps \subseteq mishaps'
           /\ orderUse' = "exclusive" => orderUse = "exclusive"
  <1>f. \A kind : Fault(kind) => mishaps \subseteq mishaps'
    BY DEF Fault
  <1>n. ASSUME NEW w \in Workers, NoteOverlap(w), orderUse' = "exclusive"
        PROVE  orderUse = "exclusive"
    BY <1>n DEF NoteOverlap
  <1> USE <1>f, <1>n DEF history
  <1>1. ASSUME NEW w \in Workers, WorkerNext(w)
        PROVE  /\ mishaps \subseteq mishaps'
               /\ orderUse' = "exclusive" => orderUse = "exclusive"
    <2>1. CASE Authenticate(w) \/ PickOrder(w) \/ PullOrders(w) \/ AddOrder(w) \/ PutCount(w)
      BY <2>1 DEF Authenticate, PickOrder, PullOrders, AddOrder, PutCount
    <2>2. CASE PutExpire(w) \/ PutLimit(w) \/ PutStatus(w) \/ SetRetrieved(w)
      BY <2>2 DEF PutExpire, PutLimit, PutStatus, SetRetrieved
    <2>3. CASE JumpOrder(w) \/ PickNewOrder(w) \/ GetCount(w) \/ GetLimit(w) \/ GetExpire(w)
      BY <2>3 DEF JumpOrder, PickNewOrder, GetCount, GetLimit, GetExpire
    <2>4. CASE DeleteOrder(w) \/ GetStatus(w) \/ ReportUsed(w) \/ MarkUsed(w)
      BY <2>4 DEF DeleteOrder, GetStatus, ReportUsed, MarkUsed
    <2>5. CASE RemoteFails(w) \/ RemoteAnswers(w) \/ Charge(w)
      BY <2>5 DEF RemoteFails, RemoteAnswers, Charge
    <2> QED BY <1>1, <2>1, <2>2, <2>3, <2>4, <2>5 DEF WorkerNext
  <1>2. ASSUME NEW x \in Subs, Buy(x) \/ Lapse(x)
        PROVE  /\ mishaps \subseteq mishaps'
               /\ orderUse' = "exclusive" => orderUse = "exclusive"
    BY <1>2 DEF Buy, Lapse
  <1>3. CASE Crash
    BY <1>3 DEF Crash
  <1>4. CASE UNCHANGED vars
    BY <1>4 DEF vars
  <1> QED BY <1>1, <1>2, <1>3, <1>4 DEF Next

\* In an orderly run no command and no call fails, and a worker that pulls, stores
\* or removes an order is the only one that is using an order.
LEMMA OrderlyStep ==
    ASSUME OrderlyRun'
    PROVE  /\ ~Fault("redis") /\ ~Fault("datahub")
           /\ \A w \in Workers : NoteOverlap(w) =>
                 \A v \in Workers : v # w => pc[v] \in {"idle", "pick"}
  <1>1. ~Fault("redis") /\ ~Fault("datahub")
    BY DEF OrderlyRun, Fault
  <1>2. ASSUME NEW w \in Workers, NoteOverlap(w), NEW v \in Workers, v # w
        PROVE  pc[v] \in {"idle", "pick"}
    BY <1>2 DEF OrderlyRun, NoteOverlap, OthersBusy
  <1> QED BY <1>1, <1>2

\* The steps of an orderly run keep the orders that are being stored apart.
LEMMA StoreStep ==
    ASSUME OInv, StoreInv, OrderlyRun', [Next]_vars
    PROVE  StoreInv'
  <1>t. /\ pc \in [Workers -> Points]
        /\ sub \in [Workers -> Subs \cup {NoSub}]
        /\ todo \in [Workers -> SUBSET Subs]
        /\ hub \in [Subs -> {"none", "paid", "retrieved", "used"}]
        /\ \A v \in Workers : pc[v] \in HasSub => sub[v] \in Subs
        /\ NoSub \notin Subs
    BY OrdersAssumption DEF OInv, TypeOK, LocalInv, NoSub
  <1>f. /\ ~Fault("redis") /\ ~Fault("datahub")
        /\ \A w \in Workers : NoteOverlap(w) =>
              \A v \in Workers : v # w => pc[v] \in {"idle", "pick"}
    BY OrderlyStep
  <1> USE <1>t, <1>f DEF StoreInv, Pulled, HasSub, Points, redis, locals
  <1> HIDE DEF Lowest
  <1>1. ASSUME NEW w \in Workers, WorkerNext(w)
        PROVE  StoreInv'
    <2>1. CASE Authenticate(w)
      BY <2>1 DEF Authenticate, Goto
    <2>2. CASE PickOrder(w)
      BY <2>2 DEF PickOrder
    <2>3. CASE PullOrders(w)
      BY <2>3 DEF PullOrders, Goto
    <2>4. CASE AddOrder(w)
      BY <2>4 DEF AddOrder, Goto
    <2>5. CASE PutCount(w)
      BY <2>5 DEF PutCount, Goto
    <2>6. CASE PutExpire(w)
      BY <2>6 DEF PutExpire, Goto
    <2>7. CASE PutLimit(w)
      BY <2>7 DEF PutLimit, Goto
    <2>8. CASE PutStatus(w)
      BY <2>8 DEF PutStatus, Goto
    <2>9. CASE SetRetrieved(w)
      BY <2>9 DEF SetRetrieved, Goto
    <2>10. CASE JumpOrder(w) \/ PickNewOrder(w)
      BY <2>10 DEF JumpOrder, PickNewOrder, Goto
    <2>11. CASE GetCount(w)
      BY <2>11 DEF GetCount, Return
    <2>12. CASE GetLimit(w)
      BY <2>12 DEF GetLimit, Return
    <2>13. CASE GetExpire(w)
      BY <2>13 DEF GetExpire
    <2>14. CASE DeleteOrder(w)
      BY <2>14 DEF DeleteOrder, Goto, WithoutLowest
    <2>15. CASE GetStatus(w)
      BY <2>15 DEF GetStatus, Return
    <2>16. CASE ReportUsed(w)
      BY <2>16 DEF ReportUsed, Goto
    <2>17. CASE MarkUsed(w)
      BY <2>17 DEF MarkUsed, Return
    <2>18. CASE RemoteFails(w)
      BY <2>18 DEF RemoteFails, Return
    <2>19. CASE RemoteAnswers(w)
      BY <2>19 DEF RemoteAnswers, Goto
    <2>20. CASE Charge(w)
      BY <2>20 DEF Charge, Return
    <2> QED BY <1>1, <2>1, <2>2, <2>3, <2>4, <2>5, <2>6, <2>7, <2>8, <2>9, <2>10, <2>11,
              <2>12, <2>13, <2>14, <2>15, <2>16, <2>17, <2>18, <2>19, <2>20
            DEF WorkerNext
  <1>2. ASSUME NEW x \in Subs, Buy(x) \/ Lapse(x)
        PROVE  StoreInv'
    BY <1>2 DEF Buy, Lapse
  <1>3. CASE Crash
    BY <1>3 DEF Crash
  <1>4. CASE UNCHANGED vars
    BY <1>4 DEF vars
  <1> QED BY <1>1, <1>2, <1>3, <1>4 DEF Next

\* The lowest order changes only with the sorted set.
LEMMA LowestStays == zset' = zset => Lowest' = Lowest
  BY DEF Lowest, Min

\* The steps of an orderly run leave a worker's choice the lowest order, and what the
\* worker has found out about it true.
LEMMA ChoiceStep ==
    ASSUME OInv, StoreInv, ChoiceInv, OrderlyRun', [Next]_vars
    PROVE  ChoiceInv'
  <1>t. /\ pc \in [Workers -> Points]
        /\ sub \in [Workers -> Subs \cup {NoSub}]
        /\ iCount \in [Workers -> Nat]
        /\ count \in [Subs -> Nat \cup {Absent}]
        /\ limit \in [Subs -> Nat \cup {Absent}]
        /\ \A s \in Subs : limit[s] \in {Absent, Units[s]}
        /\ expire \in [Subs -> {"unset", "live", "lapsed"}]
        /\ \A v \in Workers : pc[v] \in HasSub => sub[v] \in Subs
        /\ \A v \in Workers : pc[v] \in {"getLimit", "getExpire", "remote", "charge"} =>
              count[sub[v]] # Absent
        /\ \A v \in Workers : pc[v] # "jump"
    BY DEF OInv, TypeOK, LocalInv, StoreInv
  <1>u. NoSub \notin Subs /\ Units \in [Subs -> Nat] /\ Absent \notin Nat /\ Absent \in Int
    BY OrdersAssumption DEF NoSub, Absent
  <1>f. /\ ~Fault("redis") /\ ~Fault("datahub")
        /\ \A w \in Workers : NoteOverlap(w) =>
              \A v \in Workers : v # w => pc[v] \in {"idle", "pick"}
    BY OrderlyStep
  <1> USE <1>t, <1>u, <1>f, LowestStays DEF ChoiceInv, HasSub, Points, redis, locals
  <1> HIDE DEF Lowest
  <1>1. ASSUME NEW w \in Workers, WorkerNext(w)
        PROVE  ChoiceInv'
    <2>1. CASE Authenticate(w)
      BY <2>1 DEF Authenticate, Goto
    <2>2. CASE PickOrder(w)
      BY <2>2 DEF PickOrder
    <2>3. CASE PullOrders(w)
      BY <2>3 DEF PullOrders, Goto
    <2>4. CASE AddOrder(w)
      BY <2>4 DEF AddOrder, Goto
    <2>5. CASE PutCount(w)
      BY <2>5 DEF PutCount, Goto
    <2>6. CASE PutExpire(w)
      BY <2>6 DEF PutExpire, Goto
    <2>7. CASE PutLimit(w)
      BY <2>7 DEF PutLimit, Goto
    <2>8. CASE PutStatus(w)
      BY <2>8 DEF PutStatus, Goto
    <2>9. CASE SetRetrieved(w)
      BY <2>9 DEF SetRetrieved, Goto
    <2>10. CASE JumpOrder(w) \/ PickNewOrder(w)
      BY <2>10 DEF JumpOrder, PickNewOrder, Goto
    <2>11. CASE GetCount(w)
      BY <2>11 DEF GetCount, Return
    <2>12. CASE GetLimit(w)
      BY <2>12 DEF GetLimit, Return
    <2>13. CASE GetExpire(w)
      BY <2>13 DEF GetExpire
    <2>14. CASE DeleteOrder(w)
      BY <2>14 DEF DeleteOrder, Goto, WithoutLowest
    <2>15. CASE GetStatus(w)
      BY <2>15 DEF GetStatus, Return
    <2>16. CASE ReportUsed(w)
      BY <2>16 DEF ReportUsed, Goto
    <2>17. CASE MarkUsed(w)
      BY <2>17 DEF MarkUsed, Return
    <2>18. CASE RemoteFails(w)
      BY <2>18 DEF RemoteFails, Return
    <2>19. CASE RemoteAnswers(w)
      BY <2>19 DEF RemoteAnswers, Goto
    <2>20. CASE Charge(w)
      BY <2>20 DEF Charge, Return
    <2> QED BY <1>1, <2>1, <2>2, <2>3, <2>4, <2>5, <2>6, <2>7, <2>8, <2>9, <2>10, <2>11,
              <2>12, <2>13, <2>14, <2>15, <2>16, <2>17, <2>18, <2>19, <2>20
            DEF WorkerNext
  <1>2. ASSUME NEW x \in Subs, Buy(x) \/ Lapse(x)
        PROVE  ChoiceInv'
    BY <1>2 DEF Buy, Lapse
  <1>3. CASE Crash
    BY <1>3 DEF Crash
  <1>4. CASE UNCHANGED vars
    BY <1>4 DEF vars
  <1> QED BY <1>1, <1>2, <1>3, <1>4 DEF Next

\* No step of an orderly run takes an order out of the sorted set that can still be used.
LEMMA SelectableStep ==
    ASSUME OInv, StoreInv, ChoiceInv, Selectable, OrderlyRun', [Next]_vars
    PROVE  Selectable'
  <1>t. /\ pc \in [Workers -> Points]
        /\ sub \in [Workers -> Subs \cup {NoSub}]
        /\ count \in [Subs -> Nat \cup {Absent}]
        /\ hub \in [Subs -> {"none", "paid", "retrieved", "used"}]
        /\ expire \in [Subs -> {"unset", "live", "lapsed"}]
        /\ \A v \in Workers : pc[v] \in HasSub => sub[v] \in Subs
        /\ \A v \in Workers : pc[v] \in {"getLimit", "getExpire", "remote", "charge"} =>
              count[sub[v]] # Absent
    BY DEF OInv, TypeOK, LocalInv
  <1>s. \A v \in Workers :
            /\ pc[v] # "jump"
            /\ pc[v] \in {"count", "expire", "retrieve"} =>
                  hub[sub[v]] \in {"paid", "used"} /\ sub[v] \in zset
            /\ pc[v] = "remove" => sub[v] = Lowest
            /\ pc[v] = "remove" => count[sub[v]] >= Units[sub[v]] \/ expire[sub[v]] # "live"
    BY DEF StoreInv, ChoiceInv
  <1>u. NoSub \notin Subs /\ Units \in [Subs -> Nat] /\ Absent = -1
    BY OrdersAssumption DEF NoSub, Absent
  <1>f. /\ ~Fault("redis") /\ ~Fault("datahub")
        /\ \A w \in Workers : NoteOverlap(w) =>
              \A v \in Workers : v # w => pc[v] \in {"idle", "pick"}
    BY OrderlyStep
  <1> USE <1>t, <1>u, <1>s, <1>f DEF Selectable, HasSub, Points, redis, locals
  <1> HIDE DEF Lowest
  <1>1. ASSUME NEW w \in Workers, WorkerNext(w)
        PROVE  Selectable'
    <2>1. CASE Authenticate(w)
      BY <2>1 DEF Authenticate, Goto
    <2>2. CASE PickOrder(w)
      BY <2>2 DEF PickOrder
    <2>3. CASE PullOrders(w)
      BY <2>3 DEF PullOrders, Goto
    <2>4. CASE AddOrder(w)
      BY <2>4 DEF AddOrder, Goto
    <2>5. CASE PutCount(w)
      BY <2>5 DEF PutCount, Goto
    <2>6. CASE PutExpire(w)
      BY <2>6 DEF PutExpire, Goto
    <2>7. CASE PutLimit(w)
      BY <2>7 DEF PutLimit, Goto
    <2>8. CASE PutStatus(w)
      BY <2>8 DEF PutStatus, Goto
    <2>9. CASE SetRetrieved(w)
      BY <2>9 DEF SetRetrieved, Goto
    <2>10. CASE JumpOrder(w) \/ PickNewOrder(w)
      BY <2>10 DEF JumpOrder, PickNewOrder, Goto
    <2>11. CASE GetCount(w)
      BY <2>11 DEF GetCount, Return
    <2>12. CASE GetLimit(w)
      BY <2>12 DEF GetLimit, Return
    <2>13. CASE GetExpire(w)
      BY <2>13 DEF GetExpire
    <2>14. CASE DeleteOrder(w)
      BY <2>14 DEF DeleteOrder, Goto, WithoutLowest
    <2>15. CASE GetStatus(w)
      BY <2>15 DEF GetStatus, Return
    <2>16. CASE ReportUsed(w)
      BY <2>16 DEF ReportUsed, Goto
    <2>17. CASE MarkUsed(w)
      BY <2>17 DEF MarkUsed, Return
    <2>18. CASE RemoteFails(w)
      BY <2>18 DEF RemoteFails, Return
    <2>19. CASE RemoteAnswers(w)
      BY <2>19 DEF RemoteAnswers, Goto
    <2>20. CASE Charge(w)
      BY <2>20 DEF Charge, Return
    <2> QED BY <1>1, <2>1, <2>2, <2>3, <2>4, <2>5, <2>6, <2>7, <2>8, <2>9, <2>10, <2>11,
              <2>12, <2>13, <2>14, <2>15, <2>16, <2>17, <2>18, <2>19, <2>20
            DEF WorkerNext
  <1>2. ASSUME NEW x \in Subs, Buy(x) \/ Lapse(x)
        PROVE  Selectable'
    BY <1>2 DEF Buy, Lapse
  <1>3. CASE Crash
    BY <1>3 DEF Crash
  <1>4. CASE UNCHANGED vars
    BY <1>4 DEF vars
  <1> QED BY <1>1, <1>2, <1>3, <1>4 DEF Next

LEMMA LostStep == OInv /\ LostInv /\ [Next]_vars => LostInv'
  <1> SUFFICES ASSUME OInv, LostInv, [Next]_vars, OrderlyRun'
               PROVE  (StoreInv /\ ChoiceInv /\ Selectable)'
    BY DEF LostInv
  <1>1. OrderlyRun
    BY HistoryGrows DEF OrderlyRun
  <1>2. StoreInv /\ ChoiceInv /\ Selectable
    BY <1>1 DEF LostInv
  <1> QED BY <1>2, StoreStep, ChoiceStep, SelectableStep

LEMMA InitLost == Init => OInv /\ LostInv
  BY InitOInv DEF Init, LostInv, StoreInv, Pulled, ChoiceInv, Selectable

LEMMA LostInvHolds == Spec => [](OInv /\ LostInv)
  <1>1. OInv /\ LostInv /\ [Next]_vars => (OInv /\ LostInv)'
    BY OInvStep, LostStep
  <1> QED BY InitLost, <1>1, PTL DEF Spec

\* Unless a Redis command or a call to the DataHub fails, or two workers get in each
\* other's way, no order set_retrieved has taken delivery of drops out of the sorted set
\* before it is used up or has expired: also when the process ends between two commands.
THEOREM NoOrderEverLost == Spec => []NoOrderLost
  <1>1. LostInv => NoOrderLost
    BY DEF LostInv, OrderlyRun, Selectable, NoOrderLost
  <1> QED BY LostInvHolds, <1>1, PTL

\* The order that is removed from the sorted set is the one the worker has just dealt
\* with, unless a command or call has failed or two workers got in each other's way.
RemovesOwnOrder ==
    OrderlyRun' => \A w \in Workers :
        pc[w] \in {"remove", "jump"} /\ pc'[w] # pc[w] => zset \ {sub[w]} \subseteq zset'

\* UserRemoveSortedSet names a rank and no order; "delete order" still removes the
\* order that was found used up in every run without a failure or an overlap, so these
\* two are all that lead to the removal of another worker's order.
THEOREM OwnOrderAlwaysRemoved == Spec => [][RemovesOwnOrder]_vars
  <1>1. OInv /\ LostInv /\ [Next]_vars => [RemovesOwnOrder]_vars
    <2> SUFFICES ASSUME OInv, LostInv, Next, OrderlyRun', NEW w \in Workers,
                        pc[w] \in {"remove", "jump"}, pc'[w] # pc[w]
                 PROVE  zset \ {sub[w]} \subseteq zset'
      BY DEF RemovesOwnOrder
    <2>1. OrderlyRun
      BY HistoryGrows DEF OrderlyRun
    <2>2. pc[w] = "remove" /\ sub[w] = Lowest
      BY <2>1 DEF LostInv, StoreInv, ChoiceInv
    <2>3. pc \in [Workers -> Points]
      BY DEF OInv, TypeOK
    <2> HIDE DEF Lowest
    <2>4. ASSUME NEW v \in Workers, WorkerNext(v)
          PROVE  v = w
      <3>1. \E p : pc' = [pc EXCEPT ![v] = p]
        BY <2>4
        DEF WorkerNext, Authenticate, PickOrder, PullOrders, AddOrder, PutCount, PutExpire,
            PutLimit, PutStatus, SetRetrieved, JumpOrder, PickNewOrder, GetCount, GetLimit,
            GetExpire, DeleteOrder, GetStatus, ReportUsed, MarkUsed, RemoteFails,
            RemoteAnswers, Charge, Goto, Return
      <3> QED BY <3>1, <2>3
    <2>5. ASSUME WorkerNext(w)
          PROVE  zset \ {sub[w]} \subseteq zset'
      <3>1. DeleteOrder(w)
        BY <2>2, <2>5
        DEF WorkerNext, Authenticate, PickOrder, PullOrders, AddOrder, PutCount, PutExpire,
            PutLimit, PutStatus, SetRetrieved, JumpOrder, PickNewOrder, GetCount, GetLimit,
            GetExpire, GetStatus, ReportUsed, MarkUsed, RemoteFails, RemoteAnswers, Charge, Goto
      <3> QED BY <2>2, <3>1 DEF DeleteOrder, WithoutLowest
    <2>6. ASSUME Crash \/ \E s \in Subs : Buy(s) \/ Lapse(s)
          PROVE  zset' = zset
      BY <2>6 DEF Crash, Buy, Lapse, redis
    <2> QED BY <2>4, <2>5, <2>6 DEF Next
  <1> QED BY LostInvHolds, <1>1, PTL DEF Spec

-----------------------------------------------------------------------------
\* Every step of a run without a failure keeps the DataHub informed.
LEMMA TellStep == OInv /\ LostInv /\ TellInv /\ [Next]_vars => TellInv'
  <1> SUFFICES ASSUME OInv, LostInv, TellInv, [Next]_vars, mishaps' = {}, orderUse' = "exclusive"
               PROVE  Told'
    BY DEF TellInv
  <1>o. OrderlyRun' /\ OrderlyRun /\ mishaps = {}
    BY HistoryGrows DEF OrderlyRun
  <1>i. Told
    BY <1>o DEF OrderlyRun, TellInv
  <1>t. /\ pc \in [Workers -> Points]
        /\ sub \in [Workers -> Subs \cup {NoSub}]
        /\ status \in [Subs -> {"unset", "0", "1"}]
        /\ hub \in [Subs -> {"none", "paid", "retrieved", "used"}]
        /\ \A v \in Workers : pc[v] \in HasSub => sub[v] \in Subs
        /\ NoSub \notin Subs
    BY OrdersAssumption DEF OInv, TypeOK, LocalInv, NoSub
  <1>s. \A v \in Workers :
            /\ pc[v] # "jump"
            /\ pc[v] = "retrieve" => sub[v] \in zset
            /\ pc[v] = "remove" => sub[v] = Lowest
    BY <1>o DEF LostInv, StoreInv, ChoiceInv
  <1>f. ~Fault("redis") /\ ~Fault("datahub") /\ ~Fault("crash")
    BY DEF Fault
  <1> USE <1>i, <1>t, <1>s, <1>f DEF Told, HasSub, Points, redis, locals
  <1> HIDE DEF Lowest
  <1>1. ASSUME NEW w \in Workers, WorkerNext(w)
        PROVE  Told'
    <2>1. CASE Authenticate(w)
      BY <2>1 DEF Authenticate, Goto
    <2>2. CASE PickOrder(w)
      BY <2>2 DEF PickOrder
    <2>3. CASE PullOrders(w)
      BY <2>3 DEF PullOrders, Goto
    <2>4. CASE AddOrder(w)
      BY <2>4 DEF AddOrder, Goto
    <2>5. CASE PutCount(w)
      BY <2>5 DEF PutCount, Goto
    <2>6. CASE PutExpire(w)
      BY <2>6 DEF PutExpire, Goto
    <2>7. CASE PutLimit(w)
      BY <2>7 DEF PutLimit, Goto
    <2>8. CASE PutStatus(w)
      BY <2>8 DEF PutStatus, Goto
    <2>9. CASE SetRetrieved(w)
      BY <2>9 DEF SetRetrieved, Goto
    <2>10. CASE JumpOrder(w) \/ PickNewOrder(w)
      BY <2>10 DEF JumpOrder, PickNewOrder, Goto
    <2>11. CASE GetCount(w)
      BY <2>11 DEF GetCount, Return
    <2>12. CASE GetLimit(w)
      BY <2>12 DEF GetLimit, Return
    <2>13. CASE GetExpire(w)
      BY <2>13 DEF GetExpire
    <2>14. CASE DeleteOrder(w)
      BY <2>14 DEF DeleteOrder, Goto, WithoutLowest
    <2>15. CASE GetStatus(w)
      BY <2>15 DEF GetStatus, Return
    <2>16. CASE ReportUsed(w)
      BY <2>16 DEF ReportUsed, Goto
    <2>17. CASE MarkUsed(w)
      BY <2>17 DEF MarkUsed, Return
    <2>18. CASE RemoteFails(w)
      BY <2>18 DEF RemoteFails, Return
    <2>19. CASE RemoteAnswers(w)
      BY <2>19 DEF RemoteAnswers, Goto
    <2>20. CASE Charge(w)
      BY <2>20 DEF Charge, Return
    <2> QED BY <1>1, <2>1, <2>2, <2>3, <2>4, <2>5, <2>6, <2>7, <2>8, <2>9, <2>10, <2>11,
              <2>12, <2>13, <2>14, <2>15, <2>16, <2>17, <2>18, <2>19, <2>20
            DEF WorkerNext
  <1>2. ASSUME NEW x \in Subs, Buy(x) \/ Lapse(x)
        PROVE  Told'
    BY <1>2 DEF Buy, Lapse
  <1>3. CASE Crash
    BY <1>3 DEF Crash
  <1>4. CASE UNCHANGED vars
    BY <1>4 DEF vars
  <1> QED BY <1>1, <1>2, <1>3, <1>4 DEF Next

\* In a run without a failure in which no two workers get in each other's way, the
\* DataHub has heard of every order that can no longer be selected.
THEOREM UsedUpAlwaysReported == Spec => []UsedUpReported
  <1>1. Init => OInv /\ LostInv /\ TellInv
    BY InitLost DEF Init, TellInv, Told
  <1>2. OInv /\ LostInv /\ TellInv /\ [Next]_vars => (OInv /\ LostInv /\ TellInv)'
    BY OInvStep, LostStep, TellStep
  <1>3. OInv /\ TellInv => UsedUpReported
    BY DEF TellInv, Told, UsedUpReported, AtRest
  <1> QED BY <1>1, <1>2, <1>3, PTL DEF Spec
=============================================================================
