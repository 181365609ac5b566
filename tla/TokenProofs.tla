----------------------------- MODULE TokenProofs -----------------------------
(***************************************************************************)
(* What TokenCache promises for any number of workers, users and tokens.   *)
(***************************************************************************)
EXTENDS TokenCache, SequenceTheorems, TLAPS

Places == {"idle", "count", "getToken", "verify", "putToken", "putRegion", "getRegion",
           "getGateway", "fetchGateway", "putGateway", "orders"}

Keys == {"token", "sregion"} \X (Users \cup Tokens \cup {None})
Values == Users \cup Tokens \cup {None, "gateway"}
Entry == [key : Keys, value : Values]

\* The types of the variables; a worker in a request has a user and a token.
TypeInv ==
    /\ valid \subseteq Issued
    /\ cache \in Seq(Entry)
    /\ link \in [Workers -> Places \cup {"up", "none"}]
    /\ pc \in [Workers -> Places]
    /\ user \in [Workers -> Users \cup {None}]
    /\ token \in [Workers -> Tokens \cup {None}]
    /\ region \in [Workers -> Users \cup {None}]
    /\ \A w \in Workers : pc[w] # "idle" => user[w] \in Users /\ token[w] \in Tokens

\* Where a connection that worker w takes for sound may have broken: after w's
\* last command on it.
Since(place) ==
    CASE place = "idle" -> {"idle", "verify", "fetchGateway"}
      [] place = "count" -> {"idle", "verify", "fetchGateway", "count"}
      [] place = "putToken" -> {"verify", "putToken"}
      [] place = "putGateway" -> {"fetchGateway", "putGateway"}
      [] OTHER -> {place}

\* A break that w has not noticed is not older than w's last command.
LinkInv == \A w \in Workers : Broken(w) => link[w] \in Since(pc[w])

\* The DataHub has issued w's token to w's user.
OwnToken(w) == token[w] \in Issued /\ Owner[token[w]] = user[w]

\* A worker past the verification, or a hit in the cache, has a token of its user.
TokensOwned ==
    \A w \in Workers :
        pc[w] \in {"putToken", "putRegion", "getRegion"} \/ Authenticated(w) => OwnToken(w)

\* A token in the cache is one of the user under whose key it is.
CacheOwned ==
    \A i \in 1..Len(cache) : \A u \in Users :
        cache[i].key = UserKey(u) => cache[i].value \in Issued /\ Owner[cache[i].value] = u

\* The region is that of the user from the verification on.
RegionsRight ==
    \A w \in Workers :
        pc[w] \in {"putToken", "putRegion"} \/ Authenticated(w) => region[w] = user[w]

\* A region in the cache is that of the owner of the token under whose key it is.
CacheRegions ==
    \A i \in 1..Len(cache) : \A t \in Tokens :
        cache[i].key = RegionKey(t) => t \in Issued /\ cache[i].value = Owner[t]

PuttingRegion(t) == \E v \in Workers : pc[v] = "putRegion" /\ token[v] = t

\* Behind the entry of a token there is that of its region, which expires later;
\* or the token is in P.
Behind(c, P) ==
    \A i \in 1..Len(c) : \A u \in Users :
        c[i].key = UserKey(u) =>
            c[i].value \in P \/ \E j \in i..Len(c) : c[j].key = RegionKey(c[i].value)

\* A cached token has its region behind it, or a worker is about to put it.
Putting == {t \in Tokens : PuttingRegion(t)}
RegionBehind == Behind(cache, Putting)

\* What holds of the regions until something disturbs them.
UndisturbedInv == ~disturbed => RegionsRight /\ CacheRegions /\ RegionBehind

-----------------------------------------------------------------------------
(* Redis.                                                                  *)

\* What is left of a sequence when one of its elements is removed.
LEMMA RemoveAtFact ==
    ASSUME NEW S, NEW s \in Seq(S), NEW i \in 1..Len(s)
    PROVE  /\ RemoveAt(s, i) \in Seq(S)
           /\ Len(RemoveAt(s, i)) = Len(s) - 1
           /\ \A k \in 1..(Len(s) - 1) : RemoveAt(s, i)[k] = IF k < i THEN s[k] ELSE s[k + 1]
  <1>1. /\ SubSeq(s, 1, i - 1) \in Seq(S)
        /\ Len(SubSeq(s, 1, i - 1)) = i - 1
        /\ \A k \in 1..(i - 1) : SubSeq(s, 1, i - 1)[k] = s[k]
    OBVIOUS
  <1>2. /\ SubSeq(s, i + 1, Len(s)) \in Seq(S)
        /\ Len(SubSeq(s, i + 1, Len(s))) = Len(s) - i
        /\ \A k \in 1..(Len(s) - i) : SubSeq(s, i + 1, Len(s))[k] = s[k + i]
    OBVIOUS
  <1> DEFINE a == SubSeq(s, 1, i - 1)
             b == SubSeq(s, i + 1, Len(s))
  <1> HIDE DEF a, b
  <1>3. /\ a \in Seq(S) /\ Len(a) = i - 1 /\ \A k \in 1..(i - 1) : a[k] = s[k]
        /\ b \in Seq(S) /\ Len(b) = Len(s) - i /\ \A k \in 1..(Len(s) - i) : b[k] = s[k + i]
        /\ RemoveAt(s, i) = a \o b
    BY <1>1, <1>2 DEF RemoveAt, a, b
  <1>4. /\ a \o b \in Seq(S)
        /\ Len(a \o b) = Len(a) + Len(b)
        /\ \A k \in 1..(Len(a) + Len(b)) : (a \o b)[k] = IF k <= Len(a) THEN a[k] ELSE b[k - Len(a)]
    BY <1>3, ConcatProperties
  <1>5. ASSUME NEW k \in 1..(Len(s) - 1)
        PROVE  (a \o b)[k] = IF k < i THEN s[k] ELSE s[k + 1]
    <2>1. CASE k < i
      BY <1>3, <1>4, <2>1
    <2>2. CASE ~(k < i)
      <3>1. (a \o b)[k] = b[k - (i - 1)]
        BY <1>3, <1>4, <2>2
      <3>2. k - (i - 1) \in 1..(Len(s) - i) /\ k - (i - 1) + i = k + 1
        BY <2>2
      <3>3. b[k - (i - 1)] = s[(k - (i - 1)) + i]
        BY <1>3, <3>2
      <3> QED  BY <3>1, <3>2, <3>3, <2>2
    <2> QED  BY <2>1, <2>2
  <1> QED  BY <1>3, <1>4, <1>5

\* A SET keeps the order of the other entries and puts its own behind them: at
\* is where the key was, or one past the end.
LEMMA SetFact ==
    ASSUME cache \in Seq(Entry), NEW key \in Keys, NEW value \in Values
    PROVE  /\ Set(key, value) \in Seq(Entry)
           /\ \E at \in 1..(Len(cache) + 1) :
                /\ at <= Len(cache) => cache[at].key = key
                /\ at > Len(cache) => \A k \in 1..Len(cache) : cache[k].key # key
                /\ Len(Set(key, value)) = IF at <= Len(cache) THEN Len(cache) ELSE Len(cache) + 1
                /\ \A k \in 1..(Len(Set(key, value)) - 1) :
                      Set(key, value)[k] = IF k < at THEN cache[k] ELSE cache[k + 1]
                /\ Set(key, value)[Len(Set(key, value))] = [key |-> key, value |-> value]
  <1> DEFINE rec == [key |-> key, value |-> value]
             old == {i \in DOMAIN cache : cache[i].key = key}
             at == CHOOSE i \in old : TRUE
  <1>1. rec \in Entry
    BY DEF Entry
  <1>2. CASE old = {}
    <2>1. Set(key, value) = Append(cache, rec)
      BY <1>2 DEF Set
    <2>2. /\ Append(cache, rec) \in Seq(Entry)
          /\ Len(Append(cache, rec)) = Len(cache) + 1
          /\ \A k \in 1..Len(cache) : Append(cache, rec)[k] = cache[k]
          /\ Append(cache, rec)[Len(cache) + 1] = rec
      BY <1>1
    <2>3. /\ Len(cache) + 1 \in 1..(Len(cache) + 1)
          /\ \A k \in 1..Len(cache) : cache[k].key # key
      BY <1>2
    <2> HIDE DEF rec
    <2> QED  BY <2>1, <2>2, <2>3 DEF rec
  <1>3. CASE old # {}
    <2>1. at \in old
      BY <1>3
    <2>2. at \in 1..Len(cache) /\ cache[at].key = key
      BY <2>1
    <2>3. Set(key, value) = Append(RemoveAt(cache, at), rec)
      BY <1>3 DEF Set
    <2> HIDE DEF at, rec
    <2> DEFINE rest == RemoveAt(cache, at)
    <2>4. /\ rest \in Seq(Entry)
          /\ Len(rest) = Len(cache) - 1
          /\ \A k \in 1..(Len(cache) - 1) : rest[k] = IF k < at THEN cache[k] ELSE cache[k + 1]
      BY <2>2, RemoveAtFact
    <2> HIDE DEF rest
    <2>5. /\ Append(rest, rec) \in Seq(Entry)
          /\ Len(Append(rest, rec)) = Len(rest) + 1
          /\ \A k \in 1..Len(rest) : Append(rest, rec)[k] = rest[k]
          /\ Append(rest, rec)[Len(rest) + 1] = rec
      BY <2>4, <1>1
    <2>6. Set(key, value) = Append(rest, rec)
      BY <2>3 DEF rest
    <2>7. at \in 1..(Len(cache) + 1)
      BY <2>2
    <2>8. /\ Len(Append(rest, rec)) = Len(cache)
          /\ \A k \in 1..(Len(Append(rest, rec)) - 1) :
                Append(rest, rec)[k] = IF k < at THEN cache[k] ELSE cache[k + 1]
          /\ Append(rest, rec)[Len(Append(rest, rec))] = rec
      BY <2>2, <2>4, <2>5
    <2> QED  BY <2>2, <2>5, <2>6, <2>7, <2>8 DEF rec
  <1> QED  BY <1>2, <1>3

\* Sequence c is the cache after a SET of the key: the entry at place at, or none if at
\* is behind the last, is taken out and the new one is put at the end.
Replaced(c, key, value, at) ==
    /\ at <= Len(cache) => cache[at].key = key
    /\ at > Len(cache) => \A k \in 1..Len(cache) : cache[k].key # key
    /\ Len(c) = IF at <= Len(cache) THEN Len(cache) ELSE Len(cache) + 1
    /\ \A k \in 1..(Len(c) - 1) : c[k] = IF k < at THEN cache[k] ELSE cache[k + 1]
    /\ c[Len(c)] = [key |-> key, value |-> value]

LEMMA SetReplaces ==
    ASSUME cache \in Seq(Entry), NEW key \in Keys, NEW value \in Values, NEW c,
           c = Set(key, value)
    PROVE  \E at \in 1..(Len(cache) + 1) : Replaced(c, key, value, at)
  <1>1. PICK at \in 1..(Len(cache) + 1) :
           /\ at <= Len(cache) => cache[at].key = key
           /\ at > Len(cache) => \A k \in 1..Len(cache) : cache[k].key # key
           /\ Len(Set(key, value)) = IF at <= Len(cache) THEN Len(cache) ELSE Len(cache) + 1
           /\ \A k \in 1..(Len(Set(key, value)) - 1) :
                 Set(key, value)[k] = IF k < at THEN cache[k] ELSE cache[k + 1]
           /\ Set(key, value)[Len(Set(key, value))] = [key |-> key, value |-> value]
    BY SetFact
  <1>2. Replaced(Set(key, value), key, value, at)
    BY <1>1, Zenon DEF Replaced
  <1> QED  BY <1>2

LEMMA KeyFact ==
    /\ GatewayKey \in Keys /\ "gateway" \in Values
    /\ \A u \in Users : UserKey(u) \in Keys
    /\ \A t \in Tokens : RegionKey(t) \in Keys /\ t \in Values
    /\ \A r \in Users \cup {None} : r \in Values
  BY DEF Keys, Values, GatewayKey, UserKey, RegionKey

\* The entries of one key are never those of another.
LEMMA KeysApart ==
    /\ \A u \in Users : UserKey(u) # GatewayKey
    /\ \A u \in Users, t \in Tokens : UserKey(u) # RegionKey(t)
    /\ \A t \in Tokens : RegionKey(t) # GatewayKey
    /\ \A u, v \in Users : UserKey(u) = UserKey(v) => u = v
    /\ \A t, s \in Tokens : RegionKey(t) = RegionKey(s) => t = s
  BY TokenAssumption DEF GatewayKey, UserKey, RegionKey

\* What a worker in the middle of a request stores.
LEMMA StoreType ==
    ASSUME TypeInv, NEW w \in Workers, pc[w] # "idle"
    PROVE  /\ Set(UserKey(user[w]), token[w]) \in Seq(Entry)
           /\ Set(RegionKey(token[w]), region[w]) \in Seq(Entry)
           /\ Set(GatewayKey, "gateway") \in Seq(Entry)
  <1>1. user[w] \in Users /\ token[w] \in Tokens /\ region[w] \in Users \cup {None}
    BY DEF TypeInv
  <1>2. cache \in Seq(Entry)
    BY DEF TypeInv
  <1>3. /\ UserKey(user[w]) \in Keys /\ token[w] \in Values
        /\ RegionKey(token[w]) \in Keys /\ region[w] \in Values
        /\ GatewayKey \in Keys /\ "gateway" \in Values
    BY <1>1, KeyFact
  <1> QED  BY <1>2, <1>3, SetFact

-----------------------------------------------------------------------------
(* Types.                                                                  *)

LEMMA InitType == Init => TypeInv
  <1> SUFFICES ASSUME Init
               PROVE  TypeInv
    OBVIOUS
  <1>1. cache \in Seq(Entry)
    BY DEF Init
  <1> QED  BY <1>1 DEF Init, TypeInv, Places

LEMMA TypeStep == TypeInv /\ [Next]_vars => TypeInv'
  <1> SUFFICES ASSUME TypeInv, [Next]_vars
               PROVE  TypeInv'
    OBVIOUS
  <1> USE DEF TypeInv, Places
  <1>1. ASSUME NEW w \in Workers, Receive(w)
        PROVE  TypeInv'
    BY <1>1 DEF Receive, Goto
  <1>2. ASSUME NEW w \in Workers, CountRequest(w)
        PROVE  TypeInv'
    BY <1>2 DEF CountRequest, Goto, CommandFails, CommandWorks, dataVars
  <1>3. ASSUME NEW w \in Workers, LookupToken(w)
        PROVE  TypeInv'
    BY <1>3 DEF LookupToken, GetToken, MissToken, Found, NotFound, Goto,
                CommandFails, CommandWorks, dataVars
  <1>4. ASSUME NEW w \in Workers, PutToken(w)
        PROVE  TypeInv'
    <2>1. cache' \in Seq(Entry)
      BY <1>4, StoreType DEF PutToken, Stored, NotStored
    <2> QED  BY <1>4, <2>1 DEF PutToken, Stored, NotStored, Return, CommandFails,
                               CommandWorks, dataVars
  <1>5. ASSUME NEW w \in Workers, PutRegion(w)
        PROVE  TypeInv'
    <2>1. cache' \in Seq(Entry)
      BY <1>5, StoreType DEF PutRegion, Stored, NotStored
    <2> QED  BY <1>5, <2>1 DEF PutRegion, Stored, NotStored, Return, CommandFails,
                               CommandWorks, dataVars
  <1>6. ASSUME NEW w \in Workers, GetRegion(w)
        PROVE  TypeInv'
    BY <1>6, ZenonT(30) DEF GetRegion, Found, NotFound, Goto, CommandFails, CommandWorks
  <1>7. ASSUME NEW w \in Workers, GetGateway(w)
        PROVE  TypeInv'
    BY <1>7 DEF GetGateway, Found, NotFound, Goto, CommandFails, CommandWorks, dataVars
  <1>8. ASSUME NEW w \in Workers, PutGateway(w)
        PROVE  TypeInv'
    <2>1. cache' \in Seq(Entry)
      BY <1>8, StoreType DEF PutGateway, Goto, Stored, NotStored
    <2> QED  BY <1>8, <2>1 DEF PutGateway, Goto, Stored, NotStored, CommandFails,
                               CommandWorks, dataVars
  <1>9. ASSUME NEW w \in Workers, PickOrder(w)
        PROVE  TypeInv'
    BY <1>9 DEF PickOrder, Return, CommandWorks, dataVars
  <1>10. ASSUME NEW w \in Workers, DataHubNext(w)
         PROVE  TypeInv'
    <2>1. CASE Verify(w)
      BY <2>1 DEF Verify, Goto
    <2>2. CASE VerifyCut(w)
      BY <2>2 DEF VerifyCut, Goto, dataVars
    <2>3. CASE Refuse(w)
      BY <2>3 DEF Refuse, Return
    <2>4. CASE FetchGateway(w)
      BY <2>4 DEF FetchGateway, Goto, Return, dataVars
    <2> QED  BY <1>10, <2>1, <2>2, <2>3, <2>4 DEF DataHubNext
  <1>11. ASSUME NEW w \in Workers, Break(w)
         PROVE  TypeInv'
    BY <1>11 DEF Break, dataVars
  <1>12. CASE Expire
    BY <1>12 DEF Expire, dataVars
  <1>13. ASSUME NEW t \in Tokens, Revoke(t)
         PROVE  TypeInv'
    BY <1>13 DEF Revoke, dataVars
  <1>14. CASE UNCHANGED vars
    BY <1>14 DEF vars, dataVars
  <1> HIDE DEF TypeInv, Places
  <1> QED  BY <1>1, <1>2, <1>3, <1>4, <1>5, <1>6, <1>7, <1>8, <1>9, <1>10, <1>11,
              <1>12, <1>13, <1>14 DEF Next, RedisNext

-----------------------------------------------------------------------------
(* Connections.                                                            *)

LEMMA LinkStep == TypeInv /\ LinkInv /\ [Next]_vars => LinkInv'
  <1> SUFFICES ASSUME TypeInv, LinkInv, [Next]_vars, NEW v \in Workers
               PROVE  (Broken(v) => link[v] \in Since(pc[v]))'
    BY DEF LinkInv
  <1> USE DEF TypeInv, LinkInv, Broken, Since, Places
  <1>1. ASSUME NEW w \in Workers, Receive(w)
        PROVE  (Broken(v) => link[v] \in Since(pc[v]))'
    BY <1>1 DEF Receive, Goto
  <1>2. ASSUME NEW w \in Workers, CountRequest(w)
        PROVE  (Broken(v) => link[v] \in Since(pc[v]))'
    BY <1>2 DEF CountRequest, Goto, CommandFails, CommandWorks
  <1>3. ASSUME NEW w \in Workers, LookupToken(w)
        PROVE  (Broken(v) => link[v] \in Since(pc[v]))'
    BY <1>3 DEF LookupToken, GetToken, MissToken, Found, NotFound, Goto,
                CommandFails, CommandWorks
  <1>4. ASSUME NEW w \in Workers, PutToken(w) \/ PutRegion(w)
        PROVE  (Broken(v) => link[v] \in Since(pc[v]))'
    BY <1>4 DEF PutToken, PutRegion, Stored, NotStored, Return, CommandFails, CommandWorks
  <1>5. ASSUME NEW w \in Workers, GetRegion(w)
        PROVE  (Broken(v) => link[v] \in Since(pc[v]))'
    BY <1>5 DEF GetRegion, Found, NotFound, Goto, CommandFails, CommandWorks
  <1>6. ASSUME NEW w \in Workers, GetGateway(w)
        PROVE  (Broken(v) => link[v] \in Since(pc[v]))'
    BY <1>6 DEF GetGateway, Found, NotFound, Goto, CommandFails, CommandWorks
  <1>7. ASSUME NEW w \in Workers, PutGateway(w)
        PROVE  (Broken(v) => link[v] \in Since(pc[v]))'
    BY <1>7 DEF PutGateway, Goto, Stored, NotStored, CommandFails, CommandWorks
  <1>8. ASSUME NEW w \in Workers, PickOrder(w)
        PROVE  (Broken(v) => link[v] \in Since(pc[v]))'
    BY <1>8 DEF PickOrder, Return, CommandWorks
  <1>9. ASSUME NEW w \in Workers, DataHubNext(w)
        PROVE  (Broken(v) => link[v] \in Since(pc[v]))'
    BY <1>9 DEF DataHubNext, Verify, VerifyCut, Refuse, FetchGateway, Goto, Return
  <1>10. ASSUME NEW w \in Workers, Break(w)
         PROVE  (Broken(v) => link[v] \in Since(pc[v]))'
    BY <1>10 DEF Break
  <1>11. CASE Expire \/ (\E t \in Tokens : Revoke(t)) \/ UNCHANGED vars
    BY <1>11 DEF Expire, Revoke, vars
  <1> HIDE DEF TypeInv, LinkInv, Broken, Since, Places
  <1> QED  BY <1>1, <1>2, <1>3, <1>4, <1>5, <1>6, <1>7, <1>8, <1>9, <1>10, <1>11
           DEF Next, RedisNext

\* BreakNoticedAtOnce, for any number of workers: no command of BdxParseBody
\* leaves a connection behind that has broken before it, so the command that
\* cannot bear a broken one (GetValueSortedSet) never meets an old break.
THEOREM BreakNoticed == Spec => []BreakNoticedAtOnce
  <1>1. Init => TypeInv /\ LinkInv
    BY InitType DEF Init, LinkInv, Broken
  <1>2. TypeInv /\ LinkInv /\ [Next]_vars => (TypeInv /\ LinkInv)'
    BY TypeStep, LinkStep
  <1>3. TypeInv /\ LinkInv => BreakNoticedAtOnce
    BY DEF LinkInv, Since, BreakNoticedAtOnce
  <1> QED  BY <1>1, <1>2, <1>3, PTL DEF Spec

-----------------------------------------------------------------------------
(* Tokens.                                                                 *)

\* A SET of a user's own token, or of another key, keeps the tokens with their owners.
LEMMA SetOwned ==
    ASSUME TypeInv, CacheOwned, NEW key \in Keys, NEW value \in Values,
           \A u \in Users : key = UserKey(u) => value \in Issued /\ Owner[value] = u,
           cache' = Set(key, value)
    PROVE  CacheOwned'
  <1>1. cache \in Seq(Entry)
    BY DEF TypeInv
  <1>a. PICK at \in 1..(Len(cache) + 1) : Replaced(cache', key, value, at)
    BY <1>1, SetReplaces
  <1>2. /\ at <= Len(cache) => cache[at].key = key
        /\ at > Len(cache) => \A k \in 1..Len(cache) : cache[k].key # key
        /\ Len(cache') = IF at <= Len(cache) THEN Len(cache) ELSE Len(cache) + 1
        /\ \A k \in 1..(Len(cache') - 1) : cache'[k] = IF k < at THEN cache[k] ELSE cache[k + 1]
        /\ cache'[Len(cache')] = [key |-> key, value |-> value]
    BY <1>a, Zenon DEF Replaced
  <1> SUFFICES ASSUME NEW i \in 1..Len(cache'), NEW u \in Users, cache'[i].key = UserKey(u)
               PROVE  cache'[i].value \in Issued /\ Owner[cache'[i].value] = u
    BY DEF CacheOwned, UserKey
  <1>3. CASE i = Len(cache')
    BY <1>2, <1>3
  <1>4. CASE i # Len(cache')
    <2>1. PICK k \in 1..Len(cache) : cache'[i] = cache[k]
      <3>1. i \in 1..(Len(cache') - 1) /\ i + 1 \in 1..(Len(cache) + 1) /\ Len(cache) \in Nat
        BY <1>1, <1>2, <1>4
      <3>2. CASE i < at
        BY <1>2, <3>1, <3>2
      <3>3. CASE ~(i < at)
        BY <1>2, <3>1, <3>3
      <3> QED  BY <3>2, <3>3
    <2> QED  BY <2>1 DEF CacheOwned
  <1> QED  BY <1>3, <1>4

LEMMA TailOwned ==
    ASSUME TypeInv, CacheOwned, Expire
    PROVE  CacheOwned'
  <1>1. cache \in Seq(Entry) /\ cache # <<>> /\ cache' = Tail(cache)
    BY DEF TypeInv, Expire
  <1>2. Len(cache') = Len(cache) - 1 /\ \A k \in 1..Len(cache') : cache'[k] = cache[k + 1]
    BY <1>1
  <1> QED  BY <1>1, <1>2 DEF CacheOwned, UserKey

LEMMA IssuedStep == TypeInv /\ TokensOwned /\ CacheOwned /\ [Next]_vars => (TokensOwned /\ CacheOwned)'
  <1> SUFFICES ASSUME TypeInv, TokensOwned, CacheOwned, [Next]_vars
               PROVE  TokensOwned' /\ CacheOwned'
    OBVIOUS
  <1> USE DEF Authenticated, OwnToken
  <1>1. ASSUME NEW w \in Workers, Receive(w)
        PROVE  TokensOwned' /\ CacheOwned'
    BY <1>1 DEF Receive, Goto, TypeInv, TokensOwned, CacheOwned, UserKey
  <1>2. ASSUME NEW w \in Workers, CountRequest(w)
        PROVE  TokensOwned' /\ CacheOwned'
    BY <1>2 DEF CountRequest, Goto, TypeInv, TokensOwned, CacheOwned, UserKey, dataVars
  <1>3. ASSUME NEW w \in Workers, LookupToken(w)
        PROVE  TokensOwned' /\ CacheOwned'
    <2>1. CacheOwned'
      BY <1>3 DEF LookupToken, GetToken, MissToken, CacheOwned, UserKey
    <2>2. CASE GetToken(w)
      <3>1. user[w] \in Users
        BY <2>2 DEF GetToken, Goto, TypeInv
      <3>2. PICK i \in 1..Len(cache) : cache[i] = [key |-> UserKey(user[w]), value |-> token[w]]
        BY <2>2 DEF GetToken, Found, ToSet, TypeInv
      <3>3. token[w] \in Issued /\ Owner[token[w]] = user[w]
        BY <3>1, <3>2 DEF CacheOwned
      <3> QED  BY <1>3, <2>1, <2>2, <3>3 DEF LookupToken, GetToken, Goto, TypeInv, TokensOwned, dataVars
    <2>3. CASE MissToken(w)
      BY <1>3, <2>1, <2>3 DEF LookupToken, MissToken, Goto, TypeInv, TokensOwned, dataVars
    <2> QED  BY <1>3, <2>2, <2>3 DEF LookupToken
  <1>4. ASSUME NEW w \in Workers, PutToken(w)
        PROVE  TokensOwned' /\ CacheOwned'
    <2>1. pc[w] = "putToken" /\ user[w] \in Users /\ token[w] \in Tokens /\ OwnToken(w)
      BY <1>4 DEF PutToken, TypeInv, TokensOwned
    <2>2. ASSUME cache' = Set(UserKey(user[w]), token[w])
          PROVE  CacheOwned'
      BY <2>1, <2>2, SetOwned, KeyFact, KeysApart
    <2>3. ASSUME UNCHANGED cache
          PROVE  CacheOwned'
      BY <2>3 DEF CacheOwned, UserKey
    <2>4. CacheOwned'
      BY <1>4, <2>2, <2>3 DEF PutToken, Stored, NotStored
    <2> QED  BY <1>4, <2>1, <2>4 DEF PutToken, Return, TypeInv, TokensOwned, dataVars
  <1>5. ASSUME NEW w \in Workers, PutRegion(w)
        PROVE  TokensOwned' /\ CacheOwned'
    <2>1. pc[w] = "putRegion" /\ token[w] \in Tokens /\ region[w] \in Users \cup {None}
      BY <1>5 DEF PutRegion, TypeInv
    <2>2. ASSUME cache' = Set(RegionKey(token[w]), region[w])
          PROVE  CacheOwned'
      BY <2>1, <2>2, SetOwned, KeyFact, KeysApart
    <2>3. ASSUME UNCHANGED cache
          PROVE  CacheOwned'
      BY <2>3 DEF CacheOwned, UserKey
    <2>4. CacheOwned'
      BY <1>5, <2>2, <2>3 DEF PutRegion, Stored, NotStored
    <2> QED  BY <1>5, <2>1, <2>4 DEF PutRegion, Return, TypeInv, TokensOwned, dataVars
  <1>6. ASSUME NEW w \in Workers, GetRegion(w)
        PROVE  TokensOwned' /\ CacheOwned'
    BY <1>6 DEF GetRegion, Goto, TypeInv, TokensOwned, CacheOwned, UserKey
  <1>7. ASSUME NEW w \in Workers, GetGateway(w)
        PROVE  TokensOwned' /\ CacheOwned'
    BY <1>7 DEF GetGateway, Goto, TypeInv, TokensOwned, CacheOwned, UserKey, dataVars
  <1>8. ASSUME NEW w \in Workers, PutGateway(w)
        PROVE  TokensOwned' /\ CacheOwned'
    <2>1. ASSUME cache' = Set(GatewayKey, "gateway")
          PROVE  CacheOwned'
      BY <2>1, SetOwned, KeyFact, KeysApart
    <2>2. ASSUME UNCHANGED cache
          PROVE  CacheOwned'
      BY <2>2 DEF CacheOwned, UserKey
    <2>3. CacheOwned'
      BY <1>8, <2>1, <2>2 DEF PutGateway, Stored, NotStored
    <2> QED  BY <1>8, <2>3 DEF PutGateway, Goto, TypeInv, TokensOwned, dataVars
  <1>9. ASSUME NEW w \in Workers, PickOrder(w)
        PROVE  TokensOwned' /\ CacheOwned'
    BY <1>9 DEF PickOrder, Return, TypeInv, TokensOwned, CacheOwned, UserKey, dataVars
  <1>10. ASSUME NEW w \in Workers, DataHubNext(w)
         PROVE  TokensOwned' /\ CacheOwned'
    <2>1. CacheOwned'
      BY <1>10 DEF DataHubNext, Verify, VerifyCut, Refuse, FetchGateway, CacheOwned, UserKey
    <2>2. CASE Verify(w) \/ VerifyCut(w)
      <3>1. token[w] \in Issued /\ Owner[token[w]] = user[w]
        BY <2>2 DEF Verify, VerifyCut, Accepts, TypeInv
      <3> QED  BY <2>1, <2>2, <3>1 DEF Verify, VerifyCut, Goto, TypeInv, TokensOwned, dataVars
    <2>3. CASE Refuse(w)
      BY <2>1, <2>3 DEF Refuse, Return, TypeInv, TokensOwned
    <2>4. CASE FetchGateway(w)
      BY <2>1, <2>4 DEF FetchGateway, Goto, Return, TypeInv, TokensOwned, dataVars
    <2> QED  BY <1>10, <2>2, <2>3, <2>4 DEF DataHubNext
  <1>11. CASE Expire
    BY <1>11, TailOwned DEF Expire, TokensOwned, dataVars
  <1>12. CASE (\E w \in Workers : Break(w)) \/ (\E t \in Tokens : Revoke(t)) \/ UNCHANGED vars
    BY <1>12 DEF Break, Revoke, vars, dataVars, TokensOwned, CacheOwned, UserKey
  <1> QED  BY <1>1, <1>2, <1>3, <1>4, <1>5, <1>6, <1>7, <1>8, <1>9, <1>10, <1>11, <1>12
           DEF Next, RedisNext

\* OnlyIssuedTokens, for any number of workers, users and tokens: the tokens in
\* Redis are the ones BdxVerifyDataHubToken has accepted, each under the key of
\* its user, whoever stores, expires or revokes what in between.
THEOREM IssuedOnly == Spec => []OnlyIssuedTokens
  <1>1. Init => TypeInv /\ TokensOwned /\ CacheOwned
    BY InitType DEF Init, TokensOwned, CacheOwned, Authenticated
  <1>2. TypeInv /\ TokensOwned /\ CacheOwned /\ [Next]_vars
        => (TypeInv /\ TokensOwned /\ CacheOwned)'
    BY TypeStep, IssuedStep
  <1>3. TokensOwned => OnlyIssuedTokens
    BY DEF TokensOwned, OwnToken, OnlyIssuedTokens
  <1> QED  BY <1>1, <1>2, <1>3, PTL DEF Spec

-----------------------------------------------------------------------------
(* Regions.                                                                *)

LEMMA SetRegions ==
    ASSUME TypeInv, CacheRegions, NEW key \in Keys, NEW value \in Values,
           \A t \in Tokens : key = RegionKey(t) => t \in Issued /\ value = Owner[t],
           cache' = Set(key, value)
    PROVE  CacheRegions'
  <1>1. cache \in Seq(Entry)
    BY DEF TypeInv
  <1>a. PICK at \in 1..(Len(cache) + 1) : Replaced(cache', key, value, at)
    BY <1>1, SetReplaces
  <1>2. /\ at <= Len(cache) => cache[at].key = key
        /\ at > Len(cache) => \A k \in 1..Len(cache) : cache[k].key # key
        /\ Len(cache') = IF at <= Len(cache) THEN Len(cache) ELSE Len(cache) + 1
        /\ \A k \in 1..(Len(cache') - 1) : cache'[k] = IF k < at THEN cache[k] ELSE cache[k + 1]
        /\ cache'[Len(cache')] = [key |-> key, value |-> value]
    BY <1>a, Zenon DEF Replaced
  <1> SUFFICES ASSUME NEW i \in 1..Len(cache'), NEW t \in Tokens, cache'[i].key = RegionKey(t)
               PROVE  t \in Issued /\ cache'[i].value = Owner[t]
    BY DEF CacheRegions, RegionKey
  <1>3. CASE i = Len(cache')
    BY <1>2, <1>3
  <1>4. CASE i # Len(cache')
    <2>1. PICK k \in 1..Len(cache) : cache'[i] = cache[k]
      <3>1. i \in 1..(Len(cache') - 1) /\ i + 1 \in 1..(Len(cache) + 1) /\ Len(cache) \in Nat
        BY <1>1, <1>2, <1>4
      <3>2. CASE i < at
        BY <1>2, <3>1, <3>2
      <3>3. CASE ~(i < at)
        BY <1>2, <3>1, <3>3
      <3> QED  BY <3>2, <3>3
    <2> QED  BY <2>1 DEF CacheRegions
  <1> QED  BY <1>3, <1>4

\* A SET keeps every token's region behind it: the new entry is the last one, so
\* a region put again moves further away from its token, never in front of it.
LEMMA SetBehind ==
    ASSUME TypeInv, NEW P, NEW Q, Behind(cache, P),
           NEW key \in Keys, NEW value \in Values,
           \A u \in Users : key = UserKey(u) => value \in Q,
           \A t \in P : t \in Q \/ key = RegionKey(t)
    PROVE  Behind(Set(key, value), Q)
  <1> DEFINE c == Set(key, value)
  <1>1. cache \in Seq(Entry) /\ Len(cache) \in Nat
    BY DEF TypeInv
  <1>a. PICK at \in 1..(Len(cache) + 1) : Replaced(c, key, value, at)
    BY <1>1, SetReplaces
  <1>2. /\ at <= Len(cache) => cache[at].key = key
        /\ Len(c) = IF at <= Len(cache) THEN Len(cache) ELSE Len(cache) + 1
        /\ \A k \in 1..(Len(c) - 1) : c[k] = IF k < at THEN cache[k] ELSE cache[k + 1]
        /\ c[Len(c)] = [key |-> key, value |-> value]
    BY <1>a, Zenon DEF Replaced
  <1> HIDE DEF c
  <1> SUFFICES ASSUME NEW i \in 1..Len(c), NEW u \in Users, c[i].key = UserKey(u)
               PROVE  c[i].value \in Q \/ \E j \in i..Len(c) : c[j].key = RegionKey(c[i].value)
    BY DEF Behind, c
  <1>3. CASE i = Len(c)
    BY <1>2, <1>3
  <1>4. CASE i # Len(c)
    <2> DEFINE k == IF i < at THEN i ELSE i + 1
               t == c[i].value
    <2>1. i \in 1..(Len(c) - 1) /\ k \in 1..Len(cache) /\ c[i] = cache[k] /\ k # at
      BY <1>1, <1>2, <1>4
    <2>2. t \in P \/ \E j \in k..Len(cache) : cache[j].key = RegionKey(t)
      BY <2>1 DEF Behind
    <2>3. Len(c) \in i..Len(c) /\ c[Len(c)].key = key
      BY <1>1, <1>2
    <2>4. CASE t \in P
      BY <2>3, <2>4
    <2>5. ASSUME NEW j \in k..Len(cache), cache[j].key = RegionKey(t)
          PROVE  \E m \in i..Len(c) : c[m].key = RegionKey(t)
      <3>1. CASE j = at
        BY <1>1, <1>2, <2>3, <2>5, <3>1
      <3>2. CASE j < at
        <4>1. j \in i..(Len(c) - 1)
          BY <1>1, <1>2, <2>1, <3>2
        <4>2. c[j] = cache[j]
          BY <1>2, <4>1, <3>2
        <4> QED  BY <4>1, <4>2, <2>5
      <3>3. CASE j > at
        <4>1. j - 1 \in i..(Len(c) - 1) /\ ~(j - 1 < at) /\ (j - 1) + 1 = j
          BY <1>1, <1>2, <2>1, <3>3
        <4>2. c[j - 1] = cache[j]
          BY <1>2, <4>1
        <4> QED  BY <4>1, <4>2, <2>5
      <3> QED  BY <1>1, <2>1, <3>1, <3>2, <3>3
    <2> QED  BY <2>2, <2>4, <2>5
  <1> QED  BY <1>3, <1>4

\* A token expires before its region.
LEMMA TailRegions ==
    ASSUME TypeInv, NEW P, Behind(cache, P), CacheRegions, Expire
    PROVE  Behind(cache', P) /\ CacheRegions'
  <1>1. cache \in Seq(Entry) /\ cache # <<>> /\ cache' = Tail(cache)
    BY DEF TypeInv, Expire
  <1>2. Len(cache') = Len(cache) - 1 /\ \A k \in 1..Len(cache') : cache'[k] = cache[k + 1]
    BY <1>1
  <1>3. CacheRegions'
    BY <1>1, <1>2 DEF CacheRegions, RegionKey
  <1>4. ASSUME NEW i \in 1..Len(cache'), NEW u \in Users, cache'[i].key = UserKey(u)
        PROVE  cache'[i].value \in P \/ \E j \in i..Len(cache') : cache'[j].key = RegionKey(cache'[i].value)
    <2> DEFINE t == cache[i + 1].value
    <2>1. i + 1 \in 1..Len(cache) /\ cache'[i] = cache[i + 1]
      BY <1>1, <1>2
    <2>2. t \in P \/ \E j \in (i + 1)..Len(cache) : cache[j].key = RegionKey(t)
      BY <1>4, <2>1 DEF Behind
    <2>3. ASSUME NEW j \in (i + 1)..Len(cache), cache[j].key = RegionKey(t)
          PROVE  \E m \in i..Len(cache') : cache'[m].key = RegionKey(t)
      <3>1. j - 1 \in i..Len(cache') /\ j - 1 \in 1..Len(cache') /\ (j - 1) + 1 = j
        BY <1>1, <1>2
      <3>2. cache'[j - 1] = cache[j]
        BY <1>2, <3>1
      <3> QED  BY <2>3, <3>1, <3>2
    <2> QED  BY <2>1, <2>2, <2>3
  <1> QED  BY <1>3, <1>4 DEF Behind

\* Once disturbed is set it stays so.
LEMMA DisturbedStays == [Next]_vars /\ ~disturbed' => ~disturbed
  <1> SUFFICES ASSUME [Next]_vars, ~disturbed'
               PROVE  ~disturbed
    OBVIOUS
  <1>1. ASSUME NEW w \in Workers, Receive(w) \/ DataHubNext(w) \/ Break(w)
        PROVE  ~disturbed
    BY <1>1 DEF Receive, DataHubNext, Verify, VerifyCut, Refuse, FetchGateway, Break
  <1>2. ASSUME NEW w \in Workers, CountRequest(w) \/ LookupToken(w) \/ PickOrder(w)
        PROVE  ~disturbed
    BY <1>2 DEF CountRequest, LookupToken, GetToken, MissToken, PickOrder, CommandFails
  <1>3. ASSUME NEW w \in Workers, PutToken(w) \/ PutRegion(w) \/ PutGateway(w)
        PROVE  ~disturbed
    BY <1>3 DEF PutToken, PutRegion, PutGateway, NotStored, CommandFails
  <1>4. ASSUME NEW w \in Workers, GetRegion(w) \/ GetGateway(w)
        PROVE  ~disturbed
    BY <1>4 DEF GetRegion, GetGateway, CommandFails
  <1>5. CASE Expire \/ (\E t \in Tokens : Revoke(t)) \/ UNCHANGED vars
    BY <1>5 DEF Expire, Revoke, vars
  <1> QED  BY <1>1, <1>2, <1>3, <1>4, <1>5 DEF Next, RedisNext

\* A command that fails in the middle of a request disturbs: its connection was
\* refused, or has broken since the last command of the same request.
LEMMA FailureDisturbs ==
    ASSUME TypeInv, LinkInv, NEW w \in Workers, pc[w] \notin {"idle", "count"}, CommandFails(w)
    PROVE  disturbed'
  <1>1. link[w] # "idle"
    BY DEF TypeInv, LinkInv, CommandFails, Broken, Since, Places
  <1> QED  BY <1>1 DEF CommandFails

\* A step that leaves Redis alone and gives up no put of a region.
LEMMA QuietStep ==
    ASSUME CacheRegions, RegionBehind, UNCHANGED cache,
           \A v \in Workers : pc[v] = "putRegion" => pc'[v] = "putRegion" /\ token'[v] = token[v]
    PROVE  CacheRegions' /\ RegionBehind'
  <1>1. CacheRegions'
    BY DEF CacheRegions, RegionKey
  <1>2. Putting \subseteq Putting'
    BY DEF Putting, PuttingRegion
  <1>3. Behind(cache, Putting')
    BY <1>2 DEF RegionBehind, Behind
  <1> QED  BY <1>1, <1>3 DEF RegionBehind, Behind, UserKey, RegionKey

LEMMA RegionStep ==
    TypeInv /\ LinkInv /\ TokensOwned /\ UndisturbedInv /\ [Next]_vars => UndisturbedInv'
  <1> SUFFICES ASSUME TypeInv, LinkInv, TokensOwned, UndisturbedInv, [Next]_vars, ~disturbed'
               PROVE  RegionsRight' /\ CacheRegions' /\ RegionBehind'
    BY DEF UndisturbedInv
  <1>0. RegionsRight /\ CacheRegions /\ RegionBehind
    BY DisturbedStays DEF UndisturbedInv
  <1> DEFINE Goal == RegionsRight' /\ CacheRegions' /\ RegionBehind'
  <1> USE DEF Authenticated
  <1>1. ASSUME NEW w \in Workers, Receive(w)
        PROVE  Goal
    <2>1. RegionsRight'
      BY <1>0, <1>1 DEF Receive, Goto, TypeInv, RegionsRight
    <2> QED  BY <1>0, <1>1, <2>1, QuietStep DEF Receive, Goto, TypeInv
  <1>2. ASSUME NEW w \in Workers, CountRequest(w)
        PROVE  Goal
    <2>1. RegionsRight'
      BY <1>0, <1>2 DEF CountRequest, Goto, TypeInv, RegionsRight, dataVars
    <2> QED  BY <1>0, <1>2, <2>1, QuietStep DEF CountRequest, Goto, TypeInv, dataVars
  <1>3. ASSUME NEW w \in Workers, LookupToken(w)
        PROVE  Goal
    <2>1. RegionsRight'
      BY <1>0, <1>3 DEF LookupToken, GetToken, MissToken, Goto, TypeInv, RegionsRight, dataVars
    <2> QED  BY <1>0, <1>3, <2>1, QuietStep DEF LookupToken, GetToken, MissToken, Goto, TypeInv, dataVars
  <1>4. ASSUME NEW w \in Workers, PutToken(w)
        PROVE  Goal
    <2>1. pc[w] = "putToken" /\ user[w] \in Users /\ token[w] \in Tokens
      BY <1>4 DEF PutToken, TypeInv
    <2>2. ~CommandFails(w)
      BY <2>1, FailureDisturbs
    <2>3. /\ cache' = Set(UserKey(user[w]), token[w])
          /\ pc' = [pc EXCEPT ![w] = "putRegion"]
          /\ UNCHANGED dataVars
      BY <1>4, <2>2 DEF PutToken, Stored, NotStored
    <2>4. RegionsRight'
      BY <1>0, <2>1, <2>3 DEF TypeInv, RegionsRight, dataVars
    <2>5. CacheRegions'
      BY <1>0, <2>1, <2>3, SetRegions, KeyFact, KeysApart
    <2>6. token[w] \in Putting' /\ Putting \subseteq Putting'
      BY <2>1, <2>3 DEF TypeInv, Putting, PuttingRegion, dataVars
    <2>7. Behind(cache', Putting')
      <3>1. UserKey(user[w]) \in Keys /\ token[w] \in Values /\ Behind(cache, Putting)
        BY <1>0, <2>1, KeyFact DEF RegionBehind
      <3>2. Behind(Set(UserKey(user[w]), token[w]), Putting')
        BY <2>6, <3>1, SetBehind
      <3> QED  BY <2>3, <3>2
    <2> QED  BY <2>4, <2>5, <2>7 DEF RegionBehind, Behind, UserKey, RegionKey
  <1>5. ASSUME NEW w \in Workers, PutRegion(w)
        PROVE  Goal
    <2>1. /\ pc[w] = "putRegion" /\ token[w] \in Tokens /\ region[w] \in Users \cup {None}
          /\ token[w] \in Issued /\ region[w] = Owner[token[w]]
      BY <1>0, <1>5 DEF PutRegion, TypeInv, TokensOwned, OwnToken, RegionsRight
    <2>2. ~CommandFails(w)
      BY <2>1, FailureDisturbs
    <2>3. /\ cache' = Set(RegionKey(token[w]), region[w])
          /\ pc' = [pc EXCEPT ![w] = "getGateway"]
          /\ UNCHANGED dataVars
      BY <1>5, <2>2 DEF PutRegion, Stored, NotStored
    <2>4. RegionsRight'
      BY <1>0, <2>1, <2>3 DEF TypeInv, RegionsRight, dataVars
    <2>5. CacheRegions'
      BY <1>0, <2>1, <2>3, SetRegions, KeyFact, KeysApart
    <2>6. \A t \in Putting : t \in Putting' \/ RegionKey(token[w]) = RegionKey(t)
      BY <2>1, <2>3 DEF TypeInv, Putting, PuttingRegion, dataVars
    <2>7. Behind(cache', Putting')
      <3>1. /\ RegionKey(token[w]) \in Keys /\ region[w] \in Values /\ Behind(cache, Putting)
            /\ \A u \in Users : RegionKey(token[w]) # UserKey(u)
        BY <1>0, <2>1, KeyFact, KeysApart DEF RegionBehind
      <3>2. Behind(Set(RegionKey(token[w]), region[w]), Putting')
        BY <2>6, <3>1, SetBehind
      <3> QED  BY <2>3, <3>2
    <2> QED  BY <2>4, <2>5, <2>7 DEF RegionBehind, Behind, UserKey, RegionKey
  <1>6. ASSUME NEW w \in Workers, GetRegion(w)
        PROVE  Goal
    <2>1. pc[w] = "getRegion" /\ user[w] \in Users /\ token[w] \in Tokens /\ OwnToken(w)
      BY <1>6 DEF GetRegion, Goto, TypeInv, TokensOwned
    <2>2. ~CommandFails(w)
      BY <2>1, FailureDisturbs
    <2>3. region'[w] = user[w]
      <3>1. ASSUME NEW r \in Users, Found(w, RegionKey(token[w]), r),
                   region' = [region EXCEPT ![w] = r]
            PROVE  region'[w] = user[w]
        <4>1. PICK i \in 1..Len(cache) : cache[i] = [key |-> RegionKey(token[w]), value |-> r]
          BY <3>1 DEF Found, ToSet, TypeInv
        <4>2. r = Owner[token[w]]
          BY <1>0, <2>1, <4>1 DEF CacheRegions
        <4> QED  BY <2>1, <3>1, <4>2 DEF OwnToken, TypeInv
      <3>2. ASSUME NotFound(w, RegionKey(token[w])), ~Overtakes(w)
            PROVE  FALSE
        <4>1. PICK i \in 1..Len(cache) : cache[i] = [key |-> UserKey(user[w]), value |-> token[w]]
          BY <3>2 DEF Overtakes, ToSet, TypeInv
        <4>2. token[w] \notin Putting
          BY <3>2 DEF Overtakes, Putting, PuttingRegion
        <4>3. PICK j \in i..Len(cache) : cache[j].key = RegionKey(token[w])
          BY <1>0, <2>1, <4>1, <4>2 DEF RegionBehind, Behind
        <4>4. j \in 1..Len(cache) /\ cache[j] \in ToSet(cache)
          BY <4>3 DEF TypeInv, ToSet
        <4>5. cache[j].value = Owner[token[w]]
          BY <1>0, <2>1, <4>3, <4>4 DEF CacheRegions
        <4>6. cache[j].value = None
          BY <3>2, <4>3, <4>4 DEF NotFound
        <4> QED  BY <2>1, <4>5, <4>6, TokenAssumption DEF OwnToken
      <3> QED  BY <1>6, <2>2, <3>1, <3>2 DEF GetRegion
    <2>4. \A v \in Workers \ {w} : region'[v] = region[v]
      BY <1>6 DEF GetRegion, TypeInv
    <2>5. RegionsRight'
      BY <1>0, <1>6, <2>3, <2>4 DEF GetRegion, Goto, TypeInv, RegionsRight
    <2> QED  BY <1>0, <1>6, <2>5, QuietStep DEF GetRegion, Goto, TypeInv
  <1>7. ASSUME NEW w \in Workers, GetGateway(w)
        PROVE  Goal
    <2>1. RegionsRight'
      BY <1>0, <1>7 DEF GetGateway, Goto, TypeInv, RegionsRight, dataVars
    <2> QED  BY <1>0, <1>7, <2>1, QuietStep DEF GetGateway, Goto, TypeInv, dataVars
  <1>8. ASSUME NEW w \in Workers, PutGateway(w)
        PROVE  Goal
    <2>1. pc[w] = "putGateway" /\ pc' = [pc EXCEPT ![w] = "orders"] /\ UNCHANGED dataVars
      BY <1>8 DEF PutGateway, Goto
    <2>2. cache' = Set(GatewayKey, "gateway")
      BY <1>8, <2>1, FailureDisturbs DEF PutGateway, Stored, NotStored
    <2>3. RegionsRight'
      BY <1>0, <2>1 DEF TypeInv, RegionsRight, dataVars
    <2>4. CacheRegions'
      BY <1>0, <2>2, SetRegions, KeyFact, KeysApart
    <2>5. Putting \subseteq Putting'
      BY <2>1 DEF TypeInv, Putting, PuttingRegion, dataVars
    <2>6. Behind(cache', Putting')
      <3>1. Behind(cache, Putting)
        BY <1>0 DEF RegionBehind
      <3>2. Behind(Set(GatewayKey, "gateway"), Putting')
        BY <2>5, <3>1, SetBehind, KeyFact, KeysApart
      <3> QED  BY <2>2, <3>2
    <2> QED  BY <2>3, <2>4, <2>6 DEF RegionBehind, Behind, UserKey, RegionKey
  <1>9. ASSUME NEW w \in Workers, PickOrder(w)
        PROVE  Goal
    <2>1. RegionsRight'
      BY <1>0, <1>9 DEF PickOrder, Return, TypeInv, RegionsRight, dataVars
    <2> QED  BY <1>0, <1>9, <2>1, QuietStep DEF PickOrder, Return, TypeInv, dataVars
  <1>10. ASSUME NEW w \in Workers, DataHubNext(w)
         PROVE  Goal
    <2>1. ~VerifyCut(w)
      BY DEF VerifyCut
    <2>2. CASE Verify(w)
      <3>1. RegionsRight'
        BY <1>0, <2>2 DEF Verify, Goto, TypeInv, RegionsRight
      <3> QED  BY <1>0, <2>2, <3>1, QuietStep DEF Verify, Goto, TypeInv
    <2>3. CASE Refuse(w)
      <3>1. RegionsRight'
        BY <1>0, <2>3 DEF Refuse, Return, TypeInv, RegionsRight
      <3> QED  BY <1>0, <2>3, <3>1, QuietStep DEF Refuse, Return, TypeInv
    <2>4. CASE FetchGateway(w)
      <3>1. RegionsRight'
        BY <1>0, <2>4 DEF FetchGateway, Goto, Return, TypeInv, RegionsRight, dataVars
      <3> QED  BY <1>0, <2>4, <3>1, QuietStep DEF FetchGateway, Goto, Return, TypeInv, dataVars
    <2> QED  BY <1>10, <2>1, <2>2, <2>3, <2>4 DEF DataHubNext
  <1>11. CASE Expire
    <2>1. RegionsRight' /\ Putting' = Putting
      BY <1>0, <1>11 DEF Expire, RegionsRight, Putting, PuttingRegion, dataVars
    <2>2. Behind(cache', Putting) /\ CacheRegions'
      BY <1>0, <1>11, TailRegions DEF RegionBehind
    <2> QED  BY <2>1, <2>2 DEF RegionBehind, Behind, UserKey, RegionKey
  <1>12. CASE (\E w \in Workers : Break(w)) \/ (\E t \in Tokens : Revoke(t)) \/ UNCHANGED vars
    <2>1. RegionsRight'
      BY <1>0, <1>12 DEF Break, Revoke, vars, dataVars, RegionsRight
    <2> QED  BY <1>0, <1>12, <2>1, QuietStep DEF Break, Revoke, vars, dataVars
  <1> QED  BY <1>1, <1>2, <1>3, <1>4, <1>5, <1>6, <1>7, <1>8, <1>9, <1>10, <1>11, <1>12
           DEF Next, RedisNext

\* RegionIsUsers, for any number of workers, users and tokens: as long as no
\* command fails, no answer is cut and no worker overtakes another between its
\* two puts, the region BdxParseBody goes on with is that of its user, because a
\* token's region always expires after the token.
THEOREM RegionOfUser == Spec => []RegionIsUsers
  <1> DEFINE IInv == TypeInv /\ LinkInv /\ TokensOwned /\ CacheOwned /\ UndisturbedInv
  <1>1. Init => IInv
    BY InitType DEF Init, LinkInv, Broken, TokensOwned, CacheOwned, Authenticated,
                    UndisturbedInv, RegionsRight, CacheRegions, RegionBehind, Behind
  <1>2. IInv /\ [Next]_vars => IInv'
    BY TypeStep, LinkStep, IssuedStep, RegionStep
  <1>3. IInv => RegionIsUsers
    BY DEF UndisturbedInv, RegionsRight, RegionIsUsers
  <1> QED  BY <1>1, <1>2, <1>3, PTL DEF Spec
=============================================================================
