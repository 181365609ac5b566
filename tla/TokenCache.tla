------------------------------ MODULE TokenCache ------------------------------
(***************************************************************************)
(* Authentication of a request, the first part of CTaskMain::BdxParseBody, *)
(* and the connections to Redis it uses (CDataAdapter, CDataRedis).        *)
(*                                                                         *)
(* A user's token and the user's region are checked with the DataHub and   *)
(* kept in Redis for three hours, in two keys that are put one after the   *)
(* other; so is the gateway's own token.  Every worker has a connection to *)
(* Redis of its own, which may break at any time; CDataRedis notices it    *)
(* when a command fails and connects again for the next one.               *)
(*                                                                         *)
(* Redis stays the same while connections break.  The connection that every*)
(* worker makes when it is created is taken to succeed.                    *)
(***************************************************************************)
EXTENDS Integers, Sequences, SequencesExt

CONSTANTS
    Workers,   \* the worker threads
    Users,     \* access key ids
    Tokens,    \* what clients send as a signature
    Issued,    \* the tokens the DataHub has issued
    Owner,     \* Owner[t]: the user to whom token t was issued
    None       \* no value

ASSUME TokenAssumption ==
    /\ Issued \subseteq Tokens
    /\ Owner \in [Issued -> Users]
    /\ None \notin Users \cup Tokens

VARIABLES
    valid,     \* the tokens the DataHub accepts
    cache,     \* the keys in Redis with their values, in the order of their last SET
    link,      \* link[w]: context_ of worker w: connected ("up"), NULL ("none"), or
               \* broken without w having noticed, by where w was at the time
    pc,        \* pc[w]: where worker w is in BdxParseBody
    user,      \* user[w]: strAccessKeyId
    token,     \* token[w]: strSinature
    region,    \* region[w]: m_sRegion of the CTaskMain, by the user whose region it is
    crashed,   \* the process has ended
    disturbed  \* something has happened that can cost a request its region

dataVars == <<user, token, region>>
vars == <<valid, cache, link, pc, dataVars, crashed, disturbed>>

-----------------------------------------------------------------------------
(* Redis.  All keys have the same time to live, so they expire in the      *)
(* order in which they were set.                                           *)

UserKey(u) == <<"token", u>>
RegionKey(t) == <<"sregion", t>>
GatewayKey == <<"token", None>>

\* SET gives the key its value and a new time to live: its old entry, if there
\* is one, goes, and the new one expires last.
Set(key, value) ==
    LET old == {i \in DOMAIN cache : cache[i].key = key}
        others == IF old = {} THEN cache ELSE RemoveAt(cache, CHOOSE i \in old : TRUE)
    IN Append(others, [key |-> key, value |-> value])

Expire ==
    /\ cache # <<>>
    /\ cache' = Tail(cache)
    /\ UNCHANGED <<valid, link, pc, dataVars, crashed, disturbed>>

Init ==
    /\ valid = Issued
    /\ cache = <<>>
    /\ link = [w \in Workers |-> "up"]
    /\ pc = [w \in Workers |-> "idle"]
    /\ user = [w \in Workers |-> None]
    /\ token = [w \in Workers |-> None]
    /\ region = [w \in Workers |-> None]
    /\ crashed = FALSE
    /\ disturbed = FALSE

\* The DataHub no longer accepts a token.
Revoke(t) ==
    /\ t \in valid
    /\ valid' = valid \ {t}
    /\ UNCHANGED <<cache, link, pc, dataVars, crashed, disturbed>>

\* The connection breaks, between two requests or in the middle of one.
Break(w) ==
    /\ link[w] = "up"
    /\ link' = [link EXCEPT ![w] = pc[w]]
    /\ UNCHANGED <<valid, cache, pc, dataVars, crashed, disturbed>>

-----------------------------------------------------------------------------
(* Commands.                                                               *)

\* The connection is broken and worker w does not know.
Broken(w) == link[w] \notin {"up", "none"}

\* Faulty variant: a failed command leaves the broken context in place.
CommandFailsKeeps(w) ==
    /\ link[w] # "up"
    /\ UNCHANGED link
    /\ disturbed' = (disturbed \/ link[w] # "idle")

\* KeepConnect finds no server, or redisCommand returns NULL, whereupon
\* DisConnect frees the context.
CommandFails(w) ==
    /\ link[w] # "up"
    /\ link' = [link EXCEPT ![w] = "none"]
    /\ disturbed' = (disturbed \/ link[w] # "idle")

\* KeepConnect connects where there is no context.
CommandWorks(w) ==
    /\ ~Broken(w)
    /\ link' = [link EXCEPT ![w] = "up"]

\* GetValue: also a key without a value is a failure, and disconnects.
Found(w, key, value) ==
    /\ CommandWorks(w)
    /\ [key |-> key, value |-> value] \in ToSet(cache)
    /\ value # None

NotFound(w, key) ==
    /\ ~Broken(w)
    /\ \A e \in ToSet(cache) : e.key = key => e.value = None
    /\ link' = [link EXCEPT ![w] = "none"]

\* SetValue.  Redis may have executed a command whose reply was lost.
Stored(w, key, value) == CommandWorks(w) /\ cache' = Set(key, value)
NotStored(w, key, value) ==
    /\ CommandFails(w)
    /\ \/ UNCHANGED cache
       \/ Broken(w) /\ cache' = Set(key, value)

-----------------------------------------------------------------------------
(* Worker w in BdxParseBody.                                               *)

Goto(w, from, to) == pc[w] = from /\ pc' = [pc EXCEPT ![w] = to]

\* The request is over; its locals are dead.
Return(w) ==
    /\ pc' = [pc EXCEPT ![w] = "idle"]
    /\ user' = [user EXCEPT ![w] = None]
    /\ token' = [token EXCEPT ![w] = None]
    /\ region' = [region EXCEPT ![w] = None]

\* A GET request with all four parameters; any other is refused ("1100",
\* "1101") before it touches Redis.  m_sRegion is what the last request on the
\* same connection has left: nothing, or the region of that request's user.
Receive(w) ==
    /\ Goto(w, "idle", "count")
    /\ \E u \in Users : user' = [user EXCEPT ![w] = u]
    /\ \E t \in Tokens : token' = [token EXCEPT ![w] = t]
    /\ \E r \in Users \cup {None} : region' = [region EXCEPT ![w] = r]
    /\ UNCHANGED <<valid, cache, link, crashed, disturbed>>

\* UserIncr of the request counter, whose result nobody looks at.
CountRequest(w) ==
    /\ Goto(w, "count", "getToken")
    /\ CommandFails(w) \/ (CommandWorks(w) /\ UNCHANGED disturbed)
    /\ UNCHANGED <<valid, cache, dataVars, crashed>>

\* Faulty variant: a hit renews the three hours.
GetTokenRenews(w) ==
    /\ Found(w, UserKey(user[w]), token[w])
    /\ cache' = Set(UserKey(user[w]), token[w])
    /\ Goto(w, "getToken", "getRegion")
    /\ UNCHANGED disturbed

\* Faulty variant: whatever token is cached for the user will do.
GetTokenAny(w) ==
    /\ \E t \in Tokens : Found(w, UserKey(user[w]), t)
    /\ Goto(w, "getToken", "getRegion")
    /\ UNCHANGED <<cache, disturbed>>

\* UserGet(strUserToken) finds the token of the request.
GetToken(w) ==
    /\ Found(w, UserKey(user[w]), token[w])
    /\ Goto(w, "getToken", "getRegion")
    /\ UNCHANGED <<cache, disturbed>>

\* It finds another token, none, or fails.
MissToken(w) ==
    /\ Goto(w, "getToken", "verify")
    /\ \/ CommandFails(w)
       \/ /\ NotFound(w, UserKey(user[w]))
          /\ UNCHANGED disturbed
       \/ /\ \E t \in Tokens \ {token[w]} : Found(w, UserKey(user[w]), t)
          /\ UNCHANGED disturbed
    /\ UNCHANGED cache

LookupToken(w) ==
    /\ GetToken(w) \/ MissToken(w)
    /\ UNCHANGED <<valid, dataVars, crashed>>

\* The DataHub accepts the token of the user.
Accepts(w) == token[w] \in valid /\ Owner[token[w]] = user[w]

\* BdxVerifyDataHubToken returns 1 and sets m_sRegion.
Verify(w) ==
    /\ Goto(w, "verify", "putToken")
    /\ Accepts(w)
    /\ region' = [region EXCEPT ![w] = user[w]]
    /\ UNCHANGED <<valid, cache, link, user, token, crashed, disturbed>>

\* The answer was read up to its "OK" only: it cannot be parsed, and m_sRegion
\* keeps its old value.
VerifyCut(w) ==
    /\ Goto(w, "verify", "putToken")
    /\ Accepts(w)
    /\ disturbed' = TRUE
    /\ UNCHANGED <<valid, cache, link, dataVars, crashed>>

\* "8001 user token is error": refused, or no answer.
Refuse(w) ==
    /\ pc[w] = "verify"
    /\ Return(w)
    /\ UNCHANGED <<valid, cache, link, crashed, disturbed>>

\* UserPutExpire(strUserToken); "8008" when it fails.
PutToken(w) ==
    /\ pc[w] = "putToken"
    /\ \/ /\ Stored(w, UserKey(user[w]), token[w])
          /\ pc' = [pc EXCEPT ![w] = "putRegion"]
          /\ UNCHANGED <<dataVars, disturbed>>
       \/ /\ NotStored(w, UserKey(user[w]), token[w])
          /\ Return(w)
    /\ UNCHANGED <<valid, crashed>>

\* UserPutExpire(strTokenRegion); "8008" when it fails.
PutRegion(w) ==
    /\ pc[w] = "putRegion"
    /\ \/ /\ Stored(w, RegionKey(token[w]), region[w])
          /\ pc' = [pc EXCEPT ![w] = "getGateway"]
          /\ UNCHANGED <<dataVars, disturbed>>
       \/ /\ NotStored(w, RegionKey(token[w]), region[w])
          /\ Return(w)
    /\ UNCHANGED <<valid, crashed>>

\* Some worker has put this token and not yet its region; or the token has
\* gone from the cache since w found it there.
Overtakes(w) ==
    \/ \E v \in Workers : pc[v] = "putRegion" /\ token[v] = token[w]
    \/ [key |-> UserKey(user[w]), value |-> token[w]] \notin ToSet(cache)

\* UserGet(strTokenRegion, m_sRegion), whose result nobody looks at.
GetRegion(w) ==
    /\ Goto(w, "getRegion", "getGateway")
    /\ \/ /\ \E r \in Users :
                /\ Found(w, RegionKey(token[w]), r)
                /\ region' = [region EXCEPT ![w] = r]
          /\ UNCHANGED disturbed
       \/ /\ NotFound(w, RegionKey(token[w]))
          /\ disturbed' = (disturbed \/ Overtakes(w))
          /\ UNCHANGED region
       \/ CommandFails(w) /\ UNCHANGED region
    /\ UNCHANGED <<valid, cache, user, token, crashed>>

\* UserGet(strApiGateWayToken).
GetGateway(w) ==
    /\ \/ /\ Goto(w, "getGateway", "orders")
          /\ Found(w, GatewayKey, "gateway")
          /\ UNCHANGED disturbed
       \/ /\ Goto(w, "getGateway", "fetchGateway")
          /\ CommandFails(w) \/ (NotFound(w, GatewayKey) /\ UNCHANGED disturbed)
    /\ UNCHANGED <<valid, cache, dataVars, crashed>>

\* BdxApiGateWayGetDataHubToken; "8002" without an answer.
FetchGateway(w) ==
    /\ \/ Goto(w, "fetchGateway", "putGateway") /\ UNCHANGED dataVars
       \/ pc[w] = "fetchGateway" /\ Return(w)
    /\ UNCHANGED <<valid, cache, link, crashed, disturbed>>

\* UserPutExpire(strApiGateWayToken), whose result nobody looks at.
PutGateway(w) ==
    /\ Goto(w, "putGateway", "orders")
    /\ \/ Stored(w, GatewayKey, "gateway") /\ UNCHANGED disturbed
       \/ NotStored(w, GatewayKey, "gateway")
    /\ UNCHANGED <<valid, dataVars, crashed>>

\* UserGetSortedSet, with which the work on the orders begins (module Orders).
\* GetValueSortedSet looks into the reply before it tests it for NULL.
PickOrder(w) ==
    /\ pc[w] = "orders"
    /\ \/ /\ CommandWorks(w) \/ (link[w] = "none" /\ UNCHANGED link)
          /\ Return(w)
          /\ UNCHANGED crashed
       \/ /\ Broken(w)
          /\ crashed' = TRUE
          /\ UNCHANGED <<link, pc, dataVars>>
    /\ UNCHANGED <<valid, cache, disturbed>>

RedisNext(w) ==
    \/ CountRequest(w) \/ LookupToken(w)
    \/ PutToken(w) \/ PutRegion(w) \/ GetRegion(w)
    \/ GetGateway(w) \/ PutGateway(w)
    \/ PickOrder(w)

DataHubNext(w) == Verify(w) \/ VerifyCut(w) \/ Refuse(w) \/ FetchGateway(w)

-----------------------------------------------------------------------------
Next ==
    /\ ~crashed
    /\ \/ \E w \in Workers : Receive(w) \/ RedisNext(w) \/ DataHubNext(w) \/ Break(w)
       \/ Expire
       \/ \E t \in Tokens : Revoke(t)

\* Redis lets keys expire, and answers commands or breaks the connection.  The
\* DataHub need not answer.
Fairness ==
    /\ WF_vars(~crashed /\ Expire)
    /\ \A w \in Workers : WF_vars(~crashed /\ RedisNext(w))

Spec == Init /\ [][Next]_vars /\ Fairness

-----------------------------------------------------------------------------
(* Properties.                                                             *)

Authenticated(w) == pc[w] \in {"getGateway", "fetchGateway", "putGateway", "orders"}

\* However workers interleave and connections break, a request passes the
\* authentication only with a token the DataHub has issued to its user: what
\* a worker finds in the cache was put there after a verification.
OnlyIssuedTokens ==
    \A w \in Workers : Authenticated(w) => token[w] \in Issued /\ Owner[token[w]] = user[w]

\* The orders are looked up at the DataHub under m_sRegion.  It is the region
\* of the user, unless a worker has overtaken another between its two puts, the
\* keys have expired between a worker's two lookups, a command failed in
\* the middle of a request, or an answer of the DataHub was cut: a cached
\* token never outlives its cached region.
RegionIsUsers ==
    ~disturbed => \A w \in Workers : Authenticated(w) => region[w] = user[w]

\* A broken connection is noticed by the next command on it: the one that
\* cannot bear it (GetValueSortedSet) ends the process only if the connection
\* broke after the last command of the authentication, and never because it
\* broke between two requests or earlier in this one.
BreakNoticedAtOnce ==
    \A w \in Workers : pc[w] = "orders" /\ Broken(w) => link[w] = "orders"

\* With a token that the DataHub no longer accepts nobody comes to the orders
\* for ever: a hit does not renew its three hours, and a worker that puts it after its
\* revocation has begun before.
RevokedRefused ==
    \A t \in Tokens :
        <>[](t \notin valid) =>
            <>[](crashed \/ \A w \in Workers : pc[w] = "orders" => token[w] # t)
=============================================================================
