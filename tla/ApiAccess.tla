----------------------------- MODULE ApiAccess -----------------------------
(***************************************************************************)
(* A request to the API: the middleware that limits public paths, the      *)
(* access dependency of the protected routers (authentication, scope,      *)
(* limit, usage audit) and the handler.  It composes the rate limiter with *)
(* the keys.  A caller is one request slot: it makes requests one after    *)
(* the other, to any replica, with any key.                                *)
(***************************************************************************)
EXTENDS RateLimit, ApiKeys

CONSTANTS
    Presented,   \* the keys that clients hold
    Areas        \* the first path segments that are requested

VARIABLES
    enforced,    \* API_KEYS_ENFORCED of the deployment
    request      \* the request of every caller

accessVars == <<enforced, request>>
vars == <<now, limiterVars, keyVars, accessVars>>

\* SCOPE_REQUIREMENTS: the areas behind api_access and the scope each needs.
ReadTenders == {"tenders", "search", "events", "municipalities"}
ReadGeography == {"provinces", "categories"}
ReadSources == {"sources", "operations"}
Protected == ReadTenders \cup ReadGeography \cup ReadSources
                 \cup {"documents", "statistics", "api-keys"}

RequiredScope(area) ==
    IF area \in ReadTenders THEN "read:tenders"
    ELSE IF area \in ReadGeography THEN "read:geography"
    ELSE IF area \in ReadSources THEN "read:sources"
    ELSE IF area = "api-keys" THEN "admin" ELSE "read:" \o area

LeftToAuth_NotTenders ==
    {"search", "sources", "municipalities", "provinces", "documents", "categories", "events",
     "statistics", "api-keys", "operations"}

\* The middleware has its own list of the areas it leaves to api_access.
LeftToAuth == {"tenders", "search", "sources"}
                 \cup {"municipalities", "provinces", "documents", "categories", "events",
                       "statistics", "api-keys", "operations"}

\* The one address all callers come from has the anonymous tier's bucket.
Client == "client"

ASSUME AreasAssumption == Areas \subseteq Protected \cup {"health"}
ASSUME BucketsAssumption == Presented \subseteq Keys /\ Buckets = Presented \cup {Client} /\ Client \notin Keys

Waiting == {"access", "expiring", "limit", "calling", "touch", "commit"}
Refusals == {"unauthenticated", "forbidden", "limited", "unavailable", "failed"}

Request == [at : Waiting \cup {"served"},
            replica : Replicas, area : Areas, key : Presented \cup {NoKey},
            asker : {"middleware", "access"},   \* who asks the limiter
            window : Times,                     \* as read before the call to Redis
            late : BOOLEAN,                     \* history: key unusable on arrival
            checks : 0..2]                      \* history: questions to the limiter

Idle == [at |-> "idle"]

\* Of a refused request only the answer is kept.
Refused == [at : Refusals]

TypeOK ==
    /\ now \in Times
    /\ LimiterTypeOK
    /\ KeysTypeOK
    /\ enforced \in BOOLEAN
    /\ request \in [Callers -> {Idle} \cup Refused \cup Request]

Init ==
    /\ now = 0
    /\ LimiterInit
    /\ KeysInit
    /\ enforced \in BOOLEAN
    /\ request = [c \in Callers |-> Idle]

At(c, place) == request[c].at = place
Passed(q, place) == IF place \in Refusals THEN [at |-> place] ELSE [q EXCEPT !.at = place]
Goes(c, place) == request' = [request EXCEPT ![c] = Passed(@, place)]

\* required_scope is None outside the table, and admin grants everything.
Granting(row, area) == "admin" \in row.scopes \/ RequiredScope(area) \in row.scopes

\* The bucket of the tier a request is limited in.
BucketOf(c) == IF request[c].asker = "access" /\ enforced THEN request[c].key ELSE Client

----------------------------------------------------------------------------
(* Arrival and the middleware.                                             *)

Issued == {k \in Keys : keys[k].status # "none"}

\* A key that nobody looks at does not matter.
Shown(area, k) == IF enforced /\ area \in Protected THEN k ELSE NoKey

Arrive(c, r, area, k) ==
    /\ At(c, "idle") /\ primary[r] # "stopped"
    /\ request' = [request EXCEPT ![c] =
           [at |-> IF area \in LeftToAuth THEN "access" ELSE "limit",
            asker |-> IF area \in LeftToAuth THEN "access" ELSE "middleware",
            replica |-> r, area |-> area, window |-> 0,
            key |-> Shown(area, k),
            late |-> Shown(area, k) \in Issued /\ ~IsValid(keys[k]), checks |-> 0]]
    /\ UNCHANGED <<now, limiterVars, keyVars, enforced>>

\* After the middleware: the access dependency of a protected router, or the
\* handler of a public path.
Route(c) == IF request[c].area \in Protected THEN "access" ELSE "served"

----------------------------------------------------------------------------
(* api_access: verify.                                                     *)

Verdict_IgnoresExpiry(row, area) ==
    IF row.status # "ACTIVE" THEN "unauthenticated"
    ELSE IF ~Granting(row, area) THEN "forbidden" ELSE "limit"

\* What verify makes of the row it reads.
Verdict(row, area) ==
    IF row.status \in {"none", "REVOKED"} THEN "unauthenticated"
    ELSE IF Expired(row) THEN IF row.status = "EXPIRED" THEN "unauthenticated" ELSE "expiring"
    ELSE IF row.status # "ACTIVE" THEN "unauthenticated"
    ELSE IF ~Granting(row, area) THEN "forbidden" ELSE "limit"

Verify(c) ==
    /\ At(c, "access")
    /\ request' = [request EXCEPT ![c] = Passed([@ EXCEPT !.asker = "access"],
           IF ~enforced THEN "limit"
           ELSE IF request[c].key = NoKey THEN "unauthenticated"
           ELSE Verdict(keys[request[c].key], request[c].area))]
    /\ UNCHANGED <<now, limiterVars, keyVars, enforced>>

AfterExpiry_Kept(k) == [keys EXCEPT ![k].status = "EXPIRED"]

\* An expired key is marked EXPIRED, and the exception that reports it rolls the
\* mark back.
AfterExpiry(k) == keys

Expire(c) ==
    LET k == request[c].key IN
    /\ At(c, "expiring")
    /\ \/ lockOf[k] = Nobody /\ lockOf' = [lockOf EXCEPT ![k] = c] /\ UNCHANGED <<keys, request>>
       \/ /\ lockOf[k] = c
          /\ keys' = AfterExpiry(k) /\ lockOf' = Released(c) /\ Goes(c, "unauthenticated")
    /\ UNCHANGED <<now, limiterVars, tx, enforced>>

----------------------------------------------------------------------------
(* The limiter's answer.  An exception (503) is swallowed by the           *)
(* middleware, which lets the request pass.                                *)

Judged(c, allowed) ==
    IF ~allowed THEN "limited"
    ELSE IF request[c].asker = "middleware" THEN Route(c)
    ELSE IF enforced THEN "touch" ELSE "served"

Unjudged(c) == IF request[c].asker = "middleware" THEN Route(c) ELSE "unavailable"

Proceed(c, place) ==
    LET judged == [request[c] EXCEPT !.window = 0, !.checks = @ + 1]
    IN  request' = [request EXCEPT ![c] = Passed(judged, place)]

\* The fallback of the replica, when it may be used.
FallBack(c) ==
    LET r == request[c].replica
        b == BucketOf(c)
    IN  IF failOpen
        THEN CheckLocal(r, b) /\ Proceed(c, Judged(c, LocalAllows(r, b)))
        ELSE UNCHANGED <<local, grants>> /\ Proceed(c, Unjudged(c))

\* The window is read before the call is sent.
Call(c) ==
    /\ At(c, "limit") /\ AsksRedis(request[c].replica)
    /\ request' = [request EXCEPT ![c].at = "calling", ![c].window = now]
    /\ UNCHANGED <<now, limiterVars, keyVars, enforced>>

NoPrimary(c) ==
    /\ At(c, "limit") /\ ~AsksRedis(request[c].replica)
    /\ FallBack(c)
    /\ UNCHANGED <<now, failOpen, hits, primary, keyVars, enforced>>

RedisAnswers(c) ==
    /\ At(c, "calling")
    /\ \E allowed \in BOOLEAN :
           /\ CheckRedis(BucketOf(c), request[c].window, allowed)
           /\ Proceed(c, Judged(c, allowed))
    /\ UNCHANGED <<now, failOpen, primary, local, keyVars, enforced>>

\* No answer (Redis is down, a timeout, a broken connection): the hit may have
\* been counted all the same.
RedisIsSilent(c) ==
    /\ At(c, "calling")
    /\ hits' \in {hits, RedisCounters(BucketOf(c), request[c].window)}
    /\ FallBack(c)
    /\ UNCHANGED <<now, failOpen, primary, keyVars, enforced>>

----------------------------------------------------------------------------
(* touch: the usage audit, in the request's own transaction.               *)

\* Only the columns of the last use are written.
Touched(k) == keys

Touch(c) ==
    LET k == request[c].key IN
    /\ At(c, "touch") /\ lockOf[k] = Nobody
    /\ lockOf' = [lockOf EXCEPT ![k] = c]
    /\ Goes(c, "commit")
    /\ UNCHANGED <<now, limiterVars, keys, tx, enforced>>

CommitTouch(c) ==
    /\ At(c, "commit")
    /\ keys' = Touched(request[c].key)
    /\ lockOf' = Released(c)
    /\ Goes(c, "served")
    /\ UNCHANGED <<now, limiterVars, tx, enforced>>

\* A failed flush or commit is logged and rolled back.  The rollback expires the
\* key's attributes, which the access log reads when the response is ready: the
\* request fails after all.
TouchFails(c) ==
    /\ request[c].at \in {"touch", "commit"}
    /\ lockOf' = Released(c)
    /\ Goes(c, "failed")
    /\ UNCHANGED <<now, limiterVars, keys, tx, enforced>>

----------------------------------------------------------------------------
(* The end of a request.                                                   *)

Leave(c) ==
    /\ request[c].at \in Refusals \cup {"served"}
    /\ request' = [request EXCEPT ![c] = Idle]
    /\ UNCHANGED <<now, limiterVars, keyVars, enforced>>

\* The requests of a replica that stops are cut off, and their transactions
\* rolled back.
On(r) == {c \in Callers : request[c].at \in Waiting /\ request[c].replica = r}

Stop(r) ==
    /\ StopReplica(r)
    /\ request' = [c \in Callers |-> IF c \in On(r) THEN Idle ELSE request[c]]
    /\ lockOf' = [k \in Keys |-> IF lockOf[k] \in On(r) THEN Nobody ELSE lockOf[k]]
    /\ UNCHANGED <<keys, tx, enforced>>

RequestStep(c) ==
    \/ \E r \in Replicas, area \in Areas, k \in Presented \cup {NoKey} : Arrive(c, r, area, k)
    \/ Verify(c)
    \/ Expire(c)
    \/ Call(c)
    \/ NoPrimary(c)
    \/ RedisAnswers(c)
    \/ RedisIsSilent(c)
    \/ Touch(c)
    \/ CommitTouch(c)
    \/ TouchFails(c)
    \/ Leave(c)

Next ==
    \/ \E c \in Callers : RequestStep(c)
    \/ \E r \in Replicas : Stop(r)
    \/ OperatorStep /\ UNCHANGED <<limiterVars, accessVars>>
    \/ LimiterStep /\ UNCHANGED <<keyVars, accessVars>>

Spec == Init /\ [][Next]_vars

----------------------------------------------------------------------------
(* What the composition promises.                                          *)

\* Revocation and expiry take effect on the next request (there is no credential
\* cache), and a protected area is served only to a key that grants its scope.
NoServiceAfterRevocation ==
    \A c \in Callers :
        At(c, "served") /\ enforced /\ request[c].area \in Protected =>
            /\ request[c].key # NoKey
            /\ ~request[c].late
            /\ Granting(keys[request[c].key], request[c].area)

\* Every request that is served was put to the limiter exactly once: the list of
\* the middleware and the table of api_access split the paths between them, so
\* that no client is charged in two tiers and none goes uncounted.
OneChargePerRequest ==
    \A c \in Callers :
        /\ At(c, "served") => request[c].checks = 1
        /\ request[c].at \in Waiting => request[c].checks <= 1
----------------------------------------------------------------------------
(* Why: the inductive invariant.                                           *)

\* Past verify, where the limiter is asked for the tier of the key.
Verified == {"limit", "calling", "touch", "commit", "served"}

\* A key that was unusable when it was read is unusable for good, and one that
\* verify accepted still grants what it granted.
RequestStands(q) ==
    /\ q.asker = "middleware" <=> q.area \notin Protected
    /\ q.at \in {"access", "expiring", "touch", "commit"} => q.asker = "access"
    /\ q.checks = IF q.at \in {"touch", "commit", "served"} THEN 1 ELSE 0
    /\ q.late => q.key # NoKey /\ keys[q.key].status # "none" /\ ~IsValid(keys[q.key])
    /\ q.at \in Verified /\ q.asker = "access" /\ enforced =>
          /\ q.key # NoKey /\ ~q.late
          /\ keys[q.key].status # "none" /\ Granting(keys[q.key], q.area)

RequestsStand ==
    \A c \in Callers : request[c].at \in Waiting \cup {"served"} => RequestStands(request[c])

IInv ==
    /\ TypeOK
    /\ GrantsWithinBudget /\ FallbackIsBounded /\ CountersAgree
    /\ RotationIsAtomic /\ TransactionsStand
    /\ RequestsStand
=============================================================================
