----------------------------- MODULE RateLimit -----------------------------
(***************************************************************************)
(* The rate limiter of the API.  All replicas share fixed-window counters  *)
(* in Redis; a replica that gets no answer from Redis counts in its own    *)
(* memory, where it keeps at most MaxEntries counters, or refuses to judge *)
(* (RATE_LIMIT_FAIL_OPEN=false).  Whether a replica talks to Redis at all  *)
(* is decided once, by a PING when it starts.                              *)
(***************************************************************************)
EXTENDS Clock, Sequences, FiniteSets

CONSTANTS
    Replicas,      \* API processes
    Buckets,       \* what is counted: a client address or a key
    Budget,        \* limit + burst of the tier a bucket belongs to
    MaxEntries,    \* RATE_LIMIT_FALLBACK_MAX_ENTRIES
    Redis          \* the shared counters, as opposed to those of a replica

ASSUME BudgetAssumption == Budget \in [Buckets -> Nat \ {0}]
ASSUME EntriesAssumption == MaxEntries \in Nat \ {0}
ASSUME RedisAssumption == Redis \notin Replicas

VARIABLES
    failOpen,   \* RATE_LIMIT_FAIL_OPEN of the deployment
    hits,       \* Redis: the counter of every bucket for this window
    primary,    \* what a replica was built with: "stopped", "redis" or "none"
    local,      \* the counters of every replica, in the order of its OrderedDict
    grants      \* history: requests a counter allowed in this window, since the
                \* counter was last lost

limiterVars == <<failOpen, hits, primary, local, grants>>

Counters == Replicas \cup {Redis}

Least(n, m) == IF n <= m THEN n ELSE m

\* Counts beyond the budget are all alike.
OneMore(n, b) == Least(n + 1, Budget[b] + 1)

Entry == [bucket : Buckets, window : Times, hits : Nat]

Cleared == [b \in Buckets |-> 0]

LimiterTypeOK ==
    /\ failOpen \in BOOLEAN
    /\ hits \in [Buckets -> Nat]
    /\ primary \in [Replicas -> {"stopped", "redis", "none"}]
    /\ local \in [Replicas -> Seq(Entry)]
    /\ grants \in [Counters -> [Buckets -> Nat]]

LimiterInit ==
    /\ failOpen \in BOOLEAN
    /\ hits = Cleared
    /\ primary = [r \in Replicas |-> "stopped"]
    /\ local = [r \in Replicas |-> <<>>]
    /\ grants = [c \in Counters |-> Cleared]

----------------------------------------------------------------------------
(* InProcessWindowLimiter.                                                 *)

HasCurrent(l, b) == \E i \in DOMAIN l : l[i].bucket = b /\ l[i].window = now

Evicted_WhenOverfull(l, b) ==
    IF ~HasCurrent(l, b) /\ Len(l) > MaxEntries THEN {Head(l).bucket} ELSE {}

\* The entry that makes room: the one inserted first, even if it is not the
\* one with the oldest window.
Evicted(l, b) ==
    IF ~HasCurrent(l, b) /\ Len(l) >= MaxEntries THEN {Head(l).bucket} ELSE {}

BucketFor_NextWindow(l, b) == Append(l, [bucket |-> b, window |-> now + 1, hits |-> 0])

\* The counters after _bucket_for: b has an entry of this window.  A stale entry
\* is renewed where it stands.
BucketFor(l, b) ==
    LET kept  == IF Evicted(l, b) = {} THEN l ELSE Tail(l)
        fresh == [bucket |-> b, window |-> now, hits |-> 0]
    IN  IF HasCurrent(l, b) THEN l
        ELSE IF \E i \in DOMAIN kept : kept[i].bucket = b
        THEN [i \in DOMAIN kept |-> IF kept[i].bucket = b THEN fresh ELSE kept[i]]
        ELSE Append(kept, fresh)

\* One more hit of b.
Hit(l, b) ==
    [i \in DOMAIN l |-> IF l[i].bucket = b THEN [l[i] EXCEPT !.hits = OneMore(@, b)] ELSE l[i]]

HitsOf(l, b) == IF \E i \in DOMAIN l : l[i].bucket = b
                THEN l[CHOOSE i \in DOMAIN l : l[i].bucket = b].hits
                ELSE 0

LocalCounters(r, b) == Hit(BucketFor(local[r], b), b)

LocalAllows(r, b) == HitsOf(LocalCounters(r, b), b) <= Budget[b]

Granted(g, b, allowed) == IF allowed THEN [g EXCEPT ![b] = OneMore(@, b)] ELSE g

CheckLocal(r, b) ==
    /\ local' = [local EXCEPT ![r] = LocalCounters(r, b)]
    /\ grants' = [grants EXCEPT ![r] =
                     Granted([x \in Buckets |-> IF x \in Evicted(local[r], b) THEN 0 ELSE @[x]],
                             b, LocalAllows(r, b))]

----------------------------------------------------------------------------
(* RedisWindowLimiter: the script increments and reads in one step.  The   *)
(* window w was read before the call was sent.  The counter of a window    *)
(* that has passed may have expired, so that what a late call finds there  *)
(* is not kept.                                                            *)

RedisCounters(b, w) == IF w = now THEN [hits EXCEPT ![b] = OneMore(@, b)] ELSE hits

RedisAllows_ReadsFirst(b) == hits[b] <= Budget[b]

RedisAllows(b) == RedisCounters(b, now)[b] <= Budget[b]

CheckRedis(b, w, allowed) ==
    /\ w = now => allowed = RedisAllows(b)
    /\ hits' = RedisCounters(b, w)
    /\ grants' = [grants EXCEPT ![Redis] = Granted(@, b, w = now /\ allowed)]

----------------------------------------------------------------------------
(* ResilientRateLimiter.                                                   *)

\* A replica without a primary never asks Redis again.
AsksRedis(r) == primary[r] = "redis"

\* build_limiter, at start-up: Redis answers the PING or it does not.
StartReplica(r) ==
    /\ primary[r] = "stopped"
    /\ \E pong \in BOOLEAN :
           primary' = [primary EXCEPT ![r] = IF pong THEN "redis" ELSE "none"]
    /\ UNCHANGED <<now, failOpen, hits, local, grants>>

\* Shutdown or crash: the counters of the process are gone.  The requests it was
\* serving end with it (see ApiAccess).
StopReplica(r) ==
    /\ primary[r] # "stopped"
    /\ primary' = [primary EXCEPT ![r] = "stopped"]
    /\ local' = [local EXCEPT ![r] = <<>>]
    /\ grants' = [grants EXCEPT ![r] = Cleared]
    /\ UNCHANGED <<now, failOpen, hits>>

----------------------------------------------------------------------------
(* Redis and time.                                                         *)

\* Redis evicts a counter for want of memory, or comes back without it.
RedisDrops(b) ==
    /\ hits[b] > 0
    /\ hits' = [hits EXCEPT ![b] = 0]
    /\ grants' = [grants EXCEPT ![Redis][b] = 0]
    /\ UNCHANGED <<now, failOpen, primary, local>>

NextWindow ==
    /\ now < MaxTime
    /\ now' = now + 1
    /\ hits' = Cleared
    /\ grants' = [c \in Counters |-> Cleared]
    /\ UNCHANGED <<failOpen, primary, local>>

LimiterStep ==
    \/ \E r \in Replicas : StartReplica(r)
    \/ \E b \in Buckets : RedisDrops(b)
    \/ NextWindow

----------------------------------------------------------------------------
(* What the limiter promises.                                              *)

\* In one window no counter, neither the one all replicas share in Redis nor
\* that of a replica, allows more requests of a bucket than its budget, unless
\* the counter was lost in between (a restart, an eviction).
GrantsWithinBudget == \A c \in Counters, b \in Buckets : grants[c][b] <= Budget[b]

\* However many clients come, a replica keeps at most MaxEntries counters, and
\* never two of one bucket.
FallbackIsBounded ==
    \A r \in Replicas :
        /\ Len(local[r]) <= MaxEntries
        /\ \A i, j \in DOMAIN local[r] : local[r][i].bucket = local[r][j].bucket => i = j
----------------------------------------------------------------------------
(* Why: grants follow the counters they speak of.                          *)

\* What Redis allowed it has counted, and what a replica allowed it has counted
\* in an entry of this window that it still has.
CountersAgree ==
    /\ \A b \in Buckets : grants[Redis][b] <= hits[b]
    /\ \A r \in Replicas, b \in Buckets :
          grants[r][b] > 0 =>
             \E i \in DOMAIN local[r] :
                /\ local[r][i].bucket = b /\ local[r][i].window = now
                /\ grants[r][b] <= local[r][i].hits
=============================================================================
