-------------------------- MODULE ApiAccessProofs --------------------------
(***************************************************************************)
(* Proofs about the access to the API, for any number of replicas, clients,*)
(* keys, operators and any budgets: no counter grants more than its budget,*)
(* the fallback of a replica stays bounded, a rotation is atomic, a revoked*)
(* key stays revoked and serves nobody, and a request is charged once.     *)
(*                                                                         *)
(* The argument is the inductive invariant IInv of ApiAccess.  It has three*)
(* parts, each about the state of one component: the limiter (grants follow*)
(* the counters that allowed them), the keys (what an open transaction read*)
(* stays true) and the requests (what verify established stays true).      *)
(***************************************************************************)
EXTENDS ApiAccess, SequenceTheorems, TLAPS

(***************************************************************************)
(* The limiter: counters of a replica.                                     *)
(***************************************************************************)
Bounded(l) ==
    /\ l \in Seq(Entry) /\ Len(l) <= MaxEntries
    /\ \A i, j \in DOMAIN l : l[i].bucket = l[j].bucket => i = j

\* A bounded list of the limiter is a sequence of at most MaxEntries entries.
LEMMA BoundedIsSeq ==
  ASSUME NEW l, Bounded(l)
  PROVE  l \in Seq(Entry) /\ DOMAIN l = 1..Len(l) /\ Len(l) \in Nat /\ Len(l) <= MaxEntries
BY DEF Bounded

\* What _bucket_for keeps of a replica's counters when it makes room.
LEMMA RoomIsMade ==
  ASSUME NEW l, Bounded(l), NEW b \in Buckets
  PROVE  LET kept == IF Evicted(l, b) = {} THEN l ELSE Tail(l) IN
         /\ Bounded(kept)
         /\ Evicted(l, b) # {} => Len(kept) < MaxEntries
         /\ Evicted(l, b) = {} => HasCurrent(l, b) \/ Len(kept) < MaxEntries
         /\ \A i \in DOMAIN l : l[i].bucket \notin Evicted(l, b) =>
               \E j \in DOMAIN kept : kept[j] = l[i]
<1>0. MaxEntries \in Nat /\ MaxEntries > 0
  BY EntriesAssumption
<1>1. CASE Evicted(l, b) = {}
  <2>1. HasCurrent(l, b) \/ Len(l) < MaxEntries
    BY <1>0, <1>1 DEF Evicted, Bounded
  <2> QED
    BY <1>1, <2>1
<1>2. CASE Evicted(l, b) # {}
  <2>1. Len(l) >= MaxEntries /\ Evicted(l, b) = {Head(l).bucket}
    BY <1>2 DEF Evicted
  <2>2. l # <<>> /\ l \in Seq(Entry)
    BY <2>1, <1>0 DEF Bounded
  <2>3. /\ Head(l) = l[1] /\ Tail(l) \in Seq(Entry) /\ Len(Tail(l)) = Len(l) - 1
        /\ \A i \in 1..Len(Tail(l)) : Tail(l)[i] = l[i + 1]
        /\ Len(l) \in Nat /\ Len(l) > 0
    BY <2>2, HeadTailProperties
  <2>4. DOMAIN l = 1..Len(l) /\ DOMAIN Tail(l) = 1..(Len(l) - 1)
    BY <2>2, <2>3
  <2>5. Bounded(Tail(l))
    BY <2>3, <2>4, <1>0 DEF Bounded
  <2>6. Len(Tail(l)) < MaxEntries
    BY <2>3, <1>0 DEF Bounded
  <2>7. ASSUME NEW i \in DOMAIN l, l[i].bucket \notin Evicted(l, b)
        PROVE  \E j \in DOMAIN Tail(l) : Tail(l)[j] = l[i]
    <3>1. i # 1
      BY <2>1, <2>3, <2>7
    <3>2. i - 1 \in DOMAIN Tail(l) /\ Tail(l)[i - 1] = l[i]
      BY <3>1, <2>3, <2>4
    <3> QED
      BY <3>2
  <2> QED
    BY <1>2, <2>5, <2>6, <2>7
<1> QED
  BY <1>1, <1>2

\* _bucket_for: the counters stay bounded, b has one of this window, and nobody's
\* counter but the evicted one is lost.
LEMMA BucketForKeeps ==
  ASSUME NEW l, Bounded(l), NEW b \in Buckets, now \in Times
  PROVE  /\ Bounded(BucketFor(l, b)) /\ HasCurrent(BucketFor(l, b), b)
         /\ HasCurrent(l, b) => BucketFor(l, b) = l
         /\ \A i \in DOMAIN l : l[i].bucket \notin Evicted(l, b) \cup {b} =>
               \E j \in DOMAIN BucketFor(l, b) : BucketFor(l, b)[j] = l[i]
<1> DEFINE kept == IF Evicted(l, b) = {} THEN l ELSE Tail(l)
           fresh == [bucket |-> b, window |-> now, hits |-> 0]
<1>0. /\ Bounded(kept)
      /\ ~HasCurrent(l, b) => Len(kept) < MaxEntries
      /\ \A i \in DOMAIN l : l[i].bucket \notin Evicted(l, b) =>
            \E j \in DOMAIN kept : kept[j] = l[i]
  BY RoomIsMade
<1>1. fresh \in Entry /\ fresh.bucket = b /\ fresh.window = now
  BY DEF Entry
<1>2. CASE HasCurrent(l, b)
  <2>1. BucketFor(l, b) = l
    BY <1>2 DEF BucketFor
  <2> QED
    BY <1>2, <2>1
<1>3. CASE ~HasCurrent(l, b) /\ \E i \in DOMAIN kept : kept[i].bucket = b
  <2> DEFINE m == [i \in DOMAIN kept |-> IF kept[i].bucket = b THEN fresh ELSE kept[i]]
  <2>1. BucketFor(l, b) = m
    BY <1>3 DEF BucketFor
  <2> HIDE DEF kept, fresh
  <2>2. kept \in Seq(Entry) /\ DOMAIN kept = 1..Len(kept) /\ Len(kept) \in Nat
    BY <1>0, BoundedIsSeq
  <2>3. m \in Seq(Entry) /\ Len(m) = Len(kept) /\ DOMAIN m = DOMAIN kept
    <3>1. \A i \in 1..Len(kept) : m[i] \in Entry
      BY <1>1, <2>2
    <3> QED
      BY <2>2, <3>1, IsASeq
  <2>4. \A i \in DOMAIN m : m[i].bucket = kept[i].bucket
    BY <1>1
  <2>5. Bounded(m)
    <3>1. \A i, j \in DOMAIN m : m[i].bucket = m[j].bucket => i = j
      BY <1>0, <2>3, <2>4 DEF Bounded
    <3>2. Len(m) <= MaxEntries
      BY <1>0, <2>3, BoundedIsSeq
    <3> HIDE DEF m
    <3> QED
      BY <2>3, <3>1, <3>2 DEF Bounded
  <2>6. HasCurrent(m, b)
    BY <1>1, <1>3, <2>3 DEF HasCurrent
  <2>7. \A i \in DOMAIN kept : kept[i].bucket # b => m[i] = kept[i]
    OBVIOUS
  <2> HIDE DEF m
  <2> QED
    BY <1>0, <1>3, <2>1, <2>3, <2>5, <2>6, <2>7
<1>4. CASE ~HasCurrent(l, b) /\ ~\E i \in DOMAIN kept : kept[i].bucket = b
  <2> DEFINE m == Append(kept, fresh)
  <2>1. BucketFor(l, b) = m
    BY <1>4 DEF BucketFor
  <2> HIDE DEF kept, fresh
  <2>2. kept \in Seq(Entry) /\ DOMAIN kept = 1..Len(kept) /\ Len(kept) \in Nat
    BY <1>0, BoundedIsSeq
  <2>3. /\ m \in Seq(Entry) /\ Len(m) = Len(kept) + 1
        /\ \A i \in 1..Len(kept) : m[i] = kept[i]
        /\ m[Len(kept) + 1] = fresh
    BY <1>1, <2>2, AppendProperties
  <2>4. DOMAIN m = 1..(Len(kept) + 1)
    BY <2>3
  <2> HIDE DEF m
  <2>5. Bounded(m)
    <3>1. Len(m) <= MaxEntries
      <4>1. Len(kept) < MaxEntries
        BY <1>0, <1>4
      <4> QED
        BY <4>1, <2>2, <2>3, EntriesAssumption
    <3>2. ASSUME NEW i \in DOMAIN m, NEW j \in DOMAIN m, m[i].bucket = m[j].bucket PROVE i = j
      <4>1. \A x, y \in DOMAIN kept : kept[x].bucket = kept[y].bucket => x = y
        BY <1>0 DEF Bounded
      <4>2. \A x \in DOMAIN kept : kept[x].bucket # b
        BY <1>4
      <4>3. CASE i \in DOMAIN kept /\ j \in DOMAIN kept
        BY <4>1, <4>3, <2>2, <2>3, <3>2
      <4>4. CASE i \in DOMAIN kept /\ j = Len(kept) + 1
        BY <4>2, <4>4, <1>1, <2>2, <2>3, <3>2
      <4>5. CASE i = Len(kept) + 1 /\ j \in DOMAIN kept
        BY <4>2, <4>5, <1>1, <2>2, <2>3, <3>2
      <4> QED
        BY <4>3, <4>4, <4>5, <2>2, <2>4
    <3> QED
      BY <2>3, <3>1, <3>2 DEF Bounded
  <2>6. HasCurrent(m, b)
    BY <1>1, <2>2, <2>3, <2>4 DEF HasCurrent
  <2>7. \A i \in DOMAIN kept : i \in DOMAIN m /\ m[i] = kept[i]
    BY <2>2, <2>3, <2>4
  <2> QED
    BY <1>0, <1>4, <2>1, <2>5, <2>6, <2>7
<1> QED
  BY <1>2, <1>3, <1>4

\* One more hit changes the counter of b, by one or up to the cap.
LEMMA HitCounts ==
  ASSUME NEW l, Bounded(l), NEW b \in Buckets
  PROVE  /\ Bounded(Hit(l, b)) /\ DOMAIN Hit(l, b) = DOMAIN l
         /\ \A i \in DOMAIN l :
               /\ l[i].bucket # b => Hit(l, b)[i] = l[i]
               /\ l[i].bucket = b =>
                     /\ Hit(l, b)[i].bucket = b /\ Hit(l, b)[i].window = l[i].window
                     /\ Hit(l, b)[i].hits = OneMore(l[i].hits, b)
<1>1. l \in Seq(Entry) /\ DOMAIN l = 1..Len(l) /\ Len(l) \in Nat
  BY DEF Bounded
<1>2. \A i \in DOMAIN l : l[i] \in Entry
  BY <1>1
<1>3. \A n \in Nat : OneMore(n, b) \in Nat
  BY BudgetAssumption DEF OneMore, Least
<1>4. \A i \in DOMAIN l :
        /\ Hit(l, b)[i] \in Entry
        /\ l[i].bucket # b => Hit(l, b)[i] = l[i]
        /\ l[i].bucket = b => /\ Hit(l, b)[i].bucket = b /\ Hit(l, b)[i].window = l[i].window
                              /\ Hit(l, b)[i].hits = OneMore(l[i].hits, b)
  BY <1>2, <1>3 DEF Hit, Entry
<1>5. Hit(l, b) = [i \in 1..Len(l) |-> Hit(l, b)[i]]
  BY <1>1 DEF Hit
<1>6. Hit(l, b) \in Seq(Entry) /\ Len(Hit(l, b)) = Len(l) /\ DOMAIN Hit(l, b) = DOMAIN l
  BY <1>1, <1>4, <1>5, IsASeq
<1>7. \A i \in DOMAIN l : Hit(l, b)[i].bucket = l[i].bucket
  BY <1>4
<1> QED
  BY <1>4, <1>6, <1>7 DEF Bounded

\* The hits of b are those of its one counter.
LEMMA HitsOfItsCounter ==
  ASSUME NEW l, Bounded(l), NEW i \in DOMAIN l
  PROVE  HitsOf(l, l[i].bucket) = l[i].hits
BY DEF HitsOf, Bounded

(***************************************************************************)
(* The limiter: its steps.                                                 *)
(***************************************************************************)
LimiterStands == now \in Times /\ LimiterTypeOK /\ GrantsWithinBudget /\ FallbackIsBounded /\ CountersAgree

\* A counter that is not over its budget counts the next request as well.
LEMMA OneMoreCounts ==
  ASSUME NEW b \in Buckets, NEW n \in Nat
  PROVE  /\ OneMore(n, b) \in Nat
         /\ OneMore(n, b) <= Budget[b] => OneMore(n, b) = n + 1
         /\ \A g \in Nat : g <= n /\ g <= Budget[b] => g <= OneMore(n, b)
         /\ \A g \in Nat : g <= n /\ OneMore(n, b) <= Budget[b] =>
               OneMore(g, b) <= OneMore(n, b) /\ OneMore(g, b) <= Budget[b]
<1>1. Budget[b] \in Nat
  BY BudgetAssumption
<1> QED
  BY <1>1 DEF OneMore, Least

\* The fallback list of a replica's process is bounded.
LEMMA LocalIsBounded ==
  ASSUME LimiterStands, NEW r \in Replicas
  PROVE  Bounded(local[r])
BY DEF LimiterStands, LimiterTypeOK, FallbackIsBounded, Bounded

\* The counters of a replica after it has judged a request of b itself.
LEMMA LocalCountersStand ==
  ASSUME LimiterStands, NEW r \in Replicas, NEW b \in Buckets,
         NEW g, g = Granted([x \in Buckets |-> IF x \in Evicted(local[r], b) THEN 0 ELSE grants[r][x]],
                            b, LocalAllows(r, b))
  PROVE  /\ Bounded(LocalCounters(r, b))
         /\ g \in [Buckets -> Nat]
         /\ \A x \in Buckets :
               /\ g[x] <= Budget[x]
               /\ g[x] > 0 => \E i \in DOMAIN LocalCounters(r, b) :
                                 /\ LocalCounters(r, b)[i].bucket = x
                                 /\ LocalCounters(r, b)[i].window = now
                                 /\ g[x] <= LocalCounters(r, b)[i].hits
<1> DEFINE l == local[r]
           m == BucketFor(l, b)
           n == LocalCounters(r, b)
           kept == [x \in Buckets |-> IF x \in Evicted(l, b) THEN 0 ELSE grants[r][x]]
<1>1. /\ Bounded(l) /\ now \in Times
      /\ grants[r] \in [Buckets -> Nat]
      /\ \A x \in Buckets : grants[r][x] <= Budget[x]
      /\ \A x \in Buckets : grants[r][x] > 0 =>
            \E i \in DOMAIN l : l[i].bucket = x /\ l[i].window = now /\ grants[r][x] <= l[i].hits
  BY LocalIsBounded DEF LimiterStands, LimiterTypeOK, GrantsWithinBudget, CountersAgree, Counters
<1>2. /\ Bounded(m) /\ HasCurrent(m, b)
      /\ HasCurrent(l, b) => m = l
      /\ \A i \in DOMAIN l : l[i].bucket \notin Evicted(l, b) \cup {b} =>
            \E j \in DOMAIN m : m[j] = l[i]
  BY <1>1, BucketForKeeps
<1>3. n = Hit(m, b)
  BY DEF LocalCounters
<1>4. /\ Bounded(n) /\ DOMAIN n = DOMAIN m
      /\ \A i \in DOMAIN m :
            /\ m[i].bucket # b => n[i] = m[i]
            /\ m[i].bucket = b => /\ n[i].bucket = b /\ n[i].window = m[i].window
                                  /\ n[i].hits = OneMore(m[i].hits, b)
  BY <1>2, <1>3, HitCounts
<1>5. PICK k \in DOMAIN m : m[k].bucket = b /\ m[k].window = now
  BY <1>2 DEF HasCurrent
<1>6. HitsOf(n, b) = OneMore(m[k].hits, b) /\ m[k].hits \in Nat
  <2>1. n[k].bucket = b
    BY <1>4, <1>5
  <2>2. HitsOf(n, n[k].bucket) = n[k].hits
    BY <1>4, <1>5, HitsOfItsCounter
  <2>3. m[k] \in Entry
    BY <1>2, BoundedIsSeq
  <2> QED
    BY <2>1, <2>2, <2>3, <1>4, <1>5 DEF Entry
<1>7. LocalAllows(r, b) <=> OneMore(m[k].hits, b) <= Budget[b]
  BY <1>6 DEF LocalAllows
<1>8. kept \in [Buckets -> Nat] /\ \A x \in Buckets : kept[x] <= Budget[x]
  BY <1>1, BudgetAssumption
<1>9. kept[b] <= m[k].hits
  <2>1. CASE HasCurrent(l, b)
    <3>1. m = l
      BY <1>2, <2>1
    <3>2. CASE grants[r][b] > 0
      <4>1. PICK i \in DOMAIN l : l[i].bucket = b /\ grants[r][b] <= l[i].hits
        BY <1>1, <3>2
      <4>2. i = k
        BY <1>1, <1>5, <3>1, <4>1 DEF Bounded
      <4> QED
        BY <1>6, <1>1, <3>1, <4>1, <4>2
    <3>3. CASE grants[r][b] = 0
      BY <1>6, <3>3
    <3> QED
      BY <1>1, <3>2, <3>3
  <2>2. CASE ~HasCurrent(l, b)
    <3>1. grants[r][b] = 0
      BY <1>1, <2>2 DEF HasCurrent
    <3> QED
      BY <1>6, <3>1
  <2> QED
    BY <2>1, <2>2
<1>10. g = Granted(kept, b, LocalAllows(r, b))
  OBVIOUS
<1>11. ASSUME NEW x \in Buckets, x # b, kept[x] > 0
       PROVE  \E i \in DOMAIN n : n[i].bucket = x /\ n[i].window = now /\ kept[x] <= n[i].hits
  <2>1. x \notin Evicted(l, b) /\ kept[x] = grants[r][x]
    BY <1>11, <1>1
  <2>2. PICK i \in DOMAIN l : l[i].bucket = x /\ l[i].window = now /\ grants[r][x] <= l[i].hits
    BY <1>1, <1>11, <2>1
  <2>3. PICK j \in DOMAIN m : m[j] = l[i]
    BY <1>2, <1>11, <2>1, <2>2
  <2>4. j \in DOMAIN n /\ n[j] = l[i]
    BY <1>4, <1>11, <2>2, <2>3
  <2> QED
    BY <2>1, <2>2, <2>4
<1> HIDE DEF kept, m, n, l
<1>12. CASE LocalAllows(r, b)
  <2>1. g = [kept EXCEPT ![b] = OneMore(@, b)]
    BY <1>10, <1>12 DEF Granted
  <2>2. OneMore(kept[b], b) \in Nat /\ OneMore(kept[b], b) <= Budget[b]
        /\ OneMore(kept[b], b) <= OneMore(m[k].hits, b)
    BY <1>6, <1>7, <1>8, <1>9, <1>12, OneMoreCounts
  <2>3. g \in [Buckets -> Nat] /\ g[b] = OneMore(kept[b], b)
        /\ \A x \in Buckets : x # b => g[x] = kept[x]
    BY <1>8, <2>1, <2>2
  <2>4. n[k].bucket = b /\ n[k].window = now /\ n[k].hits = OneMore(m[k].hits, b) /\ k \in DOMAIN n
    BY <1>4, <1>5
  <2>5. \A x \in Buckets : /\ g[x] <= Budget[x]
                           /\ g[x] > 0 => \E i \in DOMAIN n : /\ n[i].bucket = x /\ n[i].window = now
                                                              /\ g[x] <= n[i].hits
    BY <1>8, <1>11, <2>2, <2>3, <2>4
  <2> QED
    BY <1>4, <2>3, <2>5 DEF n
<1>13. CASE ~LocalAllows(r, b)
  <2>1. g = kept
    BY <1>10, <1>13 DEF Granted
  <2>2. n[k].bucket = b /\ n[k].window = now /\ n[k].hits = OneMore(m[k].hits, b) /\ k \in DOMAIN n
    BY <1>4, <1>5
  <2>3. kept[b] <= OneMore(m[k].hits, b)
    BY <1>6, <1>8, <1>9, OneMoreCounts
  <2>4. \A x \in Buckets : /\ g[x] <= Budget[x]
                           /\ g[x] > 0 => \E i \in DOMAIN n : /\ n[i].bucket = x /\ n[i].window = now
                                                              /\ g[x] <= n[i].hits
    BY <1>8, <1>11, <2>1, <2>2, <2>3
  <2> QED
    BY <1>4, <1>8, <2>1, <2>4 DEF n
<1> QED
  BY <1>12, <1>13

\* Redis counts a call, or its window has passed.
LEMMA RedisCountersGrow ==
  ASSUME LimiterStands, NEW b \in Buckets, NEW w
  PROVE  /\ RedisCounters(b, w) \in [Buckets -> Nat]
         /\ \A x \in Buckets : grants[Redis][x] <= RedisCounters(b, w)[x]
<1>1. /\ hits \in [Buckets -> Nat] /\ grants[Redis] \in [Buckets -> Nat]
      /\ \A x \in Buckets : grants[Redis][x] <= hits[x] /\ grants[Redis][x] <= Budget[x]
  BY DEF LimiterStands, LimiterTypeOK, CountersAgree, GrantsWithinBudget, Counters
<1>2. OneMore(hits[b], b) \in Nat /\ grants[Redis][b] <= OneMore(hits[b], b)
  BY <1>1, OneMoreCounts
<1> QED
  BY <1>1, <1>2 DEF RedisCounters

\* The fallback judges a request, whatever the call to Redis left there.
LEMMA CheckLocalKeeps ==
  ASSUME LimiterStands, NEW r \in Replicas, NEW b \in Buckets, CheckLocal(r, b),
         UNCHANGED <<now, failOpen, primary>>,
         hits' \in [Buckets -> Nat], \A x \in Buckets : grants[Redis][x] <= hits'[x]
  PROVE  LimiterStands'
<1> DEFINE g == Granted([x \in Buckets |-> IF x \in Evicted(local[r], b) THEN 0 ELSE grants[r][x]],
                        b, LocalAllows(r, b))
           n == LocalCounters(r, b)
<1>1. /\ grants \in [Counters -> [Buckets -> Nat]] /\ local \in [Replicas -> Seq(Entry)]
      /\ r \in Counters /\ r # Redis /\ Redis \in Counters
  BY RedisAssumption DEF LimiterStands, LimiterTypeOK, Counters
<1>2. /\ Bounded(n) /\ g \in [Buckets -> Nat]
      /\ \A x \in Buckets :
            /\ g[x] <= Budget[x]
            /\ g[x] > 0 => \E i \in DOMAIN n : n[i].bucket = x /\ n[i].window = now /\ g[x] <= n[i].hits
  BY LocalCountersStand
<1>3. local' = [local EXCEPT ![r] = n] /\ grants' = [grants EXCEPT ![r] = g]
  BY <1>1 DEF CheckLocal
<1> HIDE DEF g, n
<1>4. /\ local'[r] = n /\ \A q \in Replicas : q # r => local'[q] = local[q]
      /\ local' \in [Replicas -> Seq(Entry)]
  BY <1>1, <1>2, <1>3, BoundedIsSeq
<1>5. /\ grants'[r] = g /\ \A c \in Counters : c # r => grants'[c] = grants[c]
      /\ grants' \in [Counters -> [Buckets -> Nat]]
  BY <1>1, <1>2, <1>3
<1>6. LimiterTypeOK'
  BY <1>4, <1>5 DEF LimiterStands, LimiterTypeOK
<1>7. GrantsWithinBudget'
  BY <1>2, <1>5 DEF LimiterStands, GrantsWithinBudget
<1>8. FallbackIsBounded'
  <2>1. \A q \in Replicas : Bounded(local'[q])
    BY <1>2, <1>4, LocalIsBounded
  <2> QED
    BY <2>1 DEF FallbackIsBounded, Bounded
<1>9. CountersAgree'
  <2>1. \A x \in Buckets : grants'[Redis][x] <= hits'[x]
    BY <1>1, <1>5
  <2>2. ASSUME NEW q \in Replicas, NEW x \in Buckets, grants'[q][x] > 0
        PROVE  \E i \in DOMAIN local'[q] :
                  /\ local'[q][i].bucket = x /\ local'[q][i].window = now'
                  /\ grants'[q][x] <= local'[q][i].hits
    <3>1. CASE q = r
      BY <1>2, <1>4, <1>5, <2>2, <3>1
    <3>2. CASE q # r
      <4>1. local'[q] = local[q] /\ grants'[q] = grants[q]
        BY <1>4, <1>5, <3>2 DEF Counters
      <4>2. \E i \in DOMAIN local[q] :
               local[q][i].bucket = x /\ local[q][i].window = now /\ grants[q][x] <= local[q][i].hits
        BY <2>2, <4>1 DEF LimiterStands, CountersAgree
      <4> QED
        BY <4>1, <4>2
    <3> QED
      BY <3>1, <3>2
  <2> QED
    BY <2>1, <2>2 DEF CountersAgree
<1> QED
  BY <1>6, <1>7, <1>8, <1>9 DEF LimiterStands

\* Redis judges a request of b that was put to it in the window w.
LEMMA CheckRedisKeeps ==
  ASSUME LimiterStands, NEW b \in Buckets, NEW w, NEW allowed \in BOOLEAN,
         CheckRedis(b, w, allowed), UNCHANGED <<now, failOpen, primary, local>>
  PROVE  LimiterStands'
<1> DEFINE g == Granted(grants[Redis], b, w = now /\ allowed)
<1>1. /\ grants \in [Counters -> [Buckets -> Nat]] /\ hits \in [Buckets -> Nat]
      /\ Redis \notin Replicas /\ Redis \in Counters
      /\ \A x \in Buckets : grants[Redis][x] <= hits[x] /\ grants[Redis][x] <= Budget[x]
  BY RedisAssumption DEF LimiterStands, LimiterTypeOK, CountersAgree, GrantsWithinBudget, Counters
<1>2. hits' = RedisCounters(b, w) /\ grants' = [grants EXCEPT ![Redis] = g]
  BY <1>1 DEF CheckRedis
<1>3. hits' \in [Buckets -> Nat] /\ \A x \in Buckets : grants[Redis][x] <= hits'[x]
  BY <1>2, RedisCountersGrow
<1>4. /\ g \in [Buckets -> Nat]
      /\ \A x \in Buckets : g[x] <= Budget[x] /\ g[x] <= hits'[x]
  <2>1. CASE w = now /\ allowed
    <3>1. hits' = [hits EXCEPT ![b] = OneMore(@, b)] /\ hits'[b] <= Budget[b]
      BY <1>2, <2>1 DEF CheckRedis, RedisCounters, RedisAllows
    <3>2. hits'[b] = OneMore(hits[b], b)
      BY <1>1, <3>1
    <3>3. /\ OneMore(grants[Redis][b], b) \in Nat
          /\ OneMore(grants[Redis][b], b) <= Budget[b] /\ OneMore(grants[Redis][b], b) <= hits'[b]
      BY <1>1, <3>1, <3>2, OneMoreCounts
    <3>4. g = [grants[Redis] EXCEPT ![b] = OneMore(@, b)]
      BY <2>1 DEF Granted
    <3> QED
      BY <1>1, <1>3, <3>3, <3>4
  <2>2. CASE ~(w = now /\ allowed)
    BY <1>1, <1>3, <2>2 DEF Granted
  <2> QED
    BY <2>1, <2>2
<1> HIDE DEF g
<1>5. /\ grants'[Redis] = g /\ \A c \in Replicas : grants'[c] = grants[c]
      /\ grants' \in [Counters -> [Buckets -> Nat]]
  BY <1>1, <1>2, <1>4 DEF Counters
<1>6. LimiterTypeOK'
  BY <1>3, <1>5 DEF LimiterStands, LimiterTypeOK
<1>7. GrantsWithinBudget'
  BY <1>4, <1>5 DEF LimiterStands, GrantsWithinBudget, Counters
<1>8. CountersAgree' /\ FallbackIsBounded'
  BY <1>4, <1>5 DEF LimiterStands, CountersAgree, FallbackIsBounded
<1> QED
  BY <1>6, <1>7, <1>8 DEF LimiterStands

\* The call was counted and its answer lost, and the fallback does not judge.
LEMMA SilenceKeeps ==
  ASSUME LimiterStands, UNCHANGED <<now, failOpen, primary, local, grants>>,
         hits' \in [Buckets -> Nat], \A x \in Buckets : grants[Redis][x] <= hits'[x]
  PROVE  LimiterStands'
<1>1. LimiterTypeOK' /\ GrantsWithinBudget' /\ FallbackIsBounded' /\ CountersAgree'
  BY DEF LimiterStands, LimiterTypeOK, GrantsWithinBudget, FallbackIsBounded, CountersAgree
<1> QED
  BY <1>1 DEF LimiterStands

\* A replica that stops loses its list and its grants: the counters still agree.
LEMMA StopReplicaKeeps ==
  ASSUME LimiterStands, NEW r \in Replicas, StopReplica(r)
  PROVE  LimiterStands'
<1>1. /\ local' = [local EXCEPT ![r] = <<>>] /\ grants' = [grants EXCEPT ![r] = Cleared]
      /\ primary' = [primary EXCEPT ![r] = "stopped"] /\ UNCHANGED <<now, failOpen, hits>>
      /\ local \in [Replicas -> Seq(Entry)] /\ grants \in [Counters -> [Buckets -> Nat]]
      /\ r \in Counters /\ r # Redis /\ Redis \in Counters
  BY RedisAssumption DEF StopReplica, LimiterStands, LimiterTypeOK, Counters
<1>2. Cleared \in [Buckets -> Nat] /\ \A b \in Buckets : Cleared[b] = 0 /\ Budget[b] \in Nat
  BY BudgetAssumption DEF Cleared
<1>3. /\ local'[r] = <<>> /\ \A q \in Replicas : q # r => local'[q] = local[q]
      /\ local' \in [Replicas -> Seq(Entry)]
  BY <1>1
<1>4. /\ grants'[r] = Cleared /\ \A c \in Counters : c # r => grants'[c] = grants[c]
      /\ grants' \in [Counters -> [Buckets -> Nat]]
  BY <1>1, <1>2
<1>5. LimiterTypeOK'
  BY <1>1, <1>3, <1>4 DEF LimiterStands, LimiterTypeOK
<1>6. GrantsWithinBudget'
  BY <1>2, <1>4 DEF LimiterStands, GrantsWithinBudget
<1>7. FallbackIsBounded'
  BY <1>3, EntriesAssumption DEF LimiterStands, FallbackIsBounded
<1>8. CountersAgree'
  <2>1. ASSUME NEW q \in Replicas, NEW x \in Buckets, grants'[q][x] > 0
        PROVE  /\ local'[q] = local[q] /\ grants'[q] = grants[q] /\ now' = now
    BY <1>1, <1>2, <1>3, <1>4, <2>1 DEF Counters
  <2> QED
    BY <1>1, <1>4, <2>1 DEF LimiterStands, CountersAgree
<1> QED
  BY <1>1, <1>5, <1>6, <1>7, <1>8 DEF LimiterStands

\* No step of the limiter disturbs its part of the invariant.
LEMMA LimiterStepKeeps ==
  ASSUME LimiterStands, LimiterStep
  PROVE  LimiterStands'
<1>0. /\ hits \in [Buckets -> Nat] /\ grants \in [Counters -> [Buckets -> Nat]]
      /\ Redis \in Counters /\ Redis \notin Replicas
      /\ \A b \in Buckets : Budget[b] \in Nat
      /\ Cleared \in [Buckets -> Nat] /\ \A b \in Buckets : Cleared[b] = 0
  BY RedisAssumption, BudgetAssumption DEF LimiterStands, LimiterTypeOK, Counters, Cleared
<1>1. ASSUME NEW r \in Replicas, StartReplica(r) PROVE LimiterStands'
  <2>1. LimiterTypeOK' /\ UNCHANGED <<now, failOpen, hits, local, grants>>
    BY <1>1 DEF StartReplica, LimiterStands, LimiterTypeOK
  <2> QED
    BY <2>1 DEF LimiterStands, GrantsWithinBudget, FallbackIsBounded, CountersAgree
<1>2. ASSUME NEW b \in Buckets, RedisDrops(b) PROVE LimiterStands'
  <2>1. /\ hits' \in [Buckets -> Nat] /\ hits'[b] = 0
        /\ \A x \in Buckets : x # b => hits'[x] = hits[x]
    BY <1>0, <1>2 DEF RedisDrops
  <2>2. grants' = [grants EXCEPT ![Redis] = [grants[Redis] EXCEPT ![b] = 0]]
    BY <1>0, <1>2 DEF RedisDrops
  <2>3. /\ grants' \in [Counters -> [Buckets -> Nat]] /\ grants'[Redis][b] = 0
        /\ \A x \in Buckets : x # b => grants'[Redis][x] = grants[Redis][x]
        /\ \A r \in Replicas : grants'[r] = grants[r]
    BY <1>0, <2>2 DEF Counters
  <2>4. UNCHANGED <<now, failOpen, primary, local>>
    BY <1>2 DEF RedisDrops
  <2>5. LimiterTypeOK'
    BY <2>1, <2>3, <2>4 DEF LimiterStands, LimiterTypeOK
  <2>6. GrantsWithinBudget'
    BY <1>0, <2>3 DEF LimiterStands, GrantsWithinBudget, Counters
  <2>7. CountersAgree'
    <3>1. \A x \in Buckets : grants'[Redis][x] <= hits'[x]
      BY <2>1, <2>3 DEF LimiterStands, CountersAgree
    <3> QED
      BY <2>3, <2>4, <3>1 DEF LimiterStands, CountersAgree
  <2>8. FallbackIsBounded'
    BY <2>4 DEF LimiterStands, FallbackIsBounded
  <2> QED
    BY <2>4, <2>5, <2>6, <2>7, <2>8 DEF LimiterStands
<1>3. CASE NextWindow
  <2>1. /\ now' \in Times /\ hits' = Cleared /\ grants' = [c \in Counters |-> Cleared]
        /\ UNCHANGED <<failOpen, primary, local>>
    BY <1>3, TimeAssumption DEF NextWindow, LimiterStands, Times
  <2>2. LimiterTypeOK'
    BY <1>0, <2>1 DEF LimiterStands, LimiterTypeOK
  <2>3. GrantsWithinBudget' /\ CountersAgree' /\ FallbackIsBounded'
    BY <1>0, <2>1 DEF LimiterStands, GrantsWithinBudget, CountersAgree, FallbackIsBounded, Counters
  <2> QED
    BY <2>1, <2>2, <2>3 DEF LimiterStands
<1> QED
  BY <1>1, <1>2, <1>3 DEF LimiterStep

(***************************************************************************)
(* The keys: rows and the transactions of the operators.                   *)
(***************************************************************************)
KeysStand == now \in Times /\ KeysTypeOK /\ RotationIsAtomic /\ TransactionsStand

\* What operators may make of a row that is there: they revoke it, or leave it.
Ages(old, new) ==
    old.status # "none" =>
        /\ new.status \in {old.status, "REVOKED"}
        /\ new.scopes = old.scopes /\ new.expires = old.expires /\ new.from = old.from

\* A usable row and every date of expiry of a new one are in the range.
LEMMA NewRowIsRow ==
  ASSUME now \in Times, NEW grant \in Grants \cup {{}}, NEW expires \in Future,
         NEW from \in Keys \cup {NoKey}
  PROVE  /\ NewRow(grant, expires, from) \in Row
         /\ NewRow(grant, expires, from).status = "ACTIVE"
         /\ NewRow(grant, expires, from).from = from
<1>1. expires \in 0..Never
  BY TimeAssumption DEF Times, Future, Never
<1> QED
  BY <1>1 DEF NewRow, Row

\* The idle transaction is one: it adds no key and revokes none.
LEMMA NoTransactionIsOne ==
  /\ NoRow \in Row /\ NoTransaction \in Transaction
  /\ NoTransaction.new = NoKey /\ NoTransaction.revokes = NoKey
<1>1. NoRow \in Row
  BY TimeAssumption DEF NoRow, Row, Never
<1> QED
  BY <1>1 DEF NoTransaction, Transaction

\* The locks a session lets go of leave a table of locks.
LEMMA ReleasedIsTyped ==
  ASSUME KeysTypeOK, NEW s
  PROVE  Released(s) \in [Keys -> Sessions \cup {Nobody}]
BY DEF KeysTypeOK, Released

\* An operator begins, flushes or gives up: the rows stay as they are.
LEMMA TransactionKeeps ==
  ASSUME KeysStand, NEW o \in Operators, NEW t \in Transaction,
         tx' = [tx EXCEPT ![o] = t], UNCHANGED <<now, keys>>,
         lockOf' \in [Keys -> Sessions \cup {Nobody}],
         t.new # NoKey =>
            /\ keys[t.new].status = "none" /\ t.row.status = "ACTIVE"
            /\ \A p \in Operators \ {o} : tx[p].new # t.new
            /\ t.row.from # NoKey => t.row.from = t.revokes,
         t.revokes # NoKey => keys[t.revokes].status # "none"
  PROVE  KeysStand'
<1>1. tx'[o] = t /\ \A p \in Operators : p # o => tx'[p] = tx[p]
  BY DEF KeysStand, KeysTypeOK
<1>2. KeysTypeOK'
  BY DEF KeysStand, KeysTypeOK
<1>3. RotationIsAtomic'
  BY DEF KeysStand, RotationIsAtomic
<1>4. TransactionsStand'
  <2> SUFFICES ASSUME NEW p \in Operators
               PROVE  /\ tx'[p].new # NoKey =>
                           /\ keys[tx'[p].new].status = "none"
                           /\ \A q \in Operators \ {p} : tx'[q].new # tx'[p].new
                           /\ tx'[p].row.status = "ACTIVE"
                           /\ tx'[p].row.from # NoKey => tx'[p].row.from = tx'[p].revokes
                      /\ tx'[p].revokes # NoKey => keys[tx'[p].revokes].status # "none"
    BY DEF TransactionsStand
  <2>1. CASE p = o
    BY <1>1, <2>1
  <2>2. CASE p # o
    BY <1>1, <2>2 DEF KeysStand, TransactionsStand
  <2> QED
    BY <2>1, <2>2
<1> QED
  BY <1>2, <1>3, <1>4 DEF KeysStand

\* A commit inserts a key that was not there and revokes one that was.
LEMMA CommitKeeps ==
  ASSUME KeysStand, NEW o \in Operators, CommitKeys(o)
  PROVE  KeysStand' /\ \A k \in Keys : Ages(keys[k], keys'[k])
<1> DEFINE t == tx[o]
<1>1. /\ t \in Transaction /\ keys \in [Keys -> Row] /\ NoKey \notin Keys
      /\ tx \in [Operators -> Transaction]
  BY NoKeyAssumption DEF KeysStand, KeysTypeOK
<1>2. /\ t.new # NoKey =>
            /\ keys[t.new].status = "none" /\ t.row.status = "ACTIVE"
            /\ \A p \in Operators \ {o} : tx[p].new # t.new
            /\ t.row.from # NoKey => t.row.from = t.revokes
      /\ t.revokes # NoKey => keys[t.revokes].status # "none"
  BY DEF KeysStand, TransactionsStand
<1>3. \A k \in Keys :
         keys'[k] = IF k = t.new THEN t.row
                    ELSE IF k = t.revokes THEN [keys[k] EXCEPT !.status = "REVOKED"]
                    ELSE keys[k]
  BY DEF CommitKeys, Committed
<1>4. t.row \in Row /\ \A k \in Keys : [keys[k] EXCEPT !.status = "REVOKED"] \in Row
  BY <1>1 DEF Transaction, Row
<1>5. keys' \in [Keys -> Row]
  <2>1. keys' = [k \in Keys |-> keys'[k]]
    BY DEF CommitKeys, Committed
  <2> QED
    BY <2>1, <1>1, <1>3, <1>4
<1>6. \A k \in Keys : Ages(keys[k], keys'[k])
  <2> SUFFICES ASSUME NEW k \in Keys PROVE Ages(keys[k], keys'[k])
    OBVIOUS
  <2>1. keys[k] \in Row
    BY <1>1
  <2>2. CASE k = t.new
    BY <1>1, <1>2, <2>2 DEF Ages
  <2>3. CASE k # t.new /\ k = t.revokes
    BY <1>3, <2>1, <2>3 DEF Ages, Row
  <2>4. CASE k # t.new /\ k # t.revokes
    BY <1>3, <2>4 DEF Ages
  <2> QED
    BY <2>2, <2>3, <2>4
<1>7. tx'[o] = NoTransaction /\ \A p \in Operators : p # o => tx'[p] = tx[p]
  BY <1>1 DEF CommitKeys
<1>8. KeysTypeOK' /\ now' \in Times
  BY <1>5, <1>1, NoTransactionIsOne, ReleasedIsTyped DEF CommitKeys, KeysStand, KeysTypeOK
<1>9. TransactionsStand'
  <2> SUFFICES ASSUME NEW p \in Operators
               PROVE  /\ tx'[p].new # NoKey =>
                           /\ keys'[tx'[p].new].status = "none"
                           /\ \A q \in Operators \ {p} : tx'[q].new # tx'[p].new
                           /\ tx'[p].row.status = "ACTIVE"
                           /\ tx'[p].row.from # NoKey => tx'[p].row.from = tx'[p].revokes
                      /\ tx'[p].revokes # NoKey => keys'[tx'[p].revokes].status # "none"
    BY DEF TransactionsStand
  <2>1. CASE p = o
    BY <1>7, <2>1, NoTransactionIsOne
  <2>2. CASE p # o
    <3>1. /\ tx[p].new # NoKey =>
               /\ keys[tx[p].new].status = "none"
               /\ \A q \in Operators \ {p} : tx[q].new # tx[p].new
               /\ tx[p].row.status = "ACTIVE"
               /\ tx[p].row.from # NoKey => tx[p].row.from = tx[p].revokes
          /\ tx[p].revokes # NoKey => keys[tx[p].revokes].status # "none"
          /\ tx[p] \in Transaction
      BY <1>1 DEF KeysStand, TransactionsStand
    <3>2. tx[p].new \in Keys \cup {NoKey} /\ tx[p].revokes \in Keys \cup {NoKey}
      BY <3>1 DEF Transaction
    <3>3. tx[p].revokes # NoKey => keys'[tx[p].revokes].status # "none"
      BY <1>6, <3>1, <3>2 DEF Ages
    <3>4. ASSUME tx[p].new # NoKey
          PROVE  /\ keys'[tx[p].new].status = "none"
                 /\ \A q \in Operators \ {p} : tx'[q].new # tx[p].new
      <4>1. tx[p].new # t.new /\ tx[p].new # t.revokes /\ tx[p].new \in Keys
        BY <1>2, <2>2, <3>1, <3>2, <3>4
      <4>2. keys'[tx[p].new] = keys[tx[p].new]
        BY <1>3, <4>1
      <4>3. \A q \in Operators \ {p} : tx'[q].new # tx[p].new
        BY <1>7, <3>1, <3>4, NoTransactionIsOne
      <4> QED
        BY <3>1, <3>4, <4>2, <4>3
    <3> QED
      BY <1>7, <2>2, <3>1, <3>3, <3>4
  <2> QED
    BY <2>1, <2>2
<1>10. RotationIsAtomic'
  <2> SUFFICES ASSUME NEW n \in Keys, keys'[n].from # NoKey
               PROVE  keys'[keys'[n].from].status = "REVOKED"
    BY DEF RotationIsAtomic
  <2>1. keys'[n].from \in Keys
    BY <1>5 DEF Row
  <2>2. CASE n = t.new
    <3>1. keys'[n].from = t.revokes /\ t.revokes \in Keys /\ t.revokes # t.new
      BY <1>1, <1>2, <1>3, <2>1, <2>2
    <3>2. keys'[t.revokes] = [keys[t.revokes] EXCEPT !.status = "REVOKED"]
      BY <1>3, <3>1
    <3>3. keys[t.revokes] \in Row
      BY <1>1, <3>1
    <3> QED
      BY <3>1, <3>2, <3>3 DEF Row
  <2>3. CASE n # t.new
    <3>1. keys[n] \in Row /\ keys'[n].from = keys[n].from
      BY <1>1, <1>3, <2>3 DEF Row
    <3>2. keys[keys[n].from].status = "REVOKED" /\ keys[n].from \in Keys
      BY <2>1, <3>1 DEF KeysStand, RotationIsAtomic
    <3> QED
      BY <1>6, <3>1, <3>2 DEF Ages
  <2> QED
    BY <2>2, <2>3
<1> QED
  BY <1>6, <1>8, <1>9, <1>10 DEF KeysStand

\* No operator's step disturbs the keys, and rows only age: a revocation stays.
LEMMA OperatorKeeps ==
  ASSUME KeysStand, OperatorStep
  PROVE  KeysStand' /\ now' = now /\ \A k \in Keys : Ages(keys[k], keys'[k])
<1>0. /\ keys \in [Keys -> Row] /\ tx \in [Operators -> Transaction]
      /\ lockOf \in [Keys -> Sessions \cup {Nobody}] /\ now \in Times
      /\ NoKey \notin Keys /\ \A k \in Keys : Ages(keys[k], keys[k])
  BY NoKeyAssumption DEF KeysStand, KeysTypeOK, Ages
<1>1. ASSUME NEW o \in Operators, NEW k \in Keys, Create(o, k)
      PROVE  KeysStand' /\ UNCHANGED <<now, keys>>
  <2>1. PICK grant \in Grants, expires \in Future :
           tx' = [tx EXCEPT ![o] = [new |-> k, row |-> NewRow(grant, expires, NoKey),
                                    revokes |-> NoKey, step |-> "commit"]]
    BY <1>1 DEF Create
  <2> DEFINE t == [new |-> k, row |-> NewRow(grant, expires, NoKey), revokes |-> NoKey,
                   step |-> "commit"]
  <2>2. /\ NewRow(grant, expires, NoKey) \in Row /\ NewRow(grant, expires, NoKey).status = "ACTIVE"
        /\ NewRow(grant, expires, NoKey).from = NoKey
    BY <1>0, NewRowIsRow
  <2>3. t \in Transaction /\ t.new = k /\ t.row.status = "ACTIVE" /\ t.row.from = NoKey
        /\ t.revokes = NoKey
    BY <2>2 DEF Transaction
  <2>4. /\ UNCHANGED <<now, keys, lockOf>> /\ keys[k].status = "none"
        /\ \A p \in Operators : tx[p].new # k
    BY <1>1 DEF Create, Fresh
  <2>5. tx' = [tx EXCEPT ![o] = t]
    BY <2>1
  <2> HIDE DEF t
  <2> QED
    BY <1>0, <2>3, <2>4, <2>5, TransactionKeeps
<1>2. ASSUME NEW o \in Operators, NEW k \in Keys, Revoke(o, k)
      PROVE  KeysStand' /\ UNCHANGED <<now, keys>>
  <2> DEFINE t == [NoTransaction EXCEPT !.revokes = k, !.step = "revoke"]
  <2>1. t \in Transaction /\ t.new = NoKey /\ t.revokes = k
    BY NoTransactionIsOne DEF NoTransaction, Transaction
  <2>2. UNCHANGED <<now, keys, lockOf>> /\ keys[k].status # "none" /\ tx' = [tx EXCEPT ![o] = t]
    BY <1>2 DEF Revoke
  <2> HIDE DEF t
  <2> QED
    BY <1>0, <2>1, <2>2, TransactionKeeps
<1>3. ASSUME NEW o \in Operators, NEW k \in Keys, NEW n \in Keys, Rotate(o, k, n)
      PROVE  KeysStand' /\ UNCHANGED <<now, keys>>
  <2>1. PICK expires \in Future :
           tx' = [tx EXCEPT ![o] = [new |-> n, row |-> NewRow(keys[k].scopes, expires, k),
                                    revokes |-> k, step |-> "revoke"]]
    BY <1>3 DEF Rotate
  <2> DEFINE t == [new |-> n, row |-> NewRow(keys[k].scopes, expires, k), revokes |-> k,
                   step |-> "revoke"]
  <2>2. keys[k].scopes \in Grants \cup {{}}
    BY <1>0 DEF Row
  <2>3. /\ NewRow(keys[k].scopes, expires, k) \in Row
        /\ NewRow(keys[k].scopes, expires, k).status = "ACTIVE"
        /\ NewRow(keys[k].scopes, expires, k).from = k
    <3>1. PICK grant \in Grants \cup {{}} : grant = keys[k].scopes
      BY <2>2
    <3>2. /\ NewRow(grant, expires, k) \in Row /\ NewRow(grant, expires, k).status = "ACTIVE"
          /\ NewRow(grant, expires, k).from = k
      BY <1>0, NewRowIsRow
    <3> QED
      BY <3>1, <3>2
  <2>4. t \in Transaction /\ t.new = n /\ t.row.status = "ACTIVE" /\ t.row.from = k
        /\ t.revokes = k
    BY <2>3 DEF Transaction
  <2>5. /\ UNCHANGED <<now, keys, lockOf>> /\ keys[k].status # "none" /\ keys[n].status = "none"
        /\ \A p \in Operators : tx[p].new # n
    BY <1>3 DEF Rotate, Fresh
  <2>6. tx' = [tx EXCEPT ![o] = t]
    BY <2>1
  <2> HIDE DEF t
  <2> QED
    BY <1>0, <2>4, <2>5, <2>6, TransactionKeeps
<1>4. ASSUME NEW o \in Operators, FlushRevocation(o)
      PROVE  KeysStand' /\ UNCHANGED <<now, keys>>
  <2> DEFINE t == [tx[o] EXCEPT !.step = "commit"]
  <2>1. /\ t \in Transaction /\ t.new = tx[o].new /\ t.revokes = tx[o].revokes /\ t.row = tx[o].row
    BY <1>0 DEF Transaction
  <2>2. tx' = [tx EXCEPT ![o] = t] /\ UNCHANGED <<now, keys>>
    BY <1>0, <1>4 DEF FlushRevocation
  <2>3. lockOf' \in [Keys -> Sessions \cup {Nobody}]
    BY <1>0, <1>4 DEF FlushRevocation, Sessions
  <2>4. /\ tx[o].new # NoKey =>
             /\ keys[tx[o].new].status = "none" /\ tx[o].row.status = "ACTIVE"
             /\ \A p \in Operators \ {o} : tx[p].new # tx[o].new
             /\ tx[o].row.from # NoKey => tx[o].row.from = tx[o].revokes
        /\ tx[o].revokes # NoKey => keys[tx[o].revokes].status # "none"
    BY DEF KeysStand, TransactionsStand
  <2> HIDE DEF t
  <2> QED
    BY <2>1, <2>2, <2>3, <2>4, TransactionKeeps
<1>5. ASSUME NEW o \in Operators, RollBackKeys(o)
      PROVE  KeysStand' /\ UNCHANGED <<now, keys>>
  <2>1. /\ tx' = [tx EXCEPT ![o] = NoTransaction] /\ UNCHANGED <<now, keys>>
        /\ lockOf' = Released(o)
    BY <1>5 DEF RollBackKeys
  <2>2. KeysTypeOK
    BY DEF KeysStand
  <2> QED
    BY <2>1, <2>2, NoTransactionIsOne, ReleasedIsTyped, TransactionKeeps
<1>6. ASSUME NEW o \in Operators, CommitKeys(o)
      PROVE  KeysStand' /\ now' = now /\ \A k \in Keys : Ages(keys[k], keys'[k])
  BY <1>6, CommitKeeps DEF CommitKeys
<1> QED
  BY <1>0, <1>1, <1>2, <1>3, <1>4, <1>5, <1>6 DEF OperatorStep

\* Whatever happens to the lock of a row, the rows stand.
LEMMA LocksKeep ==
  ASSUME KeysStand, now' \in Times, UNCHANGED <<keys, tx>>,
         lockOf' \in [Keys -> Sessions \cup {Nobody}]
  PROVE  KeysStand'
<1>1. KeysTypeOK' /\ RotationIsAtomic' /\ TransactionsStand'
  BY DEF KeysStand, KeysTypeOK, RotationIsAtomic, TransactionsStand
<1> QED
  BY <1>1 DEF KeysStand

(***************************************************************************)
(* The requests.                                                           *)
(***************************************************************************)
Places == {Idle} \cup Refused \cup Request

\* RequestStands, of given rows at a given time.
Stands(q, rows, time, enforcing) ==
    /\ q.asker = "middleware" <=> q.area \notin Protected
    /\ q.at \in {"access", "expiring", "touch", "commit"} => q.asker = "access"
    /\ q.checks = IF q.at \in {"touch", "commit", "served"} THEN 1 ELSE 0
    /\ q.late => /\ q.key # NoKey /\ rows[q.key].status # "none"
                 /\ ~(rows[q.key].status = "ACTIVE" /\ ~(rows[q.key].expires <= time))
    /\ q.at \in Verified /\ q.asker = "access" /\ enforcing =>
          /\ q.key # NoKey /\ ~q.late
          /\ rows[q.key].status # "none" /\ Granting(rows[q.key], q.area)

RequestsTyped == enforced \in BOOLEAN /\ request \in [Callers -> Places]

\* What stands of the requests, with the keys and the hour as arguments.
LEMMA RequestsRestated ==
  /\ RequestsStand <=> \A c \in Callers : request[c].at \in Waiting \cup {"served"} =>
                          Stands(request[c], keys, now, enforced)
  /\ RequestsStand' <=> \A c \in Callers : request'[c].at \in Waiting \cup {"served"} =>
                          Stands(request'[c], keys', now', enforced')
BY DEF RequestsStand, RequestStands, Stands, IsValid, Expired

\* The invariant, by component.
LEMMA Parts ==
  /\ IInv <=> LimiterStands /\ KeysStand /\ RequestsTyped /\ RequestsStand
  /\ IInv' <=> LimiterStands' /\ KeysStand' /\ RequestsTyped' /\ RequestsStand'
BY DEF IInv, TypeOK, LimiterStands, KeysStand, RequestsTyped, Places

\* Only a request that is under way or served has more than a place.
LEMMA PlacesAreApart ==
  ASSUME NEW q \in Places
  PROVE  /\ q.at \in Waiting \cup {"served"} <=> q \in Request
         /\ q.at \in Refusals <=> q \in Refused
BY DEF Places, Idle, Refused, Request, Waiting, Refusals

\* What stood of a request still stands when time has passed and rows have aged.
LEMMA StandsLater ==
  ASSUME NEW q \in Request, NEW rows \in [Keys -> Row], NEW later \in [Keys -> Row],
         \A k \in Keys : Ages(rows[k], later[k]),
         NEW time \in Nat, NEW then \in Nat, time <= then,
         NEW enforcing, Stands(q, rows, time, enforcing)
  PROVE  Stands(q, later, then, enforcing)
<1>1. q.key # NoKey => q.key \in Keys
  BY BucketsAssumption DEF Request
<1>2. ASSUME q.key # NoKey, rows[q.key].status # "none"
      PROVE  /\ later[q.key].status # "none" /\ later[q.key].status \in {rows[q.key].status, "REVOKED"}
             /\ later[q.key].expires = rows[q.key].expires /\ rows[q.key].expires \in Nat
             /\ later[q.key].scopes = rows[q.key].scopes
  BY <1>1, <1>2, TimeAssumption DEF Ages, Row, Never
<1>3. q.late => /\ q.key # NoKey /\ later[q.key].status # "none"
                /\ ~(later[q.key].status = "ACTIVE" /\ ~(later[q.key].expires <= then))
  BY <1>2 DEF Stands
<1>4. q.at \in Verified /\ q.asker = "access" /\ enforcing =>
          /\ q.key # NoKey /\ ~q.late
          /\ later[q.key].status # "none" /\ Granting(later[q.key], q.area)
  BY <1>2 DEF Stands, Granting
<1> QED
  BY <1>3, <1>4 DEF Stands

\* A caller moves on; nobody else's request and no row is touched.
LEMMA CallerKeeps ==
  ASSUME RequestsTyped, RequestsStand, NEW c \in Callers, NEW x \in Places,
         request' = [request EXCEPT ![c] = x], UNCHANGED <<now, keys, enforced>>,
         x \in Request => Stands(x, keys, now, enforced)
  PROVE  RequestsTyped' /\ RequestsStand'
<1>1. request'[c] = x /\ \A d \in Callers : d # c => request'[d] = request[d]
  BY DEF RequestsTyped
<1>2. RequestsTyped'
  BY DEF RequestsTyped
<1>3. \A d \in Callers : request'[d].at \in Waiting \cup {"served"} =>
         Stands(request'[d], keys, now, enforced)
  BY <1>1, PlacesAreApart, RequestsRestated
<1> QED
  BY <1>2, <1>3, RequestsRestated

\* A request that is refused is at the refusal; another is moved to its next place.
LEMMA PassedIsPlace ==
  ASSUME NEW q \in Request, NEW place
  PROVE  /\ place \in Refusals => Passed(q, place) \in Places /\ Passed(q, place) \notin Request
         /\ place \in Waiting \cup {"served"} =>
               /\ Passed(q, place) = [q EXCEPT !.at = place]
               /\ Passed(q, place) \in Request /\ Passed(q, place) \in Places
<1>1. ASSUME place \in Refusals
      PROVE  Passed(q, place) \in Places /\ Passed(q, place) \notin Request
  <2>1. Passed(q, place) = [at |-> place]
    BY <1>1 DEF Passed
  <2>2. [at |-> place] \in Refused
    BY <1>1 DEF Refused
  <2>3. [at |-> place].at \notin Waiting \cup {"served"}
    BY <1>1 DEF Refusals, Waiting
  <2> QED
    BY <2>1, <2>2, <2>3, PlacesAreApart DEF Places
<1>2. ASSUME place \in Waiting \cup {"served"}
      PROVE  /\ Passed(q, place) = [q EXCEPT !.at = place]
             /\ [q EXCEPT !.at = place] \in Request
  <2>1. place \notin Refusals
    BY <1>2 DEF Refusals, Waiting
  <2> QED
    BY <1>2, <2>1 DEF Passed, Request
<1> QED
  BY <1>1, <1>2 DEF Places

\* The list of the middleware and the table of api_access name the same areas.
LEMMA AreasSplit == LeftToAuth = Protected
BY DEF LeftToAuth, Protected, ReadTenders, ReadGeography, ReadSources

(***************************************************************************)
(* What a caller does to its request.                                      *)
(***************************************************************************)
LEMMA ArriveKeeps ==
  ASSUME IInv, NEW c \in Callers, NEW r \in Replicas, NEW area \in Areas,
         NEW k \in Presented \cup {NoKey}, Arrive(c, r, area, k)
  PROVE  RequestsTyped' /\ RequestsStand'
<1> DEFINE shown == Shown(area, k)
           x == [at |-> IF area \in LeftToAuth THEN "access" ELSE "limit",
                 asker |-> IF area \in LeftToAuth THEN "access" ELSE "middleware",
                 replica |-> r, area |-> area, window |-> 0, key |-> shown,
                 late |-> shown \in Issued /\ ~IsValid(keys[k]), checks |-> 0]
<1>1. shown \in Presented \cup {NoKey} /\ NoKey \notin Keys /\ 0 \in Times
  BY NoKeyAssumption, TimeAssumption DEF Shown, Times
<1>2. (shown \in Issued /\ ~IsValid(keys[k])) \in BOOLEAN
  OBVIOUS
<1>3. x \in Request /\ x.area = area /\ x.key = shown /\ x.checks = 0
      /\ x.at = (IF area \in Protected THEN "access" ELSE "limit")
      /\ x.asker = (IF area \in Protected THEN "access" ELSE "middleware")
      /\ x.late = (shown \in Issued /\ ~IsValid(keys[k]))
  BY <1>1, <1>2, AreasSplit DEF Request, Waiting
<1>4. request' = [request EXCEPT ![c] = x] /\ UNCHANGED <<now, keys, enforced>>
  BY DEF Arrive, keyVars
<1>5. x.late => shown # NoKey /\ keys[shown].status # "none" /\ ~IsValid(keys[shown])
  <2>1. shown \in Issued => shown = k /\ shown # NoKey /\ keys[shown].status # "none"
    BY <1>1 DEF Issued, Shown
  <2> QED
    BY <1>3, <2>1
<1> HIDE DEF x, shown
<1>6. Stands(x, keys, now, enforced)
  BY <1>3, <1>5 DEF Stands, IsValid, Expired, Verified
<1> QED
  BY <1>3, <1>4, <1>6, Parts, CallerKeeps DEF Places

\* verify lets only a usable key that grants the scope go on.
LEMMA VerifyKeeps ==
  ASSUME IInv, NEW c \in Callers, Verify(c)
  PROVE  RequestsTyped' /\ RequestsStand'
<1> DEFINE q == request[c]
           asked == [q EXCEPT !.asker = "access"]
           place == IF ~enforced THEN "limit"
                    ELSE IF q.key = NoKey THEN "unauthenticated"
                    ELSE Verdict(keys[q.key], q.area)
<1>1. q \in Request /\ q.at = "access" /\ Stands(q, keys, now, enforced)
  BY Parts, PlacesAreApart, RequestsRestated DEF RequestsTyped, Verify, At, Waiting
<1>2. asked = q /\ q.asker = "access"
  BY <1>1 DEF Stands, Request
<1>3. request' = [request EXCEPT ![c] = Passed(q, place)] /\ UNCHANGED <<now, keys, enforced>>
  BY <1>2, Parts DEF Verify, RequestsTyped, keyVars
<1>4. place \in {"limit", "expiring", "unauthenticated", "forbidden"}
  BY DEF Verdict
<1>5. place = "limit" /\ enforced =>
         /\ q.key # NoKey /\ keys[q.key].status # "none" /\ IsValid(keys[q.key])
         /\ Granting(keys[q.key], q.area)
  BY DEF Verdict, IsValid
<1> HIDE DEF place, asked
<1>6. CASE place \in {"unauthenticated", "forbidden"}
  <2>1. Passed(q, place) \in Places /\ Passed(q, place) \notin Request
    BY <1>1, <1>6, PassedIsPlace DEF Refusals
  <2> QED
    BY <1>3, <2>1, Parts, CallerKeeps
<1>7. CASE place \in {"limit", "expiring"}
  <2>1. Passed(q, place) = [q EXCEPT !.at = place] /\ Passed(q, place) \in Request
        /\ Passed(q, place) \in Places
    BY <1>1, <1>7, PassedIsPlace DEF Waiting
  <2> DEFINE x == Passed(q, place)
  <2>2. /\ x.at = place /\ x.asker = q.asker /\ x.area = q.area /\ x.checks = q.checks
        /\ x.late = q.late /\ x.key = q.key
    BY <1>1, <2>1 DEF Request
  <2>3. x \in Places /\ x \in Request /\ request' = [request EXCEPT ![c] = x]
    BY <1>3, <2>1
  <2> HIDE DEF x
  <2>4. Stands(x, keys, now, enforced)
    BY <1>1, <1>2, <1>5, <1>7, <2>2 DEF Stands, IsValid, Expired, Verified
  <2> QED
    BY <1>3, <2>3, <2>4, Parts, CallerKeeps
<1> QED
  BY <1>4, <1>6, <1>7

\* A request at a later place, with nothing else of it changed.
LEMMA GoesKeeps ==
  ASSUME IInv, NEW c \in Callers, NEW place, Goes(c, place), UNCHANGED <<now, keys, enforced>>,
         \/ place \in Refusals
         \/ request[c].at = "limit" /\ place = "calling"
         \/ request[c].at = "touch" /\ place = "commit"
         \/ request[c].at = "commit" /\ place = "served",
         request[c].at \in Waiting
  PROVE  RequestsTyped' /\ RequestsStand'
<1> DEFINE q == request[c]
           x == Passed(q, place)
<1>1. q \in Request /\ Stands(q, keys, now, enforced)
  BY Parts, PlacesAreApart, RequestsRestated DEF RequestsTyped
<1>2. request' = [request EXCEPT ![c] = x]
  BY Parts DEF Goes, RequestsTyped
<1>3. CASE place \in Refusals
  <2>1. x \in Places /\ x \notin Request
    BY <1>1, <1>3, PassedIsPlace
  <2> QED
    BY <1>2, <2>1, Parts, CallerKeeps
<1>4. CASE place \in {"calling", "commit", "served"} /\ place \notin Refusals
  <2>1. x = [q EXCEPT !.at = place] /\ x \in Request /\ x \in Places
    BY <1>1, <1>4, PassedIsPlace DEF Waiting
  <2>2. /\ x.at = place /\ x.asker = q.asker /\ x.area = q.area /\ x.checks = q.checks
        /\ x.late = q.late /\ x.key = q.key
    BY <1>1, <2>1 DEF Request
  <2> HIDE DEF x
  <2>3. Stands(x, keys, now, enforced)
    BY <1>1, <1>4, <2>2 DEF Stands, Verified
  <2> QED
    BY <1>2, <2>1, <2>3, Parts, CallerKeeps
<1> QED
  BY <1>3, <1>4

\* A request the limiter has judged once is a request that differs only in that.
LEMMA JudgedIsRequest ==
  ASSUME NEW q \in Request, q.checks = 0, 0 \in Times
  PROVE  LET judged == [q EXCEPT !.window = 0, !.checks = @ + 1] IN
         /\ judged \in Request /\ judged.asker = q.asker /\ judged.area = q.area
         /\ judged.checks = 1 /\ judged.late = q.late /\ judged.key = q.key
<1>1. q.checks + 1 = 1 /\ 1 \in 0..2
  OBVIOUS
<1> QED
  BY <1>1 DEF Request

\* The limiter has answered, or cannot.
LEMMA ProceedKeeps ==
  ASSUME IInv, NEW c \in Callers, request[c].at \in {"limit", "calling"}, NEW place,
         Proceed(c, place), UNCHANGED <<now, keys, enforced>>,
         \/ \E allowed \in BOOLEAN : place = Judged(c, allowed)
         \/ place = Unjudged(c)
  PROVE  RequestsTyped' /\ RequestsStand'
<1> DEFINE q == request[c]
           y == [q EXCEPT !.window = 0, !.checks = @ + 1]
           x == Passed(y, place)
<1>1. q \in Request /\ Stands(q, keys, now, enforced)
  BY Parts, PlacesAreApart, RequestsRestated DEF RequestsTyped, Waiting
<1>2. q.checks = 0 /\ 0 \in Times
  BY <1>1, TimeAssumption DEF Stands, Times
<1>3. /\ y \in Request /\ y.asker = q.asker /\ y.area = q.area /\ y.checks = 1
      /\ y.late = q.late /\ y.key = q.key
  BY <1>1, <1>2, JudgedIsRequest
<1>4. request' = [request EXCEPT ![c] = x]
  BY DEF Proceed
<1>5. q.asker = "middleware" => Route(c) = "served"
  BY <1>1 DEF Stands, Route
<1>6. \/ place \in Refusals
      \/ place = "touch" /\ q.asker = "access" /\ enforced
      \/ place = "served" /\ (q.asker = "access" => ~enforced)
  BY <1>1, <1>5 DEF Judged, Unjudged, Refusals, Request
<1> HIDE DEF y
<1>7. CASE place \in Refusals
  <2>1. x \in Places /\ x \notin Request
    BY <1>3, <1>7, PassedIsPlace
  <2> QED
    BY <1>4, <2>1, Parts, CallerKeeps
<1>8. CASE place \in {"touch", "served"} /\ place \notin Refusals
  <2>1. x = [y EXCEPT !.at = place] /\ x \in Request /\ x \in Places
    BY <1>3, <1>8, PassedIsPlace DEF Waiting
  <2>2. /\ x.at = place /\ x.asker = q.asker /\ x.area = q.area /\ x.checks = 1
        /\ x.late = q.late /\ x.key = q.key
    BY <1>3, <2>1 DEF Request
  <2> HIDE DEF x
  <2>3. Stands(x, keys, now, enforced)
    BY <1>1, <1>6, <1>8, <2>2 DEF Stands, Verified
  <2> QED
    BY <1>4, <2>1, <2>3, Parts, CallerKeeps
<1> QED
  BY <1>6, <1>7, <1>8

\* A request is put to the limiter for a bucket that exists.
LEMMA BucketExists ==
  ASSUME IInv, NEW c \in Callers, request[c].at \in {"limit", "calling"}
  PROVE  BucketOf(c) \in Buckets /\ request[c] \in Request
<1>1. request[c] \in Request /\ Stands(request[c], keys, now, enforced)
  BY Parts, PlacesAreApart, RequestsRestated DEF RequestsTyped, Waiting
<1> QED
  BY <1>1, BucketsAssumption DEF BucketOf, Stands, Verified, Request

\* Components that a step leaves alone.
LEMMA Untouched ==
  /\ LimiterStands /\ UNCHANGED <<now, limiterVars>> => LimiterStands'
  /\ KeysStand /\ UNCHANGED <<now, keyVars>> => KeysStand'
<1>1. ASSUME LimiterStands, UNCHANGED <<now, limiterVars>> PROVE LimiterStands'
  BY <1>1 DEF limiterVars, LimiterStands, LimiterTypeOK, GrantsWithinBudget, FallbackIsBounded,
              CountersAgree
<1>2. ASSUME KeysStand, UNCHANGED <<now, keyVars>> PROVE KeysStand'
  BY <1>2 DEF keyVars, KeysStand, KeysTypeOK, RotationIsAtomic, TransactionsStand
<1> QED
  BY <1>1, <1>2

\* The fallback judges a request or leaves it unjudged.
LEMMA FallBackKeeps ==
  ASSUME IInv, NEW c \in Callers, request[c].at \in {"limit", "calling"}, FallBack(c),
         UNCHANGED <<now, failOpen, primary, keyVars, enforced>>,
         hits' \in [Buckets -> Nat], \A x \in Buckets : grants[Redis][x] <= hits'[x]
  PROVE  IInv'
<1>1. BucketOf(c) \in Buckets /\ request[c].replica \in Replicas
  BY BucketExists DEF Request
<1>2. LimiterStands /\ KeysStand'
  BY Parts, Untouched
<1>3. CASE failOpen
  <2>1. /\ CheckLocal(request[c].replica, BucketOf(c))
        /\ Proceed(c, Judged(c, LocalAllows(request[c].replica, BucketOf(c))))
    BY <1>3 DEF FallBack
  <2>2. LimiterStands'
    BY <1>1, <1>2, <2>1, CheckLocalKeeps
  <2>3. LocalAllows(request[c].replica, BucketOf(c)) \in BOOLEAN
    BY DEF LocalAllows
  <2>4. RequestsTyped' /\ RequestsStand'
    BY <2>1, <2>3, ProceedKeeps DEF keyVars
  <2> QED
    BY <1>2, <2>2, <2>4, Parts
<1>4. CASE ~failOpen
  <2>1. UNCHANGED <<local, grants>> /\ Proceed(c, Unjudged(c))
    BY <1>4 DEF FallBack
  <2>2. LimiterStands'
    BY <1>2, <2>1, SilenceKeeps
  <2>3. RequestsTyped' /\ RequestsStand'
    BY <2>1, ProceedKeeps DEF keyVars
  <2> QED
    BY <1>2, <2>2, <2>3, Parts
<1> QED
  BY <1>3, <1>4

\* A replica stops, and the requests it was serving end with it.
LEMMA StopKeeps ==
  ASSUME IInv, NEW r \in Replicas, Stop(r)
  PROVE  IInv'
<1>1. LimiterStands'
  BY Parts, StopReplicaKeeps DEF Stop
<1>2. UNCHANGED <<now, keys, tx, enforced>>
  BY DEF Stop, StopReplica
<1>3. lockOf' \in [Keys -> Sessions \cup {Nobody}]
  BY Parts DEF Stop, KeysStand, KeysTypeOK
<1>4. KeysStand'
  BY <1>2, <1>3, Parts, LocksKeep DEF KeysStand
<1>5. \A c \in Callers : request'[c] \in {Idle, request[c]}
  BY DEF Stop
<1>6. RequestsTyped'
  <2>1. request' = [c \in Callers |-> request'[c]]
    BY DEF Stop
  <2>2. \A c \in Callers : request'[c] \in Places
    BY <1>5, Parts DEF RequestsTyped, Places
  <2> QED
    BY <1>2, <2>1, <2>2, Parts DEF RequestsTyped
<1>7. RequestsStand'
  <2>1. Idle.at \notin Waiting \cup {"served"}
    BY DEF Idle, Waiting
  <2>2. \A c \in Callers : request'[c].at \in Waiting \cup {"served"} =>
           Stands(request'[c], keys', now', enforced')
    BY <1>2, <1>5, <2>1, Parts, RequestsRestated
  <2> QED
    BY <2>2, RequestsRestated
<1> QED
  BY <1>1, <1>4, <1>6, <1>7, Parts

\* Time passes and operators work: what stood of the requests stands.
LEMMA RequestsStandLater ==
  ASSUME IInv, now' \in Times, now <= now', keys' \in [Keys -> Row],
         \A k \in Keys : Ages(keys[k], keys'[k]), UNCHANGED accessVars
  PROVE  RequestsTyped' /\ RequestsStand'
<1>1. now \in Nat /\ now' \in Nat /\ keys \in [Keys -> Row] /\ RequestsTyped
  BY Parts, TimeAssumption DEF KeysStand, KeysTypeOK, Times
<1>2. RequestsTyped'
  BY <1>1 DEF RequestsTyped, accessVars
<1>3. \A c \in Callers : request'[c].at \in Waiting \cup {"served"} =>
         Stands(request'[c], keys', now', enforced')
  <2> SUFFICES ASSUME NEW c \in Callers, request[c].at \in Waiting \cup {"served"}
               PROVE  Stands(request[c], keys', now', enforced)
    BY DEF accessVars
  <2>1. request[c] \in Request /\ Stands(request[c], keys, now, enforced)
    BY <1>1, Parts, PlacesAreApart, RequestsRestated DEF RequestsTyped
  <2> QED
    BY <1>1, <2>1, StandsLater
<1> QED
  BY <1>2, <1>3, RequestsRestated

\* No step of a request disturbs the invariant.
LEMMA RequestKeeps ==
  ASSUME IInv, NEW c \in Callers, RequestStep(c)
  PROVE  IInv'
<1>0. LimiterStands /\ KeysStand /\ RequestsTyped /\ RequestsStand
  BY Parts
<1>1. ASSUME NEW r \in Replicas, NEW area \in Areas, NEW k \in Presented \cup {NoKey},
             Arrive(c, r, area, k)
      PROVE  IInv'
  <2>1. RequestsTyped' /\ RequestsStand'
    BY <1>1, ArriveKeeps
  <2>2. UNCHANGED <<now, limiterVars, keyVars>>
    BY <1>1 DEF Arrive
  <2> QED
    BY <1>0, <2>1, <2>2, Untouched, Parts
<1>2. CASE Verify(c)
  <2>1. RequestsTyped' /\ RequestsStand'
    BY <1>2, VerifyKeeps
  <2>2. UNCHANGED <<now, limiterVars, keyVars>>
    BY <1>2 DEF Verify
  <2> QED
    BY <1>0, <2>1, <2>2, Untouched, Parts
<1>3. CASE Expire(c)
  <2>1. /\ UNCHANGED <<now, limiterVars, tx, enforced, keys>>
        /\ request[c].at = "expiring"
        /\ UNCHANGED request \/ Goes(c, "unauthenticated")
        /\ lockOf' \in {[lockOf EXCEPT ![request[c].key] = c], Released(c)}
    BY <1>3 DEF Expire, At, AfterExpiry
  <2>2. lockOf' \in [Keys -> Sessions \cup {Nobody}]
    BY <1>0, <2>1, ReleasedIsTyped DEF KeysStand, KeysTypeOK, Sessions
  <2>3. KeysStand'
    BY <1>0, <2>1, <2>2, LocksKeep DEF KeysStand
  <2>4. LimiterStands'
    BY <1>0, <2>1, Untouched
  <2>5. RequestsTyped' /\ RequestsStand'
    <3>1. CASE UNCHANGED request
      BY <1>0, <2>1, <3>1, RequestsRestated DEF RequestsTyped
    <3>2. CASE Goes(c, "unauthenticated")
      BY <2>1, <3>2, GoesKeeps DEF Refusals, Waiting
    <3> QED
      BY <2>1, <3>1, <3>2
  <2> QED
    BY <2>3, <2>4, <2>5, Parts
<1>4. CASE Call(c)
  <2>1. request[c].at = "limit" /\ UNCHANGED <<now, limiterVars, keyVars, enforced>>
    BY <1>4 DEF Call, At
  <2> DEFINE q == request[c]
             x == [q EXCEPT !.at = "calling", !.window = now]
  <2>2. q \in Request /\ Stands(q, keys, now, enforced) /\ now \in Times
    BY <1>0, <2>1, PlacesAreApart, RequestsRestated DEF RequestsTyped, KeysStand, Waiting
  <2>3. request' = [request EXCEPT ![c] = x]
    BY <1>0, <1>4 DEF Call, RequestsTyped
  <2>4. /\ x \in Request /\ x.at = "calling" /\ x.asker = q.asker /\ x.area = q.area
        /\ x.checks = q.checks /\ x.late = q.late /\ x.key = q.key
    BY <2>2 DEF Request, Waiting
  <2> HIDE DEF x
  <2>5. Stands(x, keys, now, enforced)
    BY <2>1, <2>2, <2>4 DEF Stands, Verified
  <2>6. RequestsTyped' /\ RequestsStand'
    BY <1>0, <2>1, <2>3, <2>4, <2>5, CallerKeeps DEF Places, keyVars
  <2> QED
    BY <1>0, <2>1, <2>6, Untouched, Parts
<1>5. CASE NoPrimary(c)
  <2>1. /\ request[c].at = "limit" /\ FallBack(c)
        /\ UNCHANGED <<now, failOpen, hits, primary, keyVars, enforced>>
    BY <1>5 DEF NoPrimary, At
  <2>2. hits' \in [Buckets -> Nat] /\ \A x \in Buckets : grants[Redis][x] <= hits'[x]
    BY <1>0, <2>1 DEF LimiterStands, LimiterTypeOK, CountersAgree
  <2> QED
    BY <2>1, <2>2, FallBackKeeps
<1>6. CASE RedisAnswers(c)
  <2>1. PICK allowed \in BOOLEAN : /\ CheckRedis(BucketOf(c), request[c].window, allowed)
                                   /\ Proceed(c, Judged(c, allowed))
    BY <1>6 DEF RedisAnswers
  <2>2. /\ request[c].at = "calling"
        /\ UNCHANGED <<now, failOpen, primary, local, keyVars, enforced>>
    BY <1>6 DEF RedisAnswers, At
  <2>3. LimiterStands'
    BY <1>0, <2>1, <2>2, BucketExists, CheckRedisKeeps
  <2>4. KeysStand'
    BY <1>0, <2>2, Untouched
  <2>5. RequestsTyped' /\ RequestsStand'
    BY <2>1, <2>2, ProceedKeeps DEF keyVars
  <2> QED
    BY <2>3, <2>4, <2>5, Parts
<1>7. CASE RedisIsSilent(c)
  <2>1. /\ request[c].at = "calling" /\ FallBack(c)
        /\ hits' \in {hits, RedisCounters(BucketOf(c), request[c].window)}
        /\ UNCHANGED <<now, failOpen, primary, keyVars, enforced>>
    BY <1>7 DEF RedisIsSilent, At
  <2>2. BucketOf(c) \in Buckets
    BY <2>1, BucketExists
  <2>3. hits' \in [Buckets -> Nat] /\ \A x \in Buckets : grants[Redis][x] <= hits'[x]
    BY <1>0, <2>1, <2>2, RedisCountersGrow DEF LimiterStands, LimiterTypeOK, CountersAgree
  <2> QED
    BY <2>1, <2>3, FallBackKeeps
<1>8. CASE Touch(c) \/ CommitTouch(c) \/ TouchFails(c)
  <2>1. /\ UNCHANGED <<now, limiterVars, keys, tx, enforced>>
        /\ \/ request[c].at = "touch" /\ Goes(c, "commit")
           \/ request[c].at = "commit" /\ Goes(c, "served")
           \/ request[c].at \in {"touch", "commit"} /\ Goes(c, "failed")
        /\ lockOf' \in {[lockOf EXCEPT ![request[c].key] = c], Released(c)}
    BY <1>8 DEF Touch, CommitTouch, TouchFails, Touched, At
  <2>2. lockOf' \in [Keys -> Sessions \cup {Nobody}]
    BY <1>0, <2>1, ReleasedIsTyped DEF KeysStand, KeysTypeOK, Sessions
  <2>3. KeysStand'
    BY <1>0, <2>1, <2>2, LocksKeep DEF KeysStand
  <2>4. LimiterStands'
    BY <1>0, <2>1, Untouched
  <2>5. RequestsTyped' /\ RequestsStand'
    BY <2>1, GoesKeeps DEF Refusals, Waiting
  <2> QED
    BY <2>3, <2>4, <2>5, Parts
<1>9. CASE Leave(c)
  <2>1. request' = [request EXCEPT ![c] = Idle] /\ UNCHANGED <<now, limiterVars, keyVars, enforced>>
    BY <1>9 DEF Leave
  <2>2. Idle \in Places /\ Idle \notin Request
    BY PlacesAreApart DEF Places, Idle, Waiting
  <2>3. RequestsTyped' /\ RequestsStand'
    BY <1>0, <2>1, <2>2, CallerKeeps DEF keyVars
  <2> QED
    BY <1>0, <2>1, <2>3, Untouched, Parts
<1> QED
  BY <1>1, <1>2, <1>3, <1>4, <1>5, <1>6, <1>7, <1>8, <1>9 DEF RequestStep

(***************************************************************************)
(* IInv is an invariant, and with it the promises of the composition.      *)
(***************************************************************************)
LEMMA InitIsSound == Init => IInv
<1> SUFFICES ASSUME Init PROVE IInv
  OBVIOUS
<1>1. Redis \in Counters /\ now \in Times /\ Cleared \in [Buckets -> Nat]
      /\ \A b \in Buckets : Cleared[b] = 0 /\ Budget[b] \in Nat
  BY BudgetAssumption, TimeAssumption DEF Init, Counters, Times, Cleared
<1>2. LimiterTypeOK
  BY <1>1 DEF Init, LimiterInit, LimiterTypeOK
<1>3. GrantsWithinBudget /\ CountersAgree
  BY <1>1 DEF Init, LimiterInit, GrantsWithinBudget, CountersAgree, Counters
<1>4. FallbackIsBounded
  BY EntriesAssumption DEF Init, LimiterInit, FallbackIsBounded
<1>5. KeysTypeOK
  BY NoTransactionIsOne DEF Init, KeysInit, KeysTypeOK
<1>6. RotationIsAtomic /\ TransactionsStand
  BY NoTransactionIsOne DEF Init, KeysInit, RotationIsAtomic, TransactionsStand, NoRow
<1>7. RequestsTyped /\ RequestsStand
  <2>1. Idle \in Places /\ Idle \notin Request /\ Idle.at \notin Waiting \cup {"served"}
    BY PlacesAreApart DEF Places, Idle, Waiting
  <2> QED
    BY <2>1 DEF Init, RequestsTyped, RequestsStand
<1> QED
  BY <1>1, <1>2, <1>3, <1>4, <1>5, <1>6, <1>7, Parts DEF LimiterStands, KeysStand

\* Nor does any step of the system.
LEMMA StepKeeps == IInv /\ [Next]_vars => IInv'
<1> SUFFICES ASSUME IInv, [Next]_vars PROVE IInv'
  OBVIOUS
<1>0. LimiterStands /\ KeysStand /\ RequestsTyped /\ RequestsStand
  BY Parts
<1>1. CASE UNCHANGED vars
  <2>1. LimiterStands' /\ KeysStand'
    BY <1>0, <1>1, Untouched DEF vars
  <2>2. RequestsTyped' /\ RequestsStand'
    BY <1>0, <1>1, RequestsRestated DEF vars, accessVars, keyVars, RequestsTyped
  <2> QED
    BY <2>1, <2>2, Parts
<1>2. ASSUME NEW c \in Callers, RequestStep(c) PROVE IInv'
  BY <1>2, RequestKeeps
<1>3. ASSUME NEW r \in Replicas, Stop(r) PROVE IInv'
  BY <1>3, StopKeeps
<1>4. CASE OperatorStep /\ UNCHANGED <<limiterVars, accessVars>>
  <2>1. KeysStand' /\ now' = now /\ \A k \in Keys : Ages(keys[k], keys'[k])
    BY <1>0, <1>4, OperatorKeeps
  <2>2. LimiterStands'
    BY <1>0, <1>4, <2>1, Untouched
  <2>3. keys' \in [Keys -> Row] /\ now' \in Times /\ now <= now'
    BY <1>0, <2>1, TimeAssumption DEF KeysStand, KeysTypeOK, Times
  <2>4. RequestsTyped' /\ RequestsStand'
    BY <1>4, <2>1, <2>3, RequestsStandLater
  <2> QED
    BY <2>1, <2>2, <2>4, Parts
<1>5. CASE LimiterStep /\ UNCHANGED <<keyVars, accessVars>>
  <2>1. LimiterStands'
    BY <1>0, <1>5, LimiterStepKeeps
  <2>2. now' \in Times /\ now <= now' /\ UNCHANGED <<keys, lockOf, tx>>
    BY <1>0, <1>5, <2>1, TimeAssumption
       DEF LimiterStands, LimiterStep, StartReplica, RedisDrops, NextWindow, Times, keyVars
  <2>3. KeysStand'
    BY <1>0, <2>2, LocksKeep DEF KeysStand, KeysTypeOK
  <2>4. keys' \in [Keys -> Row] /\ \A k \in Keys : Ages(keys[k], keys'[k])
    BY <1>0, <2>2 DEF KeysStand, KeysTypeOK, Ages
  <2>5. RequestsTyped' /\ RequestsStand'
    BY <1>5, <2>2, <2>4, RequestsStandLater
  <2> QED
    BY <2>1, <2>3, <2>5, Parts
<1> QED
  BY <1>1, <1>2, <1>3, <1>4, <1>5 DEF Next

\* The inductive invariant: the limiter, the keys and the requests stand, always.
THEOREM Invariance == Spec => []IInv
BY InitIsSound, StepKeeps, PTL DEF Spec

\* Counters, rows, transactions and requests keep their types; in particular a
\* request never asks the limiter more than twice.
THEOREM TypeCorrect == Spec => []TypeOK
<1>1. IInv => TypeOK
  BY DEF IInv
<1> QED
  BY <1>1, Invariance, PTL

\* However many replicas and clients there are, and however Redis fails, no
\* counter grants a bucket more than its budget in one window (the Lua script and
\* InProcessWindowLimiter.check).
THEOREM BudgetsHold == Spec => []GrantsWithinBudget
<1>1. IInv => GrantsWithinBudget
  BY DEF IInv
<1> QED
  BY <1>1, Invariance, PTL

\* A replica without Redis never keeps more than MaxEntries counters, nor two of
\* one bucket (_bucket_for).
THEOREM FallbackStaysBounded == Spec => []FallbackIsBounded
<1>1. IInv => FallbackIsBounded
  BY DEF IInv
<1> QED
  BY <1>1, Invariance, PTL

\* A key that was revoked or had expired when a request arrived does not get that
\* request served, and no key is served an area it has no scope for, whatever
\* operators do meanwhile (ApiKeyService.verify).
THEOREM RevocationTakesEffect == Spec => []NoServiceAfterRevocation
<1>1. IInv => NoServiceAfterRevocation
  <2> SUFFICES ASSUME IInv, NEW c \in Callers, At(c, "served"), enforced,
                      request[c].area \in Protected
               PROVE  /\ request[c].key # NoKey /\ ~request[c].late
                      /\ Granting(keys[request[c].key], request[c].area)
    BY DEF NoServiceAfterRevocation
  <2>1. request[c] \in Request /\ Stands(request[c], keys, now, enforced) /\ request[c].at = "served"
    BY Parts, PlacesAreApart, RequestsRestated DEF RequestsTyped, At
  <2>2. request[c].asker = "access"
    BY <2>1 DEF Stands, Request
  <2> QED
    BY <2>1, <2>2 DEF Stands, Verified
<1> QED
  BY <1>1, Invariance, PTL

\* A served request was put to the limiter exactly once: the two lists of areas
\* split the paths between the middleware and api_access.
THEOREM ChargedOnce == Spec => []OneChargePerRequest
<1>1. IInv => OneChargePerRequest
  <2> SUFFICES ASSUME IInv, NEW c \in Callers
               PROVE  /\ At(c, "served") => request[c].checks = 1
                      /\ request[c].at \in Waiting => request[c].checks <= 1
    BY DEF OneChargePerRequest
  <2>1. request[c].at \in Waiting \cup {"served"} => Stands(request[c], keys, now, enforced)
    BY Parts, RequestsRestated
  <2> QED
    BY <2>1 DEF Stands, At
<1> QED
  BY <1>1, Invariance, PTL

\* However rotations, revocations and failures interleave, a successor is never
\* usable beside the key it replaces (rotate).
THEOREM RotationsAreAtomic == Spec => []RotationIsAtomic
<1>1. IInv => RotationIsAtomic
  BY DEF IInv
<1> QED
  BY <1>1, Invariance, PTL

\* No request, expiry or command makes a revoked key anything else.
THEOREM RevocationIsFinal == Spec => RevokedIsForever
<1> DEFINE A == \A k \in Keys : keys[k].status = "REVOKED" => keys'[k].status = "REVOKED"
<1>1. IInv /\ [Next]_vars => [A]_keyVars
  <2> SUFFICES ASSUME IInv, Next, NEW k \in Keys, keys[k].status = "REVOKED", keys' # keys
               PROVE  keys'[k].status = "REVOKED"
    BY DEF keyVars, vars
  <2>1. \A c \in Callers : RequestStep(c) => UNCHANGED keys
    BY DEF RequestStep, Arrive, Verify, Expire, Call, NoPrimary, RedisAnswers, RedisIsSilent, Touch,
           CommitTouch, TouchFails, Leave, keyVars, AfterExpiry, Touched
  <2>2. OperatorStep
    BY <2>1 DEF Next, Stop, keyVars
  <2>3. Ages(keys[k], keys'[k])
    BY <2>2, Parts, OperatorKeeps
  <2> QED
    BY <2>3 DEF Ages
<1> QED
  BY <1>1, Invariance, PTL DEF Spec, RevokedIsForever
=============================================================================
