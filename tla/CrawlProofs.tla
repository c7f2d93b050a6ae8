---------------------------- MODULE CrawlProofs ----------------------------
(***************************************************************************)
(* Proofs about what a crawl delivers, for any site, links and ceilings:   *)
(* the items of its listing, in their order, as far as it gets.            *)
(*                                                                         *)
(* The items of a listing are numbered by the places before theirs (Rank). *)
(* The places behind a crawl are an initial part of that order, and it has *)
(* delivered as many items as they are; the row it delivers next is the    *)
(* least of the others, so that its number is the next one.                *)
(***************************************************************************)
EXTENDS Crawl, FiniteSetTheorems, SequenceTheorems, WellFoundedInduction, TLAPS

(***************************************************************************)
(* The fetcher.                                                            *)
(***************************************************************************)

\* What every step of the fetcher and of its callers does: it keeps the pace, and
\* goes to the network only when the pace of the host allows it.
Paced ==
    /\ PaceHolds'
    /\ call.stage # "attempt" /\ call'.stage = "attempt" => since[Host] >= MinGap

\* A call under way asks a known host.
LEMMA HostIsKnown ==
  ASSUME PaceHolds, call.stage \in {"robots", "pace", "attempt", "backoff"}
  PROVE  call.url \in Urls /\ Host \in Hosts
BY DEF PaceHolds, Host, Hosts

\* The caller takes the fetcher up, or gives it back.
LEMMA CallersArePaced ==
  ASSUME PaceHolds, UNCHANGED <<wait, since>>, Free \/ \E u : Begin(u)
  PROVE  Paced
<1>0. DOMAIN NoCall = {"stage", "url", "attempt", "hops", "outcome"} /\ NoCall.stage = "idle"
  BY DEF NoCall
<1>1. CASE Free
  BY <1>0, <1>1 DEF Free, PaceHolds, Paced
<1>2. ASSUME NEW u, Begin(u)
      PROVE  Paced
  <2>1. CASE u \in Urls /\ call' = [NoCall EXCEPT !.stage = IF respect THEN "robots" ELSE "pace",
                                                  !.url = u]
    <3>1. DOMAIN call' = DOMAIN NoCall /\ call'.url = u /\ call'.stage \in {"robots", "pace"}
      BY <2>1 DEF NoCall
    <3> QED
      BY <2>1, <3>1 DEF PaceHolds, Paced
  <2>2. CASE call' = [NoCall EXCEPT !.stage = "done", !.url = u, !.outcome = "UNSAFE_URL"]
    <3>1. DOMAIN call' = DOMAIN NoCall /\ call'.stage = "done"
      BY <2>2 DEF NoCall
    <3> QED
      BY <3>1 DEF PaceHolds, Paced
  <2> QED
    BY <1>2, <2>1, <2>2 DEF Begin
<1> QED
  BY <1>1, <1>2

\* What a step of the fetcher can make of its call.
LEMMA EndedCall ==
  ASSUME PaceHolds, NEW outcome
  PROVE  DOMAIN Ended(outcome) = DOMAIN NoCall /\ Ended(outcome).stage = "done"
BY DEF PaceHolds, Ended, NoCall

\* Every step of the fetcher keeps the pace of a host.
LEMMA FetcherIsPaced ==
  ASSUME PaceHolds, FetcherStep \/ \E h \in Hosts : RobotsAge(h)
  PROVE  Paced
<1>0. DOMAIN call = {"stage", "url", "attempt", "hops", "outcome"}
  BY DEF PaceHolds, NoCall
<1>1. CASE CheckRobots
  <2>1. call.url \in Urls
    BY <1>1, HostIsKnown DEF CheckRobots
  <2>2. PICK rules : call' = IF call.url \in rules THEN Ended("ROBOTS_DISALLOWED")
                            ELSE [call EXCEPT !.stage = "pace"]
    BY <1>1 DEF CheckRobots
  <2>3. /\ DOMAIN call' = DOMAIN NoCall /\ call'.stage \in {"done", "pace"}
        /\ call'.stage = "pace" => call'.url = call.url
    BY <1>0, <2>2, EndedCall DEF PaceHolds
  <2>4. UNCHANGED <<wait, since>>
    BY <1>1 DEF CheckRobots
  <2> QED
    BY <2>1, <2>3, <2>4 DEF PaceHolds, Paced
<1>2. CASE Acquire
  <2>1. call.url \in Urls /\ Host \in Hosts
    BY <1>2, HostIsKnown DEF Acquire
  <2>2. PICK gap \in MinGap..MaxGap : wait' = [wait EXCEPT ![Host] = gap]
    BY <1>2 DEF Acquire, Gap
  <2>3. since' = [since EXCEPT ![Host] = 0] /\ call' = [call EXCEPT !.stage = "attempt"]
    BY <1>2 DEF Acquire
  <2>4. MinGap \in Nat /\ MaxGap \in Nat /\ gap \in 0..MaxGap
    BY <2>2, GapAssumption
  <2>5. wait' \in [Hosts -> 0..MaxGap] /\ since' \in [Hosts -> 0..MinGap]
    BY <2>1, <2>2, <2>3, <2>4 DEF PaceHolds
  <2>6. ASSUME NEW h \in Hosts
        PROVE  since'[h] + wait'[h] >= MinGap
    <3>1. CASE h = Host
      BY <2>1, <2>2, <2>3, <2>4, <3>1 DEF PaceHolds
    <3>2. CASE h # Host
      BY <2>2, <2>3, <2>4, <3>2 DEF PaceHolds
    <3> QED
      BY <3>1, <3>2
  <2>7. DOMAIN call' = DOMAIN NoCall /\ call'.url = call.url
    BY <1>0, <2>3 DEF PaceHolds
  <2>8. since[Host] >= MinGap
    <3>1. wait[Host] = 0 /\ since[Host] \in 0..MinGap /\ since[Host] + wait[Host] >= MinGap
      BY <1>2, <2>1 DEF Acquire, PaceHolds
    <3> QED
      BY <3>1, <2>4
  <2> QED
    BY <2>1, <2>5, <2>6, <2>7, <2>8 DEF PaceHolds, Paced
<1>7. CASE Redirect
  <2>1. call.url \in Urls /\ UNCHANGED <<wait, since>> /\ call.stage = "attempt"
    BY <1>7, HostIsKnown DEF Redirect
  <2>2. DOMAIN call' = DOMAIN NoCall /\ call'.stage = "attempt" /\ call'.url = call.url
    BY <1>0, <1>7 DEF Redirect, PaceHolds
  <2> QED
    BY <2>1, <2>2 DEF PaceHolds, Paced
<1>3. CASE Attempt
  <2>1. call.url \in Urls /\ UNCHANGED <<wait, since>>
    BY <1>3, HostIsKnown DEF Attempt
  <2>2. /\ DOMAIN call' = DOMAIN NoCall /\ call'.stage \in {"done", "backoff"}
        /\ call'.stage = "backoff" => call'.url = call.url
    BY <1>0, <1>3, EndedCall DEF Attempt, AfterTransient, PaceHolds
  <2> QED
    BY <2>1, <2>2 DEF PaceHolds, Paced
<1>4. CASE BackOff
  <2>1. call.url \in Urls /\ UNCHANGED <<wait, since>> /\ call' = [call EXCEPT !.stage = "pace"]
    BY <1>4, HostIsKnown DEF BackOff
  <2>2. DOMAIN call' = DOMAIN NoCall /\ call'.stage = "pace" /\ call'.url = call.url
    BY <1>0, <2>1 DEF PaceHolds
  <2> QED
    BY <2>1, <2>2 DEF PaceHolds, Paced
<1>5. CASE Tick
  <2>1. /\ wait' = [h \in Hosts |-> IF wait[h] = 0 THEN 0 ELSE wait[h] - 1]
        /\ since' = [h \in Hosts |-> IF since[h] < MinGap THEN since[h] + 1 ELSE since[h]]
        /\ call' = call
    BY <1>5 DEF Tick
  <2>2. MinGap \in Nat /\ MaxGap \in Nat
    BY GapAssumption
  <2>3. ASSUME NEW h \in Hosts
        PROVE  /\ wait'[h] \in 0..MaxGap /\ since'[h] \in 0..MinGap
               /\ since'[h] + wait'[h] >= MinGap
    <3>1. wait[h] \in 0..MaxGap /\ since[h] \in 0..MinGap /\ since[h] + wait[h] >= MinGap
      BY DEF PaceHolds
    <3>2. /\ wait'[h] = IF wait[h] = 0 THEN 0 ELSE wait[h] - 1
          /\ since'[h] = IF since[h] < MinGap THEN since[h] + 1 ELSE since[h]
      BY <2>1
    <3> QED
      BY <3>1, <3>2, <2>2
  <2>4. wait' \in [Hosts -> 0..MaxGap] /\ since' \in [Hosts -> 0..MinGap]
    BY <2>1, <2>3
  <2> QED
    BY <2>1, <2>3, <2>4 DEF PaceHolds, Paced
<1>6. ASSUME NEW h \in Hosts, RobotsAge(h)
      PROVE  Paced
  BY <1>6 DEF RobotsAge, PaceHolds, Paced
<1> QED
  BY <1>1, <1>2, <1>3, <1>4, <1>5, <1>6, <1>7 DEF FetcherStep

(***************************************************************************)
(* The crawl.                                                              *)
(***************************************************************************)

\* The empty delivery is a stream.
LEMMA NoItemsIsAStream == <<>> \in Seq(ToSet(<<>>))
BY EmptySeq

\* One more item.
LEMMA OneMoreItem ==
  ASSUME NEW items, items \in Seq(ToSet(items)), NEW item
  PROVE  /\ Append(items, item) \in Seq(ToSet(Append(items, item)))
         /\ Len(Append(items, item)) = Len(items) + 1
<1> DEFINE more == Append(items, item)
           S == ToSet(items) \cup {item}
<1>1. items \in Seq(S) /\ item \in S
  BY SeqMonotonic
<1>2. /\ more \in Seq(S) /\ Len(more) = Len(items) + 1
      /\ \A i \in 1..Len(items) : more[i] = items[i]
      /\ more[Len(items) + 1] = item
  BY <1>1, AppendProperties
<1>3. Len(items) \in Nat /\ DOMAIN items = 1..Len(items) /\ DOMAIN more = 1..Len(more)
  BY <1>1, <1>2, LenProperties
<1> HIDE DEF more
<1>4. S \subseteq ToSet(more)
  <2>1. ASSUME NEW x \in ToSet(items)
        PROVE  x \in ToSet(more)
    <3>1. PICK i \in DOMAIN items : x = items[i]
      BY DEF ToSet
    <3>2. i \in DOMAIN more /\ more[i] = x
      BY <1>2, <1>3, <3>1
    <3> QED
      BY <3>2 DEF ToSet
  <2>2. Len(items) + 1 \in DOMAIN more
    BY <1>2, <1>3
  <2>3. item \in ToSet(more)
    BY <1>2, <2>2 DEF ToSet
  <2> QED
    BY <2>1, <2>3
<1>5. more \in Seq(ToSet(more))
  BY <1>2, <1>4, SeqMonotonic
<1> QED
  BY <1>2, <1>5 DEF more

\* The three kinds of steps a crawl takes: one between items, one that gives the
\* pipeline an item, and the last one.
Between ==
    /\ delivered' = delivered /\ errors' = errors
    /\ phase' = "ended" <=> phase = "ended"

Gives ==
    /\ phase # "ended" /\ phase' # "ended"
    /\ Len(delivered) < MaxItems /\ Len(delivered') = Len(delivered) + 1
    /\ delivered' \in Seq(ToSet(delivered'))
    /\ errors' = errors

Ends ==
    /\ phase # "ended" /\ phase' = "ended"
    /\ delivered' = delivered
    /\ errors' = <<>> \/ \E e : errors' = <<e>>

\* A crawl that stops ends its stream, with what was delivered.
LEMMA StopEnds ==
  ASSUME StreamStands, phase # "ended", Stop(<<>>) \/ \E e : Stop(<<e>>)
  PROVE  Ends
<1>1. errors = <<>>
  BY DEF StreamStands
<1>2. ASSUME NEW e, Stop(<<e>>)
      PROVE  Ends
  <2>1. errors' = <<>> \o <<e>>
    BY <1>1, <1>2 DEF Stop
  <2>2. <<e>> \in Seq({e})
    OBVIOUS
  <2>3. errors' = <<e>>
    BY <2>1, <2>2, ConcatEmptySeq
  <2> QED
    BY <1>2, <2>3 DEF Stop, Ends
<1>3. CASE Stop(<<>>)
  <2>1. errors' = <<>>
    BY <1>1, <1>3, EmptySeq, ConcatEmptySeq DEF Stop
  <2> QED
    BY <1>3, <2>1 DEF Stop, Ends
<1> QED
  BY <1>2, <1>3

\* An exception ends the stream or leaves it as it is ...
LEMMA RaiseIsEither ==
  ASSUME StreamStands, phase # "ended", NEW e, Raise(e)
  PROVE  Between \/ Ends
BY StopEnds DEF Raise, FallBack, Between

\* ... and an item is given, or the first beyond the ceiling ends the stream.
LEMMA DeliverIsEither ==
  ASSUME StreamStands, phase # "ended", NEW item, Deliver(item)
  PROVE  Gives \/ Ends
<1>1. CASE Len(delivered) >= MaxItems
  BY <1>1, StopEnds DEF Deliver
<1>2. CASE ~(Len(delivered) >= MaxItems)
  <2>1. /\ delivered' = Append(delivered, item) /\ phase' = "rows"
        /\ errors' = errors
    BY <1>2 DEF Deliver
  <2>2. delivered \in Seq(ToSet(delivered)) /\ Len(delivered) \in Nat
    BY LenProperties DEF StreamStands
  <2>3. Len(delivered) < MaxItems
    BY <1>2, <2>2, MaxItemsAssumption
  <2> QED
    BY <2>1, <2>2, <2>3, OneMoreItem DEF Gives
<1> QED
  BY <1>1, <1>2

\* A step of the crawl is nothing to the stream, an item of it, or its end.
LEMMA CrawlMoves ==
  ASSUME StreamStands, Next
  PROVE  Between \/ Gives \/ Ends
<1>1. CASE Discover
  BY <1>1, StopEnds DEF Discover, Between
<1>2. CASE NextTarget
  BY <1>2, StopEnds DEF NextTarget, Between
<1>3. CASE NoMoreTargets
  BY <1>3, StopEnds DEF NoMoreTargets, FallBack, Between
<1>4. CASE FetchPage \/ FetchDetail
  BY <1>4 DEF FetchPage, FetchDetail, Between
<1>5. CASE ReceivePage
  BY <1>5, RaiseIsEither DEF ReceivePage, Between
<1>6. CASE PageFails
  BY <1>6, RaiseIsEither DEF PageFails
<1>7. CASE NextPage
  BY <1>7, StopEnds DEF NextPage, Between
<1>8. CASE SkipRow
  BY <1>8 DEF SkipRow, Between
<1>9. CASE TakeRow
  BY <1>9, DeliverIsEither DEF TakeRow
<1>10. CASE ReceiveDetail
  BY <1>10, DeliverIsEither, StopEnds DEF ReceiveDetail
<1>11. CASE Fetches \/ Ages
  BY <1>11 DEF Fetches, Ages, crawlVars, Between
<1> QED
  BY <1>1, <1>2, <1>3, <1>4, <1>5, <1>6, <1>7, <1>8, <1>9, <1>10, <1>11 DEF Next, Reads

\* Each of the three keeps what stands of the stream.
LEMMA StreamIsKept ==
  ASSUME StreamStands, Between \/ Gives \/ Ends
  PROVE  StreamStands'
BY DEF StreamStands, Between, Gives, Ends

\* How many pages of a target are read is a number.
LEMMA ReachIsANumber ==
  ASSUME NEW s \in Sites, NEW m
  PROVE  Reach(s, m) \in Nat
BY SitesAssumption DEF Reach

\* The pages of a target, counted.
PagesWithin == PagesStand /\ site \in Sites /\ pages \in 0..Reach(site, mode)

\* A target is left after max_pages pages at the latest.
LEMMA RaiseKeepsPages ==
  ASSUME PagesWithin, phase # "ended", NEW e, Raise(e)
  PROVE  PagesWithin'
<1>1. Reach(site, "fallback") \in Nat
  BY ReachIsANumber DEF PagesWithin
<1>2. CASE FallBack
  BY <1>1, <1>2 DEF PagesWithin, PagesStand, FallBack
<1>3. CASE Stop(<<e>>)
  BY <1>3 DEF PagesWithin, PagesStand, Stop
<1> QED
  BY <1>2, <1>3 DEF Raise

\* Delivering an item reads no page ...
LEMMA DeliverKeepsPages ==
  ASSUME PagesWithin, NEW item, Deliver(item)
  PROVE  PagesWithin'
BY DEF PagesWithin, PagesStand, Deliver, Stop

\* ... and every step of the crawl stays within the pages the site allows.
LEMMA PagesAreKept ==
  ASSUME PagesWithin, Next
  PROVE  PagesWithin'
<1>0. Reach(site, mode) \in Nat /\ Reach(site, "fallback") \in Nat
  BY ReachIsANumber DEF PagesWithin
<1>1. CASE Discover \/ NoMoreTargets
  BY <1>0, <1>1 DEF Discover, NoMoreTargets, FallBack, Stop, PagesWithin, PagesStand
<1>2. CASE NextTarget
  BY <1>0, <1>2 DEF NextTarget, Stop, PagesWithin, PagesStand
<1>3. CASE FetchPage \/ FetchDetail
  BY <1>3 DEF FetchPage, FetchDetail, PagesWithin, PagesStand
<1>4. CASE ReceivePage
  <2>1. CASE ParseFailure(Reader, site, page) # NoError
    BY <1>4, <2>1, RaiseKeepsPages DEF ReceivePage
  <2>2. CASE ParseFailure(Reader, site, page) = NoError
    <3>1. /\ phase = "fetching" /\ phase' = "rows"
          /\ pages' = pages + 1 /\ site' = site /\ mode' = mode
      BY <1>4, <2>2 DEF ReceivePage
    <3> QED
      BY <1>0, <3>1 DEF PagesWithin, PagesStand
  <2> QED
    BY <2>1, <2>2
<1>5. CASE PageFails
  BY <1>5, RaiseKeepsPages DEF PageFails
<1>6. CASE NextPage
  BY <1>6 DEF NextPage, Stop, HasNext, PagesWithin, PagesStand
<1>7. CASE SkipRow
  BY <1>7 DEF SkipRow, PagesWithin, PagesStand
<1>8. CASE TakeRow \/ ReceiveDetail
  BY <1>8, DeliverKeepsPages DEF TakeRow, ReceiveDetail, Stop, PagesWithin, PagesStand
<1>9. CASE Fetches \/ Ages
  BY <1>9 DEF Fetches, Ages, crawlVars, PagesWithin, PagesStand
<1> QED
  BY <1>1, <1>2, <1>3, <1>4, <1>5, <1>6, <1>7, <1>8, <1>9 DEF Next, Reads

\* A crawl keeps the pace: it calls the fetcher, gives it back or lets it work.
LEMMA CrawlIsPaced ==
  ASSUME PaceHolds, Next
  PROVE  Paced
<1>1. CASE Discover \/ NextTarget \/ NoMoreTargets \/ NextPage \/ SkipRow \/ TakeRow
  <2>1. UNCHANGED fetchVars
    BY <1>1 DEF Discover, NextTarget, NoMoreTargets, NextPage, SkipRow, TakeRow
  <2> QED
    BY <2>1 DEF fetchVars, PaceHolds, Paced
<1>2. CASE FetchPage \/ FetchDetail
  BY <1>2, CallersArePaced DEF FetchPage, FetchDetail
<1>3. CASE ReceivePage \/ PageFails \/ ReceiveDetail
  BY <1>3, CallersArePaced DEF ReceivePage, PageFails, ReceiveDetail
<1>4. CASE Fetches \/ Ages
  BY <1>4, FetcherIsPaced DEF Fetches, Ages
<1> QED
  BY <1>1, <1>2, <1>3, <1>4 DEF Next, Reads

(***************************************************************************)
(* Natural numbers, by sets of them.                                       *)
(***************************************************************************)

\* A set of natural numbers that is not empty has a least element.
LEMMA MinIsLeast ==
  ASSUME NEW S, S \subseteq Nat, S # {}
  PROVE  Min(S) \in S /\ \A y \in S : Min(S) <= y
<1>1. PICK x \in S : \A y \in S : ~(<<y, x>> \in OpToRel(<, Nat))
  BY NatLessThanWellFounded, WFMin
<1>2. \A y \in S : ~(y < x)
  BY <1>1 DEF OpToRel
<1>3. \A y \in S : x <= y
  BY <1>2
<1> QED
  BY <1>1, <1>3 DEF Min

\* Induction up to a bound.
LEMMA InductionTo ==
  ASSUME NEW bound \in Nat, NEW S, 1 \in S,
         \A n \in 1..bound : n \in S /\ n < bound => n + 1 \in S
  PROVE  \A n \in 1..bound : n \in S
<1> DEFINE bad == (1..bound) \ S
<1>1. SUFFICES ASSUME bad # {}
               PROVE  FALSE
  OBVIOUS
<1>2. bad \subseteq Nat
  OBVIOUS
<1>3. Min(bad) \in bad /\ \A y \in bad : Min(bad) <= y
  BY <1>1, <1>2, MinIsLeast
<1>4. PICK n \in Nat : n = Min(bad)
  BY <1>2, <1>3
<1>5. n \in 1..bound /\ n \notin S /\ n # 1
  BY <1>3, <1>4
<1>6. n - 1 \in 1..bound /\ n - 1 < bound /\ (n - 1) + 1 = n
  BY <1>5
<1>7. n - 1 \notin bad
  BY <1>3, <1>4
<1>8. n - 1 \in S
  BY <1>6, <1>7
<1> QED
  BY <1>5, <1>6, <1>8

\* A function that starts with a value and goes on with the next one exists.
Steps(f, bound, start, next) ==
    f = [n \in 1..bound |-> IF n = 1 THEN start ELSE next[f[n - 1]]]

LEMMA StepsExist ==
  ASSUME NEW V, NEW start \in V, NEW next \in [V -> V], NEW bound \in Nat \ {0}
  PROVE  \E f : Steps(f, bound, start, next)
<1> DEFINE S == {n \in 1..bound : \E f \in [1..n -> V] : Steps(f, n, start, next)}
<1>1. 1 \in S
  <2> DEFINE f == [n \in 1..1 |-> start]
  <2>1. f \in [1..1 -> V] /\ Steps(f, 1, start, next)
    BY DEF Steps
  <2> QED
    BY <2>1
<1>2. ASSUME NEW n \in 1..bound, n \in S, n < bound
      PROVE  n + 1 \in S
  <2>1. PICK f \in [1..n -> V] : Steps(f, n, start, next)
    BY <1>2
  <2> DEFINE g == [k \in 1..(n + 1) |-> IF k = n + 1 THEN next[f[n]] ELSE f[k]]
  <2>2. f[n] \in V /\ next[f[n]] \in V
    BY <2>1
  <2>3. g \in [1..(n + 1) -> V]
    BY <2>1, <2>2
  <2>4. ASSUME NEW k \in 1..(n + 1)
        PROVE  g[k] = IF k = 1 THEN start ELSE next[g[k - 1]]
    <3>1. CASE k = n + 1
      <4>1. k # 1 /\ k - 1 = n /\ n \in 1..(n + 1) /\ n # n + 1
        BY <3>1
      <4> QED
        BY <3>1, <4>1
    <3>2. CASE k \in 1..n
      <4>1. f[k] = IF k = 1 THEN start ELSE next[f[k - 1]]
        BY <2>1, <3>2 DEF Steps
      <4>2. g[k] = f[k] /\ (k # 1 => g[k - 1] = f[k - 1])
        BY <3>2
      <4> QED
        BY <4>1, <4>2
    <3> QED
      BY <3>1, <3>2
  <2>5. Steps(g, n + 1, start, next)
    BY <2>3, <2>4 DEF Steps
  <2>6. n + 1 \in 1..bound
    BY <1>2
  <2> QED
    BY <2>3, <2>5, <2>6
<1>3. bound \in 1..bound
  OBVIOUS
<1> HIDE DEF S
<1>4. bound \in S
  BY <1>1, <1>2, <1>3, InductionTo
<1> QED
  BY <1>4 DEF S

(***************************************************************************)
(* Trails.                                                                 *)
(***************************************************************************)

Modes == {"own", "fallback"}

\* A page links to a page, or to none.
LEMMA LinksArePages ==
  ASSUME NEW s \in Sites, NEW m, NEW p \in Urls \cup {NoUrl}
  PROVE  LinkOf(s, m, p) \in Urls \cup {NoUrl}
BY SitesAssumption DEF LinkOf

\* The recursive definition of a trail defines it.
LEMMA TrailIsDefined ==
  ASSUME NEW s \in Sites, NEW m, NEW u \in Urls
  PROVE  Trail(s, m, u) = [n \in 1..Reach(s, m) |->
                           IF n = 1 THEN u ELSE LinkOf(s, m, Trail(s, m, u)[n - 1])]
<1> DEFINE V == Urls \cup {NoUrl}
           next == [p \in V |-> LinkOf(s, m, p)]
           M == Reach(s, m)
<1>1. M \in Nat
  BY ReachIsANumber
<1>2. next \in [V -> V]
  BY LinksArePages
<1>3. CASE M = 0
  <2>1. [n \in 1..M |-> u] = [n \in 1..M |-> IF n = 1 THEN u
                              ELSE LinkOf(s, m, [k \in 1..M |-> u][n - 1])]
    BY <1>3
  <2> QED
    BY <2>1 DEF Trail
<1>4. CASE M # 0
  <2>1. PICK f : Steps(f, M, u, next)
    <3> HIDE DEF next, M
    <3> QED
      BY <1>1, <1>2, <1>4, StepsExist
  <2>2. \A n \in 1..M : f[n] \in V
    <3> DEFINE S == {n \in 1..M : f[n] \in V}
    <3> HIDE DEF next, M, V
    <3>1. 1 \in S
      BY <1>1, <2>1, <1>4 DEF Steps, V
    <3>2. ASSUME NEW n \in 1..M, n \in S, n < M
          PROVE  n + 1 \in S
      <4>1. n + 1 \in 1..M /\ n + 1 # 1 /\ (n + 1) - 1 = n
        BY <1>1, <3>2
      <4>2. f[n + 1] = next[f[n]]
        BY <2>1, <4>1 DEF Steps
      <4> QED
        BY <1>2, <3>2, <4>1, <4>2
    <3> HIDE DEF S
    <3>3. \A n \in 1..M : n \in S
      BY <1>1, <3>1, <3>2, InductionTo
    <3> QED
      BY <3>3 DEF S
  <2>3. f = [n \in 1..M |-> IF n = 1 THEN u ELSE LinkOf(s, m, f[n - 1])]
    <3>1. ASSUME NEW n \in 1..M, n # 1
          PROVE  next[f[n - 1]] = LinkOf(s, m, f[n - 1])
      <4>1. n - 1 \in 1..M
        BY <1>1, <3>1
      <4> QED
        BY <2>2, <4>1
    <3> HIDE DEF next, M
    <3> QED
      BY <2>1, <3>1 DEF Steps
  <2> QED
    BY <2>3 DEF Trail
<1> QED
  BY <1>3, <1>4

\* A trail starts at its first page and goes from link to link.
LEMMA TrailGoesOn ==
  ASSUME NEW s \in Sites, NEW m, NEW u \in Urls
  PROVE  /\ Trail(s, m, u) \in [1..Reach(s, m) -> Urls \cup {NoUrl}]
         /\ Reach(s, m) > 0 => Trail(s, m, u)[1] = u
         /\ \A n \in 1..Reach(s, m) :
               n < Reach(s, m) => Trail(s, m, u)[n + 1] = LinkOf(s, m, Trail(s, m, u)[n])
<1> DEFINE M == Reach(s, m)
           t == Trail(s, m, u)
           S == {n \in 1..M : t[n] \in Urls \cup {NoUrl}}
<1>1. M \in Nat
  BY ReachIsANumber
<1>2. t = [n \in 1..M |-> IF n = 1 THEN u ELSE LinkOf(s, m, t[n - 1])]
  BY TrailIsDefined
<1> HIDE DEF M, t
<1>3. M > 0 => t[1] = u
  BY <1>1, <1>2
<1>4. ASSUME NEW n \in 1..M, n < M
      PROVE  t[n + 1] = LinkOf(s, m, t[n])
  <2>1. n + 1 \in 1..M /\ n + 1 # 1 /\ (n + 1) - 1 = n
    BY <1>1, <1>4
  <2> QED
    BY <1>2, <2>1
<1>5. M > 0 => 1 \in S
  BY <1>1, <1>3
<1>6. ASSUME NEW n \in 1..M, n \in S, n < M
      PROVE  n + 1 \in S
  <2>1. t[n + 1] \in Urls \cup {NoUrl}
    BY <1>4, <1>6, LinksArePages
  <2> QED
    BY <1>1, <1>6, <2>1
<1> HIDE DEF S
<1>7. \A n \in 1..M : n \in S
  <2>1. CASE M = 0
    BY <2>1
  <2>2. CASE M > 0
    BY <1>1, <1>5, <1>6, <2>2, InductionTo
  <2> QED
    BY <1>1, <2>1, <2>2
<1>8. \A n \in 1..M : t[n] \in Urls \cup {NoUrl}
  BY <1>7 DEF S
<1>9. t \in [1..M -> Urls \cup {NoUrl}]
  BY <1>2, <1>8
<1> QED
  BY <1>3, <1>4, <1>9 DEF M, t

\* A trail ends once and for all.
LEMMA TrailEnds ==
  ASSUME NEW s \in Sites, NEW m, NEW u \in Urls, NEW n \in 1..Reach(s, m),
         Trail(s, m, u)[n] = NoUrl
  PROVE  \A k \in n..Reach(s, m) : Trail(s, m, u)[k] = NoUrl
<1> DEFINE M == Reach(s, m)
           t == Trail(s, m, u)
           S == {k \in 1..M : k < n \/ t[k] = NoUrl}
<1>1. M \in Nat \ {0} /\ n \in 1..M /\ t[n] = NoUrl
  BY ReachIsANumber
<1>2. \A k \in 1..M : k < M => t[k + 1] = LinkOf(s, m, t[k])
  BY TrailGoesOn
<1>3. LinkOf(s, m, NoUrl) = NoUrl
  BY DEF LinkOf
<1> HIDE DEF M, t
<1>4. 1 \in S
  BY <1>1
<1>5. ASSUME NEW k \in 1..M, k \in S, k < M
      PROVE  k + 1 \in S
  <2>1. k + 1 \in 1..M
    BY <1>1, <1>5
  <2>2. CASE t[k] = NoUrl
    BY <1>2, <1>3, <1>5, <2>1, <2>2
  <2>3. CASE k < n
    <3>1. k + 1 < n \/ k + 1 = n
      BY <1>1, <2>3
    <3> QED
      BY <1>1, <2>1, <3>1
  <2> QED
    BY <1>5, <2>2, <2>3
<1> HIDE DEF S
<1>6. \A k \in 1..M : k \in S
  BY <1>1, <1>4, <1>5, InductionTo
<1>7. ASSUME NEW k \in n..M
      PROVE  t[k] = NoUrl
  <2>1. k \in 1..M /\ ~(k < n)
    BY <1>1
  <2> QED
    BY <1>6, <2>1 DEF S
<1> QED
  BY <1>7 DEF M, t

(***************************************************************************)
(* Listings.                                                               *)
(***************************************************************************)

\* The places of a page are places of its entries.
LEMMA PlacesAreNumbers ==
  ASSUME NEW s \in Sites, NEW reader, NEW p \in Urls
  PROVE  /\ ParsedPlaces(reader, s, p) \subseteq 1..Len(s.entries[p])
         /\ Len(s.entries[p]) \in Nat
         /\ TitledPlaces(reader, s, p) \subseteq ParsedPlaces(reader, s, p)
<1>1. s.entries[p] \in Seq(Entry(Urls))
  BY SitesAssumption
<1>2. DOMAIN s.entries[p] = 1..Len(s.entries[p]) /\ Len(s.entries[p]) \in Nat
  BY <1>1
<1>3. ParsedPlaces(reader, s, p) \subseteq DOMAIN s.entries[p]
  BY DEF ParsedPlaces, PdfLinks, Releases, OnlyRecords
<1> QED
  BY <1>2, <1>3 DEF TitledPlaces

\* An item leads to a page.
LEMMA DetailsArePages ==
  ASSUME NEW s \in Sites, NEW reader \in {"html", "wordpress", "json", "pdf", "ocds"},
         NEW p \in Urls, NEW i \in ParsedPlaces(reader, s, p)
  PROVE  ItemAt(reader, s, p, i).detail \in Urls
<1> DEFINE entry == s.entries[p][i]
<1>1. s.entries[p] \in Seq(Entry(Urls)) /\ i \in 1..Len(s.entries[p])
  BY SitesAssumption, PlacesAreNumbers
<1>2. entry \in Entry(Urls)
  BY <1>1
<1>3. entry.link \in Urls \cup {"missing", "refused", "garbled"}
  BY <1>2 DEF Entry
<1>4. Usable(entry.link) => entry.link \in Urls
  BY <1>3 DEF Usable, Broken, Refusal
<1>5. LinkOr(entry, p) \in Urls
  BY <1>4 DEF LinkOr
<1>6. reader = "pdf" => Usable(entry.link)
  BY DEF ParsedPlaces, PdfLinks
<1> HIDE DEF entry
<1>7. CASE reader = "pdf"
  <2>1. ItemAt(reader, s, p, i) = PdfItem(entry)
    BY <1>7 DEF ItemAt, entry
  <2> QED
    BY <1>4, <1>6, <1>7, <2>1 DEF PdfItem, Item
<1>8. CASE reader # "pdf"
  <2>1. ItemAt(reader, s, p, i) \in {NodeItem(entry, p), PostItem(entry, p),
                                    RecordItem(entry, p), ReleaseItem(entry, p)}
    BY <1>8 DEF ItemAt, entry
  <2> QED
    BY <1>5, <2>1 DEF NodeItem, PostItem, RecordItem, ReleaseItem, Item
<1> QED
  BY <1>7, <1>8

\* The reader of a listing, and the trails it starts on.
LEMMA Readers ==
  ASSUME NEW s \in Sites, NEW m
  PROVE  /\ ReaderIn(s, m) \in {"html", "wordpress", "json", "pdf", "ocds"}
         /\ TargetsIn(s, m) \in Seq(Urls)
         /\ Len(TargetsIn(s, m)) \in Nat /\ DOMAIN TargetsIn(s, m) = 1..Len(TargetsIn(s, m))
<1>1. TargetsIn(s, m) \in Seq(Urls)
  BY SitesAssumption DEF TargetsIn
<1> QED
  BY <1>1, SitesAssumption DEF ReaderIn

\* The places of a listing: a titled item of a page within reach of a target.
LEMMA ListingIs ==
  ASSUME NEW s \in Sites, NEW m, NEW at
  PROVE  at \in Listing(s, m) <=>
            /\ at \in [target : 1..Len(TargetsIn(s, m)), page : 1..Reach(s, m), row : Nat]
            /\ PageOf(s, m, at) # NoUrl
            /\ at.row \in TitledPlaces(ReaderIn(s, m), s, PageOf(s, m, at))
<1> DEFINE T == TargetsIn(s, m)
           R == ReaderIn(s, m)
           pageAt(k, n) == Trail(s, m, T[k])[n]
<1>1. T \in Seq(Urls) /\ Len(T) \in Nat /\ DOMAIN T = 1..Len(T)
  BY Readers
<1>2. ASSUME NEW k \in 1..Len(T), NEW n \in 1..Reach(s, m)
      PROVE  /\ pageAt(k, n) \in Urls \cup {NoUrl}
             /\ pageAt(k, n) # NoUrl => TitledPlaces(R, s, pageAt(k, n)) \subseteq Nat
  <2>1. T[k] \in Urls
    BY <1>1
  <2>2. Trail(s, m, T[k]) \in [1..Reach(s, m) -> Urls \cup {NoUrl}]
    <3> HIDE DEF T
    <3> QED
      BY <2>1, TrailGoesOn
  <2>3. pageAt(k, n) \in Urls \cup {NoUrl}
    <3> HIDE DEF T
    <3> QED
      BY <2>2
  <2>4. ASSUME pageAt(k, n) # NoUrl
        PROVE  TitledPlaces(R, s, pageAt(k, n)) \subseteq Nat
    <3>1. pageAt(k, n) \in Urls
      BY <2>3, <2>4
    <3> QED
      BY <3>1, PlacesAreNumbers
  <2> QED
    BY <2>3, <2>4
<1>3. at \in Listing(s, m) <=>
         \E k \in 1..Len(T), n \in 1..Reach(s, m) : at \in PlacesOn(s, m, k, n)
  BY <1>1 DEF Listing
<1>4. ASSUME NEW k \in 1..Len(T), NEW n \in 1..Reach(s, m)
      PROVE  at \in PlacesOn(s, m, k, n) <=>
                /\ pageAt(k, n) # NoUrl
                /\ \E i \in TitledPlaces(R, s, pageAt(k, n)) :
                      at = [target |-> k, page |-> n, row |-> i]
  BY DEF PlacesOn
<1> HIDE DEF T, R
<1>5. ASSUME NEW k \in 1..Len(T), NEW n \in 1..Reach(s, m), at \in PlacesOn(s, m, k, n)
      PROVE  /\ at \in [target : 1..Len(T), page : 1..Reach(s, m), row : Nat]
             /\ pageAt(at.target, at.page) # NoUrl
             /\ at.row \in TitledPlaces(R, s, pageAt(at.target, at.page))
  <2>1. PICK i \in TitledPlaces(R, s, pageAt(k, n)) : at = [target |-> k, page |-> n, row |-> i]
    BY <1>4, <1>5
  <2>2. i \in Nat /\ pageAt(k, n) # NoUrl
    BY <1>2, <1>4, <1>5, <2>1
  <2>3. at.target = k /\ at.page = n /\ at.row = i
    BY <2>1
  <2> HIDE DEF pageAt
  <2> QED
    BY <2>1, <2>2, <2>3
<1>6. ASSUME at \in [target : 1..Len(T), page : 1..Reach(s, m), row : Nat],
             pageAt(at.target, at.page) # NoUrl,
             at.row \in TitledPlaces(R, s, pageAt(at.target, at.page))
      PROVE  at \in PlacesOn(s, m, at.target, at.page)
  <2>1. /\ at.target \in 1..Len(T) /\ at.page \in 1..Reach(s, m)
        /\ at = [target |-> at.target, page |-> at.page, row |-> at.row]
    BY <1>6
  <2> QED
    BY <1>4, <1>6, <2>1
<1>7. PageOf(s, m, at) = pageAt(at.target, at.page)
  BY DEF PageOf, T
<1> QED
  BY <1>3, <1>5, <1>6, <1>7 DEF T, R

\* A family of finite sets has a finite union.
LEMMA FamilyIsFinite ==
  ASSUME NEW n \in Nat, NEW f, \A i \in 1..n : IsFiniteSet(f[i])
  PROVE  IsFiniteSet(UNION {f[i] : i \in 1..n})
<1> DEFINE I == 1..n
           F == {f[i] : i \in I}
           g == [i \in I |-> f[i]]
<1>1. IsFiniteSet(I)
  BY FS_Interval
<1>2. g \in Surjection(I, F)
  BY DEF Surjection
<1>3. IsFiniteSet(F)
  <2> HIDE DEF I, F, g
  <2> QED
    BY <1>1, <1>2, FS_Surjection
<1>4. \A S \in F : IsFiniteSet(S)
  OBVIOUS
<1> QED
  <2> HIDE DEF F
  <2>1. IsFiniteSet(UNION F)
    BY <1>3, <1>4, FS_UNION
  <2> QED
    BY <2>1 DEF F

\* A listing is finite.
LEMMA ListingIsFinite ==
  ASSUME NEW s \in Sites, NEW m
  PROVE  IsFiniteSet(Listing(s, m))
<1> DEFINE T == TargetsIn(s, m)
           R == ReaderIn(s, m)
           M == Reach(s, m)
<1>1. T \in Seq(Urls) /\ Len(T) \in Nat /\ DOMAIN T = 1..Len(T) /\ M \in Nat
  BY Readers, ReachIsANumber
<1>2. ASSUME NEW k \in 1..Len(T), NEW n \in 1..M
      PROVE  IsFiniteSet(PlacesOn(s, m, k, n))
  <2> DEFINE p == Trail(s, m, T[k])[n]
             P == TitledPlaces(R, s, p)
             g == [i \in P |-> [target |-> k, page |-> n, row |-> i]]
             Q == {[target |-> k, page |-> n, row |-> i] : i \in P}
  <2>1. CASE p = NoUrl
    <3>1. PlacesOn(s, m, k, n) = {}
      BY <2>1 DEF PlacesOn
    <3> QED
      BY <3>1, FS_EmptySet
  <2>2. CASE p # NoUrl
    <3>1. T[k] \in Urls
      BY <1>1
    <3>2. Trail(s, m, T[k]) \in [1..M -> Urls \cup {NoUrl}]
      <4> HIDE DEF T
      <4> QED
        BY <3>1, TrailGoesOn
    <3>3. p \in Urls
      <4> HIDE DEF T
      <4> QED
        BY <2>2, <3>2
    <3>4. PICK l \in Nat : P \subseteq 1..l
      <4> HIDE DEF T, R, p
      <4>1. /\ Len(s.entries[p]) \in Nat
            /\ TitledPlaces(R, s, p) \subseteq 1..Len(s.entries[p])
        BY <3>3, PlacesAreNumbers
      <4> QED
        BY <4>1
    <3>5. IsFiniteSet(P)
      <4> HIDE DEF P
      <4>1. IsFiniteSet(1..l)
        BY <3>4, FS_Interval
      <4> QED
        BY <3>4, <4>1, FS_Subset
    <3>6. g \in Surjection(P, Q)
      <4> HIDE DEF P
      <4> QED
        BY DEF Surjection
    <3>7. IsFiniteSet(Q)
      <4> HIDE DEF P, Q, g
      <4> QED
        BY <3>5, <3>6, FS_Surjection
    <3>8. PlacesOn(s, m, k, n) = Q
      BY <2>2 DEF PlacesOn
    <3> QED
      BY <3>7, <3>8
  <2> QED
    BY <2>1, <2>2
<1> DEFINE row(k) == [n \in 1..M |-> PlacesOn(s, m, k, n)]
           all == [k \in 1..Len(T) |-> UNION {row(k)[n] : n \in 1..M}]
<1>3. ASSUME NEW k \in 1..Len(T)
      PROVE  IsFiniteSet(all[k])
  <2>1. \A n \in 1..M : IsFiniteSet(row(k)[n])
    BY <1>2
  <2>2. IsFiniteSet(UNION {row(k)[n] : n \in 1..M})
    <3> HIDE DEF row, M
    <3> QED
      BY <1>1, <2>1, FamilyIsFinite
  <2> QED
    <3> HIDE DEF row, M, T
    <3> QED
      BY <2>2
<1>4. IsFiniteSet(UNION {all[k] : k \in 1..Len(T)})
  <2> HIDE DEF all, T
  <2> QED
    BY <1>1, <1>3, FamilyIsFinite
<1>5. Listing(s, m) \subseteq UNION {all[k] : k \in 1..Len(T)}
  <2>1. ASSUME NEW at \in Listing(s, m)
        PROVE  \E k \in 1..Len(T) : at \in all[k]
    <3>1. PICK k \in 1..Len(T), n \in 1..M : at \in PlacesOn(s, m, k, n)
      BY <1>1, <2>1 DEF Listing
    <3>2. at \in row(k)[n]
      BY <3>1
    <3> QED
      <4> HIDE DEF row, M, T
      <4> QED
        BY <3>2
  <2> QED
    BY <2>1
<1> QED
  <2> HIDE DEF all, T
  <2> QED
    BY <1>4, <1>5, FS_Subset

\* The places below one.
Below(s, m, at) == {a \in Listing(s, m) : Before(a, at)}

\* They are fewer than the places of any set that has them and it.
LEMMA RanksBelow ==
  ASSUME NEW s \in Sites, NEW m, NEW at \in Listing(s, m),
         NEW H \in SUBSET Listing(s, m), at \in H, Below(s, m, at) \subseteq H
  PROVE  Rank(s, m, at) \in Nat /\ Rank(s, m, at) < Cardinality(H)
<1>1. IsFiniteSet(H)
  BY ListingIsFinite, FS_Subset
<1>2. at \notin Below(s, m, at)
  <2>1. at.target \in Nat /\ at.page \in Nat /\ at.row \in Nat
    BY ListingIs, Readers, SitesAssumption
  <2> QED
    BY <2>1 DEF Below, Before
<1>3. Below(s, m, at) \in SUBSET H /\ Below(s, m, at) # H
  BY <1>2
<1>4. IsFiniteSet(Below(s, m, at)) /\ Cardinality(Below(s, m, at)) <= Cardinality(H)
      /\ Cardinality(Below(s, m, at)) # Cardinality(H)
  BY <1>1, <1>3, FS_Subset
<1>5. Cardinality(Below(s, m, at)) \in Nat /\ Cardinality(H) \in Nat
  BY <1>1, <1>4, FS_CardinalityType
<1>6. Rank(s, m, at) = Cardinality(Below(s, m, at))
  BY DEF Rank, Below
<1> QED
  BY <1>4, <1>5, <1>6

\* The order is total.
LEMMA BeforeIsTotal ==
  ASSUME NEW s \in Sites, NEW m, NEW a \in Listing(s, m), NEW b \in Listing(s, m)
  PROVE  /\ a = b \/ Before(a, b) \/ Before(b, a)
         /\ Before(a, b) => ~Before(b, a)
         /\ \A c \in Listing(s, m) : Before(c, a) /\ Before(a, b) => Before(c, b)
<1>1. ASSUME NEW c \in Listing(s, m)
      PROVE  /\ c.target \in Nat /\ c.page \in Nat /\ c.row \in Nat
             /\ c = [target |-> c.target, page |-> c.page, row |-> c.row]
  BY ListingIs, Readers, SitesAssumption
<1>2. a = b \/ Before(a, b) \/ Before(b, a)
  BY <1>1 DEF Before
<1>3. Before(a, b) => ~Before(b, a)
  BY <1>1 DEF Before
<1>4. ASSUME NEW c \in Listing(s, m), Before(c, a), Before(a, b)
      PROVE  Before(c, b)
  BY <1>1, <1>4 DEF Before
<1> QED
  BY <1>2, <1>3, <1>4

\* Of two places the later has the greater rank.
LEMMA RanksRise ==
  ASSUME NEW s \in Sites, NEW m, NEW a \in Listing(s, m), NEW b \in Listing(s, m), Before(a, b)
  PROVE  Rank(s, m, a) \in Nat /\ Rank(s, m, b) \in Nat /\ Rank(s, m, a) < Rank(s, m, b)
<1> DEFINE H == Below(s, m, b)
<1>1. H \in SUBSET Listing(s, m) /\ a \in H
  BY DEF Below
<1>2. Below(s, m, a) \subseteq H
  BY BeforeIsTotal DEF Below
<1>3. Rank(s, m, b) = Cardinality(H)
  BY DEF Rank, Below
<1>4. IsFiniteSet(H)
  BY <1>1, ListingIsFinite, FS_Subset
<1>5. Cardinality(H) \in Nat
  BY <1>4, FS_CardinalityType
<1> HIDE DEF H
<1>6. Rank(s, m, a) \in Nat /\ Rank(s, m, a) < Cardinality(H)
  BY <1>1, <1>2, RanksBelow
<1> QED
  BY <1>3, <1>5, <1>6

(***************************************************************************)
(* What is behind a crawl.                                                 *)
(***************************************************************************)

\* Items that are added to those that were given change none of them.
LEMMA GivenStays ==
  ASSUME NEW s \in Sites, NEW m, NEW V, NEW items \in Seq(V), NEW item \in V,
         NEW from \in 0..Len(items), NEW to \in 0..Len(items), Given(s, m, items, from, to)
  PROVE  Given(s, m, Append(items, item), from, to)
<1>1. ASSUME NEW at \in Listing(s, m), from + Rank(s, m, at) < to
      PROVE  Append(items, item)[from + Rank(s, m, at) + 1] = items[from + Rank(s, m, at) + 1]
  <2>1. Rank(s, m, at) \in Nat
    <3>1. Below(s, m, at) \subseteq Listing(s, m)
      BY DEF Below
    <3> QED
      BY <3>1, ListingIsFinite, FS_Subset, FS_CardinalityType DEF Rank, Below
  <2>2. from + Rank(s, m, at) + 1 \in 1..Len(items)
    BY <1>1, <2>1
  <2> HIDE DEF Rank
  <2> QED
    BY <2>2
<1> QED
  BY <1>1 DEF Given

\* The ranks of what is behind a crawl are those below their number.
LEMMA BehindAreFirst ==
  ASSUME NEW s \in Sites, NEW m, NEW H \in SUBSET Listing(s, m),
         \A a \in H, b \in Listing(s, m) : Before(b, a) => b \in H
  PROVE  /\ Cardinality(H) \in Nat /\ Cardinality(Listing(s, m)) \in Nat
         /\ Cardinality(H) <= Cardinality(Listing(s, m))
         /\ \A at \in Listing(s, m) :
               Rank(s, m, at) \in Nat /\ (Rank(s, m, at) < Cardinality(H) <=> at \in H)
<1>1. IsFiniteSet(Listing(s, m)) /\ IsFiniteSet(H)
  BY ListingIsFinite, FS_Subset
<1>2. Cardinality(H) \in Nat /\ Cardinality(Listing(s, m)) \in Nat
  BY <1>1, FS_CardinalityType
<1>3. Cardinality(H) <= Cardinality(Listing(s, m))
  BY <1>1, FS_Subset
<1>4. ASSUME NEW at \in H
      PROVE  Rank(s, m, at) \in Nat /\ Rank(s, m, at) < Cardinality(H)
  <2>1. Below(s, m, at) \subseteq H
    BY <1>4 DEF Below
  <2> QED
    BY <2>1, RanksBelow
<1>5. ASSUME NEW at \in Listing(s, m), at \notin H
      PROVE  Rank(s, m, at) \in Nat /\ Cardinality(H) <= Rank(s, m, at)
  <2>1. H \subseteq Below(s, m, at)
    BY <1>5, BeforeIsTotal DEF Below
  <2>2. IsFiniteSet(Below(s, m, at))
    BY <1>1, FS_Subset DEF Below
  <2>3. Cardinality(H) <= Cardinality(Below(s, m, at)) /\ Cardinality(Below(s, m, at)) \in Nat
    BY <2>1, <2>2, FS_Subset, FS_CardinalityType
  <2>4. Rank(s, m, at) = Cardinality(Below(s, m, at))
    BY DEF Rank, Below
  <2> QED
    BY <2>3, <2>4
<1>6. ASSUME NEW at \in Listing(s, m)
      PROVE  Rank(s, m, at) \in Nat /\ (Rank(s, m, at) < Cardinality(H) <=> at \in H)
  BY <1>2, <1>4, <1>5
<1> QED
  BY <1>2, <1>3, <1>6

\* The item of the first place that is not behind the crawl is the next to be given.
LEMMA NextIsGiven ==
  ASSUME NEW s \in Sites, NEW m, NEW V, NEW items \in Seq(V), NEW item \in V,
         NEW from \in 0..Len(items), Given(s, m, items, from, Len(items)),
         NEW H \in SUBSET Listing(s, m), Len(items) = from + Cardinality(H),
         \A a \in H, b \in Listing(s, m) : Before(b, a) => b \in H,
         NEW at \in Listing(s, m), at \notin H,
         \A b \in Listing(s, m) : Before(b, at) => b \in H,
         Is(s, item, ItemOf(s, m, at))
  PROVE  /\ Given(s, m, Append(items, item), from, Len(items) + 1)
         /\ Len(items) + 1 = from + Cardinality(H \cup {at})
<1> DEFINE card == Cardinality(H)
           rank(a) == Rank(s, m, a)
<1>1. /\ card \in Nat
      /\ \A a \in Listing(s, m) : rank(a) \in Nat /\ (rank(a) < card <=> a \in H)
  BY BehindAreFirst
<1>2. H = Below(s, m, at)
  <2>1. ASSUME NEW b \in H
        PROVE  Before(b, at)
    BY BeforeIsTotal
  <2> QED
    BY <2>1 DEF Below
<1>3. rank(at) = card
  BY <1>2 DEF Rank, Below
<1>4. ASSUME NEW a \in Listing(s, m), a \notin H, a # at
      PROVE  rank(a) > card
  <2>1. Before(at, a)
    BY <1>4, BeforeIsTotal
  <2>2. rank(at) < rank(a)
    BY <2>1, RanksRise
  <2> QED
    BY <1>3, <2>2
<1>5. Len(items) = from + card /\ Len(items) \in Nat /\ from \in Nat
  OBVIOUS
<1>6. Given(s, m, Append(items, item), from, Len(items))
  <2>1. Len(items) \in 0..Len(items)
    BY <1>5
  <2> QED
    BY <2>1, GivenStays
<1>7. ASSUME NEW a \in Listing(s, m), from + rank(a) < Len(items) + 1
      PROVE  Is(s, Append(items, item)[from + rank(a) + 1], ItemOf(s, m, a))
  <2>1. CASE a \in H
    <3>1. from + rank(a) < Len(items)
      <4> HIDE DEF rank, card
      <4> QED
        BY <1>1, <1>5, <2>1
    <3> QED
      BY <1>6, <3>1 DEF Given
  <2>2. CASE a = at
    <3>1. from + rank(a) + 1 = Len(items) + 1
      <4> HIDE DEF rank, card
      <4> QED
        BY <1>1, <1>3, <1>5, <2>2
    <3>2. Append(items, item)[Len(items) + 1] = item
      OBVIOUS
    <3> QED
      BY <2>2, <3>1, <3>2
  <2>3. a \in H \/ a = at
    <3> HIDE DEF rank, card
    <3> QED
      BY <1>1, <1>4, <1>5, <1>7
  <2> QED
    BY <2>1, <2>2, <2>3
<1>8. Cardinality(H \cup {at}) = card + 1
  <2>1. IsFiniteSet(H)
    BY ListingIsFinite, FS_Subset
  <2> QED
    BY <2>1, FS_AddElement
<1>9. Given(s, m, Append(items, item), from, Len(items) + 1)
  BY <1>7 DEF Given
<1> QED
  <2> HIDE DEF card
  <2> QED
    BY <1>1, <1>5, <1>8, <1>9

(***************************************************************************)
(* Types.                                                                  *)
(***************************************************************************)

\* What the fetcher keeps of its own.
FetcherStands == FetcherTypeOK /\ PaceHolds /\ CallsEnd

\* A call that ends for a reason.
LEMMA EndedTypes ==
  ASSUME call \in Call, NEW outcome \in {"ok"} \cup Failures
  PROVE  /\ Ended(outcome) \in Call /\ Len(Ended(outcome).hops) <= MaxRedirects
         /\ Ended(outcome).outcome # "pending"
<1> DEFINE hops == <<>>
           ended == [call EXCEPT !.stage = "done", !.hops = hops, !.outcome = outcome]
<1>1. hops \in Seq(Hosts) /\ Len(hops) <= MaxRedirects
  BY RetriesAssumption
<1>2. "done" \in Stages /\ outcome # "pending"
  BY DEF Stages, Failures
<1>3. Ended(outcome) = ended
  BY DEF Ended
<1> HIDE DEF hops
<1>4. ended \in Call /\ ended.hops = hops /\ ended.outcome = outcome
  BY <1>1, <1>2 DEF Call
<1> HIDE DEF ended
<1> QED
  BY <1>1, <1>2, <1>3, <1>4

\* No call at all.
LEMMA NoCallTypes == NoCall \in Call /\ Len(NoCall.hops) <= MaxRedirects /\ NoCall.stage = "idle"
<1>1. <<>> \in Seq(Hosts) /\ Len(<<>>) = 0
  OBVIOUS
<1> QED
  BY <1>1, RetriesAssumption DEF NoCall, Call, Stages

\* The caller takes the fetcher up for a page, or gives it back.
LEMMA CallersKeepTypes ==
  ASSUME FetcherStands, UNCHANGED <<respect, wait, since, robots>>,
         Free \/ \E u \in Urls : Begin(u)
  PROVE  FetcherStands'
<1>0. NoCall \in Call /\ Len(NoCall.hops) <= MaxRedirects
  BY NoCallTypes
<1>1. PaceHolds'
  BY CallersArePaced DEF FetcherStands, Paced
<1>2. call' \in Call /\ Len(call'.hops) <= MaxRedirects /\ CallsEnd'
  <2>1. CASE Free
    BY <1>0, <2>1 DEF Free, CallsEnd, NoCall
  <2>2. ASSUME NEW u \in Urls, Begin(u)
        PROVE  call' \in Call /\ Len(call'.hops) <= MaxRedirects /\ CallsEnd'
    <3>1. /\ NoCall.stage \in Stages /\ NoCall.hops \in Seq(Hosts)
          /\ {"robots", "pace", "done"} \subseteq Stages /\ "UNSAFE_URL" \in Failures
      BY <1>0 DEF Call, Stages, Failures
    <3>2. CASE call' = [NoCall EXCEPT !.stage = IF respect THEN "robots" ELSE "pace", !.url = u]
      BY <1>0, <3>1, <3>2 DEF CallsEnd, NoCall, Call
    <3>3. CASE call' = [NoCall EXCEPT !.stage = "done", !.url = u, !.outcome = "UNSAFE_URL"]
      BY <1>0, <3>1, <3>3 DEF CallsEnd, NoCall, Call
    <3> QED
      BY <2>2, <3>2, <3>3 DEF Begin
  <2> QED
    BY <2>1, <2>2
<1> QED
  BY <1>1, <1>2 DEF FetcherStands, FetcherTypeOK

\* A step of the fetcher.
LEMMA FetcherKeepsTypes ==
  ASSUME FetcherStands, FetcherStep \/ \E h \in Hosts : RobotsAge(h)
  PROVE  FetcherStands'
<1>0. FetcherTypeOK /\ PaceHolds /\ CallsEnd /\ call \in Call /\ Len(call.hops) <= MaxRedirects
  BY DEF FetcherStands, FetcherTypeOK
<1>1. PaceHolds'
  BY <1>0, FetcherIsPaced DEF Paced
<1>2. wait' \in [Hosts -> 0..MaxGap] /\ since' \in [Hosts -> 0..MinGap]
  BY <1>1 DEF PaceHolds
<1>3. respect' \in BOOLEAN /\ robots' \in [Hosts -> {Unread} \cup SUBSET Urls]
  <2>1. CASE CheckRobots
    <3>1. Host \in Hosts
      BY <1>0, <2>1, HostIsKnown DEF CheckRobots
    <3>2. robots[Host] = Unread \/ robots[Host] \in SUBSET Urls
      BY <1>0, <3>1 DEF FetcherTypeOK
    <3>3. PICK rules \in SUBSET Urls : robots' = [robots EXCEPT ![Host] = rules]
      BY <2>1, <3>2 DEF CheckRobots, Rules
    <3> QED
      BY <1>0, <2>1, <3>1, <3>3 DEF FetcherTypeOK, CheckRobots
  <2>2. ASSUME NEW h \in Hosts, RobotsAge(h)
        PROVE  respect' \in BOOLEAN /\ robots' \in [Hosts -> {Unread} \cup SUBSET Urls]
    BY <1>0, <2>2 DEF FetcherTypeOK, RobotsAge
  <2>3. CASE Acquire \/ Redirect \/ Attempt \/ BackOff \/ Tick
    BY <1>0, <2>3 DEF FetcherTypeOK, Acquire, Redirect, Attempt, BackOff, Tick
  <2> QED
    BY <2>1, <2>2, <2>3 DEF FetcherStep
<1>4. call' \in Call /\ Len(call'.hops) <= MaxRedirects /\ CallsEnd'
  <2>1. CASE CheckRobots
    <3>1. call' \in {Ended("ROBOTS_DISALLOWED"), [call EXCEPT !.stage = "pace"]}
      BY <2>1 DEF CheckRobots
    <3>2. "ROBOTS_DISALLOWED" \in Failures
      BY DEF Failures
    <3>3. /\ [call EXCEPT !.stage = "pace"] \in Call /\ [call EXCEPT !.stage = "pace"].stage # "done"
          /\ [call EXCEPT !.stage = "pace"].hops = call.hops
      BY <1>0 DEF Call, Stages
    <3> QED
      BY <1>0, <3>1, <3>2, <3>3, EndedTypes DEF CallsEnd
  <2>2. CASE Acquire
    BY <1>0, <2>2 DEF Acquire, Call, Stages, CallsEnd
  <2>3. CASE Attempt
    <3>1. {"ok", "FETCH_PERMANENT", "RESPONSE_TOO_LARGE", "UNSAFE_URL", "FETCH_RETRYABLE"}
             \subseteq {"ok"} \cup Failures
      BY DEF Failures
    <3>2. CASE \E o \in {"ok"} \cup Failures : call' = Ended(o)
      BY <1>0, <3>2, EndedTypes DEF CallsEnd
    <3>3. CASE call' = AfterTransient /\ ~(call.attempt >= MaxRetries)
      <4>1. call' = [call EXCEPT !.stage = "backoff", !.attempt = call.attempt + 1, !.hops = <<>>]
        BY <3>3 DEF AfterTransient
      <4>2. call.attempt + 1 \in 0..MaxRetries
        BY <1>0, <3>3, RetriesAssumption DEF Call
      <4>3. <<>> \in Seq(Hosts) /\ Len(<<>>) = 0 /\ 0 <= MaxRedirects
        BY RetriesAssumption
      <4> QED
        BY <1>0, <4>1, <4>2, <4>3 DEF Call, Stages, CallsEnd
    <3>4. CASE call' = AfterTransient /\ call.attempt >= MaxRetries
      BY <1>0, <3>1, <3>4, EndedTypes DEF AfterTransient, CallsEnd
    <3> QED
      BY <2>3, <3>1, <3>2, <3>3, <3>4 DEF Attempt
  <2>6. CASE Redirect
    <3>1. PICK h \in Hosts : call' = [call EXCEPT !.hops = Append(call.hops, h)]
      BY <2>6 DEF Redirect
    <3>2. call.hops \in Seq(Hosts) /\ Len(call.hops) < MaxRedirects /\ call.stage = "attempt"
      BY <1>0, <2>6 DEF Redirect, Call
    <3>3. Append(call.hops, h) \in Seq(Hosts) /\ Len(Append(call.hops, h)) <= MaxRedirects
      BY <3>2, AppendProperties, RetriesAssumption
    <3> QED
      BY <1>0, <3>1, <3>2, <3>3 DEF Call, CallsEnd
  <2>4. CASE BackOff
    BY <1>0, <2>4 DEF BackOff, Call, Stages, CallsEnd
  <2>5. CASE Tick \/ \E h \in Hosts : RobotsAge(h)
    BY <1>0, <2>5 DEF Tick, RobotsAge, CallsEnd
  <2> QED
    BY <2>1, <2>2, <2>3, <2>4, <2>5, <2>6 DEF FetcherStep
<1> QED
  BY <1>0, <1>1, <1>2, <1>3, <1>4 DEF FetcherStands, FetcherTypeOK

(***************************************************************************)
(* Where a crawl is.                                                       *)
(***************************************************************************)

\* The site, how its listing is read, and how many of its targets were visited.
LEMMA Whereabouts ==
  ASSUME CrawlTypeOK, PlaceStands
  PROVE  /\ site \in Sites /\ Reach(site, mode) \in Nat /\ pages \in 0..Reach(site, mode)
         /\ Reader \in {"html", "wordpress", "json", "pdf", "ocds"}
         /\ TargetsIn(site, mode) \in Seq(Urls) /\ Len(TargetsIn(site, mode)) \in Nat
         /\ targets \in Seq(Urls) /\ Len(targets) \in Nat
         /\ Len(targets) <= Len(TargetsIn(site, mode))
         /\ Visited \in 0..Len(TargetsIn(site, mode))
         /\ phase # "start" => Visited = Len(TargetsIn(site, mode)) - Len(targets)
<1>1. site \in Sites /\ targets \in Seq(Urls) /\ pages \in 0..Reach(site, mode)
  BY DEF CrawlTypeOK
<1>2. Len(targets) <= Len(TargetsIn(site, mode))
  BY DEF PlaceStands
<1>3. Len(targets) \in Nat /\ Len(TargetsIn(site, mode)) \in Nat
      /\ TargetsIn(site, mode) \in Seq(Urls)
  BY <1>1, Readers
<1> QED
  BY <1>1, <1>2, <1>3, Readers, ReachIsANumber DEF Visited, Reader

\* A place of the page that is read holds one of its items.
LEMMA PlacesOfThisPage ==
  ASSUME CrawlTypeOK, PlaceStands, NEW n \in 1..Reach(site, mode), Visited > 0, page # NoUrl,
         page = Trail(site, mode, TargetsIn(site, mode)[Visited])[n]
  PROVE  /\ \A at \in Listing(site, mode) :
               at.target = Visited /\ at.page = n =>
                  /\ at.row \in TitledPlaces(Reader, site, page)
                  /\ ItemOf(site, mode, at) = ItemAt(Reader, site, page, at.row)
         /\ \A i \in TitledPlaces(Reader, site, page) :
               [target |-> Visited, page |-> n, row |-> i] \in Listing(site, mode)
<1>1. site \in Sites /\ page \in Urls /\ Visited \in 1..Len(TargetsIn(site, mode))
  BY Whereabouts DEF CrawlTypeOK
<1>2. ASSUME NEW at \in Listing(site, mode), at.target = Visited, at.page = n
      PROVE  /\ at.row \in TitledPlaces(Reader, site, page)
             /\ ItemOf(site, mode, at) = ItemAt(Reader, site, page, at.row)
  <2>1. PageOf(site, mode, at) = page
    BY <1>2 DEF PageOf
  <2> QED
    BY <1>1, <2>1, ListingIs DEF ItemOf, Reader
<1>3. ASSUME NEW i \in TitledPlaces(Reader, site, page)
      PROVE  [target |-> Visited, page |-> n, row |-> i] \in Listing(site, mode)
  <2> DEFINE at == [target |-> Visited, page |-> n, row |-> i]
  <2>1. PageOf(site, mode, at) = page
    BY DEF PageOf
  <2>2. i \in Nat
    BY <1>1, PlacesAreNumbers
  <2>3. at \in [target : 1..Len(TargetsIn(site, mode)), page : 1..Reach(site, mode), row : Nat]
        /\ at.row = i
    BY <1>1, <2>2
  <2> HIDE DEF at
  <2>4. at \in Listing(site, mode)
    BY <1>1, <2>1, <2>3, ListingIs DEF Reader
  <2> QED
    BY <2>4 DEF at
<1> QED
  BY <1>2, <1>3

\* What is behind the crawl comes before the rest of the listing.
LEMMA HandledComesFirst ==
  ASSUME CrawlTypeOK, PlaceStands, phase # "ended"
  PROVE  /\ Handled \in SUBSET Listing(site, mode)
         /\ \A a \in Handled, b \in Listing(site, mode) : Before(b, a) => b \in Handled
<1>1. Handled \in SUBSET Listing(site, mode)
  BY DEF Handled, Behind
<1>2. ASSUME NEW a \in Handled, NEW b \in Listing(site, mode), Before(b, a)
      PROVE  b \in Handled
  <2>1. /\ site \in Sites /\ Visited \in Nat /\ pages \in Nat
        /\ a.target \in Nat /\ a.page \in Nat /\ a.row \in Nat
        /\ b.target \in Nat /\ b.page \in 1..Reach(site, mode) /\ b.row \in Nat
        /\ b.target > 0 /\ Reach(site, mode) \in Nat
    <3>1. /\ site \in Sites /\ Reach(site, mode) \in Nat /\ pages \in 0..Reach(site, mode)
          /\ Len(TargetsIn(site, mode)) \in Nat /\ Visited \in 0..Len(TargetsIn(site, mode))
      BY Whereabouts
    <3>2. /\ a \in [target : 1..Len(TargetsIn(site, mode)), page : 1..Reach(site, mode), row : Nat]
          /\ b \in [target : 1..Len(TargetsIn(site, mode)), page : 1..Reach(site, mode), row : Nat]
      BY <1>1, <3>1, ListingIs
    <3> QED
      BY <3>1, <3>2
  <2>2. \/ a.target < Visited
        \/ a.target = Visited /\ a.page <= pages /\ (a.page = pages => a.row \notin rows)
    BY DEF Handled, Behind
  <2>3. CASE b.target < Visited
    BY <2>3 DEF Handled, Behind
  <2>4. CASE ~(b.target < Visited)
    <3>1. /\ a.target = Visited /\ b.target = Visited
          /\ b.page < a.page \/ (b.page = a.page /\ b.row < a.row)
          /\ a.page <= pages /\ (a.page = pages => a.row \notin rows)
      BY <1>2, <2>1, <2>2, <2>4 DEF Before
    <3>2. CASE b.page # pages \/ rows = {}
      <4>1. b.page <= pages
        BY <2>1, <3>1
      <4> QED
        BY <3>1, <3>2, <4>1 DEF Handled, Behind
    <3>3. CASE b.page = pages /\ rows # {}
      <4>1. a.page = pages /\ b.row < a.row
        BY <2>1, <3>1, <3>3
      <4>2. phase \in {"rows", "detail"}
        BY <3>3 DEF PlaceStands, CrawlTypeOK, Phases
      <4>3. /\ Visited > 0 /\ page # NoUrl /\ pages \in 1..Reach(site, mode)
            /\ page = Trail(site, mode, TargetsIn(site, mode)[Visited])[pages]
            /\ \A i \in ParsedPlaces(Reader, site, page) \ rows, j \in rows : i < j
        BY <2>1, <3>3, <4>2 DEF PlaceStands
      <4>4. a.row \in ParsedPlaces(Reader, site, page)
        <5>1. a.row \in TitledPlaces(Reader, site, page)
          BY <1>1, <3>1, <4>1, <4>3, PlacesOfThisPage
        <5> QED
          BY <5>1 DEF TitledPlaces
      <4>5. b.row \notin rows
        BY <2>1, <3>1, <4>1, <4>3, <4>4
      <4> QED
        BY <2>1, <3>1, <3>3, <4>5 DEF Handled, Behind
    <3> QED
      BY <3>2, <3>3
  <2> QED
    BY <2>3, <2>4
<1> QED
  BY <1>1, <1>2

(***************************************************************************)
(* The steps of a crawl.                                                   *)
(***************************************************************************)

ReadingStands == CrawlTypeOK /\ PlaceStands /\ ProgressStands /\ EndStands

\* Of what is left behind, so much was delivered.
LEMMA DeliveredSoFar ==
  ASSUME ReadingStands, StreamStands, phase # "ended"
  PROVE  \E from \in 0..Len(delivered) :
            /\ IF mode = "own" THEN from = 0 ELSE Begun(site, delivered, from)
            /\ Given(site, mode, delivered, from, Len(delivered))
            /\ Len(delivered) = from + Cardinality(Handled)
            /\ Len(delivered) \in Nat /\ Cardinality(Handled) \in Nat
            /\ Cardinality(Handled) <= Cardinality(Listing(site, mode))
            /\ Cardinality(Listing(site, mode)) \in Nat
            /\ \A at \in Listing(site, mode) :
                  /\ Rank(site, mode, at) \in Nat
                  /\ at \in Handled => Rank(site, mode, at) < Cardinality(Handled)
<1>1. /\ site \in Sites /\ Handled \in SUBSET Listing(site, mode)
      /\ \A a \in Handled, b \in Listing(site, mode) : Before(b, a) => b \in Handled
  BY HandledComesFirst DEF ReadingStands, CrawlTypeOK
<1>2. /\ Cardinality(Handled) \in Nat /\ Cardinality(Listing(site, mode)) \in Nat
      /\ Cardinality(Handled) <= Cardinality(Listing(site, mode))
      /\ \A at \in Listing(site, mode) :
            /\ Rank(site, mode, at) \in Nat
            /\ Rank(site, mode, at) < Cardinality(Handled) <=> at \in Handled
  <2> HIDE DEF Handled
  <2> QED
    BY <1>1, BehindAreFirst
<1>3. Len(delivered) \in Nat
  BY DEF StreamStands
<1>4. PICK from \in 0..Len(delivered) :
            /\ IF mode = "own" THEN from = 0 ELSE Begun(site, delivered, from)
            /\ Given(site, mode, delivered, from, Len(delivered))
            /\ Len(delivered) = from + Cardinality(Handled)
  BY DEF ReadingStands, ProgressStands
<1> QED
  BY <1>2, <1>3, <1>4

\* A step that delivers nothing and handles no titled item.
LEMMA NothingIsGiven ==
  ASSUME ReadingStands, phase # "ended", phase' # "ended", UNCHANGED <<site, mode, delivered>>,
         Handled' = Handled
  PROVE  ProgressStands' /\ EndStands'
<1>1. EndStands'
  BY DEF EndStands
<1>2. PICK from \in 0..Len(delivered) :
          /\ IF mode = "own" THEN from = 0 ELSE Begun(site, delivered, from)
          /\ Given(site, mode, delivered, from, Len(delivered))
          /\ Len(delivered) = from + Cardinality(Handled)
  BY DEF ReadingStands, ProgressStands
<1>3. ProgressStands'
  BY <1>2 DEF ProgressStands
<1> QED
  BY <1>1, <1>3

\* A crawl that ends with an error, for one of the reasons there are.
LEMMA StopStands ==
  ASSUME ReadingStands, StreamStands, phase # "ended", NEW e, Stop(<<e>>),
         mode = "own" =>
            \/ Unreadable(site)
            \/ Len(delivered) >= MaxItems
            \/ \A at \in Listing(site, "own") :
                  at.target = 1 /\ at.page = 1 => Rank(site, "own", at) < Len(delivered)
            \/ /\ delivered = <<>>
               /\ e \in Failures
                        \cup ({ParseFailure(site.kind, site, site.targets[1])} \ {NoError})
  PROVE  ReadingStands'
<1>1. /\ phase' = "ended" /\ errors' = <<>> \o <<e>>
      /\ UNCHANGED <<site, mode, targets, page, pages, rows, delivered>>
  BY DEF Stop, StreamStands
<1>2. errors' = <<e>> /\ errors' # <<>> /\ Len(errors') = 1
  <2>1. <<e>> \in Seq({e})
    OBVIOUS
  <2>2. errors' = <<e>>
    BY <1>1, <2>1, ConcatEmptySeq
  <2> QED
    BY <2>2
<1>3. CrawlTypeOK'
  BY <1>1, <1>2 DEF ReadingStands, CrawlTypeOK, Phases
<1>4. PlaceStands'
  BY <1>1 DEF ReadingStands, PlaceStands
<1>5. ProgressStands'
  BY <1>1, <1>2 DEF ReadingStands, ProgressStands
<1>6. EndStands'
  BY <1>1, <1>2 DEF EndStands
<1> QED
  BY <1>3, <1>4, <1>5, <1>6 DEF ReadingStands

\* A crawl that goes over to the fallback begins its listing.
LEMMA FallBackStands ==
  ASSUME ReadingStands, StreamStands, mode = "own", phase \in {"targets", "fetching"}, FallBack
  PROVE  ReadingStands'
<1>1. /\ mode' = "fallback" /\ phase' = "targets" /\ targets' = site.fallback
      /\ pages' = 0 /\ UNCHANGED <<site, page, rows, delivered, errors>>
  BY DEF FallBack
<1>2. /\ site \in Sites /\ site.fallback \in Seq(Urls) /\ rows = {} /\ Len(site.fallback) \in Nat
      /\ Reach(site, "fallback") \in Nat
  BY SitesAssumption, ReachIsANumber DEF ReadingStands, CrawlTypeOK, PlaceStands
<1>3. CrawlTypeOK'
  BY <1>1, <1>2 DEF ReadingStands, CrawlTypeOK, Phases
<1>4. TargetsIn(site', mode') = site.fallback /\ Visited' = 0
  BY <1>1, <1>2 DEF TargetsIn, Visited
<1>5. ASSUME NEW at \in Listing(site', mode')
      PROVE  at.target \in Nat /\ at.target > 0 /\ Rank(site', mode', at) \in Nat
  <2>1. at.target \in 1..Len(site.fallback)
    BY <1>1, <1>2, <1>4, ListingIs
  <2>2. Rank(site', mode', at) \in Nat
    <3>1. {} \in SUBSET Listing(site', mode')
      OBVIOUS
    <3> QED
      BY <1>1, <1>2, <3>1, BehindAreFirst
  <2> QED
    BY <2>1, <2>2, <1>2
<1>6. PlaceStands'
  <2>1. \A k \in DOMAIN site.fallback : 0 + k = k
    BY <1>2
  <2> QED
    BY <1>1, <1>2, <1>4, <1>5, <2>1 DEF PlaceStands
<1>7. Handled' = {}
  BY <1>4, <1>5 DEF Handled, Behind
<1>8. /\ Given(site, "own", delivered, 0, Len(delivered)) /\ Len(delivered) \in Nat
      /\ Len(delivered) <= Cardinality(Listing(site, "own"))
  BY DeliveredSoFar
<1>9. Begun(site', delivered', Len(delivered))
  BY <1>1, <1>8 DEF Begun
<1>10. Given(site', mode', delivered', Len(delivered), Len(delivered))
  BY <1>1, <1>5, <1>8 DEF Given
<1>11. ProgressStands'
  <2>1. Len(delivered) = Len(delivered) + Cardinality({}) /\ Len(delivered) \in 0..Len(delivered)
    BY <1>8, FS_EmptySet
  <2> QED
    BY <1>1, <1>7, <1>9, <1>10, <2>1 DEF ProgressStands
<1>12. EndStands'
  BY <1>1 DEF EndStands
<1> QED
  BY <1>3, <1>6, <1>11, <1>12 DEF ReadingStands

\* The first page, once behind the crawl, was delivered.
LEMMA FirstPageIsGiven ==
  ASSUME ReadingStands, StreamStands, phase # "ended", mode = "own",
         \/ Visited > 1
         \/ Visited = 1 /\ pages > 0 /\ rows = {}
  PROVE  \A at \in Listing(site, "own") :
            at.target = 1 /\ at.page = 1 => Rank(site, "own", at) < Len(delivered)
<1>1. ASSUME NEW at \in Listing(site, "own"), at.target = 1, at.page = 1
      PROVE  at \in Handled
  <2>1. pages \in Nat
    <3>1. pages \in 0..Reach(site, mode) /\ Reach(site, mode) \in Nat
      BY Whereabouts DEF ReadingStands
    <3> QED
      BY <3>1
  <2> QED
    BY <1>1, <2>1 DEF Handled, Behind
<1> QED
  BY <1>1, DeliveredSoFar

\* discover finds the listing, or none.
LEMMA DiscoverStands ==
  ASSUME ReadingStands, StreamStands, Discover
  PROVE  ReadingStands'
<1>1. phase = "start" /\ mode = "own" /\ rows = {} /\ site \in Sites /\ targets \in Seq(Urls)
  BY DEF Discover, ReadingStands, PlaceStands, CrawlTypeOK
<1>2. TargetsIn(site, "own") = site.targets /\ site.targets \in Seq(Urls)
      /\ Len(site.targets) \in Nat
  BY <1>1, SitesAssumption DEF TargetsIn
<1>3. ASSUME NEW at \in Listing(site, "own")
      PROVE  at.target \in 1..Len(site.targets)
  BY <1>1, <1>2, ListingIs
<1>4. CASE site.targets = <<>>
  <2>1. Stop(<<"PARSE_ERROR">>)
    BY <1>4 DEF Discover
  <2>2. Len(site.targets) = 0
    BY <1>4
  <2>3. Listing(site, "own") = {}
    BY <1>3, <2>2
  <2> QED
    BY <1>1, <2>1, <2>3, StopStands
<1>5. CASE site.targets # <<>>
  <2>1. /\ phase' = "targets" /\ targets' = site.targets
        /\ UNCHANGED <<site, mode, page, pages, rows, delivered, errors>>
    BY <1>5 DEF Discover
  <2>2. CrawlTypeOK'
    BY <1>2, <2>1 DEF ReadingStands, CrawlTypeOK, Phases
  <2>3. Visited = 0 /\ Visited' = 0
    BY <1>1, <1>2, <2>1 DEF Visited
  <2>4. PlaceStands'
    <3>1. \A k \in DOMAIN site.targets : 0 + k = k
      BY <1>2
    <3>2. \A at \in Listing(site, "own") : at.target # 0
      BY <1>2, <1>3
    <3> QED
      BY <1>1, <1>2, <2>1, <2>3, <3>1, <3>2 DEF PlaceStands
  <2>5. Handled' = Handled
    BY <2>1, <2>3 DEF Handled
  <2>6. ProgressStands' /\ EndStands'
    BY <1>1, <2>1, <2>5, NothingIsGiven
  <2> QED
    BY <2>2, <2>4, <2>6 DEF ReadingStands
<1> QED
  BY <1>4, <1>5

\* What is found invalid of the pages is a setting of an HTML listing.
LEMMA InvalidIsUnreadable ==
  ASSUME NEW setting \in {"pages", "detail"}, Invalid(setting), mode = "own"
  PROVE  Unreadable(site)
<1>1. site.kind = "html" /\ setting \in site.invalid \cap {"pages", "detail"}
  BY DEF Invalid, Reader, ReaderIn
<1> QED
  BY <1>1 DEF Unreadable

\* A listing of which no page is read holds nothing.
LEMMA NothingWithinReach ==
  ASSUME NEW s \in Sites, NEW m, Reach(s, m) = 0
  PROVE  Listing(s, m) = {}
<1>1. ASSUME NEW at \in Listing(s, m)
      PROVE  FALSE
  <2>1. at.page \in 1..0
    BY <1>1, ListingIs
  <2> QED
    BY <2>1
<1> QED
  BY <1>1

\* The next target is visited, unless nothing is read of it.
LEMMA TargetStands ==
  ASSUME ReadingStands, StreamStands, NextTarget, ~Invalid("pages")
  PROVE  ReadingStands'
<1>1. /\ phase = "targets" /\ targets # <<>>
      /\ targets' = Tail(targets) /\ pages' = 0
      /\ IF Reach(site, mode) = 0 THEN UNCHANGED <<phase, page>>
         ELSE phase' = "page" /\ page' = Head(targets)
      /\ UNCHANGED <<site, mode, rows, delivered, errors>>
  BY DEF NextTarget
<1>2. /\ site \in Sites /\ Reach(site, mode) \in Nat /\ rows = {}
      /\ targets \in Seq(Urls) /\ Len(targets) \in Nat
      /\ Len(targets) <= Len(TargetsIn(site, mode)) /\ Len(TargetsIn(site, mode)) \in Nat
      /\ Visited = Len(TargetsIn(site, mode)) - Len(targets)
      /\ TargetsIn(site, mode) \in Seq(Urls)
  BY <1>1, Whereabouts DEF ReadingStands, PlaceStands
<1>3. /\ \A k \in DOMAIN targets : targets[k] = TargetsIn(site, mode)[Visited + k]
      /\ \A at \in Listing(site, mode) : at.target = Visited => at.page <= pages
  BY <1>1 DEF ReadingStands, PlaceStands
<1>4. /\ Len(targets) > 0 /\ Tail(targets) \in Seq(Urls) /\ Len(Tail(targets)) = Len(targets) - 1
      /\ Head(targets) = targets[1] /\ Head(targets) \in Urls
      /\ \A k \in 1..(Len(targets) - 1) : Tail(targets)[k] = targets[k + 1]
  BY <1>1, <1>2, HeadTailProperties
<1>5. Visited' = Visited + 1 /\ Visited' > 0 /\ Visited \in Nat
  BY <1>1, <1>2, <1>4 DEF Visited
<1>6. CrawlTypeOK'
  BY <1>1, <1>2, <1>4 DEF ReadingStands, CrawlTypeOK, Phases
<1>7. PlaceStands'
  <2> DEFINE all == TargetsIn(site, mode)
  <2>1. Head(targets) = all[Visited + 1]
    BY <1>2, <1>3, <1>4
  <2>2. \A k \in DOMAIN targets' : targets'[k] = all[Visited' + k]
    <3>1. DOMAIN targets' = 1..(Len(targets) - 1)
      BY <1>1, <1>2, <1>4
    <3>2. ASSUME NEW k \in 1..(Len(targets) - 1)
          PROVE  targets'[k] = all[Visited' + k]
      <4>1. k + 1 \in DOMAIN targets /\ Visited + (k + 1) = Visited' + k
        BY <1>2, <1>5
      <4> QED
        BY <1>1, <1>3, <1>4, <4>1
    <3> QED
      BY <3>1, <3>2
  <2>3. ASSUME Reach(site, mode) # 0
        PROVE  page' = Trail(site, mode, all[Visited'])[pages' + 1] /\ page' # NoUrl
    <3>1. page' \in Urls /\ page' = all[Visited']
      BY <1>1, <1>4, <1>5, <2>1, <2>3
    <3>2. Trail(site, mode, page')[1] = page'
      BY <1>2, <2>3, <3>1, TrailGoesOn
    <3>3. pages' + 1 = 1
      BY <1>1
    <3> QED
      BY <3>1, <3>2, <3>3, UrlsAssumption DEF NoUrl
  <2>4. Len(targets') <= Len(all)
    BY <1>1, <1>2, <1>4
  <2>5. CASE Reach(site, mode) # 0
    BY <1>1, <1>2, <1>5, <2>2, <2>3, <2>4, <2>5 DEF PlaceStands
  <2>6. CASE Reach(site, mode) = 0
    <3>1. Listing(site, mode) = {}
      BY <1>2, <2>6, NothingWithinReach
    <3> QED
      BY <1>1, <1>2, <1>5, <2>2, <2>4, <2>6, <3>1 DEF PlaceStands
  <2> QED
    BY <2>5, <2>6
<1>8. Handled' = Handled
  <2>1. ASSUME NEW at \in Listing(site, mode)
        PROVE  /\ at.target \in Nat /\ at.page \in Nat /\ at.page > 0
               /\ at.target = Visited => at.page <= pages
    <3>1. at \in [target : 1..Len(TargetsIn(site, mode)), page : 1..Reach(site, mode), row : Nat]
      BY <1>2, ListingIs
    <3> QED
      BY <1>2, <1>3, <3>1
  <2>2. ASSUME NEW at \in Listing(site, mode)
        PROVE  \/ at.target < Visited + 1
               \/ at.target = Visited + 1 /\ at.page <= 0 /\ (at.page = 0 => at.row \notin rows)
               <=> \/ at.target < Visited
                   \/ /\ at.target = Visited /\ at.page <= pages
                      /\ at.page = pages => at.row \notin rows
    BY <1>2, <1>5, <2>1
  <2> QED
    BY <1>1, <1>5, <2>2 DEF Handled, Behind
<1>9. ProgressStands' /\ EndStands'
  BY <1>1, <1>8, NothingIsGiven
<1> QED
  BY <1>6, <1>7, <1>9 DEF ReadingStands

\* A number of pages that is none ends the crawl.
LEMMA NextTargetStands ==
  ASSUME ReadingStands, StreamStands, NextTarget
  PROVE  ReadingStands'
<1>1. CASE Invalid("pages")
  <2>1. Stop(<<"VALUEERROR">>) /\ phase = "targets"
    BY <1>1 DEF NextTarget
  <2>2. mode = "own" => Unreadable(site)
    BY <1>1, InvalidIsUnreadable
  <2> QED
    BY <2>1, <2>2, StopStands
<1>2. CASE ~Invalid("pages")
  BY <1>2, TargetStands
<1> QED
  BY <1>1, <1>2

\* A crawl that visited every target has the whole listing behind it.
LEMMA NoMoreTargetsStands ==
  ASSUME ReadingStands, StreamStands, NoMoreTargets
  PROVE  ReadingStands'
<1>1. phase = "targets" /\ targets = <<>> /\ rows = {} /\ errors = <<>>
  BY DEF NoMoreTargets, ReadingStands, PlaceStands, StreamStands
<1>2. CASE HasFallback /\ mode = "own" /\ delivered = <<>>
  <2>1. FallBack
    BY <1>2 DEF NoMoreTargets
  <2> QED
    BY <1>1, <1>2, <2>1, FallBackStands
<1>3. CASE ~(HasFallback /\ mode = "own" /\ delivered = <<>>)
  <2>1. /\ phase' = "ended" /\ errors' = <<>> \o <<>>
        /\ UNCHANGED <<site, mode, targets, page, pages, rows, delivered>>
    BY <1>1, <1>3 DEF NoMoreTargets, Stop
  <2>2. errors' = <<>> /\ Len(errors') = 0
    BY <2>1
  <2>3. CrawlTypeOK'
    BY <2>1, <2>2 DEF ReadingStands, CrawlTypeOK, Phases
  <2>4. PlaceStands'
    BY <2>1 DEF ReadingStands, PlaceStands
  <2>5. Handled = Listing(site, mode)
    <3>1. /\ site \in Sites /\ Len(targets) = 0
          /\ Len(TargetsIn(site, mode)) \in Nat /\ Visited = Len(TargetsIn(site, mode)) - Len(targets)
      BY <1>1, Whereabouts DEF ReadingStands
    <3>2. Visited = Len(TargetsIn(site, mode))
      BY <3>1
    <3>3. \A at \in Listing(site, mode) : at.target = Visited => at.page <= pages
      BY <1>1 DEF ReadingStands, PlaceStands
    <3>4. \A at \in Listing(site, mode) : at.target \in 1..Len(TargetsIn(site, mode))
      BY <3>1, ListingIs
    <3>5. \A at \in Listing(site, mode) :
             at.target < Visited \/ (at.target = Visited /\ at.page <= pages)
      BY <3>1, <3>2, <3>3, <3>4
    <3> QED
      BY <1>1, <3>5 DEF Handled, Behind
  <2>6. PICK from \in 0..Len(delivered) :
            /\ IF mode = "own" THEN from = 0 ELSE Begun(site, delivered, from)
            /\ Given(site, mode, delivered, from, Len(delivered))
            /\ Len(delivered) = from + Cardinality(Handled)
    BY <1>1, DeliveredSoFar
  <2>7. Complete(site, mode, delivered, from)
    BY <2>5, <2>6 DEF Complete
  <2>8. ProgressStands'
    BY <2>1, <2>6, <2>7 DEF ProgressStands
  <2>9. EndStands'
    <3>1. ASSUME mode = "own", NEW at \in Listing(site, "own")
          PROVE  Rank(site, "own", at) < Len(delivered)
      BY <1>1, <2>5, <3>1, DeliveredSoFar
    <3> QED
      BY <2>1, <3>1 DEF EndStands
  <2> QED
    BY <2>3, <2>4, <2>8, <2>9 DEF ReadingStands
<1> QED
  BY <1>2, <1>3

\* When the first page of all fails, nothing was delivered.
LEMMA FirstPageOrNothing ==
  ASSUME ReadingStands, StreamStands, PagesStand, phase = "fetching", mode = "own"
  PROVE  \/ \A at \in Listing(site, "own") :
               at.target = 1 /\ at.page = 1 => Rank(site, "own", at) < Len(delivered)
         \/ delivered = <<>> /\ page = site.targets[1] /\ Reader = site.kind
<1>1. /\ site \in Sites /\ Reach(site, mode) \in Nat /\ pages \in 0..Reach(site, mode)
      /\ pages < Reach(site, mode)
      /\ TargetsIn(site, mode) \in Seq(Urls) /\ Len(TargetsIn(site, mode)) \in Nat
      /\ Visited \in 0..Len(TargetsIn(site, mode))
  BY Whereabouts DEF ReadingStands, PagesStand
<1>2. Visited > 0 /\ rows = {} /\ page = Trail(site, mode, TargetsIn(site, mode)[Visited])[pages + 1]
  BY DEF ReadingStands, PlaceStands
<1>3. CASE Visited > 1 \/ pages > 0
  <2>1. Visited > 1 \/ (Visited = 1 /\ pages > 0 /\ rows = {})
    BY <1>1, <1>2, <1>3
  <2> QED
    BY <2>1, FirstPageIsGiven
<1>4. CASE Visited = 1 /\ pages = 0
  <2>1. ASSUME NEW at \in Listing(site, mode)
        PROVE  at \notin Handled
    <3>1. at.target \in 1..Len(TargetsIn(site, mode)) /\ at.page \in 1..Reach(site, mode)
      BY <1>1, ListingIs
    <3> QED
      BY <1>1, <1>4, <3>1 DEF Handled, Behind
  <2>2. Handled = {}
    BY <2>1 DEF Handled, Behind
  <2>3. Len(delivered) = 0
    <3>1. PICK from \in 0..Len(delivered) : from = 0 /\ Len(delivered) = from + Cardinality(Handled)
      BY DeliveredSoFar
    <3> QED
      BY <2>2, <3>1, FS_EmptySet
  <2>4. delivered = <<>>
    BY <2>3, EmptySeq DEF StreamStands
  <2>5. TargetsIn(site, mode) = site.targets /\ Reader = site.kind
    BY DEF TargetsIn, Reader, ReaderIn
  <2>6. page = site.targets[1]
    <3>1. site.targets[1] \in Urls
      BY <1>1, <1>4, <2>5
    <3>2. Trail(site, mode, site.targets[1])[1] = site.targets[1]
      BY <1>1, <3>1, TrailGoesOn
    <3> QED
      BY <1>2, <1>4, <2>5, <3>2
  <2> QED
    BY <2>4, <2>5, <2>6
<1> QED
  BY <1>1, <1>2, <1>3, <1>4

\* A page that cannot be had or parsed ends the listing.
LEMMA RaiseStands ==
  ASSUME ReadingStands, StreamStands, PagesStand, phase = "fetching", NEW e, Raise(e),
         e \in Failures \cup ({ParseFailure(Reader, site, page)} \ {NoError})
  PROVE  ReadingStands'
<1>1. CASE mode = "own" /\ FallBack
  BY <1>1, FallBackStands
<1>2. CASE Stop(<<e>>)
  <2>1. ASSUME mode = "own"
        PROVE  \/ \A at \in Listing(site, "own") :
                     at.target = 1 /\ at.page = 1 => Rank(site, "own", at) < Len(delivered)
               \/ /\ delivered = <<>>
                  /\ e \in Failures
                           \cup ({ParseFailure(site.kind, site, site.targets[1])} \ {NoError})
    BY <2>1, FirstPageOrNothing
  <2> QED
    BY <1>2, <2>1, StopStands
<1> QED
  BY <1>1, <1>2 DEF Raise

\* A page arrives: its items are all still to be handled.
LEMMA ReceivePageStands ==
  ASSUME ReadingStands, StreamStands, PagesStand, ReceivePage
  PROVE  ReadingStands'
<1>1. phase = "fetching"
  BY DEF ReceivePage
<1>2. CASE ParseFailure(Reader, site, page) # NoError
  BY <1>1, <1>2, RaiseStands DEF ReceivePage
<1>3. CASE ParseFailure(Reader, site, page) = NoError
  <2>1. /\ phase' = "rows" /\ pages' = pages + 1 /\ rows' = ParsedPlaces(Reader, site, page)
        /\ UNCHANGED <<site, mode, targets, page, delivered, errors>>
    BY <1>3 DEF ReceivePage
  <2>2. /\ site \in Sites /\ Reach(site, mode) \in Nat /\ pages \in 0..Reach(site, mode)
        /\ pages < Reach(site, mode) /\ Visited > 0 /\ page # NoUrl /\ page \in Urls /\ rows = {}
        /\ page = Trail(site, mode, TargetsIn(site, mode)[Visited])[pages + 1]
    BY <1>1, Whereabouts DEF ReadingStands, PlaceStands, PagesStand, CrawlTypeOK
  <2>3. Reader' = Reader /\ Visited' = Visited /\ ParsedPlaces(Reader, site, page) \subseteq Nat
    <3>1. Reader' = Reader /\ Visited' = Visited
      BY <1>1, <2>1 DEF Reader, Visited
    <3>2. ParsedPlaces(Reader, site, page) \subseteq 1..Len(site.entries[page])
      BY <2>2, PlacesAreNumbers
    <3> QED
      BY <3>1, <3>2
  <2>4. CrawlTypeOK'
    BY <2>1, <2>2, <2>3 DEF ReadingStands, CrawlTypeOK, Phases
  <2>5. PlaceStands'
    <3>1. pages' > 0 /\ page' = Trail(site', mode', TargetsIn(site', mode')[Visited'])[pages']
      BY <2>1, <2>2, <2>3
    <3>2. /\ rows' \subseteq ParsedPlaces(Reader', site', page')
          /\ ParsedPlaces(Reader', site', page') \ rows' = {}
      BY <2>1, <2>3
    <3> QED
      BY <1>1, <2>1, <2>2, <2>3, <3>1, <3>2 DEF ReadingStands, PlaceStands
  <2>6. Handled' = Handled
    <3>1. ASSUME NEW at \in Listing(site, mode)
          PROVE  /\ at.target \in Nat /\ at.page \in Nat
                 /\ at.target = Visited /\ at.page = pages + 1 => at.row \in rows'
      <4>1. at \in [target : 1..Len(TargetsIn(site, mode)), page : 1..Reach(site, mode), row : Nat]
        BY <2>2, ListingIs
      <4>2. pages + 1 \in 1..Reach(site, mode)
        BY <2>2
      <4>3. ASSUME at.target = Visited, at.page = pages + 1
            PROVE  at.row \in rows'
        <5>1. at.row \in TitledPlaces(Reader, site, page)
          BY <2>2, <4>2, <4>3, PlacesOfThisPage DEF ReadingStands
        <5> QED
          BY <2>1, <5>1 DEF TitledPlaces
      <4> QED
        BY <4>1, <4>3, <2>2
    <3>2. ASSUME NEW at \in Listing(site, mode)
          PROVE  \/ at.target < Visited
                 \/ /\ at.target = Visited /\ at.page <= pages + 1
                    /\ at.page = pages + 1 => at.row \notin rows'
                 <=> \/ at.target < Visited
                     \/ /\ at.target = Visited /\ at.page <= pages
                        /\ at.page = pages => at.row \notin rows
      BY <2>2, <3>1
    <3> QED
      BY <2>1, <2>3, <3>2 DEF Handled, Behind
  <2>7. ProgressStands' /\ EndStands'
    BY <1>1, <2>1, <2>6, NothingIsGiven
  <2> QED
    BY <2>4, <2>5, <2>7 DEF ReadingStands
<1> QED
  BY <1>2, <1>3

\* The page is asked for, or cannot be had.
LEMMA AskingStands ==
  ASSUME ReadingStands, StreamStands, PagesStand, FetcherStands, FetchPage \/ PageFails
  PROVE  ReadingStands'
<1>1. CASE FetchPage
  <2>1. /\ phase = "page" /\ phase' = "fetching"
        /\ UNCHANGED <<site, mode, targets, page, pages, rows, delivered, errors>>
    BY <1>1 DEF FetchPage
  <2>2. CrawlTypeOK'
    BY <2>1 DEF ReadingStands, CrawlTypeOK, Phases
  <2>3. Visited' = Visited
    BY <2>1 DEF Visited
  <2>4. PlaceStands'
    BY <2>1, <2>3 DEF ReadingStands, PlaceStands
  <2>5. Handled' = Handled
    BY <2>1, <2>3 DEF Handled
  <2> QED
    BY <2>1, <2>2, <2>4, <2>5, NothingIsGiven DEF ReadingStands
<1>2. CASE PageFails
  <2>1. call.outcome \in Failures
    <3>1. call.outcome \in {"pending", "ok"} \cup Failures
      BY DEF FetcherStands, FetcherTypeOK, Call
    <3> QED
      BY <1>2, <3>1 DEF PageFails, Failed, FetcherStands, CallsEnd
  <2> QED
    BY <1>2, <2>1, RaiseStands DEF PageFails
<1> QED
  BY <1>1, <1>2

\* A page is left for the next one, or with its target for good.
LEMMA PageIsLeft ==
  ASSUME ReadingStands, StreamStands, NextPage, ~Invalid("next")
  PROVE  ReadingStands'
<1>1. /\ phase = "rows" /\ rows = {} /\ phase' \in {"page", "targets"}
      /\ UNCHANGED <<site, mode, targets, pages, rows, delivered, errors>>
  BY DEF NextPage
<1>2. /\ site \in Sites /\ Reach(site, mode) \in Nat /\ pages \in 1..Reach(site, mode)
      /\ TargetsIn(site, mode) \in Seq(Urls) /\ Visited \in 1..Len(TargetsIn(site, mode))
      /\ page \in Urls /\ page # NoUrl
      /\ page = Trail(site, mode, TargetsIn(site, mode)[Visited])[pages]
  BY <1>1, Whereabouts DEF ReadingStands, PlaceStands, CrawlTypeOK
<1> DEFINE u == TargetsIn(site, mode)[Visited]
<1>3. u \in Urls /\ Visited' = Visited
  BY <1>1, <1>2 DEF Visited
<1>4. pages < Reach(site, mode) => Trail(site, mode, u)[pages + 1] = LinkOf(site, mode, page)
  BY <1>2, <1>3, TrailGoesOn
<1>5. site.next[page] \in Urls \cup {NoUrl}
  BY <1>2, SitesAssumption
<1>6. Handled' = Handled
  BY <1>1, <1>3 DEF Handled
<1>7. ProgressStands' /\ EndStands'
  BY <1>1, <1>6, NothingIsGiven
<1>8. CASE HasNext
  <2>1. phase' = "page" /\ page' = site.next[page]
    BY <1>8 DEF NextPage
  <2>2. page' # NoUrl /\ pages < Reach(site, mode) /\ page' = LinkOf(site, mode, page)
    BY <1>2, <1>8, <2>1 DEF HasNext, FollowsLinks, Reader, LinkOf
  <2>3. page' \in Urls
    BY <1>5, <2>1, <2>2
  <2>4. CrawlTypeOK'
    BY <1>1, <2>1, <2>3 DEF ReadingStands, CrawlTypeOK, Phases
  <2>5. page' = Trail(site', mode', TargetsIn(site', mode')[Visited'])[pages' + 1]
    BY <1>1, <1>3, <1>4, <2>2
  <2>6. PlaceStands'
    BY <1>1, <1>2, <1>3, <2>1, <2>2, <2>5 DEF ReadingStands, PlaceStands
  <2> QED
    BY <1>7, <2>4, <2>6 DEF ReadingStands
<1>9. CASE ~HasNext
  <2>1. phase' = "targets" /\ page' = NoUrl
    BY <1>9 DEF NextPage
  <2>2. CrawlTypeOK'
    BY <1>1, <2>1 DEF ReadingStands, CrawlTypeOK, Phases
  <2>3. ASSUME NEW at \in Listing(site, mode), at.target = Visited
        PROVE  at.page <= pages
    <3>1. at.page \in 1..Reach(site, mode) /\ PageOf(site, mode, at) # NoUrl
      BY <1>2, ListingIs
    <3>2. CASE pages = Reach(site, mode)
      BY <1>2, <3>1, <3>2
    <3>3. CASE pages < Reach(site, mode)
      <4>1. LinkOf(site, mode, page) = NoUrl
        BY <1>5, <1>9, <3>3 DEF HasNext, FollowsLinks, Reader, LinkOf
      <4>2. pages + 1 \in 1..Reach(site, mode) /\ Trail(site, mode, u)[pages + 1] = NoUrl
        BY <1>2, <1>4, <3>3, <4>1
      <4>3. \A k \in (pages + 1)..Reach(site, mode) : Trail(site, mode, u)[k] = NoUrl
        <5> HIDE DEF u
        <5> QED
          BY <1>2, <1>3, <4>2, TrailEnds
      <4>4. Trail(site, mode, u)[at.page] # NoUrl
        BY <2>3, <3>1 DEF PageOf
      <4> HIDE DEF u
      <4> QED
        BY <1>2, <3>1, <4>3, <4>4
    <3> QED
      BY <1>2, <3>2, <3>3
  <2>4. PlaceStands'
    BY <1>1, <1>3, <2>1, <2>3 DEF ReadingStands, PlaceStands
  <2> QED
    BY <1>7, <2>2, <2>4 DEF ReadingStands
<1> QED
  BY <1>8, <1>9

\* A selector of the next link that is none ends the crawl behind its first page.
LEMMA NextPageStands ==
  ASSUME ReadingStands, StreamStands, NextPage
  PROVE  ReadingStands'
<1>1. CASE Invalid("next")
  <2>1. Stop(<<"SELECTORSYNTAXERROR">>) /\ phase = "rows" /\ rows = {}
    BY <1>1 DEF NextPage
  <2>2. ASSUME mode = "own"
        PROVE  \A at \in Listing(site, "own") :
                  at.target = 1 /\ at.page = 1 => Rank(site, "own", at) < Len(delivered)
    <3>1. Visited > 0 /\ pages > 0
      BY <2>1 DEF ReadingStands, PlaceStands
    <3>2. Visited \in Nat
      BY Whereabouts DEF ReadingStands
    <3>3. Visited > 1 \/ (Visited = 1 /\ pages > 0 /\ rows = {})
      BY <2>1, <3>1, <3>2
    <3> QED
      BY <2>1, <2>2, <3>3, FirstPageIsGiven
  <2> QED
    BY <2>1, <2>2, StopStands
<1>2. CASE ~Invalid("next")
  BY <1>2, PageIsLeft
<1> QED
  BY <1>1, <1>2

\* The row to be handled is the first of those that are left.
LEMMA ThisRow ==
  ASSUME ReadingStands, phase \in {"rows", "detail"}, rows # {}
  PROVE  /\ site \in Sites /\ pages \in 1..Reach(site, mode) /\ Reach(site, mode) \in Nat
         /\ Visited \in Nat /\ Visited > 0 /\ page \in Urls /\ page # NoUrl
         /\ page = Trail(site, mode, TargetsIn(site, mode)[Visited])[pages]
         /\ Min(rows) \in rows /\ Min(rows) \in Nat /\ \A j \in rows : j \in Nat /\ Min(rows) <= j
         /\ Min(rows) \in ParsedPlaces(Reader, site, page)
         /\ Reader \in {"html", "wordpress", "json", "pdf", "ocds"}
         /\ ThisItem.detail \in Urls
<1>1. /\ site \in Sites /\ Reach(site, mode) \in Nat /\ pages \in 1..Reach(site, mode)
      /\ Visited \in Nat /\ Visited > 0 /\ page \in Urls /\ page # NoUrl
      /\ page = Trail(site, mode, TargetsIn(site, mode)[Visited])[pages]
      /\ Reader \in {"html", "wordpress", "json", "pdf", "ocds"}
  BY Whereabouts DEF ReadingStands, PlaceStands, CrawlTypeOK
<1>2. rows \subseteq Nat /\ rows \subseteq ParsedPlaces(Reader, site, page)
  BY DEF ReadingStands, PlaceStands, CrawlTypeOK
<1>3. Min(rows) \in rows /\ \A j \in rows : Min(rows) <= j
  BY <1>2, MinIsLeast
<1>4. Min(rows) \in ParsedPlaces(Reader, site, page) /\ Min(rows) \in Nat
  BY <1>2, <1>3
<1>5. ThisItem.detail \in Urls
  <2> DEFINE i == Min(rows)
  <2>1. ItemAt(Reader, site, page, i).detail \in Urls
    <3> HIDE DEF i
    <3> QED
      BY <1>1, <1>4, DetailsArePages DEF i
  <2> QED
    BY <2>1 DEF ThisItem
<1> QED
  BY <1>1, <1>2, <1>3, <1>4, <1>5

\* A row is handled: the place of the crawl moves behind it.
LEMMA RowIsHandled ==
  ASSUME ReadingStands, phase \in {"rows", "detail"}, rows # {},
         rows' = RestOfRows, phase' = "rows", UNCHANGED <<site, mode, targets, page, pages>>,
         Len(errors') <= 1
  PROVE  /\ CrawlTypeOK' /\ PlaceStands'
         /\ \A at : at \in Handled' <=>
               \/ at \in Handled
               \/ /\ at \in Listing(site, mode)
                  /\ at.target = Visited /\ at.page = pages /\ at.row = Min(rows)
<1>1. /\ site \in Sites /\ pages \in 1..Reach(site, mode) /\ Reach(site, mode) \in Nat
      /\ Visited \in Nat /\ Visited > 0 /\ page \in Urls /\ page # NoUrl
      /\ page = Trail(site, mode, TargetsIn(site, mode)[Visited])[pages]
      /\ Min(rows) \in rows /\ Min(rows) \in Nat /\ \A j \in rows : j \in Nat /\ Min(rows) <= j
  BY ThisRow
<1> DEFINE i == Min(rows)
<1>2. rows' = rows \ {i}
  BY DEF RestOfRows
<1> HIDE DEF i
<1>3. CrawlTypeOK'
  BY <1>2 DEF ReadingStands, CrawlTypeOK, Phases
<1>4. Reader' = Reader /\ Visited' = Visited
  BY DEF Reader, Visited
<1>5. PlaceStands'
  <2>1. /\ pages' > 0 /\ page' = Trail(site', mode', TargetsIn(site', mode')[Visited'])[pages']
        /\ Visited' > 0
    BY <1>1, <1>4
  <2>2. rows' \subseteq ParsedPlaces(Reader', site', page')
    BY <1>2, <1>4 DEF ReadingStands, PlaceStands
  <2>3. ASSUME NEW k \in ParsedPlaces(Reader, site, page) \ rows', NEW j \in rows'
        PROVE  k < j
    <3>1. j \in rows /\ j # i /\ j \in Nat /\ i \in Nat /\ i <= j
      BY <1>1, <1>2, <2>3 DEF i
    <3>2. CASE k = i
      BY <3>1, <3>2
    <3>3. CASE k # i
      BY <1>2, <2>3, <3>1, <3>3 DEF ReadingStands, PlaceStands
    <3> QED
      BY <3>2, <3>3
  <2>4. /\ Len(targets') <= Len(TargetsIn(site', mode'))
        /\ \A k \in DOMAIN targets' : targets'[k] = TargetsIn(site', mode')[Visited' + k]
    BY <1>4 DEF ReadingStands, PlaceStands
  <2> QED
    BY <1>1, <1>4, <2>1, <2>2, <2>3, <2>4 DEF PlaceStands
<1>6. ASSUME NEW at
      PROVE  at \in Handled' <=>
                \/ at \in Handled
                \/ /\ at \in Listing(site, mode)
                   /\ at.target = Visited /\ at.page = pages /\ at.row = i
  BY <1>1, <1>2, <1>4 DEF Handled, Behind
<1> QED
  BY <1>3, <1>5, <1>6 DEF i

\* A row without a title is skipped.
LEMMA SkipRowStands ==
  ASSUME ReadingStands, StreamStands, SkipRow
  PROVE  ReadingStands'
<1>1. /\ phase = "rows" /\ phase' = "rows" /\ rows # {} /\ rows' = RestOfRows
      /\ ~Titled(ThisItem) /\ UNCHANGED <<site, mode, targets, page, pages, delivered, errors>>
  BY DEF SkipRow
<1>2. Len(errors') <= 1
  BY <1>1 DEF ReadingStands, CrawlTypeOK
<1>3. CrawlTypeOK' /\ PlaceStands'
  BY <1>1, <1>2, RowIsHandled
<1>4. ASSUME NEW at \in Listing(site, mode), at.target = Visited, at.page = pages,
             at.row = Min(rows)
      PROVE  FALSE
  <2>1. at.row \in TitledPlaces(Reader, site, page)
    BY <1>1, <1>4, ThisRow, PlacesOfThisPage DEF ReadingStands
  <2> QED
    BY <1>1, <1>4, <2>1 DEF TitledPlaces, ThisItem
<1>5. \A at : at \in Handled' <=> at \in Handled
  BY <1>1, <1>2, <1>4, RowIsHandled
<1>6. Handled' = Handled
  <2>1. Handled' \subseteq Handled /\ Handled \subseteq Handled'
    BY <1>5
  <2> HIDE DEF Handled
  <2> QED
    BY <2>1
<1>7. ProgressStands' /\ EndStands'
  BY <1>1, <1>6, NothingIsGiven
<1> QED
  BY <1>3, <1>7 DEF ReadingStands

\* An item is delivered, or the ceiling is reached.
LEMMA DeliverStands ==
  ASSUME ReadingStands, StreamStands, phase \in {"rows", "detail"}, rows # {},
         Titled(ThisItem), NEW item, Is(site, item, ThisItem), Deliver(item)
  PROVE  ReadingStands'
<1>1. CASE Len(delivered) >= MaxItems
  <2>1. Stop(<<"MAX_ITEMS_EXCEEDED">>)
    BY <1>1 DEF Deliver
  <2> QED
    BY <1>1, <2>1, StopStands
<1>2. CASE ~(Len(delivered) >= MaxItems)
  <2>1. /\ delivered' = Append(delivered, item) /\ rows' = RestOfRows /\ phase' = "rows"
        /\ UNCHANGED <<site, mode, targets, page, pages, errors>>
    BY <1>2 DEF Deliver
  <2>2. Len(errors') <= 1
    BY <2>1 DEF ReadingStands, CrawlTypeOK
  <2>3. CrawlTypeOK' /\ PlaceStands'
    BY <2>1, <2>2, RowIsHandled
  <2> DEFINE i == Min(rows)
             at == [target |-> Visited, page |-> pages, row |-> i]
             V == ToSet(delivered) \cup {item}
  <2>4. /\ site \in Sites /\ pages \in 1..Reach(site, mode) /\ Reach(site, mode) \in Nat
        /\ Visited \in Nat /\ Visited > 0 /\ page \in Urls /\ page # NoUrl
        /\ page = Trail(site, mode, TargetsIn(site, mode)[Visited])[pages]
        /\ i \in rows /\ i \in Nat /\ \A j \in rows : j \in Nat /\ i <= j
        /\ i \in ParsedPlaces(Reader, site, page)
    BY ThisRow
  <2>5. i \in TitledPlaces(Reader, site, page)
    BY <2>4 DEF TitledPlaces, ThisItem
  <2>6. at \in Listing(site, mode) /\ ItemOf(site, mode, at) = ThisItem
    <3> HIDE DEF i
    <3>1. at \in Listing(site, mode)
      BY <2>4, <2>5, PlacesOfThisPage DEF ReadingStands
    <3>2. at.target = Visited /\ at.page = pages /\ at.row = i
      OBVIOUS
    <3> HIDE DEF at
    <3>3. ItemOf(site, mode, at) = ItemAt(Reader, site, page, i)
      BY <2>4, <3>1, <3>2, PlacesOfThisPage DEF ReadingStands
    <3> QED
      BY <3>1, <3>3 DEF i, ThisItem
  <2>7. ASSUME NEW b \in Listing(site, mode), b.target = Visited, b.page = pages
        PROVE  b.row \in ParsedPlaces(Reader, site, page)
    <3>1. b.row \in TitledPlaces(Reader, site, page)
      BY <2>4, <2>7, PlacesOfThisPage DEF ReadingStands
    <3> QED
      BY <3>1 DEF TitledPlaces
  <2>8. ASSUME NEW b \in Listing(site, mode)
        PROVE  b.target \in Nat /\ b.page \in Nat /\ b.row \in Nat
               /\ b = [target |-> b.target, page |-> b.page, row |-> b.row]
    <3>1. b \in [target : 1..Len(TargetsIn(site, mode)), page : 1..Reach(site, mode), row : Nat]
      BY <2>4, ListingIs
    <3> QED
      BY <2>4, <3>1, Readers
  <2>9. at.target = Visited /\ at.page = pages /\ at.row = i
    OBVIOUS
  <2> HIDE DEF i, at
  <2>10. at \notin Handled
    BY <2>4, <2>9 DEF Handled, Behind
  <2>11. ASSUME NEW b \in Listing(site, mode), Before(b, at)
         PROVE  b \in Handled
    <3>1. \/ b.target < Visited
          \/ b.target = Visited /\ b.page < pages
          \/ b.target = Visited /\ b.page = pages /\ b.row < i
      BY <2>9, <2>11 DEF Before
    <3>2. b.target = Visited /\ b.page = pages /\ b.row < i => b.row \notin rows
      BY <2>4, <2>8
    <3> QED
      BY <2>4, <2>8, <3>1, <3>2 DEF Handled, Behind
  <2>12. Handled' = Handled \cup {at}
    <3>1. \A b : b \in Handled' <=>
             \/ b \in Handled
             \/ /\ b \in Listing(site, mode)
                /\ b.target = Visited /\ b.page = pages /\ b.row = i
      BY <2>1, <2>2, RowIsHandled DEF i
    <3>2. \A b \in Listing(site, mode) :
             b.target = Visited /\ b.page = pages /\ b.row = i => b = at
      BY <2>8 DEF at
    <3>3. \A b : b \in Handled' <=> b \in Handled \/ b = at
      BY <2>6, <2>9, <3>1, <3>2
    <3>4. Handled' \subseteq Handled \cup {at} /\ Handled \cup {at} \subseteq Handled'
      BY <3>3
    <3> HIDE DEF Handled
    <3> QED
      BY <3>4
  <2>13. PICK from \in 0..Len(delivered) :
            /\ IF mode = "own" THEN from = 0 ELSE Begun(site, delivered, from)
            /\ Given(site, mode, delivered, from, Len(delivered))
            /\ Len(delivered) = from + Cardinality(Handled)
            /\ Len(delivered) \in Nat
    BY DeliveredSoFar
  <2>14. delivered \in Seq(V) /\ item \in V
    BY SeqMonotonic DEF StreamStands
  <2>15. /\ Handled \in SUBSET Listing(site, mode)
         /\ \A a \in Handled, b \in Listing(site, mode) : Before(b, a) => b \in Handled
    BY HandledComesFirst DEF ReadingStands
  <2>16. Is(site, item, ItemOf(site, mode, at))
    BY <2>6
  <2>17. /\ Given(site, mode, Append(delivered, item), from, Len(delivered) + 1)
         /\ Len(delivered) + 1 = from + Cardinality(Handled \cup {at})
    <3> HIDE DEF Handled, V
    <3> QED
      BY <2>4, <2>6, <2>10, <2>11, <2>13, <2>14, <2>15, <2>16, NextIsGiven
  <2>18. Len(delivered') = Len(delivered) + 1
    <3> HIDE DEF V
    <3> QED
      BY <2>1, <2>14, AppendProperties
  <2>19. IF mode = "own" THEN from = 0 ELSE Begun(site, delivered', from)
    <3>1. CASE mode # "own"
      <4>1. /\ from <= Cardinality(Listing(site, "own"))
            /\ Given(site, "own", delivered, 0, from)
        BY <2>13, <3>1 DEF Begun
      <4>2. 0 \in 0..Len(delivered)
        BY <2>13
      <4>3. Given(site, "own", Append(delivered, item), 0, from)
        <5> HIDE DEF V
        <5> QED
          BY <2>4, <2>13, <2>14, <4>1, <4>2, GivenStays
      <4> QED
        BY <2>1, <3>1, <4>1, <4>3 DEF Begun
    <3> QED
      BY <2>13, <3>1
  <2>20. ProgressStands'
    <3>1. from \in 0..Len(delivered')
      BY <2>13, <2>18
    <3>2. /\ Given(site', mode', delivered', from, Len(delivered'))
          /\ Len(delivered') = from + Cardinality(Handled')
          /\ IF mode' = "own" THEN from = 0 ELSE Begun(site', delivered', from)
      BY <2>1, <2>12, <2>17, <2>18, <2>19
    <3> QED
      BY <2>1, <3>1, <3>2 DEF ProgressStands
  <2>21. EndStands'
    BY <2>1 DEF EndStands
  <2> QED
    BY <2>3, <2>20, <2>21 DEF ReadingStands
<1> QED
  BY <1>1, <1>2

\* A row becomes an item, at once or with what its page adds.
LEMMA RowStands ==
  ASSUME ReadingStands, StreamStands, TakeRow \/ FetchDetail \/ ReceiveDetail
  PROVE  ReadingStands'
<1>1. CASE TakeRow
  BY <1>1, DeliverStands DEF TakeRow, Is
<1>2. CASE FetchDetail
  <2>1. /\ phase = "rows" /\ phase' = "detail" /\ rows # {} /\ Titled(ThisItem)
        /\ UNCHANGED <<site, mode, targets, page, pages, rows, delivered, errors>>
    BY <1>2 DEF FetchDetail
  <2>2. CrawlTypeOK'
    BY <2>1 DEF ReadingStands, CrawlTypeOK, Phases
  <2>3. Visited' = Visited /\ Reader' = Reader /\ ThisItem' = ThisItem
    BY <2>1 DEF Visited, Reader, ThisItem
  <2>4. PlaceStands'
    BY <2>1, <2>3 DEF ReadingStands, PlaceStands
  <2>5. Handled' = Handled
    BY <2>1, <2>3 DEF Handled
  <2> QED
    BY <2>1, <2>2, <2>4, <2>5, NothingIsGiven DEF ReadingStands
<1>4. CASE ReceiveDetail /\ Arrived /\ Invalid("detail")
  <2>1. Stop(<<"SELECTORSYNTAXERROR">>) /\ phase = "detail"
    BY <1>4 DEF ReceiveDetail
  <2>2. mode = "own" => Unreadable(site)
    BY <1>4, InvalidIsUnreadable
  <2> QED
    BY <2>1, <2>2, StopStands
<1>3. CASE ReceiveDetail /\ ~(Arrived /\ Invalid("detail"))
  <2>1. phase = "detail" /\ rows # {} /\ Titled(ThisItem)
    BY <1>3 DEF ReceiveDetail, ReadingStands, PlaceStands
  <2>2. PICK item \in Enriched(ThisItem) : Deliver(item)
    BY <1>3 DEF ReceiveDetail
  <2>3. Reader = "pdf" => site.kind = "pdf"
    BY DEF Reader, ReaderIn
  <2>4. Is(site, item, ThisItem)
    BY <2>2, <2>3 DEF Enriched, Is
  <2> QED
    BY <2>1, <2>2, <2>4, DeliverStands
<1> QED
  BY <1>1, <1>2, <1>3, <1>4

\* A step that leaves the crawl where it is.
LEMMA ReadingIsKept ==
  ASSUME ReadingStands, UNCHANGED crawlVars
  PROVE  ReadingStands'
<1>1. UNCHANGED <<site, mode, phase, targets, page, pages, rows, delivered, errors>>
  BY DEF crawlVars
<1>2. CrawlTypeOK'
  BY <1>1 DEF ReadingStands, CrawlTypeOK
<1>3. Visited' = Visited /\ Reader' = Reader /\ ThisItem' = ThisItem
  BY <1>1 DEF Visited, Reader, ThisItem
<1>4. Handled' = Handled
  BY <1>1, <1>3 DEF Handled
<1>5. PlaceStands'
  BY <1>1, <1>3 DEF ReadingStands, PlaceStands
<1>6. ProgressStands'
  BY <1>1, <1>4 DEF ReadingStands, ProgressStands
<1>7. EndStands'
  BY <1>1 DEF ReadingStands, EndStands
<1> QED
  BY <1>2, <1>5, <1>6, <1>7 DEF ReadingStands

\* The fetcher, through every step of a crawl.
LEMMA CrawlKeepsFetcher ==
  ASSUME FetcherStands, ReadingStands, Next
  PROVE  FetcherStands'
<1>1. CASE Discover \/ NextTarget \/ NoMoreTargets \/ NextPage \/ SkipRow \/ TakeRow
  <2>1. UNCHANGED fetchVars
    BY <1>1 DEF Discover, NextTarget, NoMoreTargets, NextPage, SkipRow, TakeRow
  <2> QED
    BY <2>1 DEF fetchVars, FetcherStands, FetcherTypeOK, PaceHolds, CallsEnd
<1>2. CASE FetchPage
  <2>1. page \in Urls
    BY <1>2 DEF FetchPage, ReadingStands, CrawlTypeOK, PlaceStands
  <2> QED
    BY <1>2, <2>1, CallersKeepTypes DEF FetchPage
<1>3. CASE FetchDetail
  <2>1. ThisItem.detail \in Urls
    BY <1>3, ThisRow DEF FetchDetail
  <2> QED
    BY <1>3, <2>1, CallersKeepTypes DEF FetchDetail
<1>4. CASE ReceivePage \/ PageFails \/ ReceiveDetail
  BY <1>4, CallersKeepTypes DEF ReceivePage, PageFails, ReceiveDetail
<1>5. CASE Fetches \/ Ages
  BY <1>5, FetcherKeepsTypes DEF Fetches, Ages
<1> QED
  BY <1>1, <1>2, <1>3, <1>4, <1>5 DEF Next, Reads

\* Every step of a crawl keeps all that stands of it.
LEMMA CrawlIsKept ==
  ASSUME CrawlStands, Next
  PROVE  CrawlStands'
<1>1. FetcherStands /\ ReadingStands /\ StreamStands /\ PagesStand
  BY DEF CrawlStands, FetcherStands, ReadingStands, TypeOK
<1>2. FetcherStands'
  BY <1>1, CrawlKeepsFetcher
<1>3. StreamStands'
  BY <1>1, CrawlMoves, StreamIsKept
<1>4. PagesStand'
  BY <1>1, PagesAreKept DEF PagesWithin, ReadingStands, CrawlTypeOK
<1>5. ReadingStands'
  <2>1. CASE Discover \/ NextTarget \/ NoMoreTargets
    BY <1>1, <2>1, DiscoverStands, NextTargetStands, NoMoreTargetsStands
  <2>2. CASE FetchPage \/ ReceivePage \/ PageFails \/ NextPage
    BY <1>1, <2>2, AskingStands, ReceivePageStands, NextPageStands
  <2>3. CASE SkipRow \/ TakeRow \/ FetchDetail \/ ReceiveDetail
    BY <1>1, <2>3, SkipRowStands, RowStands
  <2>4. CASE Fetches \/ Ages
    BY <1>1, <2>4, ReadingIsKept DEF Fetches, Ages
  <2> QED
    BY <2>1, <2>2, <2>3, <2>4 DEF Next, Reads
<1> QED
  BY <1>2, <1>3, <1>4, <1>5 DEF CrawlStands, FetcherStands, ReadingStands, TypeOK

\* It stands at the start.
LEMMA CrawlStarts ==
  ASSUME Init
  PROVE  CrawlStands
<1>1. FetcherStands
  <2>1. MinGap \in Nat /\ MaxGap \in Nat
    BY GapAssumption
  <2>2. NoCall \in Call /\ Len(NoCall.hops) <= MaxRedirects /\ NoCall.stage = "idle"
    BY NoCallTypes
  <2>3. FetcherTypeOK
    BY <2>1, <2>2 DEF Init, FetcherInit, FetcherTypeOK
  <2>4. PaceHolds
    BY <2>1 DEF Init, FetcherInit, PaceHolds, NoCall
  <2> QED
    BY <2>2, <2>3, <2>4 DEF Init, FetcherInit, FetcherStands, CallsEnd
<1>2. StreamStands /\ PagesStand
  BY NoItemsIsAStream DEF Init, StreamStands, PagesStand
<1>3. /\ site \in Sites /\ Reach(site, mode) \in Nat /\ Len(TargetsIn(site, mode)) \in Nat
      /\ mode = "own" /\ phase = "start" /\ targets = <<>> /\ page = NoUrl /\ pages = 0
      /\ rows = {} /\ delivered = <<>> /\ errors = <<>>
  BY ReachIsANumber, Readers DEF Init
<1>4. Len(<<>>) = 0 /\ <<>> \in Seq(Urls)
  OBVIOUS
<1>5. CrawlTypeOK
  BY <1>3, <1>4 DEF CrawlTypeOK, Phases
<1>6. PlaceStands
  BY <1>3, <1>4 DEF PlaceStands
<1>7. ASSUME NEW at \in Listing(site, mode)
      PROVE  at.target \in Nat /\ at.target > 0 /\ Rank(site, mode, at) \in Nat
  <2>1. at.target \in 1..Len(TargetsIn(site, mode))
    BY <1>3, ListingIs
  <2>2. Rank(site, mode, at) \in Nat
    <3>1. {} \in SUBSET Listing(site, mode)
      OBVIOUS
    <3> QED
      BY <1>3, <3>1, BehindAreFirst
  <2> QED
    BY <1>3, <2>1, <2>2
<1>8. Handled = {}
  BY <1>3, <1>7 DEF Handled, Behind, Visited
<1>9. ProgressStands
  <2>1. Given(site, mode, delivered, 0, 0)
    BY <1>7 DEF Given
  <2> QED
    BY <1>3, <1>4, <1>8, <2>1, FS_EmptySet DEF ProgressStands
<1>10. EndStands
  BY <1>3 DEF EndStands
<1> QED
  BY <1>1, <1>2, <1>5, <1>6, <1>9, <1>10 DEF CrawlStands, FetcherStands, TypeOK

\* What stands of a crawl makes a clean run complete.
LEMMA CleanRuns == CrawlStands => CleanRunIsComplete
<1> SUFFICES ASSUME CrawlStands, phase = "ended", errors = <<>>
             PROVE  IF mode = "own" THEN Complete(site, "own", delivered, 0)
                    ELSE \E from \in 0..Len(delivered) :
                             /\ Begun(site, delivered, from)
                             /\ Complete(site, "fallback", delivered, from)
  BY DEF CleanRunIsComplete
<1>1. PICK from \in 0..Len(delivered) :
          /\ IF mode = "own" THEN from = 0 ELSE Begun(site, delivered, from)
          /\ Complete(site, mode, delivered, from)
  BY DEF CrawlStands, ProgressStands
<1>2. mode \in {"own", "fallback"}
  BY DEF CrawlStands, TypeOK, CrawlTypeOK
<1> QED
  BY <1>1, <1>2
=============================================================================
