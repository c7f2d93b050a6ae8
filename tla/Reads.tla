------------------------------- MODULE Reads --------------------------------
(***************************************************************************)
(* What readers see while tenders are ingested: a client that walks the    *)
(* pages of a list (TenderService) and the cached statistics               *)
(* (StatisticsService).  A request is several statements, each of which    *)
(* sees what is committed when it runs.                                    *)
(***************************************************************************)
EXTENDS Records, SequencesExt

CONSTANTS
    Ids,         \* primary keys, numbers
    Items,       \* what sources publish
    Requests,    \* concurrent requests for statistics
    PageSize,
    Ttl,         \* STATISTICS_CACHE_SECONDS, in the unit of the clock
    Start,       \* the instant at which the model begins
    Tick,        \* how far the clock moves
    MaxNow,      \* bound of the clock
    MaxWrites    \* bound of the commits of ingestion

ASSUME PageSizeAssumption == PageSize \in Nat \ {0}
ASSUME TimeAssumption == {Ttl, Tick} \subseteq Nat \ {0} /\ {Start, MaxNow} \subseteq Nat

VARIABLES
    now,
    rows,       \* procurement_opportunities: a row, or NoRow
    writes,     \* history: commits of ingestion
    walk,       \* the client's walk
    cache,      \* StatisticsService._cache
    asked       \* when each statistics request began, or Idle

vars == <<now, rows, writes, walk, cache, asked>>

NoRow == [status |-> "none"]
Idle == -1
NoCache == [at |-> Idle, expires |-> 0]

Statuses == {"OPEN", "CLOSED", "UNKNOWN", "CANCELLED"}

\* said: the text closing comes from.
Texts == {item.closing : item \in Items}
Row == [published : Int, closing : Int, status : Statuses, said : Texts]

ASSUME IdsAssumption == Ids \subseteq Nat /\ IsFiniteSet(Ids)
ASSUME ItemsAssumption ==
    \A item \in Items :
        /\ item.status \in {"none"} \cup Statuses
        /\ \A text \in {item.published, item.closing} :
               {text.day, text.clock, text.zone} \subseteq Int

Filters == {"ANY", "OPEN"}

Sorts == {"-published_at", "closing_at"}

NoWalk == [stage |-> "none", filter |-> "ANY", sort |-> "-published_at", page |-> 1,
           total |-> 0, got |-> <<>>, calm |-> TRUE]

Init ==
    /\ now = Start
    /\ rows = [r \in Ids |-> NoRow]
    /\ writes = 0
    /\ walk = NoWalk
    /\ cache = NoCache
    /\ asked = [q \in Requests |-> Idle]

Stored == {r \in Ids : rows[r] # NoRow}

----------------------------------------------------------------------------
(* Ingestion commits.                                                      *)

\* An item of which no row is a duplicate.
Created(item) ==
    LET new == Normalized(item, now)
    IN  [published |-> new.published, closing |-> new.closing, status |-> new.status,
         said |-> item.closing]

Kept(new, old) == IF new = Unknown THEN old ELSE new

\* An item that is a duplicate of the row: a missing value is not written.
Updated(old, item) ==
    LET new == Normalized(item, now)
    IN  [published |-> Kept(new.published, old.published),
         closing |-> Kept(new.closing, old.closing),
         status |-> new.status,
         said |-> IF new.closing = Unknown THEN old.said ELSE item.closing]

Commits(newRows) ==
    /\ writes < MaxWrites /\ writes' = writes + 1
    /\ rows' = newRows
    /\ walk' = [walk EXCEPT !.calm = FALSE]
    /\ UNCHANGED <<now, cache, asked>>

Ingest(r, item) ==
    /\ Acceptable(item)
    /\ Commits([rows EXCEPT ![r] = IF @ = NoRow THEN Created(item) ELSE Updated(@, item)])

TimePasses ==
    /\ now < MaxNow /\ now' = now + Tick
    /\ UNCHANGED <<rows, writes, walk, cache, asked>>

----------------------------------------------------------------------------
(* A list: TenderService.list_tenders, page after page.                    *)

Matching(filter) == {r \in Stored : filter = "ANY" \/ rows[r].status = filter}

\* DESC or ASC, and in either case NULLS LAST.
Precedes(x, y, descending) ==
    /\ x # Unknown
    /\ y = Unknown \/ IF descending THEN x > y ELSE x < y

\* Mutant: no tiebreaker, so that equal dates come in any order.
Before_NoTiebreak(a, b, sort) ==
    LET column(r) == IF sort = "closing_at" THEN rows[r].closing ELSE rows[r].published
    IN  ~Precedes(column(b), column(a), sort = "-published_at")

\* ORDER BY a column and then the id: whether a may come before b.
Before(a, b, sort) ==
    LET column(r)    == IF sort = "closing_at" THEN rows[r].closing ELSE rows[r].published
        precedes(r, s) == Precedes(column(r), column(s), sort = "-published_at")
    IN  precedes(a, b) \/ (column(a) = column(b) /\ a < b)

Orders(ids, sort) ==
    {s \in SetToSeqs(ids) : \A i, j \in DOMAIN s : i < j => Before(s[i], s[j], sort)}

Limited(s, page) ==
    LET offset == (page - 1) * PageSize
    IN  SubSeq(s, offset + 1, IF offset + PageSize > Len(s) THEN Len(s) ELSE offset + PageSize)

Pages(total) == (total + PageSize - 1) \div PageSize

HasNext(page, total) == page < Pages(total)

BeginWalk ==
    /\ walk.stage \in {"none", "done"}
    /\ \E filter \in Filters, sort \in Sorts :
           walk' = [NoWalk EXCEPT !.stage = "count", !.filter = filter, !.sort = sort]
    /\ UNCHANGED <<now, rows, writes, cache, asked>>

\* The total and the rows of a page are two statements.
CountRows ==
    /\ walk.stage = "count"
    /\ walk' = [walk EXCEPT !.stage = "items", !.total = Cardinality(Matching(walk.filter))]
    /\ UNCHANGED <<now, rows, writes, cache, asked>>

ReadPage ==
    /\ walk.stage = "items"
    /\ \E s \in Orders(Matching(walk.filter), walk.sort) :
           LET got == walk.got \o Limited(s, walk.page) IN
           walk' = IF HasNext(walk.page, walk.total)
                   THEN [walk EXCEPT !.stage = "count", !.page = @ + 1, !.got = got]
                   ELSE [walk EXCEPT !.stage = "done", !.got = got]
    /\ UNCHANGED <<now, rows, writes, cache, asked>>

----------------------------------------------------------------------------
(* GET /statistics.                                                        *)

\* Mutant: the TTL runs from the end of the computation.
Entry_FromTheEnd(at) == [at |-> at, expires |-> now + Ttl]

\* A payload computed from counts that were read from `at` on.
Entry(at) == [at |-> at, expires |-> at + Ttl]

Fresh == cache.expires > now

\* A request that finds the entry fresh is answered from it and changes nothing.
BeginCompute(q) ==
    /\ asked[q] = Idle /\ ~Fresh
    /\ asked' = [asked EXCEPT ![q] = now]
    /\ UNCHANGED <<now, rows, writes, walk, cache>>

\* Whoever finishes last owns the cache.
EndCompute(q) ==
    /\ asked[q] # Idle
    /\ cache' = Entry(asked[q])
    /\ asked' = [asked EXCEPT ![q] = Idle]
    /\ UNCHANGED <<now, rows, writes, walk>>

Next ==
    \/ \E r \in Ids, item \in Items : Ingest(r, item)
    \/ TimePasses
    \/ BeginWalk \/ CountRows \/ ReadPage
    \/ \E q \in Requests : BeginCompute(q) \/ EndCompute(q)

Spec == Init /\ [][Next]_vars

----------------------------------------------------------------------------
(* Properties.                                                             *)

\* A client that follows has_next while nothing is committed receives exactly
\* the matching tenders, each once and in order.
QuietWalksAreExact ==
    walk.stage = "done" /\ walk.calm => Orders(Matching(walk.filter), walk.sort) = {walk.got}

\* Whatever is served from the cache rests on counts read less than the TTL ago,
\* however long computing took and whichever of several computations came last.
StatisticsAreRecent == Fresh => now - cache.at < Ttl

----------------------------------------------------------------------------
(* Why: the inductive invariant.                                           *)

TypesHold ==
    /\ now \in Nat
    /\ rows \in [Ids -> Row \cup {NoRow}]
    /\ asked \in [Requests -> Nat \cup {Idle}]
    /\ DOMAIN walk = DOMAIN NoWalk /\ walk.page \in Nat \ {0} /\ walk.calm \in BOOLEAN
    /\ walk.stage \in {"none", "count", "items", "done"}

\* A cached payload expires one TTL after its counts were first read.
CacheStands == cache = NoCache \/ (cache.at \in Nat /\ cache = Entry(cache.at))

\* As long as nothing is committed, a walk has received the first pages of the one
\* order the list has, and counts as many rows as it has.
WalkStands ==
    LET matching == Matching(walk.filter)
        read     == (walk.page - 1) * PageSize
    IN  /\ walk.stage \in {"count", "items"} /\ walk.calm =>
               \A s \in Orders(matching, walk.sort) :
                   read <= Len(s) /\ walk.got = SubSeq(s, 1, read)
        /\ walk.stage = "items" /\ walk.calm => walk.total = Cardinality(matching)
        /\ QuietWalksAreExact

IInv == TypesHold /\ CacheStands /\ WalkStands

----------------------------------------------------------------------------
(* What the repository says of dates and the code does not do.             *)

\* dates.py: of a closing date without a time, 23:59:59 local is used "so that
\* filters like closing_after=today behave sensibly": a tender whose source
\* gives a closing day alone is not shown as closed before that day is over.
ClosingDaysAreKept ==
    \A r \in Stored :
        rows[r].status = "CLOSED" /\ DateOnly(rows[r].said)
            => now > Local(rows[r].said.day, EndOfDay)
=============================================================================
