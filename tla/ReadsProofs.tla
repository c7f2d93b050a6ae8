---------------------------- MODULE ReadsProofs ----------------------------
(***************************************************************************)
(* Proofs about what readers see, for any table, items, page size, TTL and *)
(* number of requests: a client that walks the pages of a list while       *)
(* nothing is committed receives exactly the matching tenders, and cached  *)
(* statistics rest on counts younger than the TTL.                         *)
(*                                                                         *)
(* The argument is the inductive invariant IInv of Reads.  Its core is     *)
(* that the tiebreaker leaves a list one order (OneOrder): the pages of a  *)
(* walk are read by statements that sort anew, and what they add up to is  *)
(* a prefix of that order.                                                 *)
(***************************************************************************)
EXTENDS Reads, FiniteSetTheorems, SequenceTheorems, WellFoundedInduction, TLAPS

(***************************************************************************)
(* Rows.                                                                   *)
(***************************************************************************)

\* A date that is read is a number of minutes, and so is one that cannot be.
LEMMA DatesAreNumbers ==
  ASSUME NEW text, {text.day, text.clock, text.zone} \subseteq Int, NEW default \in Int
  PROVE  ParseDate(text, default).at \in Int
<1>1. text.day \in Int /\ text.clock \in Int /\ text.zone \in Int
  OBVIOUS
<1>2. ZoneOf(text) \in Int
  BY <1>1 DEF ZoneOf, NoZone
<1>3. \A at, confidence : Parsed(at, confidence).at = at
  BY DEF Parsed
<1>4. ParseIso(text).at \in Int
  <2> DEFINE clock == IF text.clock = NoClock THEN StartOfDay ELSE text.clock
  <2>1. clock \in Int
    BY <1>1 DEF StartOfDay
  <2> HIDE DEF clock
  <2>2. Local(text.day, clock) \in Int /\ text.day * Day + clock - text.zone \in Int
    BY <1>1, <2>1 DEF Local, Day, SAST
  <2> QED
    BY <1>3, <2>2 DEF ParseIso, clock
<1> DEFINE clock == IF text.clock = NoClock THEN default ELSE text.clock
<1>5. clock \in Int
  BY <1>1
<1> HIDE DEF clock
<1>6. Local(text.day, clock) \in Int /\ text.day * Day + clock - ZoneOf(text) \in Int
  BY <1>1, <1>2, <1>5 DEF Local, Day, SAST
<1>7. CASE text.form \in {"absent", "free"}
  BY <1>7 DEF ParseDate, Unparsed, Parsed, Unknown
<1>8. CASE text.form \notin {"absent", "free"} /\ text.form = "iso"
  BY <1>4, <1>8 DEF ParseDate
<1>9. CASE text.form \notin {"absent", "free", "iso"}
  BY <1>3, <1>6, <1>9 DEF ParseDate, clock
<1> QED
  BY <1>7, <1>8, <1>9

\* The dates of a normalized record are numbers, and its status is one of the enum.
LEMMA RecordsAreTyped ==
  ASSUME NEW item \in Items, NEW at \in Nat
  PROVE  LET new == Normalized(item, at) IN
         new.published \in Int /\ new.closing \in Int /\ new.status \in Statuses
<1> DEFINE published == ParseDate(item.published, StartOfDay).at
           closing == ParseClosing(item.closing).at
<1>1. published \in Int
  BY ItemsAssumption, DatesAreNumbers DEF StartOfDay
<1>2. closing \in Int
  BY ItemsAssumption, DatesAreNumbers DEF ParseClosing, EndOfDay, Day
<1>3. StatusOf(item, closing, at) \in Statuses
  BY ItemsAssumption DEF StatusOf, Statuses
<1> HIDE DEF published, closing
<1>4. Normalized(item, at) = [published |-> published, closing |-> closing,
                              status |-> StatusOf(item, closing, at),
                              quality |-> Quality(item, published, closing, at)]
  BY DEF Normalized, published, closing
<1> QED
  BY <1>1, <1>2, <1>3, <1>4

\* Inserting and updating a tender give rows of the table.
LEMMA RowsAreTyped ==
  ASSUME now \in Nat, NEW item \in Items
  PROVE  /\ Created(item) \in Row
         /\ \A old \in Row : Updated(old, item) \in Row
<1> DEFINE new == Normalized(item, now)
<1>1. new.published \in Int /\ new.closing \in Int /\ new.status \in Statuses
  BY RecordsAreTyped
<1>2. item.closing \in Texts
  BY DEF Texts
<1> HIDE DEF new
<1>3. Created(item) \in Row
  BY <1>1, <1>2 DEF Created, Row, new
<1>4. ASSUME NEW old \in Row
      PROVE  Updated(old, item) \in Row
  <2>1. Kept(new.published, old.published) \in Int /\ Kept(new.closing, old.closing) \in Int
    BY <1>1 DEF Kept, Row
  <2> QED
    BY <1>1, <1>2, <2>1 DEF Updated, Row, new
<1> QED
  BY <1>3, <1>4

(***************************************************************************)
(* The order of a list.                                                    *)
(***************************************************************************)

\* The tenders a filter matches are finitely many rows of the table.
LEMMA MatchingIsFinite ==
  ASSUME NEW filter
  PROVE  /\ Matching(filter) \subseteq Ids /\ IsFiniteSet(Matching(filter))
         /\ Cardinality(Matching(filter)) \in Nat
         /\ \A r \in Matching(filter) : rows[r] # NoRow
<1>1. Matching(filter) \subseteq Ids /\ \A r \in Matching(filter) : rows[r] # NoRow
  BY DEF Matching, Stored
<1>2. IsFiniteSet(Matching(filter))
  BY <1>1, IdsAssumption, FS_Subset
<1> QED
  BY <1>1, <1>2, FS_CardinalityType

\* The columns a list is sorted by.
Column(r, sort) == IF sort = "closing_at" THEN rows[r].closing ELSE rows[r].published

\* A sort column of a stored tender is a number.
LEMMA ColumnsAreNumbers ==
  ASSUME TypesHold, NEW r \in Stored, NEW sort
  PROVE  Column(r, sort) \in Int
<1>1. rows[r] \in Row
  BY DEF TypesHold, Stored
<1> QED
  BY <1>1 DEF Row, Column

\* With the tiebreaker, no two rows come before each other.
LEMMA BeforeIsAsymmetric ==
  ASSUME TypesHold, NEW a \in Stored, NEW b \in Stored, NEW sort,
         Before(a, b, sort), Before(b, a, sort)
  PROVE  FALSE
<1>1. PICK x, y \in Int : x = Column(a, sort) /\ y = Column(b, sort)
  BY ColumnsAreNumbers
<1>2. a \in Nat /\ b \in Nat
  BY IdsAssumption DEF Stored
<1> DEFINE descending == sort = "-published_at"
<1>3. /\ Precedes(x, y, descending) \/ (x = y /\ a < b)
      /\ Precedes(y, x, descending) \/ (y = x /\ b < a)
  BY <1>1 DEF Before, Column
<1> HIDE DEF descending
<1>4. CASE x = y
  BY <1>1, <1>2, <1>3, <1>4 DEF Precedes
<1>5. CASE x # y
  BY <1>1, <1>3, <1>5 DEF Precedes
<1> QED
  BY <1>4, <1>5

\* An order of a list is a sequence of all that matches.
LEMMA OrderOfAll ==
  ASSUME NEW filter, NEW sort, NEW s \in Orders(Matching(filter), sort)
  PROVE  /\ s \in Seq(Ids) /\ Len(s) = Cardinality(Matching(filter)) /\ Len(s) \in Nat
         /\ s \in [1..Len(s) -> Matching(filter)]
         /\ \A r \in Matching(filter) : \E i \in 1..Len(s) : s[i] = r
         /\ \A i, j \in 1..Len(s) : i < j => s[i] # s[j] /\ Before(s[i], s[j], sort)
<1> DEFINE M == Matching(filter)
           n == Cardinality(M)
<1>1. M \subseteq Ids /\ IsFiniteSet(M) /\ n \in Nat
  BY MatchingIsFinite
<1>2. /\ s \in [1..n -> M] /\ \A i, j \in 1..n : i # j => s[i] # s[j]
      /\ \A i, j \in DOMAIN s : i < j => Before(s[i], s[j], sort)
  BY DEF Orders, SetToSeqs
<1> HIDE DEF M, n
<1>3. s \in [1..n -> Ids]
  BY <1>1, <1>2
<1>4. s \in Seq(Ids)
  BY <1>1, <1>3, SeqDef
<1>5. Len(s) = n
  BY <1>1, <1>2, <1>4, LenProperties
<1>6. s \in Injection(1..n, M)
  BY <1>2 DEF Injection, IsInjective
<1>7. IsFiniteSet(1..n) /\ Cardinality(1..n) = Cardinality(M)
  BY <1>1, FS_Interval DEF n
<1>8. s \in Surjection(1..n, M)
  BY <1>1, <1>6, <1>7, FS_Injection
<1>9. \A r \in M : \E i \in 1..n : s[i] = r
  BY <1>8 DEF Surjection
<1> QED
  BY <1>1, <1>2, <1>4, <1>5, <1>9 DEF M, n

\* A list has at most one order.
LEMMA OneOrder ==
  ASSUME TypesHold, NEW filter, NEW sort,
         NEW s \in Orders(Matching(filter), sort), NEW t \in Orders(Matching(filter), sort)
  PROVE  s = t
<1> DEFINE M == Matching(filter)
           n == Cardinality(M)
           Differ == {i \in 1..n : s[i] # t[i]}
<1>1. /\ s \in [1..n -> M] /\ t \in [1..n -> M] /\ n \in Nat
      /\ \A r \in M : \E i \in 1..n : s[i] = r
      /\ \A r \in M : \E i \in 1..n : t[i] = r
      /\ \A i, j \in 1..n : i < j => s[i] # s[j] /\ Before(s[i], s[j], sort)
      /\ \A i, j \in 1..n : i < j => t[i] # t[j] /\ Before(t[i], t[j], sort)
  <2> DEFINE IsOrder(u, k) ==
        /\ k \in Nat /\ u \in [1..k -> M] /\ \A r \in M : \E i \in 1..k : u[i] = r
        /\ \A i, j \in 1..k : i < j => u[i] # u[j] /\ Before(u[i], u[j], sort)
  <2>1. ASSUME NEW u \in Orders(M, sort)
        PROVE  IsOrder(u, n)
    <3>1. Len(u) = n
      BY OrderOfAll, Zenon
    <3>2. IsOrder(u, Len(u))
      BY OrderOfAll, Zenon
    <3> HIDE DEF IsOrder, n
    <3> QED
      BY <3>1, <3>2
  <2>2. IsOrder(s, n) /\ IsOrder(t, n)
    BY <2>1, Zenon
  <2> HIDE DEF M, n
  <2> QED
    BY <2>2, Zenon
<1>2. M \subseteq Stored
  BY DEF Matching
<1> HIDE DEF M, n
<1>3. CASE Differ = {}
  <2>1. \A i \in 1..n : s[i] = t[i]
    BY <1>3
  <2> QED
    BY <1>1, <2>1
<1>4. CASE Differ # {}
  <2>1. Differ \subseteq Nat
    BY <1>1
  <2>2. PICK i \in Differ : \A j \in Differ : ~(<<j, i>> \in OpToRel(<, Nat))
    BY <1>4, <2>1, NatLessThanWellFounded, WFMin
  <2>3. \A j \in Differ : ~(j < i)
    BY <2>1, <2>2 DEF OpToRel
  <2>4. i \in 1..n /\ s[i] # t[i] /\ \A j \in 1..n : j < i => s[j] = t[j]
    BY <2>3
  <2>5. Before(t[i], s[i], sort)
    <3>1. PICK j \in 1..n : t[j] = s[i]
      BY <1>1, <2>4
    <3>2. ~(j < i) /\ j # i
      BY <1>1, <2>4, <3>1
    <3>3. i < j
      BY <1>1, <2>4, <3>2
    <3> QED
      BY <1>1, <2>4, <3>1, <3>3
  <2>6. Before(s[i], t[i], sort)
    <3>1. PICK j \in 1..n : s[j] = t[i]
      BY <1>1, <2>4
    <3>2. ~(j < i) /\ j # i
      BY <1>1, <2>4, <3>1
    <3>3. i < j
      BY <1>1, <2>4, <3>2
    <3> QED
      BY <1>1, <2>4, <3>1, <3>3
  <2>7. s[i] \in Stored /\ t[i] \in Stored
    BY <1>1, <1>2, <2>4
  <2> QED
    BY <2>5, <2>6, <2>7, BeforeIsAsymmetric
<1> QED
  BY <1>3, <1>4

(***************************************************************************)
(* Pages.                                                                  *)
(***************************************************************************)

\* There is a next page if this one does not reach the end.
LEMMA NextPageIsBeyond ==
  ASSUME NEW page \in Nat \ {0}, NEW total \in Nat
  PROVE  HasNext(page, total) <=> page * PageSize < total
<1>1. PICK size \in Nat \ {0} : size = PageSize
  BY PageSizeAssumption
<1> DEFINE q == (total + size - 1) \div size
<1>2. q \in Int /\ size * q <= total + size - 1 /\ total + size - 1 < size * q + size
  OBVIOUS
<1> HIDE DEF q
<1>3. CASE page < q
  <2>1. q - page - 1 \in Nat
    BY <1>2, <1>3
  <2>2. PICK d \in Nat : q = page + 1 + d
    BY <1>2, <2>1
  <2>3. size * q = size * page + size + size * d /\ size * d >= 0
    BY <2>2
  <2>4. size * page < total
    BY <1>2, <2>3
  <2> QED
    BY <1>1, <1>3, <2>4 DEF HasNext, Pages, q
<1>4. CASE ~(page < q)
  <2>1. PICK d \in Nat : page = q + d
    <3>1. page - q \in Nat
      BY <1>2, <1>4
    <3> QED
      BY <1>2, <3>1
  <2>2. size * page = size * q + size * d /\ size * d >= 0
    BY <1>2, <2>1
  <2>3. ~(size * page < total)
    BY <1>2, <2>2
  <2> QED
    BY <1>1, <1>4, <2>3 DEF HasNext, Pages, q
<1> QED
  BY <1>3, <1>4

\* The part of the order that a page adds is the next one.
LEMMA PageFollows ==
  ASSUME NEW s \in Seq(Ids), NEW page \in Nat \ {0}, (page - 1) * PageSize <= Len(s)
  PROVE  LET read == (page - 1) * PageSize
             end  == IF read + PageSize > Len(s) THEN Len(s) ELSE read + PageSize
         IN  SubSeq(s, 1, read) \o Limited(s, page) = SubSeq(s, 1, end)
<1> DEFINE read == (page - 1) * PageSize
           end  == IF read + PageSize > Len(s) THEN Len(s) ELSE read + PageSize
<1>1. PageSize \in Nat \ {0} /\ Len(s) \in Nat /\ read \in Nat
  BY PageSizeAssumption
<1>2. read <= Len(s) /\ Limited(s, page) = SubSeq(s, read + 1, end)
  BY DEF Limited
<1> HIDE DEF read
<1>3. end \in read..Len(s) /\ read \in (1 - 1)..Len(s) /\ 1 \in 1..(Len(s) + 1)
  BY <1>1, <1>2
<1> HIDE DEF end
<1>4. SubSeq(s, 1, read) \o SubSeq(s, read + 1, end) = SubSeq(s, 1, end)
  BY <1>3, ConcatAdjacentSubSeq
<1> QED
  BY <1>2, <1>4 DEF read, end

(***************************************************************************)
(* The invariant.                                                          *)
(***************************************************************************)

\* The fields of a walk.
LEMMA WalkHasItsFields == DOMAIN NoWalk = {"stage", "filter", "sort", "page", "total", "got", "calm"}
BY DEF NoWalk

\* A step that leaves the table and what is asked of it alone leaves the list alone.
LEMMA ListStays ==
  ASSUME rows' = rows, walk'.filter = walk.filter, walk'.sort = walk.sort
  PROVE  /\ Matching(walk.filter)' = Matching(walk.filter)
         /\ Orders(Matching(walk.filter), walk.sort)' = Orders(Matching(walk.filter), walk.sort)
BY DEF Matching, Stored, Orders, Before

\* The invariant holds of the empty table with an empty cache ...
LEMMA InitStands ==
  ASSUME Init
  PROVE  IInv
<1>1. Start \in Nat
  BY TimeAssumption
<1>2. TypesHold
  BY <1>1 DEF Init, TypesHold, NoWalk
<1> QED
  BY <1>2 DEF Init, IInv, CacheStands, WalkStands, QuietWalksAreExact, NoWalk

\* ... a commit of the pipeline keeps it ...
LEMMA IngestStands ==
  ASSUME IInv, NEW r \in Ids, NEW item \in Items, Ingest(r, item)
  PROVE  IInv'
<1>1. TypesHold /\ CacheStands
  BY DEF IInv
<1>2. /\ rows' = [rows EXCEPT ![r] = IF rows[r] = NoRow THEN Created(item)
                                     ELSE Updated(rows[r], item)]
      /\ walk' = [walk EXCEPT !.calm = FALSE] /\ UNCHANGED <<now, cache, asked>>
  BY DEF Ingest, Commits
<1>3. rows' \in [Ids -> Row \cup {NoRow}]
  <2>1. now \in Nat /\ rows[r] \in Row \cup {NoRow}
    BY <1>1 DEF TypesHold
  <2>2. Created(item) \in Row /\ (rows[r] # NoRow => Updated(rows[r], item) \in Row)
    BY <2>1, RowsAreTyped
  <2> QED
    BY <1>1, <1>2, <2>2 DEF TypesHold
<1>4. /\ DOMAIN walk' = DOMAIN NoWalk /\ walk'.calm = FALSE
      /\ walk'.page = walk.page /\ walk'.stage = walk.stage
  BY <1>1, <1>2, WalkHasItsFields DEF TypesHold
<1>5. TypesHold'
  BY <1>1, <1>2, <1>3, <1>4 DEF TypesHold
<1>6. CacheStands'
  BY <1>1, <1>2 DEF CacheStands, Entry
<1>7. WalkStands'
  BY <1>4 DEF WalkStands, QuietWalksAreExact
<1> QED
  BY <1>5, <1>6, <1>7 DEF IInv

\* The steps that are no part of a walk.
LEMMA WalkIsKept ==
  ASSUME WalkStands, UNCHANGED <<rows, walk>>
  PROVE  WalkStands'
BY ListStays DEF WalkStands, QuietWalksAreExact

\* ... a request that computes the statistics does ...
LEMMA RequestStands ==
  ASSUME IInv, NEW q \in Requests, BeginCompute(q) \/ EndCompute(q)
  PROVE  IInv'
<1>1. TypesHold /\ CacheStands /\ WalkStands
  BY DEF IInv
<1>2. WalkStands'
  BY <1>1, WalkIsKept DEF BeginCompute, EndCompute
<1>3. CASE BeginCompute(q)
  <2>1. TypesHold'
    BY <1>1, <1>3 DEF TypesHold, BeginCompute
  <2>2. CacheStands'
    BY <1>1, <1>3 DEF CacheStands, Entry, BeginCompute
  <2> QED
    BY <1>2, <2>1, <2>2 DEF IInv
<1>4. CASE EndCompute(q)
  <2>1. asked[q] \in Nat
    BY <1>1, <1>4 DEF TypesHold, EndCompute
  <2>2. TypesHold'
    BY <1>1, <1>4 DEF TypesHold, EndCompute
  <2>3. CacheStands'
    BY <1>4, <2>1 DEF CacheStands, Entry, EndCompute
  <2> QED
    BY <1>2, <2>2, <2>3 DEF IInv
<1> QED
  BY <1>3, <1>4

\* ... a client that starts a walk and its first count do ...
LEMMA CountStands ==
  ASSUME IInv, BeginWalk \/ CountRows
  PROVE  IInv'
<1>1. TypesHold /\ CacheStands /\ WalkStands
  BY DEF IInv
<1>2. CacheStands'
  BY <1>1 DEF CacheStands, Entry, BeginWalk, CountRows
<1>3. CASE BeginWalk
  <2>1. PICK filter, sort :
           walk' = [NoWalk EXCEPT !.stage = "count", !.filter = filter, !.sort = sort]
    BY <1>3 DEF BeginWalk
  <2>2. /\ DOMAIN walk' = DOMAIN NoWalk /\ walk'.stage = "count"
        /\ walk'.page = 1 /\ walk'.got = <<>> /\ walk'.calm \in BOOLEAN
    BY <2>1 DEF NoWalk
  <2>3. TypesHold'
    <3>1. UNCHANGED <<now, rows, asked>>
      BY <1>3 DEF BeginWalk
    <3> QED
      BY <1>1, <2>2, <3>1 DEF TypesHold
  <2>4. (walk'.page - 1) * PageSize = 0
    BY <2>2, PageSizeAssumption
  <2>5. ASSUME NEW s \in Orders(Matching(walk.filter), walk.sort)'
        PROVE  0 <= Len(s) /\ SubSeq(s, 1, 0) = <<>>
    <3>1. s \in SetToSeqs(Matching(walk.filter)')
      BY DEF Orders
    <3>2. PICK M \in SUBSET Ids : M = Matching(walk.filter)'
      BY DEF Matching, Stored
    <3>3. Cardinality(M) \in Nat
      BY IdsAssumption, FS_Subset, FS_CardinalityType
    <3>4. s \in Seq(M)
      BY <3>1, <3>2, <3>3, SeqDef DEF SetToSeqs
    <3> QED
      BY <3>4, LenProperties, SubSeqEmpty
  <2>6. WalkStands'
    BY <2>2, <2>4, <2>5 DEF WalkStands, QuietWalksAreExact
  <2> QED
    BY <1>2, <2>3, <2>6 DEF IInv
<1>4. CASE CountRows
  <2>1. /\ walk.stage = "count" /\ rows' = rows
        /\ walk' = [walk EXCEPT !.stage = "items", !.total = Cardinality(Matching(walk.filter))]
    BY <1>4 DEF CountRows
  <2>2. /\ DOMAIN walk' = DOMAIN NoWalk /\ walk'.stage = "items"
        /\ walk'.total = Cardinality(Matching(walk.filter))
        /\ walk'.page = walk.page /\ walk'.got = walk.got /\ walk'.calm = walk.calm
        /\ walk'.filter = walk.filter /\ walk'.sort = walk.sort
    BY <1>1, <2>1, WalkHasItsFields DEF TypesHold
  <2>3. TypesHold'
    BY <1>1, <1>4, <2>2 DEF TypesHold, CountRows
  <2>4. WalkStands'
    BY <1>1, <2>1, <2>2, ListStays DEF WalkStands, QuietWalksAreExact
  <2> QED
    BY <1>2, <2>3, <2>4 DEF IInv
<1> QED
  BY <1>3, <1>4

\* ... the next page it reads does ...
LEMMA PageStands ==
  ASSUME IInv, ReadPage
  PROVE  IInv'
<1>1. TypesHold /\ CacheStands /\ WalkStands
  BY DEF IInv
<1>2. CacheStands'
  BY <1>1 DEF CacheStands, Entry, ReadPage
<1>3. /\ walk.stage = "items" /\ walk.page \in Nat \ {0} /\ walk.calm \in BOOLEAN
      /\ DOMAIN walk = DOMAIN NoWalk
  BY <1>1 DEF TypesHold, ReadPage
<1> DEFINE order == Orders(Matching(walk.filter), walk.sort)
<1>4. PICK s \in order :
         walk' = IF HasNext(walk.page, walk.total)
                 THEN [walk EXCEPT !.stage = "count", !.page = walk.page + 1,
                                   !.got = walk.got \o Limited(s, walk.page)]
                 ELSE [walk EXCEPT !.stage = "done", !.got = walk.got \o Limited(s, walk.page)]
  BY DEF ReadPage
<1>5. /\ s \in Seq(Ids) /\ Len(s) = Cardinality(Matching(walk.filter)) /\ Len(s) \in Nat
  BY OrderOfAll
<1>6. \A t \in order : t = s
  BY <1>1, OneOrder
<1>7. order' = order /\ walk'.calm = walk.calm /\ DOMAIN walk' = DOMAIN NoWalk
  <2>1. /\ walk'.filter = walk.filter /\ walk'.sort = walk.sort /\ walk'.calm = walk.calm
        /\ DOMAIN walk' = DOMAIN NoWalk
    BY <1>3, <1>4, WalkHasItsFields
  <2>2. rows' = rows
    BY DEF ReadPage
  <2> QED
    BY <2>1, <2>2, ListStays
<1> HIDE DEF order
<1>8. UNCHANGED <<now, rows, asked>>
  BY DEF ReadPage
<1> DEFINE read == (walk.page - 1) * PageSize
<1>9. walk.calm => /\ walk.total = Len(s) /\ read <= Len(s)
                   /\ walk.got = SubSeq(s, 1, read)
  BY <1>1, <1>3, <1>4, <1>5 DEF WalkStands, order
<1>10. PageSize \in Nat \ {0} /\ read \in Nat /\ walk.page * PageSize = read + PageSize
  BY <1>3, PageSizeAssumption
<1>11. walk.calm => (HasNext(walk.page, walk.total) <=> read + PageSize < Len(s))
  BY <1>3, <1>5, <1>9, <1>10, NextPageIsBeyond
<1> DEFINE end == IF read + PageSize > Len(s) THEN Len(s) ELSE read + PageSize
<1>12. walk.calm => walk.got \o Limited(s, walk.page) = SubSeq(s, 1, end)
  BY <1>3, <1>5, <1>9, PageFollows
<1>13. CASE HasNext(walk.page, walk.total)
  <2>1. /\ walk'.stage = "count" /\ walk'.page = walk.page + 1
        /\ walk'.got = walk.got \o Limited(s, walk.page)
    BY <1>3, <1>4, <1>13, WalkHasItsFields
  <2>2. TypesHold'
    BY <1>1, <1>3, <1>7, <1>8, <2>1 DEF TypesHold
  <2>3. (walk'.page - 1) * PageSize = read + PageSize
    BY <1>3, <1>10, <2>1
  <2> HIDE DEF read
  <2>4. walk.calm => read + PageSize <= Len(s) /\ walk'.got = SubSeq(s, 1, read + PageSize)
    <3> SUFFICES ASSUME walk.calm
                 PROVE  read + PageSize <= Len(s) /\ walk'.got = SubSeq(s, 1, read + PageSize)
      OBVIOUS
    <3>1. read + PageSize < Len(s)
      BY <1>11, <1>13
    <3>2. end = read + PageSize
      BY <1>5, <1>10, <3>1
    <3>3. read + PageSize <= Len(s)
      BY <1>5, <1>10, <3>1
    <3> HIDE DEF end
    <3>4. walk'.got = SubSeq(s, 1, read + PageSize)
      BY <1>12, <2>1, <3>2
    <3> QED
      BY <3>3, <3>4
  <2>5. WalkStands'
    <3>1. walk'.calm => \A t \in order' :
              read + PageSize <= Len(t) /\ walk'.got = SubSeq(t, 1, read + PageSize)
      BY <1>6, <1>7, <2>4
    <3> QED
      BY <2>1, <2>3, <3>1 DEF WalkStands, QuietWalksAreExact, order
  <2> QED
    BY <1>2, <2>2, <2>5 DEF IInv
<1>14. CASE ~HasNext(walk.page, walk.total)
  <2>1. /\ walk'.stage = "done" /\ walk'.page = walk.page
        /\ walk'.got = walk.got \o Limited(s, walk.page)
    BY <1>3, <1>4, <1>14, WalkHasItsFields
  <2>2. TypesHold'
    BY <1>1, <1>3, <1>7, <1>8, <2>1 DEF TypesHold
  <2> HIDE DEF read
  <2>3. walk.calm => end = Len(s)
    BY <1>5, <1>10, <1>11, <1>14
  <2>4. walk.calm => walk'.got = s
    BY <1>5, <1>12, <2>1, <2>3, SubSeqFull
  <2>5. WalkStands'
    <3>1. walk'.calm => order' = {walk'.got}
      BY <1>4, <1>6, <1>7, <2>4
    <3> QED
      BY <2>1, <3>1 DEF WalkStands, QuietWalksAreExact, order
  <2> QED
    BY <1>2, <2>2, <2>5 DEF IInv
<1> QED
  BY <1>13, <1>14

\* ... and so does the passing of time.
LEMMA TimeStands ==
  ASSUME IInv, TimePasses
  PROVE  IInv'
<1>1. TypesHold /\ CacheStands /\ WalkStands
  BY DEF IInv
<1>2. TypesHold'
  <2>1. Tick \in Nat
    BY TimeAssumption
  <2> QED
    BY <1>1, <2>1 DEF TypesHold, TimePasses
<1>3. CacheStands'
  BY <1>1 DEF CacheStands, Entry, TimePasses
<1>4. WalkStands'
  BY <1>1, WalkIsKept DEF TimePasses
<1> QED
  BY <1>2, <1>3, <1>4 DEF IInv

\* The inductive invariant.
THEOREM Invariance == Spec => []IInv
<1>1. Init => IInv
  BY InitStands
<1>2. IInv /\ [Next]_vars => IInv'
  <2> SUFFICES ASSUME IInv, [Next]_vars
               PROVE  IInv'
    OBVIOUS
  <2>1. CASE UNCHANGED vars
    <3>1. WalkStands'
      BY <2>1, WalkIsKept DEF IInv, vars
    <3> QED
      BY <2>1, <3>1 DEF vars, IInv, TypesHold, CacheStands, Entry
  <2> QED
    BY <2>1, IngestStands, TimeStands, CountStands, PageStands, RequestStands DEF Next
<1> QED
  BY <1>1, <1>2, PTL DEF Spec

(***************************************************************************)
(* What follows.                                                           *)
(***************************************************************************)

\* A client that follows has_next while nothing is committed receives exactly the
\* matching tenders, in the one order they have: the count, the rows and has_next
\* of separate statements fit together (TenderService.list_tenders).
THEOREM WalksAreExact == Spec => []QuietWalksAreExact
<1>1. IInv => QuietWalksAreExact
  BY DEF IInv, WalkStands
<1> QED
  BY <1>1, Invariance, PTL

\* However long computing took and whichever computation ended last, an answer
\* from the cache rests on counts younger than the TTL (StatisticsService.get).
THEOREM ServedCountsAreRecent == Spec => []StatisticsAreRecent
<1>1. IInv => StatisticsAreRecent
  <2> SUFFICES ASSUME IInv, Fresh
               PROVE  now - cache.at < Ttl
    BY DEF StatisticsAreRecent
  <2>1. now \in Nat /\ Ttl \in Nat /\ cache.expires > now
    BY TimeAssumption DEF IInv, TypesHold, Fresh
  <2>2. cache # NoCache
    BY <2>1 DEF NoCache
  <2>3. cache.at \in Nat /\ cache.expires = cache.at + Ttl
    BY <2>2 DEF IInv, CacheStands, Entry
  <2> QED
    BY <2>1, <2>3
<1> QED
  BY <1>1, Invariance, PTL
=============================================================================
