------------------------------- MODULE Crawl -------------------------------
(***************************************************************************)
(* A connector's item stream and the loop that reads it (parse_source):    *)
(* the listing pages of a site are fetched, parsed and followed, detail    *)
(* pages are fetched for their rows, and a WordPress connector goes over   *)
(* to the HTML listing when its REST API fails it.  A page's final URL is  *)
(* the one that was asked for; a site does not change during the crawl.    *)
(***************************************************************************)
EXTENDS Fetcher, Connectors

CONSTANTS
    Sites,       \* the sites and configurations that are crawled
    MaxItems     \* MAX_ITEMS_PER_RUN

ASSUME MaxItemsAssumption == MaxItems \in Nat

(* A site, beyond what Connectors says of it: kind, the connector ("html",  *)
(* "wordpress", "json", "pdf", "ocds"); targets, the listing URLs in order, *)
(* and fallback, those of html_fallback; next, the next link of every page; *)
(* maxPages of pagination, which the HTML listing reads; follow, whether    *)
(* the pages of items are fetched (follow_detail, or title_from of the pdf  *)
(* connector); invalid, what is wrong with the configuration of an HTML     *)
(* listing: "pages" (max_pages is no number), or the selectors of detail    *)
(* pages or of the next link, "detail" and "next", if they are no CSS.      *)

ASSUME SitesAssumption ==
    \A s \in Sites :
        /\ s.maxPages \in Nat /\ s.invalid \subseteq {"pages", "detail", "next"}
        /\ s.targets \in Seq(Urls) /\ s.fallback \in Seq(Urls)
        /\ s.kind \in {"html", "wordpress", "json", "pdf", "ocds"}
        /\ DOMAIN s.next = Urls /\ DOMAIN s.entries = Urls
        /\ \A u \in Urls : s.next[u] \in Urls \cup {NoUrl} /\ s.entries[u] \in Seq(Entry(Urls))

VARIABLES
    site,
    mode,        \* which listing is read: "own" or, after a fallback, "fallback"
    phase,       \* what the stream does next
    targets,     \* listing URLs still to visit
    page,        \* the page being read
    pages,       \* pages read of this target
    rows,        \* the places of its items that are still to be handled
    delivered,   \* what the pipeline has received
    errors       \* the errors it has received

crawlVars == <<site, mode, phase, targets, page, pages, rows, delivered, errors>>
vars == <<fetchVars, crawlVars>>

\* A fallback reads the site as HTML.
ReaderIn(s, m) == IF m = "fallback" THEN "html" ELSE s.kind
Reader == ReaderIn(site, mode)

\* How many pages of a target are read at most; of an HTML listing it may be none.
Reach(s, m) == IF ReaderIn(s, m) = "html" THEN s.maxPages ELSE 1

Phases == {"start", "targets", "page", "fetching", "rows", "detail", "ended"}

CrawlTypeOK ==
    /\ site \in Sites
    /\ mode \in {"own", "fallback"}
    /\ phase \in Phases
    /\ targets \in Seq(Urls) /\ page \in Urls \cup {NoUrl}
    /\ pages \in 0..Reach(site, mode) /\ rows \subseteq Nat
    /\ Len(errors) <= 1

TypeOK == FetcherTypeOK /\ CrawlTypeOK

Init ==
    /\ FetcherInit
    /\ site \in Sites
    /\ mode = "own" /\ phase = "start"
    /\ targets = <<>> /\ page = NoUrl /\ pages = 0 /\ rows = {}
    /\ delivered = <<>> /\ errors = <<>>

----------------------------------------------------------------------------
(* Ends of the stream.                                                     *)

HasFallback == site.kind = "wordpress" /\ site.fallback # <<>>

\* FetchError and ParseError; a link that normalize_url refuses raises neither.
MakesFallBack(e) == e \notin {"UNSAFE_URL", "VALUEERROR"}

FallBack ==
    /\ mode' = "fallback" /\ phase' = "targets" /\ targets' = site.fallback /\ pages' = 0
    /\ UNCHANGED <<site, page, rows, delivered, errors>>

Stop(newErrors) ==
    /\ phase' = "ended" /\ errors' = errors \o newErrors
    /\ UNCHANGED <<site, mode, targets, page, pages, rows, delivered>>

\* An exception in the connector ends its generator: the targets that are left
\* are not visited.
Raise(e) ==
    IF HasFallback /\ mode = "own" /\ MakesFallBack(e) THEN FallBack ELSE Stop(<<e>>)

\* What the HTML listing finds invalid only when it comes to use it.
Invalid(setting) == Reader = "html" /\ setting \in site.invalid

----------------------------------------------------------------------------
(* Listing pages.                                                          *)

\* discover; the etender connector refuses to guess a listing path.
Discover ==
    /\ phase = "start"
    /\ IF site.targets = <<>> THEN Stop(<<"PARSE_ERROR">>)
       ELSE /\ phase' = "targets" /\ targets' = site.targets
            /\ UNCHANGED <<site, mode, page, pages, rows, delivered, errors>>
    /\ UNCHANGED fetchVars

\* With a max_pages of 0 nothing is read of any target.
NextTarget ==
    /\ phase = "targets" /\ targets # <<>>
    /\ IF Invalid("pages") THEN Stop(<<"VALUEERROR">>)
       ELSE /\ targets' = Tail(targets) /\ pages' = 0
            /\ IF Reach(site, mode) = 0 THEN UNCHANGED <<phase, page>>
               ELSE phase' = "page" /\ page' = Head(targets)
            /\ UNCHANGED <<site, mode, rows, delivered, errors>>
    /\ UNCHANGED fetchVars

\* A REST API that produced nothing is taken to be absent.
NoMoreTargets ==
    /\ phase = "targets" /\ targets = <<>>
    /\ IF HasFallback /\ mode = "own" /\ delivered = <<>> THEN FallBack ELSE Stop(<<>>)
    /\ UNCHANGED fetchVars

FetchPage ==
    /\ phase = "page"
    /\ Begin(page) /\ phase' = "fetching"
    /\ UNCHANGED <<respect, wait, since, robots, site, mode, targets, page, pages, rows, delivered,
                   errors>>

Arrived == call.stage = "done" /\ call.outcome = "ok"
Failed == call.stage = "done" /\ call.outcome # "ok"

ReceivePage ==
    /\ phase = "fetching" /\ Arrived /\ Free
    /\ IF ParseFailure(Reader, site, page) # NoError
       THEN Raise(ParseFailure(Reader, site, page))
       ELSE /\ phase' = "rows" /\ pages' = pages + 1 /\ rows' = ParsedPlaces(Reader, site, page)
            /\ UNCHANGED <<site, mode, targets, page, delivered, errors>>
    /\ UNCHANGED <<respect, wait, since, robots>>

PageFails ==
    /\ phase = "fetching" /\ Failed /\ Free
    /\ Raise(call.outcome)
    /\ UNCHANGED <<respect, wait, since, robots>>

FollowsLinks_HtmlOnly == site.kind = "html"

\* Only the HTML listing follows links, not to the page itself and not beyond
\* max_pages, which also ends a ring of pages.
FollowsLinks == Reader = "html"

HasNext_OneMore ==
    FollowsLinks /\ site.next[page] \notin {NoUrl, page} /\ pages <= Reach(site, mode)

HasNext ==
    FollowsLinks /\ site.next[page] \notin {NoUrl, page} /\ pages < Reach(site, mode)

\* The next link is looked for even on the last page.
NextPage ==
    /\ phase = "rows" /\ rows = {}
    /\ IF Invalid("next") THEN Stop(<<"SELECTORSYNTAXERROR">>)
       ELSE /\ IF HasNext THEN phase' = "page" /\ page' = site.next[page]
               ELSE phase' = "targets" /\ page' = NoUrl
            /\ UNCHANGED <<site, mode, targets, pages, rows, delivered, errors>>
    /\ UNCHANGED fetchVars

----------------------------------------------------------------------------
(* Rows.                                                                   *)

\* The item to be handled, and the rows once it is.
ThisItem == ItemAt(Reader, site, page, Min(rows))
RestOfRows == rows \ {Min(rows)}

Deliver_OneMore(item) ==
    IF Len(delivered) > MaxItems THEN Stop(<<"MAX_ITEMS_EXCEEDED">>)
    ELSE /\ delivered' = Append(delivered, item)
         /\ rows' = RestOfRows /\ phase' = "rows"
         /\ UNCHANGED <<site, mode, targets, page, pages, errors>>

\* The item is yielded.  parse_source counts it, and stops at the first beyond
\* the ceiling without passing it on.
Deliver(item) ==
    IF Len(delivered) >= MaxItems THEN Stop(<<"MAX_ITEMS_EXCEEDED">>)
    ELSE /\ delivered' = Append(delivered, item)
         /\ rows' = RestOfRows /\ phase' = "rows"
         /\ UNCHANGED <<site, mode, targets, page, pages, errors>>

\* The PDF connector fetches the PDF even if the listing was that PDF.
WantsDetail ==
    /\ site.follow
    /\ Reader \in {"html", "pdf"}
    /\ Reader = "html" => ThisItem.detail # page

SkipRow ==
    /\ phase = "rows" /\ rows # {} /\ ~Titled(ThisItem)
    /\ rows' = RestOfRows
    /\ UNCHANGED <<site, mode, phase, targets, page, pages, delivered, errors, fetchVars>>

TakeRow ==
    /\ phase = "rows" /\ rows # {} /\ Titled(ThisItem) /\ ~WantsDetail
    /\ Deliver(ThisItem)
    /\ UNCHANGED fetchVars

FetchDetail ==
    /\ phase = "rows" /\ rows # {} /\ Titled(ThisItem) /\ WantsDetail
    /\ Begin(ThisItem.detail) /\ phase' = "detail"
    /\ UNCHANGED <<respect, wait, since, robots, site, mode, targets, page, pages, rows, delivered,
                   errors>>

\* What the page of an item adds to it: a PDF may give it another title.  A page
\* that cannot be had leaves the item as it was.
Enriched(item) ==
    IF Arrived /\ Reader = "pdf" THEN {item, [item EXCEPT !.title = "plain"]} ELSE {item}

\* Only the fetch of an HTML detail page is tried: what is raised in reading it
\* ends the crawl, and its item is lost.
ReceiveDetail ==
    /\ phase = "detail" /\ (Arrived \/ Failed) /\ Free
    /\ IF Arrived /\ Invalid("detail") THEN Stop(<<"SELECTORSYNTAXERROR">>)
       ELSE \E item \in Enriched(ThisItem) : Deliver(item)
    /\ UNCHANGED <<respect, wait, since, robots>>

Reads ==
    \/ Discover \/ NextTarget \/ NoMoreTargets
    \/ FetchPage \/ ReceivePage \/ PageFails \/ NextPage
    \/ SkipRow \/ TakeRow \/ FetchDetail \/ ReceiveDetail

Fetches == FetcherStep /\ UNCHANGED crawlVars

Ages == phase # "ended" /\ (\E h \in Hosts : RobotsAge(h)) /\ UNCHANGED crawlVars

Next == Reads \/ Fetches \/ Ages

----------------------------------------------------------------------------
(* What a listing holds, read off the site s.                              *)

TargetsIn(s, m) == IF m = "fallback" THEN s.fallback ELSE s.targets

LinkOf(s, m, p) ==
    IF p # NoUrl /\ ReaderIn(s, m) = "html" /\ s.next[p] # p THEN s.next[p] ELSE NoUrl

\* The pages on the way from u, in order; NoUrl after the last of them.
Trail(s, m, u) ==
    LET trail[n \in 1..Reach(s, m)] == IF n = 1 THEN u ELSE LinkOf(s, m, trail[n - 1])
    IN  trail

PageOf(s, m, at) == Trail(s, m, TargetsIn(s, m)[at.target])[at.page]
ItemOf(s, m, at) == ItemAt(ReaderIn(s, m), s, PageOf(s, m, at), at.row)

PlacesOn(s, m, target, n) ==
    LET p == Trail(s, m, TargetsIn(s, m)[target])[n]
    IN  IF p = NoUrl THEN {}
        ELSE {[target |-> target, page |-> n, row |-> i] :
                 i \in TitledPlaces(ReaderIn(s, m), s, p)}

\* Where the titled items of every page within reach are.
Listing(s, m) ==
    UNION {PlacesOn(s, m, target, n) : target \in DOMAIN TargetsIn(s, m), n \in 1..Reach(s, m)}

\* The order they are read in.
Before(a, b) ==
    \/ a.target < b.target
    \/ a.target = b.target /\ a.page < b.page
    \/ a.target = b.target /\ a.page = b.page /\ a.row < b.row

Rank(s, m, at) == Cardinality({a \in Listing(s, m) : Before(a, at)})

\* A PDF may have given its item another title.
Is(s, item, listed) ==
    item = listed \/ (s.kind = "pdf" /\ item = [listed EXCEPT !.title = "plain"])

\* After `from' items, the next ones up to `to' are the first of the listing.
Given(s, m, items, from, to) ==
    \A at \in Listing(s, m) :
        from + Rank(s, m, at) < to =>
            Is(s, items[from + Rank(s, m, at) + 1], ItemOf(s, m, at))

\* After `from' items, the whole listing was given and nothing else.
Complete(s, m, items, from) ==
    /\ Len(items) = from + Cardinality(Listing(s, m))
    /\ Given(s, m, items, from, Len(items))

\* The items that a fallback found given are the first of the other listing.
Begun(s, items, from) ==
    from <= Cardinality(Listing(s, "own")) /\ Given(s, "own", items, 0, from)

\* A crawl that reports no error has delivered exactly the titled items of every
\* page within reach of its listing, in order.  A fallback delivers those of the
\* HTML listing after whatever the REST API gave before it failed.
CleanRunIsComplete ==
    phase = "ended" /\ errors = <<>> =>
        IF mode = "own" THEN Complete(site, "own", delivered, 0)
        ELSE \E from \in 0..Len(delivered) :
                 Begun(site, delivered, from) /\ Complete(site, "fallback", delivered, from)

\* Why a crawl is a stream: whatever ended it is the last thing it reports.
StreamStands ==
    /\ delivered \in Seq(ToSet(delivered))
    /\ phase # "ended" => errors = <<>>

\* Why it reads no more pages of a target than it may, whatever they link to.
PagesStand == phase \in {"page", "fetching"} => pages < Reach(site, mode)

\* Why a clean run is complete.  Of the targets so many were visited,
Visited == IF phase = "start" THEN 0 ELSE Len(TargetsIn(site, mode)) - Len(targets)

\* and these are the titled items behind a crawl that has visited v targets and
\* read n pages of the last, all but the places left of the last page.
Behind(s, m, v, n, left) ==
    {at \in Listing(s, m) :
        \/ at.target < v
        \/ at.target = v /\ at.page <= n /\ (at.page = n => at.row \notin left)}

Handled == Behind(site, mode, Visited, pages, rows)

\* The page that is read is the next one on the trail of its target, its rows are
\* handled in order, and a target is left when there is nothing more within reach.
PlaceStands ==
    LET trail == Trail(site, mode, TargetsIn(site, mode)[Visited]) IN
    /\ Len(targets) <= Len(TargetsIn(site, mode))
    /\ phase = "start" => mode = "own"
    /\ phase \in {"start", "targets", "page", "fetching"} => rows = {}
    /\ phase \notin {"start", "ended"} =>
          \A k \in DOMAIN targets : targets[k] = TargetsIn(site, mode)[Visited + k]
    /\ phase \in {"page", "fetching", "rows", "detail"} => Visited > 0 /\ page # NoUrl
    /\ phase \in {"page", "fetching"} => page = trail[pages + 1]
    /\ phase \in {"rows", "detail"} =>
          /\ pages > 0 /\ page = trail[pages]
          /\ rows \subseteq ParsedPlaces(Reader, site, page)
          /\ \A i \in ParsedPlaces(Reader, site, page) \ rows, j \in rows : i < j
    /\ phase = "detail" => rows # {} /\ Titled(ThisItem)
    /\ phase = "targets" => \A at \in Listing(site, mode) : at.target = Visited => at.page <= pages

\* What was delivered is what is behind the crawl.
ProgressStands ==
    \E from \in 0..Len(delivered) :
        /\ IF mode = "own" THEN from = 0 ELSE Begun(site, delivered, from)
        /\ Given(site, mode, delivered, from, Len(delivered))
        /\ phase # "ended" => Len(delivered) = from + Cardinality(Handled)
        /\ phase = "ended" /\ errors = <<>> => Complete(site, mode, delivered, from)

\* What may be wrong with the configuration of an HTML listing and keep a crawl from
\* its first items.
Unreadable(s) ==
    s.kind = "html" /\ (s.maxPages = 0 \/ s.invalid \cap {"pages", "detail"} # {})

\* Why the first page is delivered: only such a configuration, the ceiling, or a page
\* that cannot be had or parsed, ends a crawl before.
EndStands ==
    phase = "ended" /\ mode = "own" =>
        \/ Unreadable(site)
        \/ Len(delivered) >= MaxItems
        \/ \A at \in Listing(site, "own") :
               at.target = 1 /\ at.page = 1 => Rank(site, "own", at) < Len(delivered)
        \/ /\ delivered = <<>>
           /\ \E e \in Failures \cup ({ParseFailure(site.kind, site, site.targets[1])} \ {NoError}) :
                 errors = <<e>>

\* All that stands of a crawl.
CrawlStands ==
    /\ TypeOK /\ PaceHolds /\ CallsEnd
    /\ StreamStands /\ PagesStand
    /\ PlaceStands /\ ProgressStands /\ EndStands
=============================================================================
