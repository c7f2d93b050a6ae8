------------------------------ MODULE Verifier ------------------------------
(***************************************************************************)
(* The verification of a source (SourceVerifier.verify) and the run that   *)
(* may follow it: the verifier checks the configuration, fetches and       *)
(* parses the first listing page, puts a sample of its items through the   *)
(* Normalizer and the Validator and fetches some of their detail pages; a  *)
(* crawl then reads the same site with a fetcher of its own, its run is    *)
(* kept or lost, and OperationsService says how a run that was kept went.  *)
(***************************************************************************)
EXTENDS Crawl, Records

CONSTANT Sample    \* sample_items, at most MAX_DETAIL_PAGES

ASSUME SampleAssumption == Sample \in Nat \ {0} /\ Sample <= MaxItems

(* What the verifier sees of a site beyond what Crawl does: connector,      *)
(* "ok", "undeclared" (config keys it does not know), "no_browser"          *)
(* (Playwright is not installed) or "unknown" (no such key); base, the host *)
(* of base_url; blank, the pages without a body; paged, whether pagination  *)
(* is configured.                                                           *)

VARIABLES
    stage,      \* what verify does next
    checks,     \* the result of every check, if it is recorded
    usable,     \* the places of the items of the listing page that can be used
    todo,       \* of those, the ones whose detail page is still to be fetched
    fetched,    \* detail pages that arrived
    parsed      \* and that were not empty

verifyVars == <<stage, checks, usable, todo, fetched, parsed>>
allVars == <<vars, verifyVars>>

Required == {"url", "access", "connector", "listing", "parse", "parser"}
Optional == {"robots", "detail", "documents", "pagination"}
Checks == Required \cup Optional

Unrecorded == "none"

VerifyInit ==
    /\ Init
    /\ stage = "preflight"
    /\ checks = [c \in Checks |-> Unrecorded]
    /\ usable = {} /\ todo = {} /\ fetched = 0 /\ parsed = 0

\* The checks with those of new recorded.
Recorded(new) == [c \in Checks |-> IF c \in DOMAIN new THEN new[c] ELSE checks[c]]

PassedIf(condition) == IF condition THEN "PASSED" ELSE "FAILED"

----------------------------------------------------------------------------
(* Configuration: connector, url and listing.                              *)

ConnectorCheck ==
    IF site.connector \in {"unknown", "no_browser"} THEN "FAILED"
    ELSE IF site.connector = "undeclared" THEN "WARNING" ELSE "PASSED"

\* _discover and _check_targets.
ListingCheck ==
    IF site.targets = <<>> THEN "FAILED"
    ELSE IF \E u \in ToSet(site.targets) : HostOf[u] # site.base THEN "WARNING" ELSE "PASSED"

\* The connector is built if the URL is allowed and its key is known, even when
\* its check failed.
Preflight ==
    /\ stage = "preflight"
    /\ \E allowed \in BOOLEAN :
           LET built == allowed /\ site.connector # "unknown" IN
           /\ checks' = Recorded([connector |-> ConnectorCheck, url |-> PassedIf(allowed),
                                  listing |-> IF built THEN ListingCheck ELSE Unrecorded])
           /\ stage' = IF built /\ site.targets # <<>> THEN "listing" ELSE "sample"
    /\ UNCHANGED <<vars, usable, todo, fetched, parsed>>

Built == checks["listing"] # Unrecorded

----------------------------------------------------------------------------
(* The first listing page: access, parse and parser.                       *)

First == Head(site.targets)

\* The item at a place of it, and the first few of some places.
Listed(i) == ItemAt(site.kind, site, First, i)
Sampled(places) == {i \in places : Cardinality({j \in places : j < i}) < Sample}

FetchListing ==
    /\ stage = "listing" /\ site.connector # "no_browser"
    /\ Begin(First) /\ stage' = "access"
    /\ UNCHANGED <<respect, wait, since, robots, crawlVars, checks, usable, todo, fetched, parsed>>

NoBrowser ==
    /\ stage = "listing" /\ site.connector = "no_browser"
    /\ checks' = Recorded([access |-> "FAILED"]) /\ stage' = "sample"
    /\ UNCHANGED <<vars, usable, todo, fetched, parsed>>

ListingFails ==
    /\ stage = "access" /\ Failed /\ Free
    /\ checks' = Recorded([access |-> "FAILED"]) /\ stage' = "sample"
    /\ UNCHANGED <<respect, wait, since, robots, crawlVars, usable, todo, fetched, parsed>>

ParserCheck_Usable(items) == "PASSED"

\* Whether any item of the sample would be persisted.
ParserCheck(items) == PassedIf(\E i \in Sampled(items) : Acceptable(Listed(i)))

\* The detail pages to try: of this host, and not a listing.
Candidates(items) ==
    Sampled({i \in items : /\ Listed(i).detail \notin ToSet(site.targets)
                          /\ HostOf[Listed(i).detail] = site.base})

\* A page that fails the access check is parsed all the same, and usable items
\* go on to the later checks even if none of the sample is accepted.
ListingArrives ==
    LET items == IF First \in site.blank \/ ParseFailure(site.kind, site, First) # NoError THEN {}
                 ELSE TitledPlaces(site.kind, site, First)
    IN  /\ stage = "access" /\ Arrived /\ Free
        /\ checks' = Recorded([access |-> PassedIf(First \notin site.blank),
                               parse  |-> PassedIf(items # {}),
                               parser |-> IF items = {} THEN Unrecorded
                                          ELSE ParserCheck(items)])
        /\ usable' = items /\ todo' = Candidates(items) /\ stage' = "sample"
        /\ UNCHANGED <<respect, wait, since, robots, crawlVars, fetched, parsed>>

----------------------------------------------------------------------------
(* Detail pages.                                                           *)

FetchDetailPage ==
    /\ stage = "sample" /\ todo # {}
    /\ Begin(Listed(Min(todo)).detail) /\ stage' = "detail"
    /\ UNCHANGED <<respect, wait, since, robots, crawlVars, checks, usable, todo, fetched, parsed>>

Remaining_SamePage == todo
Remaining == todo \ {Min(todo)}

\* A page that fails counts neither as fetched nor as parsed.
DetailArrives ==
    /\ stage = "detail" /\ Free
    /\ \/ Arrived /\ fetched' = fetched + 1
                  /\ parsed' = IF call.url \in site.blank THEN parsed ELSE parsed + 1
       \/ Failed /\ UNCHANGED <<fetched, parsed>>
    /\ todo' = Remaining /\ stage' = "sample"
    /\ UNCHANGED <<respect, wait, since, robots, crawlVars, checks, usable>>

DetailCheck ==
    IF Candidates(usable) = {} THEN "SKIPPED"
    ELSE IF parsed = 0 THEN "FAILED"
    ELSE IF parsed = fetched THEN "PASSED" ELSE "WARNING"

DocumentsCheck ==
    IF usable = {} THEN "SKIPPED"
    ELSE IF \E i \in usable : Listed(i).docs THEN "PASSED" ELSE "WARNING"

\* Links to a next page that are followed while crawling are not looked at.
PaginationCheck ==
    IF Cardinality(ToSet(site.targets)) > 1 THEN "PASSED"
    ELSE IF site.paged THEN "WARNING" ELSE "SKIPPED"

\* robots.txt does not bind a source whose policy is IGNORE, or any if the
\* deployment says so; only the former is a warning.
Conclude ==
    /\ stage = "sample" /\ todo = {}
    /\ \E robotsCheck \in IF respect THEN {"PASSED"} ELSE {"PASSED", "WARNING"} :
           LET after(check) == IF Built THEN check ELSE Unrecorded IN
           checks' = Recorded([robots |-> robotsCheck, detail |-> after(DetailCheck),
                               documents |-> after(DocumentsCheck),
                               pagination |-> after(PaginationCheck)])
    /\ stage' = "judged"
    /\ UNCHANGED <<vars, usable, todo, fetched, parsed>>

Blocking_AccessOptional == \E c \in Required \ {"access"} : checks[c] = "FAILED"

\* A check that was never recorded does not block.
Blocking == \E c \in Required : checks[c] = "FAILED"

Verdict ==
    IF Blocking THEN "FAILED"
    ELSE IF \E c \in Checks : checks[c] = "WARNING" THEN "PASSED_WITH_WARNINGS"
    ELSE "PASSED"

Verified == checks["robots"] # Unrecorded
Passes == Verified /\ Verdict # "FAILED"

----------------------------------------------------------------------------
(* The run that follows.                                                   *)

\* An operator can run a source whatever its verification said, and without one;
\* the job makes a fetcher of its own, and only the report of a verification lasts.
StartCrawl ==
    /\ stage \in {"preflight", "judged"} /\ stage' = "crawl"
    /\ wait' = [h \in Hosts |-> 0]
    /\ since' = [h \in Hosts |-> MinGap]
    /\ robots' = [h \in Hosts |-> Unread]
    /\ usable' = {} /\ todo' = {} /\ fetched' = 0 /\ parsed' = 0
    /\ UNCHANGED <<respect, call, crawlVars, checks>>

Afterwards == {"crawl", "kept", "lost"}

\* _finalise and the commit.  A database error at any record leaves a session that
\* cannot be used, while the stream is read to its end: then all of the run is rolled
\* back, its own record too.
CloseRun ==
    /\ stage = "crawl" /\ phase = "ended"
    /\ stage' \in {"kept", "lost"}
    /\ UNCHANGED <<vars, checks, usable, todo, fetched, parsed>>

\* _stage_for.
StageOf(error) ==
    IF error \in Failures THEN "FETCH"
    ELSE IF error \in {"VALUEERROR", "SELECTORSYNTAXERROR"} THEN "UNKNOWN" ELSE "PARSE"

Persisted == IF stage = "kept" THEN {i \in DOMAIN delivered : Acceptable(delivered[i])} ELSE {}

\* _finalise: an error the parser did not expect is fatal, others only if they
\* left nothing.
Succeeded ==
    /\ \A i \in DOMAIN errors : StageOf(errors[i]) # "UNKNOWN"
    /\ delivered # <<>> \/ errors = <<>>

\* OperationsService._verdict of the run.
RunVerdict ==
    IF delivered = <<>> THEN
        IF \E i \in DOMAIN errors : StageOf(errors[i]) = "FETCH" THEN "UNREACHABLE" ELSE "EMPTY"
    ELSE IF ~Succeeded THEN IF Persisted # {} THEN "PARTIAL" ELSE "FAILED"
    ELSE IF Persisted # DOMAIN delivered THEN "COMPLETED_WITH_ISSUES" ELSE "HEALTHY"

----------------------------------------------------------------------------
Verifies ==
    \/ Preflight
    \/ FetchListing \/ NoBrowser \/ ListingFails \/ ListingArrives
    \/ FetchDetailPage \/ DetailArrives \/ Conclude

Loads ==
    /\ stage \notin {"judged"} \cup Afterwards
    /\ FetcherStep \/ \E h \in Hosts : RobotsAge(h)
    /\ UNCHANGED <<crawlVars, verifyVars>>

Crawls == stage = "crawl" /\ Next /\ UNCHANGED verifyVars

VerifyNext == Verifies \/ Loads \/ StartCrawl \/ Crawls \/ CloseRun

\* Every await of a verification or a job ends: HTTP calls time out, sleeps are
\* finite.
Fairness ==
    /\ WF_allVars(Verifies) /\ WF_allVars(Loads)
    /\ WF_allVars(stage = "crawl" /\ Reads /\ UNCHANGED verifyVars)
    /\ WF_allVars(stage = "crawl" /\ Fetches /\ UNCHANGED verifyVars)

VerifySpec == VerifyInit /\ [][VerifyNext]_allVars /\ Fairness

----------------------------------------------------------------------------
(* What a verification promises.                                           *)

\* A source passes only on evidence: each required check was carried out, and
\* none failed.  Nothing in the verdict looks for a check that is missing, so
\* this rests on every early end of verify leaving a failed check behind.
PassingIsEvidenced == Passes => \A c \in Required : checks[c] \in {"PASSED", "WARNING"}

\* A run that is kept of a source that passed persists a record, unless the site could
\* not be reached, its REST API gave way to the HTML listing, which the verifier never
\* looks at, or the configuration of an HTML listing is wrong where the verifier does not
\* look either: apart from that, the sample is taken from what a run reads first.
PassPredictsIngestion ==
    Passes /\ stage = "kept" /\ mode = "own" /\ ~Unreadable(site) =>
        Persisted # {} \/ RunVerdict = "UNREACHABLE"

\* "Can this configuration be turned into records?": a run that is kept of a source that
\* passed persists a record whatever its configuration, or could not reach the site.
PassedConfigurationsYield ==
    Passes /\ stage = "kept" /\ mode = "own" =>
        Persisted # {} \/ RunVerdict = "UNREACHABLE"

\* "next_link_path", "max_pages": a clean crawl of OCDS packages has read the items of the
\* page that its first package links to as well.
PackagesAreFollowed ==
    LET more == site.next[First] IN
    stage = "kept" /\ errors = <<>> /\ site.kind = "ocds" /\ site.maxPages > 1 /\ more # NoUrl =>
        \A i \in TitledPlaces("ocds", site, more) :
            ItemAt("ocds", site, more, i) \in ToSet(delivered)

\* Every verification reaches a verdict: it fetches one listing page and a few
\* detail pages, whatever fails.
VerificationEnds == stage = "access" ~> stage = "judged"

\* The stream that the pipeline was promised.
Stream == INSTANCE ItemStream WITH
    items <- Len(delivered), errors <- Len(errors),
    state <- IF stage \notin Afterwards THEN "unread" ELSE IF phase = "ended" THEN "closed" ELSE "open"

\* parse_source gives the pipeline such a stream: never more than MaxItems items,
\* at most one error, which is the last thing it gives, and an end.
StreamSpec == Stream!Spec

----------------------------------------------------------------------------
(* Why: the inductive invariant.                                           *)

\* The required checks are settled: one has failed, or all were carried out.
Settled == Blocking \/ \A c \in Required : checks[c] \in {"PASSED", "WARNING"}

\* verify fetches nothing before the configuration is judged, and concludes
\* nothing before the required checks are settled.
ChecksStand ==
    /\ checks \in [Checks -> {Unrecorded, "PASSED", "WARNING", "FAILED", "SKIPPED"}]
    /\ stage \notin {"judged"} \cup Afterwards => ~Verified
    /\ stage \in {"listing", "access"} =>
          \A c \in {"url", "connector", "listing"} : checks[c] \in {"PASSED", "WARNING", "FAILED"}
    /\ stage \in {"sample", "detail"} \/ Verified => Settled

\* A passing parser check names an item of what a run reads first, and the pages
\* that are fetched are the targets of links.
EvidenceStands ==
    /\ stage \in {"listing", "access"} => site.targets # <<>>
    /\ checks["parser"] \in {Unrecorded, "PASSED", "FAILED"}
    /\ checks["parser"] = "PASSED" =>
          /\ site.targets # <<>> /\ ParseFailure(site.kind, site, First) = NoError
          /\ \E i \in Sampled(TitledPlaces(site.kind, site, First)) : Acceptable(Listed(i))
    /\ todo # {} => site.targets # <<>> /\ todo \subseteq ParsedPlaces(site.kind, site, First)

IInv ==
    /\ CrawlStands /\ ChecksStand /\ EvidenceStands
    /\ stage \notin Afterwards => phase # "ended" /\ delivered = <<>>
    /\ stage \in {"kept", "lost"} => phase = "ended"
=============================================================================
