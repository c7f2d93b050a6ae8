--------------------------- MODULE VerifierProofs ---------------------------
(***************************************************************************)
(* Proofs about the verification of a source and the crawl that may follow *)
(* it, for any sites, links, intervals, retries, samples and ceilings: the *)
(* fetcher keeps its pace, a source passes only on evidence, what it is    *)
(* evidence of comes true, and the crawl gives the pipeline the stream     *)
(* that ItemStream describes, complete if it reports no error.             *)
(*                                                                         *)
(* The argument is the inductive invariant IInv of Verifier.  Its parts    *)
(* are kept by the steps of different components: CrawlStands by those of  *)
(* the crawl and of its fetcher (CrawlProofs); ChecksStand by those of     *)
(* verify, which leaves a failed check behind wherever it ends early; and  *)
(* EvidenceStands by those that look at the first listing page.            *)
(***************************************************************************)
EXTENDS Verifier, CrawlProofs

(***************************************************************************)
(* The checks of a verification.                                           *)
(***************************************************************************)

Results == {Unrecorded, "PASSED", "WARNING", "FAILED", "SKIPPED"}
Settling == {"PASSED", "WARNING", "FAILED"}

\* Once the required checks are settled, nothing but a required check changes that.
LEMMA SettledStands ==
  ASSUME Settled, \A c \in Required : checks'[c] = checks[c]
  PROVE  Settled'
BY DEF Settled, Blocking

\* A required check that failed settles the verdict ...
LEMMA FailureSettles ==
  ASSUME NEW c \in Required, checks'[c] = "FAILED"
  PROVE  Settled'
BY DEF Settled, Blocking

\* ... and so do required checks that were all carried out.
LEMMA AllCarriedOut ==
  ASSUME \A c \in Required : checks'[c] \in Settling
  PROVE  Settled'
BY DEF Settled, Blocking, Settling

\* The steps of verify that record nothing.
LEMMA ChecksAreKept ==
  ASSUME ChecksStand, checks' = checks,
         stage' \in {"listing", "access"} => stage \in {"listing", "access"},
         stage' \in {"sample", "detail"} => stage \in {"sample", "detail"},
         stage' \notin {"judged"} \cup Afterwards => stage \notin {"judged"} \cup Afterwards
  PROVE  ChecksStand'
BY DEF ChecksStand, Settled, Blocking, Verified

\* The preflight keeps what stands of the checks ...
LEMMA PreflightStands ==
  ASSUME ChecksStand, Preflight
  PROVE  ChecksStand'
<1>1. PICK allowed \in BOOLEAN :
          LET built == allowed /\ site.connector # "unknown" IN
          /\ checks' = Recorded([connector |-> ConnectorCheck, url |-> PassedIf(allowed),
                                  listing |-> IF built THEN ListingCheck ELSE Unrecorded])
          /\ stage' = IF built /\ site.targets # <<>> THEN "listing" ELSE "sample"
  BY DEF Preflight
<1> DEFINE built == allowed /\ site.connector # "unknown"
<1>2. /\ checks' = [c \in Checks |-> IF c = "connector" THEN ConnectorCheck
                       ELSE IF c = "url" THEN PassedIf(allowed)
                       ELSE IF c = "listing" THEN IF built THEN ListingCheck ELSE Unrecorded
                       ELSE checks[c]]
      /\ stage' = IF built /\ site.targets # <<>> THEN "listing" ELSE "sample"
  BY <1>1 DEF Recorded
<1>3. stage = "preflight" /\ ~Verified /\ checks \in [Checks -> Results]
  BY DEF Afterwards, Preflight, ChecksStand, Results
<1>4. {"url", "connector", "listing", "robots"} \subseteq Checks
      /\ {"url", "connector", "listing"} \subseteq Required
  BY DEF Checks, Required, Optional
<1>5. ConnectorCheck \in Settling /\ ListingCheck \in Settling /\ PassedIf(allowed) \in Settling
  BY DEF ConnectorCheck, ListingCheck, PassedIf, Settling
<1>6. checks' \in [Checks -> Results]
  BY <1>2, <1>3, <1>5 DEF Results, Settling
<1>7. ~Verified'
  BY <1>2, <1>3, <1>4 DEF Verified
<1>8. CASE stage' = "listing"
  <2>1. \A c \in {"url", "connector", "listing"} : checks'[c] \in Settling
    BY <1>2, <1>4, <1>5, <1>8
  <2> QED
    BY <1>6, <1>7, <1>8, <2>1 DEF ChecksStand, Results, Settling
<1>9. CASE stage' # "listing"
  <2>1. stage' = "sample" /\ ~(built /\ site.targets # <<>>)
    BY <1>2, <1>9
  <2>2. CASE ~allowed
    <3>1. checks'["url"] = "FAILED"
      BY <1>2, <1>4, <2>2 DEF PassedIf
    <3> QED
      BY <1>4, <1>6, <1>7, <2>1, <3>1, FailureSettles DEF ChecksStand, Results
  <2>3. CASE site.connector = "unknown"
    <3>1. checks'["connector"] = "FAILED"
      BY <1>2, <1>4, <2>3 DEF ConnectorCheck
    <3> QED
      BY <1>4, <1>6, <1>7, <2>1, <3>1, FailureSettles DEF ChecksStand, Results
  <2>4. CASE built /\ site.targets = <<>>
    <3>1. checks'["listing"] = "FAILED"
      BY <1>2, <1>4, <2>4 DEF ListingCheck
    <3> QED
      BY <1>4, <1>6, <1>7, <2>1, <3>1, FailureSettles DEF ChecksStand, Results
  <2> QED
    BY <2>1, <2>2, <2>3, <2>4
<1> QED
  BY <1>8, <1>9

\* The page cannot be had: the access check fails.
LEMMA NoListingStands ==
  ASSUME ChecksStand, NoBrowser \/ ListingFails
  PROVE  ChecksStand'
<1>1. checks' = [c \in Checks |-> IF c = "access" THEN "FAILED" ELSE checks[c]] /\ stage' = "sample"
  BY DEF NoBrowser, ListingFails, Recorded
<1>2. checks \in [Checks -> Results] /\ ~Verified
  BY DEF Afterwards, ChecksStand, Results, NoBrowser, ListingFails
<1>3. "access" \in Required /\ "access" \in Checks /\ "robots" \in Checks
  BY DEF Checks, Required, Optional
<1>4. checks' \in [Checks -> Results] /\ ~Verified' /\ checks'["access"] = "FAILED"
  BY <1>1, <1>2, <1>3 DEF Results, Verified
<1>5. Settled'
  BY <1>3, <1>4, FailureSettles
<1> QED
  BY <1>1, <1>4, <1>5 DEF ChecksStand, Results

\* The page is there: whether it can be used or not, the required checks are
\* settled after it.
LEMMA ListingStands ==
  ASSUME ChecksStand, ListingArrives
  PROVE  ChecksStand'
<1> DEFINE items == IF First \in site.blank \/ ParseFailure(site.kind, site, First) # NoError
                    THEN {} ELSE TitledPlaces(site.kind, site, First)
           access == PassedIf(First \notin site.blank)
<1>0. access \in Settling
  BY DEF PassedIf, Settling
<1>1. /\ checks' = Recorded([access |-> access, parse |-> PassedIf(items # {}),
                             parser |-> IF items = {} THEN Unrecorded ELSE ParserCheck(items)])
      /\ stage' = "sample" /\ stage = "access"
  BY DEF ListingArrives
<1> HIDE DEF items, access
<1>2. checks' = [c \in Checks |-> IF c = "access" THEN access
                    ELSE IF c = "parse" THEN PassedIf(items # {})
                    ELSE IF c = "parser"
                         THEN IF items = {} THEN Unrecorded ELSE ParserCheck(items)
                    ELSE checks[c]]
  BY <1>1 DEF Recorded
<1>3. /\ checks \in [Checks -> Results] /\ ~Verified
      /\ \A c \in {"url", "connector", "listing"} : checks[c] \in Settling
  BY <1>1 DEF Afterwards, ChecksStand, Results, Settling
<1>4. Required = {"url", "access", "connector", "listing", "parse", "parser"}
      /\ Required \subseteq Checks /\ "robots" \in Checks
  BY DEF Checks, Required, Optional
<1>5. ParserCheck(items) \in Settling /\ PassedIf(items # {}) \in Settling
  BY DEF ParserCheck, PassedIf, Settling
<1>6. checks' \in [Checks -> Results] /\ ~Verified'
  BY <1>0, <1>2, <1>3, <1>4, <1>5 DEF Results, Settling, Verified
<1>7. Settled'
  <2>1. CASE items = {}
    <3>1. checks'["parse"] = "FAILED"
      BY <1>2, <1>4, <2>1 DEF PassedIf
    <3> QED
      BY <1>4, <3>1, FailureSettles
  <2>2. CASE items # {}
    <3>1. \A c \in Required : checks'[c] \in Settling
      BY <1>0, <1>2, <1>3, <1>4, <1>5, <2>2
    <3> QED
      BY <3>1, AllCarriedOut
  <2> QED
    BY <2>1, <2>2
<1> QED
  BY <1>1, <1>6, <1>7 DEF ChecksStand, Results

\* ... the conclusion does ...
LEMMA ConclusionStands ==
  ASSUME ChecksStand, Conclude
  PROVE  ChecksStand'
<1>1. PICK new \in [Optional -> Results] :
          checks' = [c \in Checks |-> IF c \in Optional THEN new[c] ELSE checks[c]]
  <2>1. PICK robotsCheck \in {"PASSED", "WARNING"} :
            LET after(check) == IF Built THEN check ELSE Unrecorded IN
            checks' = Recorded([robots |-> robotsCheck, detail |-> after(DetailCheck),
                                documents |-> after(DocumentsCheck),
                                pagination |-> after(PaginationCheck)])
    BY DEF Conclude
  <2> DEFINE new == [robots |-> robotsCheck,
                     detail |-> IF Built THEN DetailCheck ELSE Unrecorded,
                     documents |-> IF Built THEN DocumentsCheck ELSE Unrecorded,
                     pagination |-> IF Built THEN PaginationCheck ELSE Unrecorded]
  <2>2. DetailCheck \in Results /\ DocumentsCheck \in Results /\ PaginationCheck \in Results
    BY DEF DetailCheck, DocumentsCheck, PaginationCheck, Results
  <2>3. new \in [Optional -> Results]
    BY <2>2 DEF Optional, Results
  <2>4. DOMAIN new = Optional /\ checks' = Recorded(new)
    BY <2>1 DEF Optional
  <2> HIDE DEF new
  <2> QED
    BY <2>3, <2>4 DEF Recorded
<1>2. stage = "sample" /\ stage' = "judged" /\ Settled /\ checks \in [Checks -> Results]
  BY DEF Conclude, ChecksStand, Results
<1>3. checks' \in [Checks -> Results]
  BY <1>1, <1>2
<1>4. \A c \in Required : checks'[c] = checks[c]
  BY <1>1 DEF Required, Optional, Checks
<1>5. Settled'
  BY <1>2, <1>4, SettledStands
<1> QED
  BY <1>2, <1>3, <1>5 DEF ChecksStand, Results

\* ... and so does every step of a verification.
LEMMA VerifyStands ==
  ASSUME ChecksStand, Verifies
  PROVE  ChecksStand'
<1>1. CASE FetchListing
  BY <1>1, ChecksAreKept DEF Afterwards, FetchListing
<1>2. CASE FetchDetailPage
  BY <1>2, ChecksAreKept DEF Afterwards, FetchDetailPage
<1>3. CASE DetailArrives
  BY <1>3, ChecksAreKept DEF Afterwards, DetailArrives
<1> QED
  BY <1>1, <1>2, <1>3, PreflightStands, NoListingStands, ListingStands, ConclusionStands
     DEF Verifies

(***************************************************************************)
(* The evidence.                                                           *)
(***************************************************************************)

\* The first listing page, if there is one.
LEMMA FirstIsAPage ==
  ASSUME site \in Sites, site.targets # <<>>
  PROVE  /\ First \in Urls /\ First = site.targets[1]
         /\ site.targets \in Seq(Urls) /\ Len(site.targets) \in Nat /\ Len(site.targets) > 0
         /\ site.kind \in {"html", "wordpress", "json", "pdf", "ocds"}
<1>1. site.targets \in Seq(Urls) /\ site.kind \in {"html", "wordpress", "json", "pdf", "ocds"}
  BY SitesAssumption
<1> QED
  BY <1>1, HeadTailProperties, EmptySeq DEF First

\* The steps of verify that leave the parser check alone.
LEMMA EvidenceIsKept ==
  ASSUME EvidenceStands, UNCHANGED <<site>>, checks'["parser"] = checks["parser"],
         stage' \in {"listing", "access"} => site.targets # <<>>,
         todo' \subseteq todo
  PROVE  EvidenceStands'
<1>1. First' = First /\ \A i : Listed(i)' = Listed(i)
  BY DEF First, Listed
<1>2. checks'["parser"] = "PASSED" =>
        /\ site.targets # <<>> /\ ParseFailure(site.kind, site, First) = NoError
        /\ \E i \in Sampled(TitledPlaces(site.kind, site, First)) : Acceptable(Listed(i))
  BY DEF EvidenceStands
<1>3. checks'["parser"] = "PASSED" =>
        /\ site'.targets # <<>> /\ ParseFailure(site'.kind, site', First') = NoError
        /\ \E i \in Sampled(TitledPlaces(site'.kind, site', First')) : Acceptable(Listed(i)')
  BY <1>1, <1>2
<1> QED
  BY <1>1, <1>3 DEF EvidenceStands

\* A verification keeps it.
LEMMA VerifyKeepsEvidence ==
  ASSUME EvidenceStands, Verifies
  PROVE  EvidenceStands'
<1>0. {"url", "access", "connector", "listing", "parse", "parser", "robots", "detail", "documents",
       "pagination"} = Checks
  BY DEF Checks, Required, Optional
<1>1. CASE Preflight
  <2>1. checks'["parser"] = checks["parser"]
    BY <1>0, <1>1 DEF Preflight, Recorded
  <2> QED
    BY <1>1, <2>1, EvidenceIsKept DEF Preflight, vars, crawlVars
<1>2. CASE NoBrowser \/ ListingFails
  <2>1. checks'["parser"] = checks["parser"]
    BY <1>0, <1>2 DEF NoBrowser, ListingFails, Recorded
  <2> QED
    BY <1>2, <2>1, EvidenceIsKept DEF NoBrowser, ListingFails, vars, crawlVars
<1>3. CASE FetchListing \/ FetchDetailPage \/ DetailArrives
  <2>1. stage' \in {"listing", "access"} => site.targets # <<>>
    BY <1>3 DEF FetchListing, FetchDetailPage, DetailArrives, EvidenceStands
  <2> QED
    BY <1>3, <2>1, EvidenceIsKept
       DEF FetchListing, FetchDetailPage, DetailArrives, Remaining, crawlVars
<1>4. CASE Conclude
  <2>1. checks'["parser"] = checks["parser"]
    BY <1>0, <1>4 DEF Conclude, Recorded
  <2> QED
    BY <1>4, <2>1, EvidenceIsKept DEF Conclude, vars, crawlVars
<1>5. CASE ListingArrives
  <2> DEFINE items == IF First \in site.blank \/ ParseFailure(site.kind, site, First) # NoError
                      THEN {} ELSE TitledPlaces(site.kind, site, First)
  <2>1. /\ stage = "access" /\ stage' = "sample" /\ UNCHANGED crawlVars
        /\ checks'["parser"] = IF items = {} THEN Unrecorded ELSE ParserCheck(items)
        /\ todo' = Candidates(items)
    BY <1>0, <1>5 DEF ListingArrives, Recorded
  <2>2. site' = site /\ site.targets # <<>>
    BY <2>1 DEF crawlVars, EvidenceStands
  <2>3. items \subseteq ParsedPlaces(site.kind, site, First)
    BY DEF TitledPlaces
  <2>4. items # {} => /\ ParseFailure(site.kind, site, First) = NoError
                      /\ items = TitledPlaces(site.kind, site, First)
    OBVIOUS
  <2> HIDE DEF items
  <2>5. Candidates(items) \subseteq items
    BY DEF Candidates, Sampled
  <2>6. checks'["parser"] \in {Unrecorded, "PASSED", "FAILED"}
    BY <2>1 DEF ParserCheck, PassedIf
  <2>7. checks'["parser"] = "PASSED" =>
           /\ items # {} /\ \E i \in Sampled(items) : Acceptable(Listed(i))
    BY <2>1 DEF ParserCheck, PassedIf, Unrecorded
  <2>8. First' = First /\ \A i : Listed(i)' = Listed(i)
    BY <2>2 DEF First, Listed
  <2> QED
    BY <2>1, <2>2, <2>3, <2>4, <2>5, <2>6, <2>7, <2>8 DEF EvidenceStands
<1> QED
  BY <1>1, <1>2, <1>3, <1>4, <1>5 DEF Verifies

\* A verification makes no request of its own accord, and fetches only pages.
LEMMA VerifyKeepsFetcher ==
  ASSUME FetcherStands, site \in Sites, EvidenceStands, Verifies
  PROVE  FetcherStands' /\ Paced
<1>1. CASE Preflight \/ NoBrowser \/ Conclude
  <2>1. UNCHANGED fetchVars
    BY <1>1 DEF Preflight, NoBrowser, Conclude, vars
  <2> QED
    BY <2>1 DEF fetchVars, FetcherStands, FetcherTypeOK, PaceHolds, CallsEnd, Paced
<1>2. CASE FetchListing
  <2>1. First \in Urls
    BY <1>2, FirstIsAPage DEF FetchListing, EvidenceStands
  <2> QED
    BY <1>2, <2>1, CallersKeepTypes, CallersArePaced DEF FetchListing, FetcherStands
<1>3. CASE FetchDetailPage
  <2>1. /\ First \in Urls /\ todo \subseteq ParsedPlaces(site.kind, site, First) /\ todo # {}
        /\ site.kind \in {"html", "wordpress", "json", "pdf", "ocds"}
    BY <1>3, FirstIsAPage DEF FetchDetailPage, EvidenceStands
  <2>2. todo \subseteq Nat
    <3>1. ParsedPlaces(site.kind, site, First) \subseteq 1..Len(site.entries[First])
      BY <2>1, PlacesAreNumbers
    <3> QED
      BY <2>1, <3>1
  <2>3. Min(todo) \in ParsedPlaces(site.kind, site, First)
    BY <2>1, <2>2, MinIsLeast
  <2>4. Listed(Min(todo)).detail \in Urls
    <3> DEFINE i == Min(todo)
    <3> HIDE DEF i
    <3>1. ItemAt(site.kind, site, First, i).detail \in Urls
      BY <2>1, <2>3, DetailsArePages DEF i
    <3> QED
      BY <3>1 DEF Listed, i
  <2> QED
    BY <1>3, <2>4, CallersKeepTypes, CallersArePaced DEF FetchDetailPage, FetcherStands
<1>4. CASE ListingFails \/ ListingArrives \/ DetailArrives
  BY <1>4, CallersKeepTypes, CallersArePaced
     DEF ListingFails, ListingArrives, DetailArrives, FetcherStands
<1> QED
  BY <1>1, <1>2, <1>3, <1>4 DEF Verifies

(***************************************************************************)
(* The invariant.                                                          *)
(***************************************************************************)

\* The invariant holds before the first verification.
LEMMA InitStands ==
  ASSUME VerifyInit
  PROVE  IInv
<1>1. CrawlStands
  BY CrawlStarts DEF VerifyInit
<1>2. "robots" \in Checks /\ "parser" \in Checks
      /\ checks["robots"] = Unrecorded /\ checks["parser"] = Unrecorded
  BY DEF VerifyInit, Checks, Required, Optional
<1>3. ChecksStand
  BY <1>2 DEF VerifyInit, ChecksStand, Verified
<1>4. EvidenceStands
  BY <1>2 DEF VerifyInit, EvidenceStands, Unrecorded
<1> QED
  BY <1>1, <1>3, <1>4 DEF VerifyInit, Init, IInv

\* What a step of the verification leaves alone.
LEMMA VerifyLeavesTheCrawl ==
  ASSUME Verifies \/ Loads \/ StartCrawl \/ CloseRun
  PROVE  UNCHANGED crawlVars
<1>1. CASE Verifies
  BY <1>1 DEF Verifies, Preflight, FetchListing, NoBrowser, ListingFails, ListingArrives,
              FetchDetailPage, DetailArrives, Conclude, vars, crawlVars
<1> QED
  BY <1>1 DEF Loads, StartCrawl, CloseRun, vars, crawlVars

\* The steps of a verification are not taken during a run or after it.
LEMMA VerifyIsNoCrawl ==
  ASSUME Verifies \/ Loads
  PROVE  stage \notin Afterwards /\ stage' \notin Afterwards
<1>1. CASE Verifies
  BY <1>1 DEF Verifies, Preflight, FetchListing, NoBrowser, ListingFails, ListingArrives,
              FetchDetailPage, DetailArrives, Conclude, Afterwards
<1> QED
  BY <1>1 DEF Loads, verifyVars

\* What stands of a crawl, of its parts.
LEMMA PartsOfTheCrawl ==
  CrawlStands <=> FetcherStands /\ ReadingStands /\ StreamStands /\ PagesStand
BY DEF CrawlStands, FetcherStands, ReadingStands, TypeOK

\* Every step keeps what stands of the fetcher, and the pace of a host ...
LEMMA StepIsPaced ==
  ASSUME FetcherStands, site \in Sites, EvidenceStands, VerifyNext
  PROVE  Paced
<1>1. CASE Verifies
  BY <1>1, VerifyKeepsFetcher
<1>2. CASE Loads
  BY <1>2, FetcherIsPaced DEF Loads, FetcherStands
<1>3. CASE StartCrawl
  <2>1. MinGap \in Nat /\ MaxGap \in Nat
    BY GapAssumption
  <2> QED
    BY <1>3, <2>1 DEF StartCrawl, FetcherStands, PaceHolds, Paced
<1>4. CASE Crawls
  BY <1>4, CrawlIsPaced DEF Crawls, FetcherStands
<1>5. CASE CloseRun
  BY <1>5 DEF CloseRun, vars, fetchVars, FetcherStands, PaceHolds, Paced
<1> QED
  BY <1>1, <1>2, <1>3, <1>4, <1>5 DEF VerifyNext

\* ... and of the crawl ...
LEMMA StepKeepsCrawl ==
  ASSUME CrawlStands, EvidenceStands, VerifyNext
  PROVE  CrawlStands'
<1>0. /\ FetcherStands /\ ReadingStands /\ StreamStands /\ PagesStand
      /\ site \in Sites
  BY PartsOfTheCrawl DEF ReadingStands, CrawlTypeOK
<1>1. CASE Crawls
  BY <1>1, CrawlIsKept DEF Crawls
<1>2. CASE Verifies \/ Loads \/ StartCrawl \/ CloseRun
  <2>1. UNCHANGED crawlVars
    BY <1>2, VerifyLeavesTheCrawl
  <2>2. ReadingStands'
    BY <1>0, <2>1, ReadingIsKept
  <2>3. StreamStands' /\ PagesStand'
    BY <1>0, <2>1 DEF crawlVars, StreamStands, PagesStand
  <2>4. FetcherStands'
    <3>1. CASE Verifies
      BY <1>0, <3>1, VerifyKeepsFetcher
    <3>2. CASE Loads
      BY <1>0, <3>2, FetcherKeepsTypes DEF Loads
    <3>3. CASE StartCrawl
      <4>1. MinGap \in Nat /\ MaxGap \in Nat
        BY GapAssumption
      <4> QED
        BY <1>0, <3>3, <4>1
           DEF StartCrawl, FetcherStands, FetcherTypeOK, PaceHolds, CallsEnd
    <3>4. CASE CloseRun
      BY <1>0, <3>4 DEF CloseRun, vars, fetchVars, FetcherStands, FetcherTypeOK, PaceHolds, CallsEnd
    <3> QED
      BY <1>2, <3>1, <3>2, <3>3, <3>4
  <2> QED
    BY <2>2, <2>3, <2>4, PartsOfTheCrawl DEF CrawlStands, FetcherStands, ReadingStands, TypeOK
<1> QED
  BY <1>1, <1>2 DEF VerifyNext

\* ... a crawl reads the same site to its end ...
LEMMA SiteStays ==
  ASSUME Next
  PROVE  site' = site
BY DEF Next, Reads, Discover, NextTarget, NoMoreTargets, FetchPage, ReceivePage, PageFails,
       NextPage, SkipRow, TakeRow, FetchDetail, ReceiveDetail, Raise, FallBack, Stop, Deliver,
       Fetches, Ages, crawlVars

\* ... and the whole invariant is kept.
LEMMA StepStands ==
  ASSUME IInv, [VerifyNext]_allVars
  PROVE  IInv'
<1>1. CrawlStands /\ ChecksStand /\ EvidenceStands
  BY DEF IInv
<1>2. CASE UNCHANGED allVars
  <2>1. UNCHANGED crawlVars /\ UNCHANGED fetchVars /\ UNCHANGED verifyVars
    BY <1>2 DEF allVars, vars
  <2>2. ReadingStands'
    BY <1>1, <2>1, PartsOfTheCrawl, ReadingIsKept
  <2>3. FetcherStands' /\ StreamStands' /\ PagesStand'
    BY <1>1, <2>1, PartsOfTheCrawl
       DEF crawlVars, fetchVars, FetcherStands, FetcherTypeOK, PaceHolds, CallsEnd, StreamStands,
           PagesStand
  <2>4. CrawlStands'
    BY <2>2, <2>3 DEF CrawlStands, FetcherStands, ReadingStands, TypeOK
  <2>5. ChecksStand'
    BY <1>1, <2>1 DEF verifyVars, ChecksStand, Settled, Blocking, Verified
  <2>6. EvidenceStands'
    BY <1>1, <2>1, EvidenceIsKept DEF verifyVars, crawlVars, EvidenceStands
  <2> QED
    BY <2>1, <2>4, <2>5, <2>6 DEF IInv, verifyVars, crawlVars
<1>3. CASE VerifyNext
  <2>1. CrawlStands'
    BY <1>1, <1>3, StepKeepsCrawl
  <2>2. ChecksStand'
    <3>1. CASE Verifies
      BY <1>1, <3>1, VerifyStands
    <3>2. CASE Loads \/ StartCrawl \/ Crawls \/ CloseRun
      BY <1>1, <3>2, ChecksAreKept DEF Loads, StartCrawl, Crawls, CloseRun, Afterwards, verifyVars
    <3> QED
      BY <1>3, <3>1, <3>2 DEF VerifyNext
  <2>3. EvidenceStands'
    <3>1. CASE Verifies
      BY <1>1, <3>1, VerifyKeepsEvidence
    <3>2. CASE Loads \/ StartCrawl \/ CloseRun
      <4>1. site' = site
        BY <3>2, VerifyLeavesTheCrawl DEF crawlVars
      <4>2. /\ checks' = checks /\ todo' \subseteq todo
            /\ stage' \in {"listing", "access"} => stage \in {"listing", "access"}
        BY <3>2 DEF Loads, StartCrawl, CloseRun, verifyVars
      <4> QED
        BY <1>1, <4>1, <4>2, EvidenceIsKept DEF EvidenceStands
    <3>3. CASE Crawls
      <4>1. site' = site /\ UNCHANGED verifyVars
        BY <3>3, SiteStays DEF Crawls
      <4> QED
        BY <1>1, <4>1, EvidenceIsKept DEF EvidenceStands, verifyVars
    <3> QED
      BY <1>3, <3>1, <3>2, <3>3 DEF VerifyNext
  <2>4. /\ (stage \notin Afterwards => phase # "ended" /\ delivered = <<>>)'
        /\ (stage \in {"kept", "lost"} => phase = "ended")'
    <3>1. CASE Verifies \/ Loads
      BY <3>1, VerifyLeavesTheCrawl, VerifyIsNoCrawl DEF crawlVars, Afterwards, IInv
    <3>2. CASE StartCrawl \/ Crawls \/ CloseRun
      BY <3>2 DEF StartCrawl, Crawls, CloseRun, Afterwards, vars, crawlVars, verifyVars
    <3> QED
      BY <1>3, <3>1, <3>2 DEF VerifyNext
  <2> QED
    BY <2>1, <2>2, <2>3, <2>4 DEF IInv
<1> QED
  BY <1>2, <1>3

\* The inductive invariant.
THEOREM Invariance == VerifySpec => []IInv
<1>1. VerifyInit => IInv
  BY InitStands
<1>2. IInv /\ [VerifyNext]_allVars => IInv'
  BY StepStands
<1> QED
  BY <1>1, <1>2, PTL DEF VerifySpec

(***************************************************************************)
(* What follows.                                                           *)
(***************************************************************************)

\* A source passes only on evidence, wherever verify ended early and whatever it
\* left unrecorded (SourceVerifier.verify, VerificationReport).
THEOREM PassesRestOnEvidence == VerifySpec => []PassingIsEvidenced
<1>1. IInv => PassingIsEvidenced
  BY DEF IInv, ChecksStand, Settled, PassingIsEvidenced, Passes, Verdict
<1> QED
  BY <1>1, Invariance, PTL

\* Neither a verification nor a crawl, with whatever retries, attempts a URL of a host
\* before the interval of the limiter has passed since the last attempt at one.  Requests
\* for robots.txt and the hops of a redirect are no attempts (HTTPFetcher, RateLimiter).
THEOREM HostsAreSpared == VerifySpec => AttemptsArePaced
<1> DEFINE A == Attempts => since[Host] >= MinGap
<1>1. IInv /\ [VerifyNext]_allVars => [A]_fetchVars
  <2>1. ASSUME IInv, VerifyNext
        PROVE  A
    <3>1. FetcherStands /\ site \in Sites /\ EvidenceStands
      BY <2>1, PartsOfTheCrawl DEF IInv, ReadingStands, CrawlTypeOK
    <3> QED
      BY <2>1, <3>1, StepIsPaced DEF Paced, Attempts
  <2>2. UNCHANGED allVars => UNCHANGED fetchVars
    BY DEF allVars, vars
  <2> QED
    BY <2>1, <2>2
<1> QED
  BY <1>1, Invariance, PTL DEF VerifySpec, AttemptsArePaced

\* The state of a verification, of its fetcher and of a crawl is what it is declared
\* to be, whatever a site holds (SourceVerifier, HTTPFetcher, parse_source).
THEOREM VerificationTypes == VerifySpec => []TypeOK
<1>1. IInv => TypeOK
  BY DEF IInv, CrawlStands
<1> QED
  BY <1>1, Invariance, PTL

\* A crawl that reports no error has delivered the whole of its listing, in order and
\* once, whatever pages link to which (parse_source, HTMLConnector.run, the fallback
\* of WordPressConnector.run).
THEOREM CleanRunsAreComplete == VerifySpec => []CleanRunIsComplete
<1>1. IInv => CleanRunIsComplete
  BY CleanRuns DEF IInv
<1> QED
  BY <1>1, Invariance, PTL

\* An item of the sample is one of the first few of the listing.
LEMMA SampleComesFirst ==
  ASSUME site \in Sites, site.targets # <<>>, ~Unreadable(site),
         NEW i \in Sampled(TitledPlaces(site.kind, site, First))
  PROVE  LET at == [target |-> 1, page |-> 1, row |-> i]
         IN  /\ at \in Listing(site, "own") /\ ItemOf(site, "own", at) = Listed(i)
             /\ Rank(site, "own", at) \in Nat /\ Rank(site, "own", at) < MaxItems
<1> DEFINE at == [target |-> 1, page |-> 1, row |-> i]
           P == TitledPlaces(site.kind, site, First)
           J == {j \in P : j < i}
           B == Below(site, "own", at)
           f == [j \in J |-> [target |-> 1, page |-> 1, row |-> j]]
<1>1. /\ First \in Urls /\ First = site.targets[1] /\ Len(site.targets) \in Nat
      /\ Len(site.targets) > 0 /\ Reach(site, "own") \in Nat
  BY FirstIsAPage, ReachIsANumber
<1>2. TargetsIn(site, "own") = site.targets /\ ReaderIn(site, "own") = site.kind
  BY DEF TargetsIn, ReaderIn
<1>17. Reach(site, "own") > 0
  BY SitesAssumption DEF Reach, ReaderIn, Unreadable
<1>3. First # NoUrl /\ Trail(site, "own", First)[1] = First
  BY <1>1, <1>17, TrailGoesOn, UrlsAssumption DEF NoUrl
<1>4. P \subseteq 1..Len(site.entries[First]) /\ Len(site.entries[First]) \in Nat
  BY <1>1, PlacesAreNumbers
<1>5. i \in P /\ Cardinality(J) < Sample
  BY DEF Sampled
<1>6. PageOf(site, "own", at) = First /\ at.row = i
  BY <1>1, <1>2, <1>3 DEF PageOf
<1>7. at \in [target : 1..Len(site.targets), page : 1..Reach(site, "own"), row : Nat]
  BY <1>1, <1>4, <1>5, <1>17
<1> HIDE DEF at
<1>8. at \in Listing(site, "own") /\ ItemOf(site, "own", at) = Listed(i)
  <2>1. ItemOf(site, "own", at) = Listed(i)
    BY <1>2, <1>6 DEF ItemOf, Listed
  <2> QED
    BY <1>2, <1>3, <1>5, <1>6, <1>7, <2>1, ListingIs
<1>9. f \in Surjection(J, {f[j] : j \in J})
  <2> HIDE DEF J
  <2> QED
    BY DEF Surjection
<1>10. B \subseteq {f[j] : j \in J}
  <2>1. ASSUME NEW b \in B
        PROVE  b.row \in J /\ b = f[b.row]
    <3>1. b \in Listing(site, "own") /\ Before(b, at)
      BY DEF Below
    <3>2. b \in [target : 1..Len(site.targets), page : 1..Reach(site, "own"), row : Nat]
      BY <1>2, <3>1, ListingIs
    <3>3. b.target = 1 /\ b.page = 1 /\ b.row < i
      BY <1>1, <3>1, <3>2 DEF Before, at
    <3>4. b.row \in P
      <4>1. PageOf(site, "own", b) = First
        BY <1>1, <1>2, <1>3, <3>3 DEF PageOf
      <4> QED
        BY <1>2, <3>1, <4>1, ListingIs
    <3>5. b.row \in J
      BY <3>3, <3>4
    <3>6. b = [target |-> 1, page |-> 1, row |-> b.row]
      BY <3>2, <3>3
    <3> QED
      BY <3>5, <3>6
  <2> HIDE DEF f, J, B
  <2> QED
    BY <2>1
<1>11. IsFiniteSet(J) /\ Cardinality(J) \in Nat
  <2>1. J \subseteq 1..Len(site.entries[First])
    BY <1>4
  <2> DEFINE l == Len(site.entries[First])
  <2>2. l \in Nat /\ J \subseteq 1..l
    BY <1>4, <2>1
  <2> HIDE DEF J, l
  <2>3. IsFiniteSet(1..l)
    BY <2>2, FS_Interval
  <2> QED
    BY <2>2, <2>3, FS_Subset, FS_CardinalityType
<1>12. IsFiniteSet({f[j] : j \in J}) /\ Cardinality({f[j] : j \in J}) <= Cardinality(J)
  <2> HIDE DEF f, J
  <2> QED
    BY <1>9, <1>11, FS_Surjection
<1>13. IsFiniteSet(B) /\ Cardinality(B) <= Cardinality({f[j] : j \in J})
  <2> HIDE DEF f, J, B
  <2> QED
    BY <1>10, <1>12, FS_Subset
<1>14. Cardinality(B) \in Nat /\ Cardinality({f[j] : j \in J}) \in Nat
  <2> HIDE DEF f, J, B
  <2> QED
    BY <1>12, <1>13, FS_CardinalityType
<1>15. Rank(site, "own", at) = Cardinality(B)
  BY DEF Rank, Below
<1>16. Rank(site, "own", at) \in Nat /\ Rank(site, "own", at) < MaxItems
  <2> HIDE DEF f, J, B
  <2> QED
    BY <1>5, <1>11, <1>12, <1>13, <1>14, <1>15, SampleAssumption, MaxItemsAssumption
<1> QED
  BY <1>8, <1>16 DEF at

\* What was found acceptable, a run persists: of a source that passed, a crawl of its
\* own listing whose run is kept persists a record or could not reach the site, unless
\* its configuration is wrong where the verifier does not look (SourceVerifier.verify,
\* parse_source, IngestionPipeline.run, OperationsService._verdict).
THEOREM PassingComesTrue == VerifySpec => []PassPredictsIngestion
<1>1. IInv => PassPredictsIngestion
  <2> SUFFICES ASSUME IInv, Passes, stage = "kept", mode = "own", ~Unreadable(site)
               PROVE  Persisted # {} \/ RunVerdict = "UNREACHABLE"
    BY DEF PassPredictsIngestion
  <2>1. CrawlStands /\ ChecksStand /\ EvidenceStands /\ phase = "ended"
    BY DEF IInv
  <2>2. checks["parser"] = "PASSED"
    <3>1. Settled /\ ~Blocking
      BY <2>1 DEF Passes, Verdict, ChecksStand
    <3>2. checks["parser"] \in {"PASSED", "WARNING"}
      BY <3>1 DEF Settled, Required
    <3> QED
      BY <2>1, <3>2 DEF EvidenceStands, Unrecorded
  <2>3. /\ site.targets # <<>> /\ ParseFailure(site.kind, site, First) = NoError
        /\ \E i \in Sampled(TitledPlaces(site.kind, site, First)) : Acceptable(Listed(i))
    BY <2>1, <2>2 DEF EvidenceStands
  <2>4. PICK i \in Sampled(TitledPlaces(site.kind, site, First)) : Acceptable(Listed(i))
    BY <2>3
  <2> DEFINE at == [target |-> 1, page |-> 1, row |-> i]
             rank == Rank(site, "own", at)
  <2>5. site \in Sites /\ First = site.targets[1]
    BY <2>1, <2>3, FirstIsAPage DEF CrawlStands, TypeOK, CrawlTypeOK
  <2>6. /\ at \in Listing(site, "own") /\ ItemOf(site, "own", at) = Listed(i)
        /\ rank \in Nat /\ rank < MaxItems
    BY <2>3, <2>5, SampleComesFirst
  <2>7. at.target = 1 /\ at.page = 1
    OBVIOUS
  <2> HIDE DEF at, rank
  <2>8. Len(delivered) \in Nat /\ DOMAIN delivered = 1..Len(delivered)
    BY <2>1 DEF CrawlStands, StreamStands
  <2>9. CASE rank < Len(delivered)
    <3>1. Given(site, "own", delivered, 0, Len(delivered))
      BY <2>1 DEF CrawlStands, ProgressStands
    <3>2. Is(site, delivered[0 + rank + 1], Listed(i))
      BY <2>6, <2>8, <2>9, <3>1 DEF Given, rank
    <3>3. rank + 1 \in DOMAIN delivered /\ 0 + rank + 1 = rank + 1
      BY <2>6, <2>8, <2>9
    <3>4. Acceptable(delivered[rank + 1])
      <4>1. site.kind = "pdf" => [Listed(i) EXCEPT !.title = "plain"].title = "plain"
        BY DEF Listed, ItemAt, PdfItem, Item
      <4> QED
        BY <2>4, <3>2, <3>3, <4>1 DEF Is, Acceptable
    <3> QED
      BY <3>3, <3>4 DEF Persisted
  <2>10. CASE delivered = <<>> /\ \E e \in Failures : errors = <<e>>
    <3>1. PICK e \in Failures : errors = <<e>>
      BY <2>10
    <3>2. 1 \in DOMAIN errors /\ StageOf(errors[1]) = "FETCH"
      BY <3>1 DEF StageOf
    <3> QED
      BY <2>10, <3>2 DEF RunVerdict
  <2>11. \/ Len(delivered) >= MaxItems
         \/ rank < Len(delivered)
         \/ delivered = <<>> /\ \E e \in Failures : errors = <<e>>
    BY <2>1, <2>3, <2>5, <2>6, <2>7 DEF CrawlStands, EndStands, rank
  <2> QED
    BY <2>6, <2>8, <2>9, <2>10, <2>11, MaxItemsAssumption
<1> QED
  BY <1>1, Invariance, PTL

\* Of any target, a crawl reads no more pages than it may: max_pages of an HTML listing,
\* also when they link to each other in a ring, and one of any other (HTMLListingConnector.run).
THEOREM RingsEnd == VerifySpec => [](pages <= Reach(site, mode))
<1>1. ASSUME IInv
      PROVE  pages <= Reach(site, mode)
  <2>1. site \in Sites /\ pages \in 0..Reach(site, mode)
    BY <1>1 DEF IInv, CrawlStands, TypeOK, CrawlTypeOK
  <2>2. Reach(site, mode) \in Nat
    BY <2>1, ReachIsANumber
  <2> QED
    BY <2>1, <2>2
<1> QED
  BY <1>1, Invariance, PTL

\* The crawl implements the stream: its first state is an unread stream, and every
\* step opens the stream, gives one more item below the ceiling, ends it with at
\* most one error, or changes nothing the pipeline sees (parse_source).
THEOREM CrawlIsAStream == VerifySpec => Stream!Init /\ [][Stream!Next]_(Stream!vars)
<1>1. VerifyInit => Stream!Init
  <2> SUFFICES ASSUME VerifyInit
               PROVE  Stream!Init
    OBVIOUS
  <2>1. delivered = <<>> /\ errors = <<>> /\ stage = "preflight"
    BY DEF VerifyInit, Init
  <2>3. stage \notin Afterwards
    BY <2>1 DEF Afterwards
  <2>2. Len(delivered) = 0 /\ Len(errors) = 0
    BY <2>1, EmptySeq
  <2> QED
    BY <2>1, <2>2, <2>3 DEF Stream!Init
<1>2. IInv /\ [VerifyNext]_allVars => [Stream!Next]_(Stream!vars)
  <2> SUFFICES ASSUME IInv, [VerifyNext]_allVars
               PROVE  Stream!Next \/ UNCHANGED Stream!vars
    OBVIOUS
  <2>1. CASE UNCHANGED allVars
    BY <2>1 DEF allVars, vars, crawlVars, verifyVars, Stream!vars
  <2>2. CASE Verifies \/ Loads
    BY <2>2, VerifyLeavesTheCrawl, VerifyIsNoCrawl DEF crawlVars, Stream!vars
  <2>3. CASE StartCrawl
    <3>1. UNCHANGED crawlVars /\ stage \notin Afterwards /\ stage' \in Afterwards /\ phase # "ended"
      BY <2>3, VerifyLeavesTheCrawl DEF StartCrawl, Afterwards, IInv
    <3>2. Stream!Start
      BY <3>1 DEF crawlVars, Stream!Start
    <3> QED
      BY <3>2 DEF Stream!Next
  <2>4. CASE Crawls
    <3>1. stage \in Afterwards /\ stage' \in Afterwards
      BY <2>4 DEF Crawls, Afterwards, verifyVars
    <3>2. StreamStands
      BY DEF IInv, CrawlStands
    <3>3. CASE Between
      BY <3>1, <3>3 DEF Between, Stream!vars
    <3>4. CASE Gives
      <4>1. Stream!Deliver
        BY <3>1, <3>4 DEF Gives, Stream!Deliver
      <4> QED
        BY <4>1 DEF Stream!Next
    <3>5. CASE Ends
      <4>1. errors = <<>>
        BY <3>2, <3>5 DEF Ends, StreamStands
      <4>2. CASE errors' = <<>>
        <5>1. Stream!Finish
          BY <3>1, <3>5, <4>1, <4>2 DEF Ends, Stream!Finish
        <5> QED
          BY <5>1 DEF Stream!Next
      <4>3. CASE \E e : errors' = <<e>>
        <5>1. Len(errors') = 1
          BY <4>3
        <5>2. Stream!Fail
          BY <3>1, <3>5, <5>1 DEF Ends, Stream!Fail
        <5> QED
          BY <5>2 DEF Stream!Next
      <4> QED
        BY <3>5, <4>2, <4>3 DEF Ends
    <3> QED
      BY <2>4, <3>2, <3>3, <3>4, <3>5, CrawlMoves DEF Crawls
  <2>5. CASE CloseRun
    BY <2>5, VerifyLeavesTheCrawl DEF CloseRun, Afterwards, crawlVars, Stream!vars
  <2> QED
    BY <2>1, <2>2, <2>3, <2>4, <2>5 DEF VerifyNext
<1> QED
  BY <1>1, <1>2, Invariance, PTL DEF VerifySpec
=============================================================================
