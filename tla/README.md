# Tenderbase API: a TLA+ verification project

Tenderbase crawls the procurement pages of municipalities, normalises what it
finds into a catalogue of opportunities with a version history, and serves that
catalogue over an HTTP API. The parts of it that are hard to test are the ones
where several processes write the same rows through long transactions: a cron
tick and worker slots over PostgreSQL *and* Redis, overlapping crawls, operators
who verify and pause sources while they are being crawled. This project models
those parts in TLA+, checks them with TLC on small instances, and proves the
main results for every value of the constants with TLAPS.

All paths below are relative to `src/`, lines are those of the commit at hand.

## 1. The system

| Component | State it keeps | Operations | Talks to |
| --- | --- | --- | --- |
| **Work queue** (`app/workers/`) | `ingestion_jobs` rows; ARQ messages, tries and slots in Redis | cron `schedule_due_sources`; `ingest_source`; retry policy `decide_retry`/`defer_or_fail` | registry (what is due), pipeline (runs one source), ARQ |
| **Pipeline and catalogue** (`app/ingestion/pipeline.py`, `deduplicator.py`, `versioning.py`) | `procurement_opportunities`, `opportunity_versions`, document links | find a duplicate in four layers, create, update with a version, finalise a run | registry (health), connectors (items), PostgreSQL constraints and locks |
| **Source registry** (`app/ingestion/discovery.py`, `app/services/verification_service.py`, three scripts) | `municipality_sources`: lifecycle, scheduling switch, pause, verification, health | `find_due_sources`, `_update_health`, `verify`, `set_lifecycle`, `import_sources`, `run_ingestion --due` | work queue, pipeline, verifier |
| **Normaliser, validator, utilities** | none | references, dates, money, text, fingerprints, hashes | pipeline |
| **Documents** (`app/documents/`, `app/services/document_service.py`) | `documents`, `document_versions`, blobs keyed by content | download, store, extract, classify, cron `process_documents` | fetcher, blob store |
| **Source verifier** (`app/ingestion/verifier.py`) | none (a report) | a sequence of checks over one site | fetcher, connectors; its report goes to the registry |
| **Fetcher** (`app/ingestion/fetcher.py`) | per-host pacing, robots cache | fetch with retries and redirects | the network |
| **Connectors, parser** (`app/connectors/`, `app/ingestion/parser.py`) | none | list and parse pages, at most `max_items` | fetcher, pipeline |
| **API keys** (`app/services/api_key_service.py`) | `api_keys` | create, rotate, revoke, authenticate | API |
| **Rate limiting** (`app/services/rate_limit.py`) | Redis counters, an in-process fallback | check a bucket | API |
| **Read API, search, statistics** | none | queries over committed rows | PostgreSQL |
| Configuration, logging, metrics, AI provider, seed and report scripts | none that matters | | |

How they interact. The tick reads the registry, writes job rows and puts messages
into Redis *inside* its transaction. A worker slot takes a message, looks up
its row, and runs the pipeline: one transaction for the job row, the source's
health and every item of the run (`session_scope`, `app/db/session.py:66`).
The pipeline reads duplicates and writes them later; the health columns it
writes come from a source row that was loaded before the crawl. Operators load
the same source row, talk to the site for minutes, and write it back. ARQ
acknowledges or re-arms the message after the commit. Readers count, list and
summarise committed rows in separate statements; the API asks Redis and the key
table before it lets them. Every arrow of this
description is a place where another actor may step in.

### What makes each component correct

* *Work queue*: no row waits for a message that was never sent; the row and the
  message tell the same story about how a delivery ended; settled rows are
  final; every accepted message is finished; attempt counters never overcount.
* *Catalogue*: version histories without gaps or forks, which only grow, and rows
  that say what their histories say; a reference is never mixed up with another one;
  sources of different issuers never write each other's rows.
* *Registry*: only verified sources are activated, whatever stale copy of a row
  is written back; health matches the failure count; an operator's order takes
  effect as a whole.
* *Documents*: a content key names complete content; versions are numbered
  without gaps and a document names one of its own; no document waits for ever.
* *API keys, rate limiting*: a revoked or expired key stops working with the next
  request and for ever; a rotation never leaves two keys or none; a counter
  grants a client at most limit + burst requests in a window; no served request
  is counted twice or not at all.
* *Verifier*: a pass rests on evidence for every required check, and foretells
  that a run will persist something.
* *Fetcher, connectors, parser*: a host is contacted no faster than configured; a
  stream of items is bounded, ends, and reports a failure once and last; a run
  without an error has read every page.
* *Read API*: a walk over the pages of a quiet list is exact; cached numbers are
  not older than promised; a date means the same in whatever form it is written.

The behaviours that are hard: two stores without a common transaction, lost
acknowledgements, timeouts that cancel a task, redelivery; READ COMMITTED
transactions that overlap, unique constraints that fire late, row locks that
deadlock; stale copies of a row merged back column by column. `PROJECT.json`
lists each as a hazard at the line where it bites.

## 2. Modules

| Module | Models |
| --- | --- |
| `IngestionJobs` | The work queue: tick, rows, messages, executions, crashes and redelivery |
| `JobLedger` | Abstract specification of what a reader of `ingestion_jobs` may rely on; `IngestionJobs` implements it |
| `IngestionJobsProofs` | Inductive invariant, safety theorems and the refinement of `JobLedger` |
| `Catalogue` | Overlapping pipeline runs over the catalogue: deduplication, versions, constraints, locks |
| `TenderHistory` | Abstract specification of what a reader of the catalogue may rely on; `Catalogue` implements it |
| `CatalogueProofs` | Inductive invariant, safety theorems and the refinement of `TenderHistory` |
| `SourceRegistry` | Scheduler, workers, operators and manual batches over one `municipality_sources` row per source |
| `SourceRegistryProofs` | Inductive invariant and safety theorems of the registry |
| `DocumentStore` | Overlapping `process_documents` batches: pending documents, blobs, versions, text rows, row locks |
| `DocumentStoreProofs` | Inductive invariant and safety theorems of the document store |
| `Clock` | The windows of time that keys and rate limits share |
| `RateLimit` | Redis counters, the in-process fallback, start-up and restart of a replica |
| `ApiKeys` | `api_keys` rows and the operators' transactions over them |
| `ApiAccess` | A request through middleware, authentication, limit and usage audit; composes `RateLimit` and `ApiKeys` |
| `ApiAccessProofs` | Inductive invariant and safety theorems of limiter, keys and requests |
| `Fetcher` | One job's HTTP fetcher: URL policy, robots.txt, pacing, attempts, backoff |
| `Connectors` | Which entries of a page each connector makes items of, and which items, as pure operators |
| `Crawl` | The item stream of a connector and the loop that reads it; extends `Fetcher` and `Connectors` |
| `ItemStream` | Abstract specification of that stream; `Crawl` implements it |
| `CrawlProofs` | Lemmas about fetcher and crawl: what every step keeps, and that a clean run is complete |
| `Records` | What an item becomes: dates, status, acceptance, as pure operators |
| `Verifier` | `SourceVerifier.verify` and the run that may follow it; composes `Crawl` and `Records` |
| `VerifierProofs` | Inductive invariant of verifier, fetcher and crawl, their theorems; the refinement of `ItemStream` |
| `Reads` | Lists and statistics while tenders are ingested; extends `Records` |
| `ReadsProofs` | Inductive invariant and safety theorems of the read API |
| `MC...` | Small values of the constants and symmetry for TLC |

Operators named `X_Something` beside an operator `X` are the same operation with
a plausible programming mistake in it; with `X` replaced by it the property
listed under "mutants" in `PROJECT.json` fails. They are never used otherwise.

### IngestionJobs

A `JobId` stands for one row created by a tick together with the message sent
for it. `tick[t]` is an open `schedule_due_sources` transaction (`app/workers/
tasks.py:144-176`): the sources it still has to do and the rows it has flushed
but not committed. `jobs` are committed rows, `strays` rows that
`ingest_source` made itself because it could not see the scheduler's
(`tasks.py:78-88`), `msg` is ARQ's view of the message.

| Action | Code |
| --- | --- |
| `BecomeDue` | time passes (`discovery.py:91-110`) |
| `TickBegin`, `TickOffer`, `TickOfferFails` | the loop of the tick: flush the row, then enqueue; an enqueue that raises marks the row FAILED, although Redis may have taken the message |
| `TickCommit`, `TickAbort` | the end of the scope; a rollback takes the rows, not the messages |
| `Pick` | ARQ counts the try and drops a message without tries left |
| `LoadJob`, `RunSucceeds`, `RunFails`, `RunCrashes` | `ingest_source` up to its commit, with `decide_retry` and `defer_or_fail` |
| `Acknowledge`, `ExecutionLost`, `WorkerStops` | ARQ's side: finish, `job_timeout`, worker death and redelivery |

RUNNING is not a committed status: it is written and overwritten inside the
worker's own transaction. The delay before a retry is left out (it only orders
`Pick` in time). `CANCELLED` is never written by any code.

### Catalogue

A run (`pipeline.py:106-173`) is one READ COMMITTED transaction. `Decide` is the
look-up of one item: the four layers of `Deduplicator.find_duplicate` on what
the statement sees (committed rows and the run's own). `Apply` is the flush of
the decision: it waits for row locks (`WaitsFor`), fails on a unique constraint
(`FlushFails`), or writes only the columns that differ from the snapshot the
session loaded (`Flushed`). `Commit` publishes all rows of the run. Two runs
that wait for each other lose one of them (`DeadlockVictim`). After a failed
flush the session is unusable and the per-item handler itself fails, so the run
ends `poisoned` and `Crash` is `ingest_source` rolling back.

A record is what the normaliser hands on: reference, external id, title,
closing day, text and documents; the normal form of a reference, the fingerprint
and the content hash are functions of it. A reference may have no normal form ("-"
has none): `NormRef` gives `None` for it, and `RefKey` is the form that hashes and
snapshots use instead, the normal form or the raw reference. A version is its number and
the `Snapshot` that the code stores: `RefKey`, title, closing day, text and documents,
not the address, which stands for the three tracked columns that
`hashable_payload` leaves out. Text similarity is a table of three
classes. Two approximations: the session re-reads a row when a query finds it
again, and it holds no row across items (SQLAlchemy's identity map is weak and
the pipeline keeps no reference). Contacts, events and categories are left out.

### SourceRegistry

Four kinds of actors write a source row: worker sessions (`_update_health`,
`pipeline.py:538`), operators (`verification_service.py`, `import_sources.py`),
manual batches (`run_ingestion.py`) and nobody else; the scheduler only reads it.
A `session` remembers the row it loaded (`mine`), the columns it will write
(`dirty`), the order it carries out and whether another session committed that
row meanwhile (`raced`, a history variable). `Written` is SQLAlchemy's UPDATE: it
names only the columns whose value changed in memory. `Granted` is PostgreSQL's
lock of a row with an uncommitted UPDATE.

| Action | Code |
| --- | --- |
| `Tick`, `TimePasses` | `find_due_sources` with its LIMIT before the filter, and the clock |
| `Load`, `FinishRun` | a worker's run, from `session.get` to the commit of its health |
| `Load`, `Record`, `SetLifecycle`, `Commit`, `ImportDefinition` | the operator's commands (`scripts/verify_source.py`, `scripts/import_sources.py`) |
| `CopyOut`, `Merge`, `StartRun`, `FinishRun` | `scripts/run_ingestion.py`: copies detached in one session, merged into a later one |
| `Rollback` | the other end of `session_scope` |

`PASSED` stands for `PASSED_WITH_WARNINGS` as well. Rows start as
`import_sources` registers them. Response-time averages and free-text columns are
left out. `age` counts whole crawl intervals.

### DocumentStore

A batch is one execution of `process_documents` (`app/workers/tasks.py:179-201`): one
transaction over the oldest pending documents, and writes into a blob volume
that no transaction protects. Nothing keeps the tick of five minutes later from
starting while a batch is open, in this worker or in another one. `docs` are
committed documents with their versions and text row, `own[b]` the rows batch `b`
has flushed (and therefore locked), `failed` the errors it only has in memory,
`blobs` the state of each content key, `broken` a history of writes that broke off.

| Action | Code |
| --- | --- |
| `Begin`, `NothingPending` | `pending_downloads(limit)`: neither downloaded nor failed, oldest first |
| `DownloadFails`, `Download` | `DocumentDownloader.download` up to `storage.exists`; any exception becomes `download_error` in memory |
| `OpenBlob`, `CloseBlob`, `BreakBlob` | `open_write` truncates the file in place, the loop fills it; a full volume is an exception like any other |
| `LookUp` | the queries of `download_document` and `_extract_text`, which reads the blob back |
| `Wait`, `FlushError`, `Flush`, `FlushFails` | `session.flush()` at the end of a document or of the scope: sessions do not autoflush, so errors of earlier documents are written with the next success, row by row in the order of primary keys |
| `DeadlockVictim`, `Commit`, `Lost` | PostgreSQL ends a circle of waits; `session_scope`; `job_timeout` or a dead worker |

`Flushed` writes only columns whose value differs from the loaded one. Any database
error at the flush ends the batch (`FlushFails`): a unique violation (same content
twice, or two first text rows), or values the database does not take whenever they are
written, such as an ETag or a file name that is too long (`Refuses`; `Refused` are the
downloads it happens to). The handler at `tasks.py:195` then reads `document.id` of a
session that was rolled back.
Contents stand for digest and format together. What is extracted from a partial
blob is "torn". When two writers of one key overlap, the later one to close may
leave a hole, so `CloseBlob` may leave the blob partial then. `Key` and `Rank`
are independent orders, as random primary keys and creation times are.

### Clock, RateLimit, ApiKeys, ApiAccess

Time is counted in windows of the limiter (`WINDOW_SECONDS`), which is all that
counters and expiry need. `hits` are Redis' counters of the current window,
`local[r]` a replica's `OrderedDict` in its order, `primary[r]` what
`build_limiter` decided at start-up, `grants` a history of what each counter
allowed since it was last lost. `keys` are committed rows, `lockOf` the session
that has flushed a row, `tx` an operator's transaction, `request[c]` a request
between two awaits.

| Action | Code |
| --- | --- |
| `StartReplica`, `StopReplica`/`Stop` | `build_limiter` with its PING; the process and its open requests end |
| `Arrive`, `Route` | the middleware: areas it leaves to `api_access`, the others limited on the spot (`app/api/middleware.py`) |
| `Verify`, `Expire` | `api_key_service.verify`; the mark of an expired key is flushed and rolled back with the exception |
| `Call`, `RedisAnswers`, `RedisIsSilent`, `NoPrimary` | `ResilientRateLimiter.check`: the window is read before the call; a lost answer may have been counted; the fallback, or 503 |
| `Touch`, `CommitTouch`, `TouchFails` | the usage audit in a transaction of the request |
| `Create`, `Revoke`, `Rotate`, `FlushRevocation`, `CommitKeys`, `RollBackKeys` | `scripts/manage_api_keys.py`, `app/api/v1/routes/api_keys.py` |
| `RedisDrops`, `NextWindow` | eviction or loss of a counter; time |

The middleware's own list of areas (`LeftToAuth`) and the table of `api_access`
(`RequiredScope`) are two definitions, as they are two tables in the code. Left
out: headers, the address a client is known by (all callers share one), listing.

### Fetcher, Connectors, Crawl, ItemStream

`call` is the one request a fetcher has in progress; `wait[h]` is the pacing of a
host as the fetcher remembers it, `since[h]` a history of the real distance
between attempts. `Begin`, `CheckRobots`, `Acquire`, `Attempt`, `BackOff`, `Free`
follow `HTTPFetcher.fetch`; every answer of a server is possible each time. `Redirect`
is a hop that the HTTP client below the fetcher makes by itself, to any host and without
the limiter; `hops` are those of the attempt. What
a policy or a server says about a URL is an outcome.

`site` is one configured source and what its pages hold, chosen in the initial
state. `Crawl` reads it: `mode` tells the connector's own listing from
the HTML listing that a WordPress connector falls back to, `phase` and `rows` are
the place of the generator, `delivered` and `errors` what the pipeline got.
An item is named by the place of its entry on the page: `rows` is the set of places
that are still to be handled, lowest first, as the generator's loop takes them.
`Connectors` says what each of the five readers (HTML, WordPress, JSON, PDF links,
OCDS) makes of an entry: which title it takes, which links it keeps, which link
ends the parse and with which error. Selectors, field paths and texts are not
looked into. `ItemStream` is what the pipeline may rely on; its refinement
mapping counts items and errors. `Reach` is the number of pages
that a target may take: `max_pages` of an HTML listing, which may be 0, and one for every
other reader, OCDS packages included. `invalid` are the settings of an HTML listing that
raise when they are used: a `max_pages` that is no number, a next or a detail selector
that is no CSS; the latter raises outside the `try` of the detail page, so it ends
the crawl (`ReceiveDetail`). `Listing` and `Rank` say, from the site alone, which
places are within reach of the configured targets and how many come before a place;
`CleanRunIsComplete` compares what was delivered with them.

### Verifier

`stage` is the place in `verify`, `checks` the result of the ten checks, with
"none" for one that was not recorded, since `verify` tells that apart from a
failure and the verdict does not. `Preflight`, `FetchListing`, `ListingArrives`,
`DetailArrives` and `Conclude` are its phases; `NoBrowser` and `ListingFails` the
early ends. `StartCrawl` is a later job with a fetcher of its own. `CloseRun` is the end of its
transaction: the run is "kept", or "lost" because a database error at some record
poisoned the session, and then nothing is persisted. `Succeeded`,
`StageOf` and `RunVerdict` are `pipeline._finalise`, `_stage_for` and
`OperationsService._verdict`. A site does not change between the two, so that a
difference between verification and run is the code's.

### Records, Reads

`Records` turns a date text into an instant as `dates.py` does, format by format,
and an item into status, quality and acceptance as `Normalizer` and `Validator`
do. `Reads` stores such rows by `Ingest`, lets a client walk a list (`CountRows` and
`ReadPage` are the two statements of one page) and lets requests compute the
statistics (`BeginCompute`, `EndCompute`). `calm` says that nothing was committed
during the walk. Instants are minutes; PostgreSQL's order of equal keys is any
order (`Orders`). Search ranking and other filters only select.

## 3. Checks

| Run | Question | Bounds, and why they are enough |
| --- | --- | --- |
| `jobs` | Do rows and messages agree under every failure? Does the queue implement the ledger? | 2 ids, 2 sources, 2 overlapping ticks, 2 tries, 2 slots: two ticks may open at once, a worker may overtake the tick that feeds it, and a last try exists after a first. Symmetric in ids, sources and ticks. 1.4 million states |
| `jobs_live` | Is every message finished, every readable QUEUED row worked on? | 2 ids, 1 source, 1 tick, 1 slot, fairness, no symmetry |
| `catalogue` | Do overlapping runs keep histories, references and issuers straight? Does the catalogue implement `TenderHistory`? | 2 rows, 2 runs, 3 sources (two of one municipality, one of none), 5 records chosen to meet every layer, one of them with a reference without normal form, 2 items per run, 2 versions. A race for a version needs two runs and one existing row; a deadlock two runs and two rows. 306,000 states |
| `sources` | Do health, activation and orders survive overlaps? | 1 source, 2 workers, 1 operator, the code's thresholds (4 and 10) with failures counted to 10, 2 intervals |
| `sources_manual` | The same with a batch writing old copies back | 1 source, 1 operator, 1 batch, thresholds 2 and 3 |
| `documents` | Do overlapping batches keep versions and blobs straight, and does the backlog drain? | 2 documents, 2 batches, 2 contents of which one is served at both URLs, keys in the opposite order of ages, 1 lost batch, one download that the database refuses. Two of each give every conflict (same content, first text row), the deadlock and two writers of one key; fairness, 301,000 states |
| `access` | Does a budget hold per counter, is a dead key ever served, is each request counted once? | 1 caller that makes request after request, 1 operator, 1 replica that restarts, 2 keys (one presented, one its successor), a budget of 1, room for 1 local counter, 2 windows, one protected and one public area, both deployment switches. With room for one counter two buckets evict each other; a late answer needs two windows; a revocation overtakes a request at every await. 2.6 million states |
| `verify` | Does a pass rest on evidence and foretell records; are streams bounded, complete and paced? | 89 sites (`MCVerifier`) of 2 listing pages, 1 detail page and 1 foreign page: all five readers, pages linking to each other, links that cannot be used, broken payloads, blank pages, invalid settings, no pages at all, fallbacks. 3 items at most, 1 retry and 1 redirect, so that the ceiling, the last attempt and the sample of 2 are all reached. A gap of 1 tick suffices, since pacing compares with its lower end. 550,000 states |
| `reads` | Is a quiet walk exact, and are served statistics recent? | 3 tenders, pages of 1, 4 kinds of item (with and without dates, cancelled), 3 commits, 2 statistics requests, 1 day in steps of 12 hours, the TTL one step. Three rows are needed for a tie next to a NULL; two computations overtake each other. 1.9 million states |
| `jobs_one_row`, `sources_pause`, `reads_closing` | What a document, comment or test says and the code does not do | each the smallest instance that shows it |

`MaxTries`, `MaxItems`, `MaxVersion`, `MaxFailures`, `MaxAge` and `MaxLosses` bound counters;
`MaxTime`, `MaxNow` and `MaxWrites` bound clocks and commits; `MaxItems`, `Sample`,
`MaxRetries`, `MaxRedirects`, `MaxEntries` and `PageSize` are settings of the code. `JobIds`, `Ids`
and `Keys` bound what may be created. At its bound an action is
disabled, nothing wraps. Registry sources never interact except in the
scheduler's window, so one source is enough.
Deadlock is checked except in `access`, `verify` and the configurations beside it, `reads` and `reads_closing`, where
the system may really stop: a verification or a crawl is over once and for all,
and a client need not ask again when the bounded clock has run out.

### Fairness

Three runs assume any. In `jobs_live` (`Fairness` in `IngestionJobs`): `WF(Execution(j))`: a
worker process that runs a task goes on with it or is stopped; asyncio does not
forget a task, and ARQ's `job_timeout` ends one that hangs. `SF(Pick(j))`: ARQ
serves messages oldest first and a stopped worker is restarted, so a ready
message is not passed over for ever although slots are taken in between. Weak
fairness of the tick's loop and commit: the loop is over a bounded list. Nothing
is assumed of time, of ticks being started, of runs succeeding, of crashes
stopping, or of the cron.

In `documents`: `WF(Work(b))` for every batch. The cron starts a batch every five
minutes, a worker goes on with its task, PostgreSQL detects deadlocks. That
PostgreSQL hands a released row to a transaction that waits for it, and not to
one that comes later, is not an assumption of fairness but part of the model
(`Wait`, `Free`); without it two batches could keep each other from committing for
ever. Losses are bounded by `MaxLosses`: a batch that times out every time drains
nothing. `BacklogDrains` has a premise as well: from some time on, no batch has a refused
download in hand. Without it the property fails, which `FailuresAreRecorded` shows below.

In `verify` (`Fairness` in `Verifier`): weak fairness of the verifier's own steps, of
its fetcher, and of a crawl's reading and fetching. Every await in them ends: HTTP
calls carry timeouts, sleeps are finite, and asyncio resumes what is ready. It is
not assumed that a request succeeds, that a crawl ever starts, or that robots.txt
is read again. The other properties are safety and need none.

### Disagreements found while modelling

Each is a run that TLC ends with a counterexample, and a finding with the quoted
line in `PROJECT.json`.

* `jobs_one_row`: the message is sent before its row is committed; a free worker
  does not find the row and creates another. Once the tick commits, the message has two
  rows, and the scheduler's says QUEUED although its message was executed.
* `sources_pause`: a manual batch lifts a pause that was set after it made its copies.
* `reads_closing`: a closing date published as 2026-09-15 is taken for the first
  minute of that day, although "23:59:59 local" is promised (`dates.py:251-256`)
  and kept for every other format.

Seven more claims are stated as formulas of the models, each with a configuration with
which TLC refutes it in less than a minute. They are not among the runs: nothing rests on
them, and the passing properties beside them say what is left of each claim.

| Claim | Formula, refuted with | What the code does | What holds instead |
| --- | --- | --- | --- |
| ingest_source "must record *why* it gave up" (`tasks.py:11-12`) | `GivingUpIsRecorded`, `IngestionJobsGivenUp.cfg` (`MCIngestionJobs`) | a timeout or a crash on the last try leaves the row QUEUED or RETRYING for ever | `RecordMatchesQueue`: outcomes that the task decides itself are recorded |
| a version stores "the full snapshot" (`docs/INGESTION.md:68`) | `SnapshotsAreFull`, `CatalogueSnapshots.cfg` (`MCCatalogue`) | it leaves out `submission_address`, `briefing_compulsory`, `canonical_url` and the spelling of the reference (`tender.py:251-271`) | `HistoryIsComplete` for the fields that snapshots hold |
| references are "stored as published *and* normalized" (`docs/INGESTION.md:36`) | `NormIsOfTheReference`, `CatalogueNorm.cfg` (`MCCatalogue`) | an item published with "-" that merges by its content replaces the reference and leaves the normal form of the old one (`text.py:98-104`, `deduplicator.py:127-129`, `versioning.py:95`) | `ReferenceMatchesNorm`: where the reference has a normal form, it is that one |
| "Failures never raise into the caller" (`docs/DOCUMENTS.md:44`) | `FailuresAreRecorded`, `DocumentStoreRefused.cfg` (`MCDocumentStore`) | a header or file name that is too long for its column raises out of the batch and leaves no error; the next batch starts with the same document (`tasks.py:195`) | `BacklogDrains` once no batch meets such a download |
| "every host is rate-limited" (`docs/SECURITY.md:17`) | `EveryRequestIsPaced`, `VerifierPace.cfg` (`MCVerifier`) | the hops of a redirect (`fetcher.py:159`, `298`) and the reading of robots.txt (`fetcher.py:99`) do not ask the limiter | `AttemptsArePaced` |
| `next_link_path` and `max_pages` of OCDS packages (`docs/CONNECTORS.md:125-126`, `etender.py:106-107`) | `PackagesAreFollowed`, `VerifierPackages.cfg` (`MCVerifier`) | nothing reads them: a clean run has read the first package only | `CleanRunIsComplete` up to what a reader follows |
| can a "configuration be turned into records" (`docs/INGESTION.md:106-107`) | `PassedConfigurationsYield`, `VerifierUnlooked.cfg` (`MCVerifier`) | a source passes whose run reads no page (`max_pages: 0`, `html.py:211`) or ends at its first detail page (an invalid selector, `html.py:252-271`) | `PassPredictsIngestion`, for configurations that can be read |

Others were met without a formula. They follow from the models or from reading:

*Registry.* `SourceLifecycle.schedulable` (`enums.py:306`) includes VERIFIED, so a source is
scheduled without being activated, against `docs/DATABASE.md:43`.
`find_due_sources` applies its LIMIT before it filters (`discovery.py:64`; `Offers`
models it), so many rows that are not due can hide one that is.

*Pipeline.* "Per-item isolation is absolute" (`docs/INGESTION.md:24`): one unique
violation poisons the session that all items of a run share (`pipeline.py:147`), and
one broken link in a WordPress or JSON record ends the whole crawl, because
`normalize_url` is called outside the `try` (`http.py:128-130`, `wordpress.py:148`).
`run_source` "always returns a persisted SourceRun" (`pipeline.py:116-117`), but after
such a violation it is rolled back with everything else (`CloseRun`).
The fuzzy layer merges tenders with different published references when the stored
row learnt its reference by an update (`deduplicator.py:259-264`). Events of a
document that disappears alone are never written (`versioning.py:123`). The review
queue says that an empty list means nothing is pending, but its LIMIT comes before its filter and the notes it looks for are overwritten by the
next update (`pipeline.py:219-220`, `360-361`).

*Documents.* "calling it permanent forfeits the retry" (`fetcher.py:388-390`): one
transient failure of a download is recorded like a permanent one, and a document
with an error is never offered again (`document_service.py:71`). A document can be
both downloaded and failed (`downloader.py:218`).

*API.* A replica that starts while Redis is down never asks it again, although
`rate_limit.py:305` speaks of "503 until Redis returns". A usage audit that fails
rolls back and expires the key's attributes, so the access log fails after it
(`TouchFails`). The command line prints a new key before the commit that makes it
valid, and two rotations of one key at the same time leave two successors. The
middleware counts by `client.host`, `api_access` by `X-Forwarded-For`.
`docs/API.md:109` promises that pages never overlap or skip rows; that holds while
nothing is committed (`QuietWalksAreExact`), not for offsets over a table that
changes. A poll for events since an instant misses what commits late. The counts
of one statistics answer come from different snapshots, and an older answer may
replace a newer one for the rest of its TTL.

*Crawling and verifying.* Pacing is per fetcher: the docstring says that jobs share
it, but every job makes its own. A failing
target ends the run, although `base.py:203-204` and `docs/CONNECTORS.md:154` say
that other targets are tried. A WordPress connector that falls back after it
delivered items delivers both listings. A detail page that raises counts as not
fetched, so one success and one exception are PASSED. The warning about pagination
is wrong for listings whose next links are followed. A run that a fetch error cuts short after its first item is reported
HEALTHY, and one whose parse failed is "answered but published no items". A date
such as 15-09-2026 is read with the offset -20:26 by the ISO fast path, and the
comment "Tolerate month-first" is followed by a branch that yields nothing.

## 4. Proofs

The eight `...Proofs` modules hold for any sets of actors, finite or infinite, any
sources, sites, records and items, and any bounds that satisfy the assumptions named
in the modules. TLC evaluates each of them on the instances. They say what the code
or its database guarantee:

* bounds are naturals, and positive where the code divides or loops by them; shortest
  interval, ceilings and sample are in their order; health thresholds as well;
* names that stand for "nothing" (`NoSource`, `None`, `NoKey`, `Redis` among the
  replicas) are none of the things they are told apart from, and the kinds of
  sessions are disjoint;
* contents are finitely many and at least one (`DocumentStore`); rows are finitely
  many and have numbers for keys, and days, times and offsets of items are numbers
  (`Reads`); every kind of key grants something, and there is a bucket for every key
  that is presented and one for the client (`ApiAccess`);
* the mark for "no URL" is no URL (`Fetcher`); a site's kind is one of the five
  readers, its `max_pages` is a natural number, 0 included, and its targets, next links and entries are
  of the URLs that the fetcher knows (`Crawl`). How many pages there are, how they
  link to each other, and how long they are is left open.

| Theorem | Says |
| --- | --- |
| `IngestionJobsProofs!TypeCorrect` | `Spec => []TypeOK` |
| `QueuedRowsAreIssued`, `RecordAgrees`, `AttemptsAreBounded` | `Spec => []...` of the invariants of run `jobs` |
| `SettledRowsAreFinal` | the action property of run `jobs` |
| `QueueImplementsLedger` | `Spec => LedgerSpec`: initial states map to initial states, every step to a step of the ledger or a stutter |
| `CatalogueProofs!TypeCorrect` | `Spec => []TypeOK` |
| `HistoriesAreComplete`, `ReferencesMatch` | `Spec => []...` of the invariants of run `catalogue` |
| `IssuersStayApart` | its action property |
| `CatalogueIsAHistory` | `Spec => HistorySpec`: a commit maps to a publication, every other step to a stutter |
| `SourceRegistryProofs!TypeCorrect` | `Spec => []TypeOK` |
| `ActivationRestsOnAPass` | `Spec => []ActiveWasVerified` |
| `HealthFollowsFailures`, `OrdersAreCarriedOut` | the action properties of run `sources` |
| `DocumentStoreProofs!TypeCorrect` | `Spec => []TypeOK`; it bounds version numbers by the number of contents |
| `DocumentsNameTheirVersions`, `DownloadedBlobsAreWhole` | `Spec => []...` of the invariants of run `documents` |
| `ApiAccessProofs!TypeCorrect` | `Spec => []TypeOK` |
| `BudgetsHold`, `FallbackStaysBounded`, `RevocationTakesEffect`, `ChargedOnce`, `RotationsAreAtomic` | `Spec => []...` of the invariants of run `access` |
| `RevocationIsFinal` | its action property |
| `VerificationTypes` | `VerifySpec => []TypeOK` |
| `CleanRunsAreComplete` | `VerifySpec => []CleanRunIsComplete` |
| `PassingComesTrue` | `VerifySpec => []PassPredictsIngestion` |
| `PassesRestOnEvidence` | `VerifySpec => []PassingIsEvidenced` |
| `HostsAreSpared` | the action property `AttemptsArePaced` of run `verify` |
| `CrawlIsAStream` | `VerifySpec => Stream!Init /\ [][Stream!Next]_(Stream!vars)`: the safety part of `StreamSpec` |
| `RingsEnd` | `VerifySpec => [](pages <= Reach(site, mode))`, which is a part of `Crawl`'s `TypeOK` |
| `WalksAreExact`, `ServedCountsAreRecent` | `Spec => []...` of the invariants of run `reads` |

In every module `Invariance` (`AlwaysIInv` in the proofs of the queue and of the
registry) is the theorem that `IInv` holds always; `IInv` is
defined at the end of the component's module, and TLC checked it as an invariant
of the runs before it was proved.

**Work queue.** The promises are not inductive: that a settled row stays settled
needs to know that its message is spent, which needs to know that tries are
counted before they run, that a row made by a try belongs to that try, and that
a row staged by an open tick is visible to nobody. `IInv` is the conjunction of
`TypeOK`, these facts (`FreshIdsAreUnused`, `StagedRowsArePrivate`,
`TriesAreBudgeted`, `LoadedRowsAreVisible`, `StraysArePastTries`,
`SettledRowsAreSpent`) and the promises themselves. The proof has a lemma per
kind of step.

**Catalogue.** A run looks a tender up, decides, and writes under a lock it takes
later; in between others commit. `ChoicesStand` says what of a decision is still
true: the row it merges into existed when the run looked, its version and versions
can only have grown since and its reference and source are the same (`Follows`), and a row
it creates is nobody else's. `HeldRowsFollow` says of a locked row that it grew
out of the committed one. From both, `FlushedIsSound` gets the central fact: the
flush of changed columns leaves a complete history and a matching reference,
or the version it writes is taken and the unique constraint ends the run.
`LocksExclude` carries this over to `Commit`. Steps are of three kinds
(`DecisionKeeps`, `ApplyKeeps`, `EndKeeps`).

`TenderHistory` has no runs, locks, columns or version numbers: histories that grow,
and a text that is computed from them. The mapping makes a row's set of numbered
versions a sequence (`History`). It is one because no number is used twice
(`OneOfEach`: as many versions as numbers); what the sequence tells is what the row
says (`ShownIsTold`), because `Sound` claims every value that snapshots hold for the last
version that knew it; it only grows (`HistoryGrows`), and no step but `Commit` changes it
(`CommitPublishes`).

**Registry.** `ActiveWasVerified` is about stale copies, so `IInv` says what a
copy may claim: a pass in memory is on record or is going to be written with the
same UPDATE, and a lifecycle ACTIVE in memory rests on such a pass
(`CopiesAreBacked`). With it, the row any session writes is ACTIVE for a reason,
even if only its lifecycle column is written. `UnracedIsCurrent` (a session that
nobody overtook differs from the row only in the columns it will write) gives
the two action properties. A step either changes one session or commits one row;
the two lemmas `SessionStepKeeps` and `CommitKeeps` do the work once.

**Documents.** A batch reads versions, and flushes a number computed from them
later. `DecisionsStand` says that what it read can only have grown: if it read
1..k, it flushes k + 1, and the row it finds under its lock has 1..n with n >= k,
or it conflicts. `FlushedIsSound` turns that into 1..max(n, k + 1), and counting
contents (`KnownAreFinite`) bounds it. `RowsAreSound` claims the same of rows that
are flushed but not committed, `LocksExclude` keeps a row with one batch until it
commits, `KeysExist` and `PartialBlobsAreExplained` are about the volume. Every
action is an instance of one of three lemmas (`WorkKeeps`, `RowKeeps`, `EndKeeps`).

**API access.** Three parts, each about the state of one component.
`CountersAgree`: what Redis granted it has counted, and what a replica granted in
this window is covered by an entry it still has. That is why an entry that is
evicted must take its grants with it, and why the entry of an old window is
renewed where it stands. `TransactionsStand`: the key an
open transaction inserts is nobody else's, and a successor goes with the
revocation of the key it replaces. `RequestsStand`: what `verify` established of a
key is still true at every later await, because keys only get older (`Ages`): a key
that could not serve when a request began will not serve later. The composition
needs one lemma of its own, `AreasSplit`: the middleware's list and the table of
`api_access` are the same areas.

**Fetcher and crawl** (`CrawlProofs`). `PaceHolds` is about the fetcher: the time
since the last attempt at a host and the time still to wait add up to the shortest interval
at least. It is proved once for the fetcher's steps and for whoever calls or frees
it (`Paced`), so it covers pages, detail pages, retries and the verifier alike. For
the refinement, `CrawlMoves` sorts the steps of a crawl into those between items, those
that give one, and the last one; `StreamStands` says that a stream that goes on has
reported nothing. `PagesStand` bounds the pages of a target.

That a clean run is complete is about data and control at once. A place of the
listing has a rank, the number of places before it; ranks grow with the order of
reading and stay below the size of the listing (`RanksRise`, `RanksBelow`).
`PlaceStands` says where the crawl is on the site: its page is the next one on the
trail of links from the target it visits, and the rows it has handled come before
those it has not. Hence what is behind a crawl is an initial part of the listing
(`BehindAreFirst`), and the place it handles next has the number of items delivered
so far as its rank (`DeliveredSoFar`, `NextIsGiven`). `ProgressStands` says that the
items delivered are those of the places behind it, after what a REST API gave before
the fallback. When a target is left, nothing of it is ahead (`TrailEnds`: after a
page without a next link, or after `Reach` pages, a trail holds no page). `EndStands`
says what may keep the first page from being delivered; a configuration that is
`Unreadable` is one such reason. Trails are functions defined
by recursion, and the induction theorems of the library cannot be instantiated;
`InductionTo` derives induction over a bounded interval from the least element of a
set of exceptions (`MinIsLeast`), which is enough, since trails are bounded by
`Reach`. That listings are finite, which their ranks need, is `ListingIsFinite`.

**Verifier.** `IInv` of `Verifier` is `CrawlStands` with what the verifier adds. `ChecksStand`
says that from the end of the listing on the required checks are settled: one failed
or all were carried out; this is what a verdict that ignores missing checks rests
on. `EvidenceStands` says what the result of the parser check was read off: if it passed, the
page of the first target parses and one of the sampled items on it is acceptable.
`PassPredictsIngestion` joins both for a run that is kept and a configuration that can
be read: the crawl reads the same page first
(`EndStands`), so that it delivers the items of the sample (`SampleComesFirst`), of
which one was accepted, or it ends with one of the errors that the property
excepts.

**Reads.** The pages of a walk are sorted by separate statements, so the walk is
exact only if a list has one order. `OneOrder` proves that: two orders of the same
rows that differ have a first difference, at which each puts a row before the
other's, and `BeforeIsAsymmetric` excludes it because of the tiebreaker. With it,
`WalkStands` says that a calm walk has received the first pages of that order;
`NextPageIsBeyond` (has_next against rounding up) and `PageFollows` do the
arithmetic. `CacheStands` says that an entry expires one TTL after its counts
were first read.

### Only model-checked

* Liveness: `EveryMessageFinishes`, `QueuedRowsAreTried`,
  `BacklogDrains`, `VerificationEnds` and the end that `StreamSpec` promises. The
  prover handles neither fairness nor ENABLED.
* The instances in which a finding shows up.

## 5. Plan

In order of importance; what is done comes first.

1. `IngestionJobs`, `JobLedger`: the queue, its ledger, liveness, proofs. Done.
2. `Catalogue`, `TenderHistory`: overlapping runs, what readers may rely on, proofs. Done.
3. `SourceRegistry`: all writers of a source row, proofs. Done.
4. `DocumentStore`: overlapping `process_documents` batches, proofs. Done.
5. `RateLimit`, `ApiKeys`, `ApiAccess`: requests, limits, key life cycle, proofs. Done.
6. `Fetcher`, `Connectors`, `Crawl`, `ItemStream`, `Verifier`: reading and verifying a
   site, proofs. Done.
7. `Records`, `Reads`: dates, status, lists and statistics, proofs. Done.

What could follow, in this order: the events that a change of a tender leaves behind;
money parsing and search ranking against reference definitions. `DocumentStore` has
no counterpart of `TenderHistory`: two batches may give one number to two contents of
a document, since the constraint is on contents, so its versions are no sequence.

Each question has one run, with the fewest actors that can disagree about it.

## 6. Not modelled, and why

OCR, the text of a PDF, document classification and the AI provider compute pure
functions of external input. Search ranking, geography, categories and look-ups by key are
single reads of committed rows. Selectors and field paths of a site, text
cleaning, money and contacts are translations of a page without state; `Connectors`
and `Records` keep what decides whether an item exists, is accepted, and when it
closes. A release whose document link has credentials is left out of `Connectors`. Of the browser
connector only its absence is modelled (`NoBrowser`): a page that a browser renders goes
past the fetcher. `RATE_LIMIT` switched off (`rate_limit_enabled`) makes the limiter a
constant and is left out, as are redirects of robots.txt itself.
The events and contacts of a tender, `monitor_source_health` (it logs) and the delays
between tries are left out of the modules they belong to. Logging, metrics,
configuration, engine set-up and the running of migrations have no protocol; the
defaults and constraints that migrations create are in the initial states and
flushes. Seed and report scripts are sequential one-shot programs.

External behaviour (PostgreSQL locks and constraints, SQLAlchemy's changed-column
UPDATE, ARQ's tries and redelivery, Redis' counters, HTTP servers) is modelled
from how the code uses it and marked external in the map.
