----------------------------- MODULE Catalogue -----------------------------
(***************************************************************************)
(* The catalogue of procurement opportunities and the ingestion runs that  *)
(* write it.  A run is one database transaction (READ COMMITTED): for each *)
(* item of the source it looks for a duplicate in four layers, then flushes*)
(* an insert or a versioned update, and commits everything at its end.     *)
(* Runs overlap: two sources may share a municipality, and one source may  *)
(* have two runs open (IngestionJobs).  PostgreSQL contributes row locks   *)
(* and unique constraints, SQLAlchemy the stale snapshot between a SELECT  *)
(* and its flush and the rule that only changed columns are written.       *)
(***************************************************************************)
EXTENDS Integers, FiniteSets

CONSTANTS
    Ids,          \* supply of procurement_opportunities ids (a bound)
    Runs,         \* pipeline runs that may be open at once
    Sources,      \* municipality_sources
    Muni,         \* municipality_id of every source, None for a wider scope
    Records,      \* what a source may publish, after normalisation
    NormRef,      \* normalize_reference_number, on the references of Records;
                  \* None for one of which nothing is left, as "-"
    Similarity,   \* pg_trgm score class of two titles
    MaxItems,     \* items one run reads (a bound)
    MaxVersion,   \* versions of one row (a bound)
    None

References == {rec.ref : rec \in Records} \ {None}
Titles == {rec.title : rec \in Records}

ASSUME MuniAssumption == DOMAIN Muni = Sources
ASSUME NormRefAssumption == DOMAIN NormRef = References
ASSUME SimilarityAssumption ==
    Similarity \in [Titles \X Titles -> {"probable", "review", "low"}]
ASSUME BoundsAssumption == MaxItems \in Nat \ {0} /\ MaxVersion \in Nat \ {0}

VARIABLES
    rows,   \* committed rows of the catalogue, with their versions
    run,    \* per run: its progress and the decision it is about to flush
    own     \* per run: the rows it has flushed and not committed (and locked)

vars == <<rows, run, own>>

----------------------------------------------------------------------------
(* Records and rows.                                                       *)

\* Columns of a row that matter to identity, versions and constraints.
\* `norm' is reference_number_normalized, `print' the fingerprint, `versions'
\* its opportunity_versions rows, each a number with its snapshot; `address' stands
\* for the tracked columns that snapshots leave out (submission_address,
\* briefing_compulsory, canonical_url).
Absent == [source |-> None, ref |-> None, norm |-> None, ext |-> None, title |-> None,
           closing |-> None, text |-> None, address |-> None, docs |-> {}, print |-> None,
           hash |-> None, version |-> 0, versions |-> {}]

Norm(ref) == IF ref = None THEN None ELSE NormRef[ref]

\* Layer-3 key: title, organisation, type and closing day.
Fingerprint(rec) == <<rec.title, rec.closing>>

\* normalized or raw: what stands for a reference where there may be no normal form.
RefKey(ref) == IF Norm(ref) # None THEN Norm(ref) ELSE ref

\* The canonical content, hashed for layer 2.
Hash(rec) == <<RefKey(rec.ref), rec.title, rec.closing, rec.text, rec.docs>>

\* What a version keeps of the record it was made from: the canonical content.
Snapshot(rec) ==
    [ref |-> RefKey(rec.ref), title |-> rec.title, closing |-> rec.closing,
     text |-> rec.text, docs |-> rec.docs]

Fingerprints == {Fingerprint(rec) : rec \in Records}
Hashes == {Hash(rec) : rec \in Records}
Snapshots == {Snapshot(rec) : rec \in Records}

Row == [source   : Sources \cup {None},
        ref      : References \cup {None},
        norm     : {Norm(n) : n \in References} \cup {None},
        ext      : {rec.ext : rec \in Records} \cup {None},
        title    : Titles \cup {None},
        closing  : {rec.closing : rec \in Records} \cup {None},
        text     : {rec.text : rec \in Records} \cup {None},
        address  : {rec.address : rec \in Records} \cup {None},
        docs     : SUBSET UNION {rec.docs : rec \in Records},
        print    : Fingerprints \cup {None},
        hash     : Hashes \cup {None},
        version  : 0..MaxVersion,
        versions : SUBSET ((1..MaxVersion) \X Snapshots)]

\* What a run has decided for its current item: the row it writes and the
\* snapshot of it that its session holds.
Choice == [act : {"none", "create", "update"}, id : Ids \cup {None}, seen : Row,
           rec : Records \cup {None}]

NoChoice == [act |-> "none", id |-> None, seen |-> Absent, rec |-> None]

Run == [at     : {"idle", "open", "decided", "poisoned"},
        source : Sources \cup {None},
        items  : 0..MaxItems,
        choice : Choice]

IdleRun == [at |-> "idle", source |-> None, items |-> 0, choice |-> NoChoice]

TypeOK ==
    /\ rows \in [Ids -> Row]
    /\ run \in [Runs -> Run]
    /\ own \in [Runs -> [Ids -> Row]]

Init ==
    /\ rows = [i \in Ids |-> Absent]
    /\ run = [r \in Runs |-> IdleRun]
    /\ own = [r \in Runs |-> [i \in Ids |-> Absent]]

Exists(row) == row.version > 0

\* Rows a run holds a lock on: it has inserted or updated them.
Holds(r, i) == Exists(own[r][i])

\* What a statement of run r sees: committed rows and its own.
View(r) == [i \in Ids |-> IF Holds(r, i) THEN own[r][i] ELSE rows[i]]

----------------------------------------------------------------------------
(* The deduplicator: Found(v, s, rec) is the set of results the four layers*)
(* may return for rec of source s on the visible rows v.                   *)

SameScope(v, s, i) ==
    IF Muni[s] # None THEN Muni[v[i].source] = Muni[s] ELSE v[i].source = s

Layer1(v, s, rec) ==
    {i \in Ids : /\ rec.ref # None
                 /\ Exists(v[i])
                 /\ SameScope(v, s, i)
                 /\ v[i].norm = RefKey(rec.ref) \/ v[i].ref = rec.ref}

Layer2(v, s, rec) ==
    {i \in Ids : Exists(v[i]) /\ v[i].source = s /\ v[i].hash = Hash(rec)}

Layer3(v, rec) == {i \in Ids : Exists(v[i]) /\ v[i].print = Fingerprint(rec)}

Conflicts_Never(v, i, rec) == FALSE

\* Two published references that differ mean two tenders; one without a normal
\* form says nothing.
Conflicts(v, i, rec) ==
    LET stored == IF v[i].norm # None THEN v[i].norm ELSE Norm(v[i].ref)
    IN  Norm(rec.ref) # None /\ stored # None /\ stored # Norm(rec.ref)

FuzzyWindow == 3

InWindow(row, rec) ==
    \/ rec.closing = None
    \/ row.closing = None
    \/ row.closing - rec.closing \in -FuzzyWindow..FuzzyWindow

Layer4(v, s, rec) ==
    {i \in Ids : /\ Exists(v[i])
                 /\ v[i].source = s
                 /\ Similarity[v[i].title, rec.title] # "low"
                 /\ Norm(rec.ref) # None => v[i].norm \in {None, Norm(rec.ref)}
                 /\ InWindow(v[i], rec)}

Best(v, C, rec) ==
    LET probable == {i \in C : Similarity[v[i].title, rec.title] = "probable"}
    IN  IF probable # {} THEN probable ELSE C

New == [act |-> "create", id |-> None]
Merge(i) == [act |-> "update", id |-> i]

\* A fingerprint match in another source is merged only inside a municipality.
MergesPrint_AnyIssuer(v, s, i) == TRUE

MergesPrint(v, s, i) ==
    \/ v[i].source = s
    \/ Muni[s] # None /\ Muni[v[i].source] = Muni[s]

Fuzzy(v, s, rec) ==
    IF Layer4(v, s, rec) = {} THEN {New}
    ELSE {IF Similarity[v[i].title, rec.title] = "probable" THEN Merge(i) ELSE New :
            i \in Best(v, Layer4(v, s, rec), rec)}

ByPrint(v, s, rec) ==
    LET clear == {i \in Layer3(v, rec) : ~Conflicts(v, i, rec)}
    IN  IF clear = {} THEN Fuzzy(v, s, rec)
        ELSE {IF MergesPrint(v, s, i) THEN Merge(i) ELSE New : i \in clear}

ByHash(v, s, rec) ==
    UNION {IF Conflicts(v, i, rec) THEN ByPrint(v, s, rec) ELSE {Merge(i)} :
             i \in Layer2(v, s, rec)}

Found(v, s, rec) ==
    IF Layer1(v, s, rec) # {} THEN {Merge(i) : i \in Layer1(v, s, rec)}
    ELSE IF Layer2(v, s, rec) # {} THEN ByHash(v, s, rec)
    ELSE ByPrint(v, s, rec)

----------------------------------------------------------------------------
(* The version engine.                                                     *)

Tracked == {"ref", "title", "closing", "text", "address"}

\* Fields that differ, a missing incoming value never counting as a change.
ChangedFields(row, rec) == {f \in Tracked : rec[f] # None /\ rec[f] # row[f]}

Changed(row, rec) == ChangedFields(row, rec) # {} \/ rec.docs \ row.docs # {}

Created(s, rec) ==
    [source |-> s, ref |-> rec.ref, norm |-> Norm(rec.ref), ext |-> rec.ext,
     title |-> rec.title, closing |-> rec.closing, text |-> rec.text,
     address |-> rec.address, docs |-> rec.docs, print |-> Fingerprint(rec),
     hash |-> Hash(rec), version |-> 1, versions |-> {<<1, Snapshot(rec)>>}]

\* The row in memory after _update_existing.
Updated(row, rec) ==
    IF ~Changed(row, rec) THEN [row EXCEPT !.hash = Hash(rec)]
    ELSE LET value(f) == IF f \in ChangedFields(row, rec) THEN rec[f] ELSE row[f]
         IN  [row EXCEPT !.ref = value("ref"), !.title = value("title"),
                         !.closing = value("closing"), !.text = value("text"),
                         !.address = value("address"),
                         !.docs = @ \cup rec.docs, !.print = Fingerprint(rec),
                         !.hash = Hash(rec), !.version = @ + 1,
                         !.versions = @ \cup {<<row.version + 1, Snapshot(rec)>>}]

Flushed_WholeRow(current, seen, new) == new

\* UPDATE writes the columns that differ from the loaded ones, on the row as
\* it is once its lock is granted; versions and documents are rows of their
\* own and are added to those that are there.
Flushed(current, seen, new) ==
    LET value(c) == IF new[c] = seen[c] THEN current[c] ELSE new[c]
        added(c) == current[c] \cup (new[c] \ seen[c])
    IN  [source |-> value("source"), ref |-> value("ref"), norm |-> value("norm"),
         ext |-> value("ext"), title |-> value("title"), closing |-> value("closing"),
         text |-> value("text"), address |-> value("address"), docs |-> added("docs"),
         print |-> value("print"), hash |-> value("hash"), version |-> value("version"), versions |-> added("versions")]

----------------------------------------------------------------------------
(* PostgreSQL: unique constraints and row locks.                           *)

\* Two rows that a unique constraint keeps apart.
Collide(a, b) ==
    \/ a.print = b.print
    \/ a.ref # None /\ a.ref = b.ref /\ Muni[a.source] # None /\ Muni[a.source] = Muni[b.source]
    \/ a.ext # None /\ a.ext = b.ext /\ a.source = b.source

\* The row an item of run r writes, and the (opportunity_id, version) it adds.
Written(r) ==
    LET c == run[r].choice
    IN  IF c.act = "create" THEN Created(run[r].source, c.rec)
        ELSE Flushed(View(r)[c.id], c.seen, Updated(c.seen, c.rec))

VersionTaken_Unchecked(r) == FALSE

VersionTaken(r) ==
    LET c == run[r].choice
    IN  /\ c.act = "update"
        /\ Changed(c.seen, c.rec)
        /\ \E v \in View(r)[c.id].versions : v[1] = c.seen.version + 1

Violates(r) ==
    \/ VersionTaken(r)
    \/ \E i \in Ids \ {run[r].choice.id} :
          Exists(View(r)[i]) /\ Collide(Written(r), View(r)[i])

\* Somebody else's open transaction decides: its row is locked, or its
\* uncommitted row holds a key this one needs.
WaitsFor(r, q) ==
    /\ q # r
    /\ run[r].at = "decided"
    /\ \/ run[r].choice.act = "update" /\ Holds(q, run[r].choice.id)
       \/ \E i \in Ids : Holds(q, i) /\ Collide(Written(r), own[q][i])

Blocked(r) == \E q \in Runs : WaitsFor(r, q)

----------------------------------------------------------------------------
(* A run.                                                                  *)

Begin(r, s) ==
    /\ run[r].at = "idle"
    /\ run' = [run EXCEPT ![r] = [IdleRun EXCEPT !.at = "open", !.source = s]]
    /\ UNCHANGED <<rows, own>>

FreeId(i) == ~Exists(rows[i]) /\ \A q \in Runs : ~Holds(q, i) /\ run[q].choice.id # i

MoreItems_OffByOne(r) == run[r].items <= MaxItems

\* parse_source stops a run after its maximum of items.
MoreItems(r) == run[r].items < MaxItems

\* The next item is normalised, accepted by the validator and looked up.  An
\* item that is rejected, or that fails before it reaches the database, is
\* counted and leaves nothing behind: it needs no step.
Decide(r, rec) ==
    /\ run[r].at = "open"
    /\ MoreItems(r)
    /\ \E found \in Found(View(r), run[r].source, rec) :
          \/ /\ found.act = "update"
             /\ View(r)[found.id].version < MaxVersion
             /\ run' = [run EXCEPT ![r].at = "decided", ![r].items = @ + 1,
                          ![r].choice = [act |-> "update", id |-> found.id,
                                         seen |-> View(r)[found.id], rec |-> rec]]
          \/ /\ found.act = "create"
             /\ \E i \in Ids :
                  /\ FreeId(i)
                  /\ run' = [run EXCEPT ![r].at = "decided", ![r].items = @ + 1,
                               ![r].choice = [act |-> "create", id |-> i,
                                              seen |-> Absent, rec |-> rec]]
    /\ UNCHANGED <<rows, own>>

\* The flush goes through and the row is locked until the run ends.
Apply(r) ==
    /\ run[r].at = "decided"
    /\ ~Blocked(r)
    /\ ~Violates(r)
    /\ own' = [own EXCEPT ![r][run[r].choice.id] = Written(r)]
    /\ run' = [run EXCEPT ![r].at = "open", ![r].choice = NoChoice]
    /\ UNCHANGED rows

\* The flush raises IntegrityError.  The session's transaction is gone, and
\* the handler of _process_item needs source.id, which it can no longer load:
\* the exception leaves the loop, the run and its bookkeeping.
FlushFails(r) ==
    /\ run[r].at = "decided"
    /\ ~Blocked(r)
    /\ Violates(r)
    /\ own' = [own EXCEPT ![r] = [i \in Ids |-> Absent]]
    /\ run' = [run EXCEPT ![r].at = "poisoned", ![r].choice = NoChoice]
    /\ UNCHANGED rows

\* Two runs wait for each other: PostgreSQL fails the flush of one of them.
DeadlockVictim(r) ==
    /\ \E q \in Runs : WaitsFor(r, q) /\ WaitsFor(q, r)
    /\ own' = [own EXCEPT ![r] = [i \in Ids |-> Absent]]
    /\ run' = [run EXCEPT ![r].at = "poisoned", ![r].choice = NoChoice]
    /\ UNCHANGED rows

\* ingest_source rolls back and hands the message back to the queue.
Crash(r) ==
    /\ run[r].at = "poisoned"
    /\ run' = [run EXCEPT ![r] = IdleRun]
    /\ UNCHANGED <<rows, own>>

\* The job times out or its worker dies.
Lost(r) ==
    /\ run[r].at \in {"open", "decided"}
    /\ run' = [run EXCEPT ![r] = IdleRun]
    /\ own' = [own EXCEPT ![r] = [i \in Ids |-> Absent]]
    /\ UNCHANGED rows

\* The source has no more items: _finalise, and the scope commits.
Commit(r) ==
    /\ run[r].at = "open"
    /\ rows' = View(r)
    /\ run' = [run EXCEPT ![r] = IdleRun]
    /\ own' = [own EXCEPT ![r] = [i \in Ids |-> Absent]]

Next ==
    \E r \in Runs :
       \/ \E s \in Sources : Begin(r, s)
       \/ \E rec \in Records : Decide(r, rec)
       \/ Apply(r)
       \/ FlushFails(r)
       \/ DeadlockVictim(r)
       \/ Crash(r)
       \/ Commit(r)
       \/ Lost(r)

Spec == Init /\ [][Next]_vars

----------------------------------------------------------------------------
(* What the catalogue promises.                                            *)

\* Versions numbered 1 to the current one, each number once.
Numbered(row) ==
    /\ {v[1] : v \in row.versions} = 1..row.version
    /\ IsFiniteSet(row.versions) /\ Cardinality(row.versions) = row.version

\* The tracked fields that snapshots hold.
Recorded == {"ref", "title", "closing", "text"}

\* A field of a row in the form that snapshots have it.
Value(row, f) == IF f = "ref" THEN RefKey(row.ref) ELSE row[f]

\* Version v is the last that knows field f.
LastToKnow(row, f, v) ==
    /\ v[2][f] # None
    /\ \A w \in row.versions : w[1] > v[1] => w[2][f] = None

\* Field f says what the last version that knows it says, and nothing if none does.
ToldBy(row, f) ==
    \/ Value(row, f) = None /\ \A v \in row.versions : v[2][f] = None
    \/ \E v \in row.versions : LastToKnow(row, f, v) /\ Value(row, f) = v[2][f]

\* The history of a row has no gap and no fork, and the row is what the stored
\* snapshots say, whatever overlapped: every recorded value (the reference up
\* to its spelling) is that of the last version that knew it, and the documents
\* are those of all versions.
HistoryIsComplete ==
    \A i \in Ids :
        /\ Numbered(rows[i])
        /\ \A f \in Recorded : ToldBy(rows[i], f)
        /\ rows[i].docs = UNION {v[2].docs : v \in rows[i].versions}

\* A row never shows one tender's reference beside the normal form of another's:
\* no layer, and no run with a stale copy, merges a tender with another published
\* reference into it.
ReferenceMatchesNorm ==
    \A i \in Ids :
        rows[i].norm # None /\ Norm(rows[i].ref) # None => Norm(rows[i].ref) = rows[i].norm

\* docs/INGESTION.md:68 says that a version stores the full snapshot: every
\* tracked value of a row is in one of its versions.  It is not: hashable_payload,
\* which the snapshot is made of, leaves three tracked columns out.
SnapshotsAreFull ==
    \A i \in Ids, f \in Tracked : Value(rows[i], f) # None =>
        \E v \in rows[i].versions : f \in DOMAIN v[2] /\ v[2][f] = Value(rows[i], f)

\* docs/INGESTION.md:36 says that a reference is stored as published and
\* normalised, so the normal form of a row is that of the reference it shows.
\* A published "-" replaces the reference and leaves the old normal form.
NormIsOfTheReference ==
    \A i \in Ids : rows[i].norm # None => Norm(rows[i].ref) = rows[i].norm

\* A run only touches rows of its own source or municipality.
IssuersNeverMix ==
    [][\A r \in Runs, i \in Ids :
          Exists(rows[i]) /\ run[r].at = "open" /\ run'[r].at = "idle" /\ rows'[i] # rows[i] =>
             \/ rows[i].source = run[r].source
             \/ Muni[run[r].source] # None /\ Muni[rows[i].source] = Muni[run[r].source]]_vars

\* The snapshots that the versions of a row hold, in their order.
History(row) == [n \in 1..row.version |-> (CHOOSE v \in row.versions : v[1] = n)[2]]

\* The catalogue as its readers know it.
Published == INSTANCE TenderHistory WITH
    Tenders <- Ids, Fields <- Recorded, Records <- Snapshots,
    history <- [i \in Ids |-> History(rows[i])],
    owner   <- [i \in Ids |-> rows[i].source],
    shown   <- [i \in Ids |-> [fields |-> [f \in Recorded |-> Value(rows[i], f)], docs |-> rows[i].docs]]

\* Overlapping runs, column-wise writes and lost runs look to readers like whole
\* publications of one issuer after another: no version is ever changed or
\* taken back, no recorded value changes but by a new version that holds it, and
\* none is lost to a scrape that missed it.
HistorySpec == Published!Spec

----------------------------------------------------------------------------
(* Why the promises hold: the inductive invariant.                         *)

\* A row with a complete history and a normal form that is its own.
Sound(row) ==
    /\ Numbered(row)
    /\ \A f \in Recorded : ToldBy(row, f)
    /\ row.docs = UNION {v[2].docs : v \in row.versions}
    /\ row.norm # None /\ Norm(row.ref) # None => Norm(row.ref) = row.norm

\* What runs may have made of a row that exists.
Follows(old, new) ==
    Exists(old) =>
        /\ new.version >= old.version
        /\ old.versions \subseteq new.versions
        /\ new.source = old.source /\ new.norm = old.norm
        /\ \A f \in Tracked : new[f] # old[f] => new.version > old.version /\ new[f] # None

SameIssuer(s, row) == row.source = s \/ (Muni[s] # None /\ Muni[row.source] = Muni[s])

\* A record that may be merged into a row.
Fits(rec, row) == Norm(rec.ref) # None /\ row.norm # None => Norm(rec.ref) = row.norm

RowsAreSound == \A i \in Ids : Sound(rows[i]) /\ \A r \in Runs : Sound(own[r][i])

LocksExclude == \A r, q \in Runs, i \in Ids : Holds(r, i) /\ Holds(q, i) => r = q

\* A locked row is that of an open run, of an issuer of its source, and grew out
\* of the committed one.
HeldRowsFollow ==
    \A r \in Runs, i \in Ids : Holds(r, i) =>
        /\ run[r].at \in {"open", "decided"}
        /\ SameIssuer(run[r].source, own[r][i])
        /\ Follows(rows[i], own[r][i])

\* What a run merges into existed when it looked, and can only have grown since.
MergeStands(r) ==
    LET c == run[r].choice IN
    /\ Exists(c.seen) /\ Sound(c.seen) /\ c.seen.version < MaxVersion
    /\ Follows(c.seen, View(r)[c.id])
    /\ Fits(c.rec, c.seen) /\ SameIssuer(run[r].source, c.seen)

\* What a run creates nobody else has.
CreationStands(r) ==
    LET i == run[r].choice.id IN
    /\ ~Exists(rows[i])
    /\ \A q \in Runs : ~Holds(q, i) /\ (q # r /\ run[q].at = "decided" => run[q].choice.id # i)

ChoicesStand ==
    \A r \in Runs :
        /\ run[r].at \in {"open", "decided"} => run[r].source \in Sources
        /\ run[r].choice.act # "none" <=> run[r].at = "decided"
        /\ run[r].at = "decided" => run[r].choice.id \in Ids /\ run[r].choice.rec \in Records
        /\ run[r].choice.act = "update" => MergeStands(r)
        /\ run[r].choice.act = "create" => CreationStands(r)

IInv ==
    /\ TypeOK
    /\ RowsAreSound
    /\ LocksExclude
    /\ HeldRowsFollow
    /\ ChoicesStand
=============================================================================
