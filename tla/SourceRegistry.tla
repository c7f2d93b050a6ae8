--------------------------- MODULE SourceRegistry ---------------------------
(***************************************************************************)
(* The source registry: one municipality_sources row per place that is     *)
(* crawled, and everybody who writes it.  Workers finish ingestion runs and*)
(* write the health columns; operators verify a source, move its lifecycle *)
(* and import definitions; a manual batch (run_ingestion --due) first      *)
(* copies its sources out of one session and merges every copy into a later*)
(* one.  All of them are long transactions that loaded the row long before *)
(* they write it, and UPDATE only names the columns whose value they       *)
(* changed.  The scheduler reads the rows to decide what is crawled next.  *)
(***************************************************************************)
EXTENDS Integers, FiniteSets

CONSTANTS
    Sources,
    Workers,       \* worker sessions: ingest_source
    Operators,     \* operator sessions: verify_source, set_lifecycle, imports
    Batches,       \* run_ingestion sessions
    Targets,       \* lifecycles the operator asks for
    Priority,      \* priority of every source, the smaller the sooner
    Limit,         \* limit of find_due_sources
    FailingAt,     \* consecutive failures of a FAILING source
    OfflineAt,     \* consecutive failures of an OFFLINE source
    MaxFailures,   \* failures counted (a bound)
    MaxAge,        \* crawl intervals counted since a run (a bound)
    NoSource       \* source of a session that is not open

Sessions == Workers \cup Operators \cup Batches

SourceLifecycle == {"DISCOVERED", "PENDING_VERIFICATION", "VERIFIED", "ACTIVE", "DEGRADED",
                    "PAUSED", "DISABLED"}

HealthStatus == {"UNKNOWN", "HEALTHY", "DEGRADED", "FAILING", "OFFLINE"}

\* PASSED stands for PASSED_WITH_WARNINGS too: nothing here tells them apart.
VerificationStatus == {"UNVERIFIED", "PASSED", "FAILED"}

ASSUME SessionAssumption ==
    Workers \cap Operators = {} /\ Workers \cap Batches = {} /\ Operators \cap Batches = {}
ASSUME TargetAssumption == Targets \subseteq SourceLifecycle
ASSUME PriorityAssumption == Priority \in [Sources -> 0..1000]
ASSUME BoundAssumption == Limit \in Nat \ {0} /\ MaxFailures \in Nat /\ MaxAge \in Nat
ASSUME ThresholdAssumption == FailingAt \in Nat /\ OfflineAt \in Nat /\ 1 < FailingAt /\ FailingAt < OfflineAt
ASSUME NoSourceAssumption == NoSource \notin Sources

VARIABLES
    row,       \* committed columns of every source
    age,       \* whole crawl intervals since last_run_at
    session,   \* open sessions
    queued,    \* sources the scheduler has ever queued: their messages may
               \* still be delivered, or be delivered again (IngestionJobs)
    passed     \* history: sources that have a passing verification on record

vars == <<row, age, session, queued, passed>>

----------------------------------------------------------------------------
(* Columns.                                                                *)

Row == [lifecycle    : SourceLifecycle,
        active       : BOOLEAN,
        paused       : BOOLEAN,
        verification : VerificationStatus,
        failures     : 0..MaxFailures,
        health       : HealthStatus]

Columns == {"lifecycle", "active", "paused", "verification", "failures", "health"}

\* A source as import_sources registers it.
Registered(enabled) ==
    [lifecycle |-> "DISCOVERED", active |-> enabled, paused |-> FALSE,
     verification |-> "UNVERIFIED", failures |-> 0, health |-> "UNKNOWN"]

\* The columns of r that a session may write; it need not remember the others.
Loaded(x, r) ==
    IF x \in Workers
    THEN [Registered(FALSE) EXCEPT !.failures = r.failures, !.health = r.health]
    ELSE IF x \in Operators
    THEN [r EXCEPT !.failures = 0, !.health = "UNKNOWN"]
    ELSE r

\* `mine' is the row in memory, `dirty' the columns the session writes when it
\* commits, `order' the lifecycle it was told to set; `raced' remembers that
\* another session committed the same row since this one loaded it.
Session == [at    : {"idle", "copied", "merged", "loaded", "recorded", "ordered", "running"},
            src   : Sources \cup {NoSource},
            mine  : Row,
            dirty : SUBSET Columns,
            order : Targets \cup {"none"},
            raced : BOOLEAN]

Idle == [at |-> "idle", src |-> NoSource, mine |-> Registered(FALSE), dirty |-> {},
         order |-> "none", raced |-> FALSE]

Never == MaxAge + 1

TypeOK ==
    /\ row \in [Sources -> Row]
    /\ age \in [Sources -> 0..Never]
    /\ session \in [Sessions -> Session]
    /\ \A x \in Sessions : session[x].at # "idle" => session[x].src \in Sources
    /\ queued \subseteq Sources
    /\ passed \subseteq Sources

Init ==
    /\ row \in [Sources -> {Registered(e) : e \in BOOLEAN}]
    /\ age = [s \in Sources |-> Never]
    /\ session = [x \in Sessions |-> Idle]
    /\ queued = {}
    /\ passed = {}

----------------------------------------------------------------------------
(* The scheduler.                                                          *)

Schedulable(lifecycle) == lifecycle \in {"ACTIVE", "DEGRADED", "VERIFIED"}

BackoffMultiplier ==
    [UNKNOWN |-> 1, HEALTHY |-> 1, DEGRADED |-> 2, FAILING |-> 4, OFFLINE |-> 12]

IsDue(s) ==
    /\ ~row[s].paused
    /\ Schedulable(row[s].lifecycle)
    /\ age[s] = Never \/ age[s] >= BackoffMultiplier[row[s].health]

\* ORDER BY priority, last_run_at NULLS FIRST.
Before(s, t) == Priority[s] < Priority[t] \/ (Priority[s] = Priority[t] /\ age[s] > age[t])

Least(n, m) == IF n <= m THEN n ELSE m

\* The first n of S; ties are broken any way.
First(S, n) ==
    {T \in SUBSET S : /\ Cardinality(T) = Least(n, Cardinality(S))
                      /\ \A t \in T, s \in S \ T : ~Before(s, t)}

\* What find_due_sources may return: it reads 4 * limit active rows and keeps
\* the first `limit' of them that are due.
Offers ==
    UNION {First({s \in window : IsDue(s)}, Limit) :
             window \in First({s \in Sources : row[s].active}, 4 * Limit)}

\* schedule_due_sources.
Tick ==
    /\ \E offered \in Offers : queued' = queued \cup offered
    /\ UNCHANGED <<row, age, session, passed>>

TimePasses ==
    /\ age' = [s \in Sources |-> IF age[s] < MaxAge THEN age[s] + 1 ELSE age[s]]
    /\ UNCHANGED <<row, session, queued, passed>>

----------------------------------------------------------------------------
(* Sessions.                                                               *)

\* Nobody else holds the row lock of the source x works on.
Granted(x) ==
    \A y \in Sessions \ {x} : session[y].src = session[x].src =>
        /\ session[y].at \notin {"recorded", "ordered"}
        /\ session[y].at = "running" => session[y].dirty = {}

Load(x, s) ==
    /\ session[x].at = "idle"
    /\ x \in Workers \cup Operators
    /\ x \in Workers => s \in queued
    /\ session' = [session EXCEPT ![x] = [Idle EXCEPT !.at = "loaded", !.src = s,
                                                      !.mine = Loaded(x, row[s])]]
    /\ UNCHANGED <<row, age, queued, passed>>

\* The columns whose value in memory changes from m to n are written.
Changes(m, n) == {c \in Columns : m[c] # n[c]}

\* What the row of session x becomes when it writes its columns.
Written(x, mine, dirty) ==
    LET value(c) == IF c \in dirty THEN mine[c] ELSE row[session[x].src][c]
    IN  [lifecycle |-> value("lifecycle"), active |-> value("active"),
         paused |-> value("paused"), verification |-> value("verification"),
         failures |-> value("failures"), health |-> value("health")]

\* x commits: its row is `new', and whoever has loaded that row is stale.
Commits(x, new) ==
    /\ row' = [row EXCEPT ![session[x].src] = new]
    /\ session' = [y \in Sessions |->
                     IF y = x THEN Idle
                     ELSE IF session[y].src = session[x].src
                          THEN [session[y] EXCEPT !.raced = TRUE] ELSE session[y]]
    /\ passed' = IF new.verification = "PASSED" THEN passed \cup {session[x].src} ELSE passed

Rollback(x) ==
    /\ session[x].at # "idle"
    /\ session' = [session EXCEPT ![x] = Idle]
    /\ UNCHANGED <<row, age, queued, passed>>

----------------------------------------------------------------------------
(* Runs.                                                                   *)

HealthFor(failures) ==
    IF failures >= OfflineAt THEN "OFFLINE"
    ELSE IF failures >= FailingAt THEN "FAILING"
    ELSE IF failures >= 1 THEN "DEGRADED"
    ELSE "HEALTHY"

CanFail_Uncapped(failures) == TRUE

CanFail(failures) == failures < MaxFailures

UpdateHealth_KeepsStatus(mine, ok) ==
    IF ok THEN [mine EXCEPT !.failures = 0]
    ELSE [mine EXCEPT !.failures = @ + 1, !.health = HealthFor(mine.failures + 1)]

UpdateHealth(mine, ok) ==
    IF ok THEN [mine EXCEPT !.failures = 0, !.health = "HEALTHY"]
    ELSE [mine EXCEPT !.failures = @ + 1, !.health = HealthFor(mine.failures + 1)]

\* The run ends, the health columns follow, and the scope flushes and commits.
FinishRun(x, ok) ==
    /\ session[x].at = "running" \/ (x \in Workers /\ session[x].at = "loaded")
    /\ Granted(x)
    /\ ok \/ CanFail(session[x].mine.failures)
    /\ LET new == UpdateHealth(session[x].mine, ok)
       IN  Commits(x, Written(x, new, session[x].dirty \cup Changes(session[x].mine, new)))
    /\ age' = [age EXCEPT ![session[x].src] = 0]
    /\ UNCHANGED queued

----------------------------------------------------------------------------
(* Operators.                                                              *)

Operate(x, at, mine, order, dirty) ==
    session' = [session EXCEPT ![x].at = at, ![x].mine = mine, ![x].order = order,
                               ![x].dirty = @ \cup dirty]

Reported(mine, status) ==
    [mine EXCEPT
       !.verification = status,
       !.lifecycle =
          IF status = "PASSED" /\ @ \in {"DISCOVERED", "PENDING_VERIFICATION"} THEN "VERIFIED"
          ELSE IF status # "PASSED" /\ @ = "ACTIVE" THEN "DEGRADED"
          ELSE @]

\* verify with its _record: the verifier has talked to the site since the row
\* was loaded; the report and the lifecycle that follows from it are flushed.
Record(x, status) ==
    LET mine == session[x].mine
        new == Reported(mine, status)
    IN  /\ x \in Operators
        /\ session[x].at = "loaded"
        /\ Granted(x)
        /\ Operate(x, "recorded", new, "none", Changes(mine, new))
        /\ UNCHANGED <<row, age, queued, passed>>

Verified_Anything(mine) == TRUE

Verified(mine) == mine.verification = "PASSED"

Ordered_KeepsPause(mine, target) ==
    [mine EXCEPT !.lifecycle = target, !.active = Schedulable(target),
                 !.paused = @ \/ target = "PAUSED"]

Ordered(mine, target) ==
    [mine EXCEPT !.lifecycle = target, !.active = Schedulable(target),
                 !.paused = (target = "PAUSED")]

\* set_lifecycle, on the row as this session knows it.
SetLifecycle(x, target) ==
    LET mine == session[x].mine
        new == Ordered(mine, target)
    IN  /\ x \in Operators
        /\ session[x].at \in {"loaded", "recorded"}
        /\ target = "ACTIVE" => Verified(mine)
        /\ Granted(x)
        /\ Operate(x, "ordered", new, target,
                   Changes(mine, new) \cup (IF target = "PAUSED" THEN {"paused"} ELSE {}))
        /\ UNCHANGED <<row, age, queued, passed>>

Commit(x) ==
    /\ session[x].at \in {"recorded", "ordered"}
    /\ Commits(x, Written(x, session[x].mine, session[x].dirty))
    /\ UNCHANGED <<age, queued>>

\* import_sources over a row that exists: the definition's `enabled' is
\* written into the active column, flushed only by the commit.
ImportDefinition(x, enabled) ==
    LET new == [session[x].mine EXCEPT !.active = enabled]
    IN  /\ x \in Operators
        /\ session[x].at = "loaded"
        /\ Granted(x)
        /\ Commits(x, Written(x, new, Changes(session[x].mine, new)))
        /\ UNCHANGED <<age, queued>>

----------------------------------------------------------------------------
(* The manual batch.                                                       *)

\* main_async reads its sources, any the operator names or the due ones, and
\* detaches them from the session.
CopyOut(x, s) ==
    /\ session[x].at = "idle"
    /\ x \in Batches
    /\ session' = [session EXCEPT ![x] = [Idle EXCEPT !.at = "copied", !.src = s,
                                                      !.mine = row[s]]]
    /\ UNCHANGED <<row, age, queued, passed>>

\* run_one, when the batch gets to the source: session.merge loads the row and
\* assigns every column of the old copy to it.
Merge(x) ==
    /\ session[x].at = "copied"
    /\ session' = [session EXCEPT ![x].at = "merged",
                                  ![x].dirty = Changes(row[session[x].src], session[x].mine)]
    /\ UNCHANGED <<row, age, queued, passed>>

\* The flush of the job row sends the UPDATE too.
StartRun(x) ==
    /\ session[x].at = "merged"
    /\ session[x].dirty = {} \/ Granted(x)
    /\ session' = [session EXCEPT ![x].at = "running"]
    /\ UNCHANGED <<row, age, queued, passed>>

----------------------------------------------------------------------------

Next ==
    \/ Tick
    \/ TimePasses
    \/ \E x \in Sessions :
          \/ \E s \in Sources : Load(x, s) \/ CopyOut(x, s)
          \/ \E ok \in BOOLEAN : FinishRun(x, ok)
          \/ \E status \in {"PASSED", "FAILED"} : Record(x, status)
          \/ \E target \in Targets : SetLifecycle(x, target)
          \/ Commit(x)
          \/ \E enabled \in BOOLEAN : ImportDefinition(x, enabled)
          \/ Merge(x)
          \/ StartRun(x)
          \/ Rollback(x)

Spec == Init /\ [][Next]_vars

----------------------------------------------------------------------------
(* What the registry promises.                                             *)

\* No source is ACTIVE that never passed a verification, whatever stale copies
\* of its row are written back (set_lifecycle's guard reads one of them).
ActiveWasVerified == \A s \in Sources : row[s].lifecycle = "ACTIVE" => s \in passed

\* The health of a source is the one its failure count calls for as soon as a
\* run ends that no other commit overtook, even on a row whose two columns an
\* earlier overlap of runs had torn apart.
RunsReportHealth ==
    [][\A x \in Workers \cup Batches, ok \in BOOLEAN :
          FinishRun(x, ok) /\ ~session[x].raced =>
             row'[session[x].src].health = HealthFor(row'[session[x].src].failures)]_vars

\* An operator's order takes effect as a whole (lifecycle, scheduling switch
\* and pause mark) unless another commit overtook the session.
OrdersTakeEffect ==
    [][\A x \in Operators :
          Commit(x) /\ session[x].order # "none" /\ ~session[x].raced =>
             LET new == row'[session[x].src]
             IN  /\ new.lifecycle = session[x].order
                 /\ new.active = Schedulable(session[x].order)
                 /\ new.paused = (session[x].order = "PAUSED")]_vars

----------------------------------------------------------------------------
(* The inductive invariant behind these promises (SourceRegistryProofs).   *)

\* Who can be where in a transaction.
SessionsKeepToTheirKind ==
    \A x \in Sessions :
        /\ session[x].at = "loaded" => x \in Workers \cup Operators
        /\ session[x].at \in {"recorded", "ordered"} => x \in Operators
        /\ session[x].at \in {"copied", "merged", "running"} => x \in Batches

PassesAreRemembered == \A s \in Sources : row[s].verification = "PASSED" => s \in passed

\* A pass in memory is on record or is about to be written; a lifecycle ACTIVE
\* in memory rests on such a pass.
CopiesAreBacked ==
    \A x \in Sessions : session[x].at # "idle" =>
        /\ session[x].mine.verification = "PASSED" =>
              session[x].src \in passed \/ "verification" \in session[x].dirty
        /\ session[x].mine.lifecycle = "ACTIVE" =>
              session[x].src \in passed \/ session[x].mine.verification = "PASSED"

\* Columns that a session knows.
Known(x) ==
    IF x \in Workers THEN {"failures", "health"}
    ELSE IF x \in Operators THEN {"lifecycle", "active", "paused", "verification"}
    ELSE Columns

\* A session nobody overtook differs from the row only where it will write it.
UnracedIsCurrent ==
    \A x \in Sessions : session[x].at # "idle" /\ ~session[x].raced =>
        \A c \in Known(x) \ session[x].dirty : session[x].mine[c] = row[session[x].src][c]

OrdersAreWhole ==
    \A x \in Sessions : session[x].order # "none" =>
        /\ session[x].mine.lifecycle = session[x].order
        /\ session[x].mine.active = Schedulable(session[x].order)
        /\ session[x].mine.paused = (session[x].order = "PAUSED")

IInv ==
    /\ TypeOK
    /\ SessionsKeepToTheirKind
    /\ PassesAreRemembered
    /\ CopiesAreBacked
    /\ UnracedIsCurrent
    /\ OrdersAreWhole
    /\ ActiveWasVerified

----------------------------------------------------------------------------
(* What the repository says of the registry and the code does not do.      *)

\* discovery.py: a pause is "an explicit human stop, overrides everything": it
\* ends only by a lifecycle order.
PausesAreKept ==
    [][\A s \in Sources :
          row[s].paused /\ ~row'[s].paused =>
             \E x \in Operators : Commit(x) /\ session[x].src = s /\ session[x].order # "none"]_vars
=============================================================================
