--------------------------- MODULE IngestionJobs ---------------------------
(***************************************************************************)
(* The ingestion work queue: the cron task schedule_due_sources writes one *)
(* ingestion_jobs row per due source and enqueues one ARQ message for it   *)
(* in Redis; a worker slot picks the message up, runs ingest_source in one *)
(* database transaction, and ARQ acknowledges, re-arms or drops the        *)
(* message afterwards.  PostgreSQL and Redis are two stores with no common *)
(* transaction, so every step between them is a step of its own here.      *)
(*                                                                         *)
(* A JobId stands for one row created by the scheduler together with the   *)
(* message enqueued for it (its job_id argument names the row).            *)
(***************************************************************************)
EXTENDS Integers, FiniteSets

CONSTANTS
    JobIds,     \* supply of ids for rows created by the scheduler (a bound)
    Sources,    \* municipality_sources rows
    Ticks,      \* schedule_due_sources executions that may be open at once
    MaxTries,   \* worker_max_tries
    MaxJobs,    \* worker_max_jobs: ARQ slots, shared by messages and ticks
    Limit,      \* the limit argument of schedule_due_sources
    NoSource    \* owner of an id not handed out yet

ASSUME MaxTriesAssumption == MaxTries \in Nat \ {0}
ASSUME MaxJobsAssumption  == MaxJobs \in Nat \ {0}
ASSUME LimitAssumption    == Limit \in Nat \ {0}
ASSUME NoSourceAssumption == NoSource \notin Sources

VARIABLES
    due,     \* sources for which is_due holds in the committed tables
    owner,   \* source_id of every row id handed out by the scheduler
    tick,    \* open scheduler transactions
    jobs,    \* committed ingestion_jobs rows created by the scheduler
    strays,  \* committed ingestion_jobs rows created by a worker, per try
    msg,     \* Redis: the ARQ message of every job id and its execution
    twice    \* history: the message may run again although its row is settled

vars == <<due, owner, tick, jobs, strays, msg, twice>>

----------------------------------------------------------------------------
(* Types.                                                                  *)

Tries == 1..MaxTries

\* JobStatus.  RUNNING is only ever written inside the worker's own
\* transaction and overwritten before its commit; CANCELLED is never written.
Row == [status  : {"NONE", "QUEUED", "RETRYING", "COMPLETED", "FAILED"},
        attempt : 0..MaxTries]

NoRow == [status |-> "NONE", attempt |-> 0]

\* none -> ready -> picked -> loaded -> committed -> ready | done
Message == [at      : {"none", "ready", "picked", "loaded", "committed", "done"},
            try     : 0..(MaxTries + 1),
            made    : BOOLEAN,
            outcome : {"none", "retry", "ok", "failed", "exhausted", "error"}]

Tick == [open   : BOOLEAN,
         todo   : SUBSET Sources,
         staged : [JobIds -> {"NONE", "QUEUED", "FAILED"}]]

ClosedTick == [open |-> FALSE, todo |-> {}, staged |-> [j \in JobIds |-> "NONE"]]

TypeOK ==
    /\ due \subseteq Sources
    /\ owner \in [JobIds -> Sources \cup {NoSource}]
    /\ tick \in [Ticks -> Tick]
    /\ jobs \in [JobIds -> Row]
    /\ strays \in [JobIds -> [Tries -> Row]]
    /\ msg \in [JobIds -> Message]
    /\ twice \in [JobIds -> BOOLEAN]

Init ==
    /\ due = Sources
    /\ owner = [j \in JobIds |-> NoSource]
    /\ tick = [t \in Ticks |-> ClosedTick]
    /\ jobs = [j \in JobIds |-> NoRow]
    /\ strays = [j \in JobIds |-> [n \in Tries |-> NoRow]]
    /\ msg = [j \in JobIds |->
                [at |-> "none", try |-> 0, made |-> FALSE, outcome |-> "none"]]
    /\ twice = [j \in JobIds |-> FALSE]

----------------------------------------------------------------------------
(* Worker slots and row ids.                                               *)

Running(j) == msg[j].at \in {"picked", "loaded", "committed"}

SlotFree ==
    Cardinality({j \in JobIds : Running(j)})
        + Cardinality({t \in Ticks : tick[t].open}) < MaxJobs

\* Ids left once every open tick has served the sources it has still to do.
Room ==
    Cardinality({j \in JobIds : owner[j] = NoSource})
        - Cardinality({p \in Ticks \X Sources : p[2] \in tick[p[1]].todo})

AtMost(n, m) == IF n <= m THEN n ELSE m

----------------------------------------------------------------------------
(* The scheduler.                                                          *)

\* Time passes: the crawl interval of s elapses.
BecomeDue(s) ==
    /\ s \notin due
    /\ due' = due \cup {s}
    /\ UNCHANGED <<owner, tick, jobs, strays, msg, twice>>

\* The cron tick opens its transaction and reads the due sources, at most
\* Limit of them.  Nothing looks for a job of the source that is still open.
TickBegin(t) ==
    /\ ~tick[t].open
    /\ SlotFree
    /\ \E S \in SUBSET due :
          /\ Cardinality(S) = AtMost(AtMost(Limit, Cardinality(due)), Room)
          /\ tick' = [tick EXCEPT ![t] = [ClosedTick EXCEPT !.open = TRUE, !.todo = S]]
    /\ UNCHANGED <<due, owner, jobs, strays, msg, twice>>

\* One iteration of the loop: add and flush the row, then enqueue.  The row is
\* private to the tick until it commits; the message is visible at once.
Offer(t, s, j, status, sent) ==
    /\ tick[t].open
    /\ s \in tick[t].todo
    /\ owner[j] = NoSource
    /\ owner' = [owner EXCEPT ![j] = s]
    /\ tick' = [tick EXCEPT ![t].todo = @ \ {s}, ![t].staged[j] = status]
    /\ msg' = IF sent THEN [msg EXCEPT ![j].at = "ready"] ELSE msg
    /\ UNCHANGED <<due, jobs, strays>>

TickOffer_CommitFirst(t, s, j) ==
    /\ Offer(t, s, j, "QUEUED", FALSE)
    /\ UNCHANGED twice

TickOffer(t, s, j) ==
    /\ Offer(t, s, j, "QUEUED", TRUE)
    /\ UNCHANGED twice

TickOfferFails_RowStaysQueued(t, s, j, sent) ==
    /\ Offer(t, s, j, "QUEUED", sent)
    /\ twice' = [twice EXCEPT ![j] = sent]

\* enqueue raised: the row becomes FAILED and the loop goes on.  The failure
\* may have hit the reply only, in which case Redis holds the message.
TickOfferFails(t, s, j, sent) ==
    /\ Offer(t, s, j, "FAILED", sent)
    /\ twice' = [twice EXCEPT ![j] = sent]

\* The scope ends: all rows of the tick become visible together.
TickCommit(t) ==
    /\ tick[t].open
    /\ tick[t].todo = {}
    /\ jobs' = [j \in JobIds |->
                  IF tick[t].staged[j] = "NONE" THEN jobs[j]
                  ELSE [status |-> tick[t].staged[j], attempt |-> 0]]
    /\ tick' = [tick EXCEPT ![t] = ClosedTick]
    /\ UNCHANGED <<due, owner, strays, msg, twice>>

\* A flush or the commit fails, the tick times out or its worker dies: the
\* rows are rolled back, the messages already enqueued are not.
TickAbort(t) ==
    /\ tick[t].open
    /\ tick' = [tick EXCEPT ![t] = ClosedTick]
    /\ UNCHANGED <<due, owner, jobs, strays, msg, twice>>

----------------------------------------------------------------------------
(* The worker: one execution of ingest_source for message j.               *)

Pick_Unlimited(j) ==
    /\ msg[j].at = "ready"
    /\ SlotFree
    /\ msg' = [msg EXCEPT ![j].try = @ + 1, ![j].at = "picked", ![j].outcome = "none"]
    /\ UNCHANGED <<due, owner, tick, jobs, strays, twice>>

\* ARQ counts the try before the task starts and drops a message that has no
\* try left without running it.
Pick(j) ==
    /\ msg[j].at = "ready"
    /\ SlotFree
    /\ msg' = [msg EXCEPT ![j].try = @ + 1,
                          ![j].at = IF msg[j].try < MaxTries THEN "picked" ELSE "done",
                          ![j].outcome = IF msg[j].try < MaxTries THEN "none" ELSE "exhausted"]
    /\ UNCHANGED <<due, owner, tick, jobs, strays, twice>>

\* Look the row up by id; when it is not visible, create another one in this
\* transaction.  (The source exists: no operation deletes a source.)
LoadJob(j) ==
    /\ msg[j].at = "picked"
    /\ msg' = [msg EXCEPT ![j].at = "loaded", ![j].made = (jobs[j].status = "NONE")]
    /\ UNCHANGED <<due, owner, tick, jobs, strays, twice>>

\* The row of this execution with its attempt counter as the task leaves it:
\* += 1 for a row that was found, the default 0 for one that was created.
Attempt(j) == IF msg[j].made THEN 0 ELSE jobs[j].attempt + 1

\* Commit the transaction with its row at the given values.
CommitRow(j, status, attempt) ==
    IF msg[j].made
    THEN /\ strays' = [strays EXCEPT ![j][msg[j].try] =
                          [status |-> status, attempt |-> attempt]]
         /\ UNCHANGED jobs
    ELSE /\ jobs' = [jobs EXCEPT ![j] = [status |-> status, attempt |-> attempt]]
         /\ UNCHANGED strays

Committed(j, outcome) ==
    msg' = [msg EXCEPT ![j].at = "committed", ![j].outcome = outcome]

Greater(a, b) == IF a >= b THEN a ELSE b

RunSucceeds_UnstampedAttempt(j) ==
    /\ msg[j].at = "loaded"
    /\ CommitRow(j, "COMPLETED", Attempt(j))
    /\ Committed(j, "ok")
    /\ due' = due \ {owner[j]}
    /\ UNCHANGED <<owner, tick, twice>>

\* The run completed: _finalise settles the row and sets last_run_at, the
\* attempt counter catches up with ARQ's, and the scope commits.
RunSucceeds(j) ==
    /\ msg[j].at = "loaded"
    /\ CommitRow(j, "COMPLETED", Greater(Attempt(j), msg[j].try))
    /\ Committed(j, "ok")
    /\ due' = due \ {owner[j]}
    /\ UNCHANGED <<owner, tick, twice>>

\* decide_retry: whether a failed run gets another try.
DecideRetry(transient, try) == transient /\ try < MaxTries

RunFails_SettlesThenRetries(j, transient) ==
    /\ msg[j].at = "loaded"
    /\ CommitRow(j, "FAILED", Attempt(j))
    /\ Committed(j, IF DecideRetry(transient, msg[j].try) THEN "retry" ELSE "failed")
    /\ due' = due \ {owner[j]}
    /\ UNCHANGED <<owner, tick, twice>>

RunFails_CountsNextTry(j, transient) ==
    /\ msg[j].at = "loaded"
    /\ IF DecideRetry(transient, msg[j].try)
       THEN CommitRow(j, "RETRYING", Attempt(j) + 1) /\ Committed(j, "retry")
       ELSE CommitRow(j, "FAILED", Attempt(j)) /\ Committed(j, "failed")
    /\ due' = due \ {owner[j]}
    /\ UNCHANGED <<owner, tick, twice>>

RunFails_NoCommitBeforeRaise(j, transient) ==
    /\ msg[j].at = "loaded"
    /\ Committed(j, IF DecideRetry(transient, msg[j].try) THEN "retry" ELSE "failed")
    /\ UNCHANGED <<due, owner, tick, jobs, strays, twice>>

\* The run ended FAILED: defer_or_fail commits the decision together with the
\* run's writes, then raises Retry or JobExecutionFailed.
RunFails(j, transient) ==
    /\ msg[j].at = "loaded"
    /\ IF DecideRetry(transient, msg[j].try)
       THEN CommitRow(j, "RETRYING", Attempt(j)) /\ Committed(j, "retry")
       ELSE CommitRow(j, "FAILED", Attempt(j)) /\ Committed(j, "failed")
    /\ due' = due \ {owner[j]}
    /\ UNCHANGED <<owner, tick, twice>>

\* An exception escaped the pipeline: everything is rolled back (a row made in
\* this transaction with it), RETRYING is committed on a row that survives,
\* and Retry is raised whatever the try.
RunCrashes(j) ==
    /\ msg[j].at = "loaded"
    /\ jobs' = IF msg[j].made THEN jobs ELSE [jobs EXCEPT ![j].status = "RETRYING"]
    /\ Committed(j, "retry")
    /\ UNCHANGED <<due, owner, tick, strays, twice>>

Requeued_AsNew(j) ==
    [msg EXCEPT ![j].at = "ready", ![j].try = 0, ![j].made = FALSE, ![j].outcome = "none"]

\* The message goes back to the queue with the tries it has used.
Requeued(j) ==
    [msg EXCEPT ![j].at = "ready", ![j].made = FALSE, ![j].outcome = "none"]

\* ARQ deals with what the task returned or raised.
Acknowledge(j) ==
    /\ msg[j].at = "committed"
    /\ msg' = IF msg[j].outcome = "retry" THEN Requeued(j)
              ELSE [msg EXCEPT ![j].at = "done"]
    /\ UNCHANGED <<due, owner, tick, jobs, strays, twice>>

\* job_timeout expires, or a database fault escapes the task's own handler:
\* the open transaction is lost and ARQ fails the message for good.
ExecutionLost(j) ==
    /\ Running(j)
    /\ msg' = [msg EXCEPT ![j].at = "done", ![j].outcome = "error"]
    /\ UNCHANGED <<due, owner, tick, jobs, strays, twice>>

\* The worker is stopped or killed: the open transaction is lost and the
\* message runs again, even if its row was already settled.
WorkerStops(j) ==
    /\ Running(j)
    /\ msg' = Requeued(j)
    /\ twice' = [twice EXCEPT ![j] = @ \/ msg[j].at = "committed"]
    /\ UNCHANGED <<due, owner, tick, jobs, strays>>

----------------------------------------------------------------------------

Scheduling ==
    \/ \E s \in Sources : BecomeDue(s)
    \/ \E t \in Ticks :
          \/ TickBegin(t)
          \/ \E s \in Sources, j \in JobIds : TickOffer(t, s, j)
          \/ \E s \in Sources, j \in JobIds, sent \in BOOLEAN :
                TickOfferFails(t, s, j, sent)
          \/ TickCommit(t)
          \/ TickAbort(t)

Execution(j) ==
    \/ LoadJob(j)
    \/ RunSucceeds(j)
    \/ \E transient \in BOOLEAN : RunFails(j, transient)
    \/ RunCrashes(j)
    \/ Acknowledge(j)
    \/ ExecutionLost(j)
    \/ WorkerStops(j)

Next ==
    \/ Scheduling
    \/ \E j \in JobIds : Pick(j) \/ Execution(j)

Spec == Init /\ [][Next]_vars

\* A worker process polls Redis for as long as it is up and is restarted when
\* it stops; ARQ serves messages oldest first, so a ready message is not
\* passed over for ever while slots come and go; asyncio runs a task that can
\* run; a tick's loop is bounded.  Nothing is assumed of time, of ticks being
\* started, of runs succeeding, or of faults ceasing.
Fairness ==
    /\ \A j \in JobIds : SF_vars(Pick(j)) /\ WF_vars(Execution(j))
    /\ \A t \in Ticks :
          /\ WF_vars(\E s \in Sources, j \in JobIds : TickOffer(t, s, j))
          /\ WF_vars(TickCommit(t))

FairSpec == Spec /\ Fairness

----------------------------------------------------------------------------
(* What the queue promises.                                                *)

Settled(row) == row.status \in {"COMPLETED", "FAILED"}

Live(j) == msg[j].at \notin {"none", "done"}

\* The row an execution of j works on.
RowOf(j) == IF msg[j].made THEN strays[j][msg[j].try] ELSE jobs[j]

\* A row nobody will ever run is worse than no row: every QUEUED row that can
\* be read has had its message enqueued.
\* (schedule_due_sources enqueues before its commit, and marks the row FAILED
\* when enqueue raises.)
QueuedRowsHaveMessage ==
    \A j \in JobIds : jobs[j].status = "QUEUED" => msg[j].at # "none"

\* Redis and the database never tell different stories about a delivery that
\* ended by the task's own decision: once the message is acknowledged as done,
\* the row the last try worked on is COMPLETED with every try counted, or
\* FAILED; and while a retry is raised that row is not settled.
RecordMatchesQueue ==
    \A j \in JobIds :
        /\ (msg[j].at \in {"committed", "done"} /\ msg[j].outcome = "ok") =>
              RowOf(j) = [status |-> "COMPLETED", attempt |-> msg[j].try]
        /\ (msg[j].at \in {"committed", "done"} /\ msg[j].outcome = "failed") =>
              RowOf(j).status = "FAILED"
        /\ (msg[j].at = "committed" /\ msg[j].outcome = "retry") =>
              ~Settled(RowOf(j))

\* The attempt counter of a row never runs ahead of ARQ's own counter, however
\* tries crash, are lost or run on a row of their own.
AttemptsNeverOvercount ==
    \A j \in JobIds :
        /\ jobs[j].attempt <= msg[j].try
        /\ (msg[j].at \in {"picked", "loaded"}) => jobs[j].attempt < msg[j].try

\* A settled row is final: it changes again only if ARQ lost the
\* acknowledgement (the worker died between the commit and the reply to Redis)
\* or Redis had accepted a message whose enqueue was reported as failed.
SettledRowsStaySettled ==
    [][\A j \in JobIds : Settled(jobs[j]) /\ jobs'[j] # jobs[j] => twice[j]]_vars

\* Every message ARQ accepted is finished one way or another, within its tries,
\* even if every execution crashes.
EveryMessageFinishes ==
    \A j \in JobIds : Live(j) ~> msg[j].at = "done"

\* A visible QUEUED row does not wait for ever: a worker settles or re-arms it,
\* unless its tries were lost one by one or ran on rows of their own.
QueuedRowsAreTried ==
    \A j \in JobIds :
        jobs[j].status = "QUEUED" ~>
            \/ jobs[j].status # "QUEUED"
            \/ msg[j].at = "done" /\ (msg[j].made \/ msg[j].outcome \in {"error", "exhausted"})

----------------------------------------------------------------------------
(* The inductive invariant behind these promises (IngestionJobsProofs).    *)

\* An id that has not been handed out has left no trace anywhere.
FreshIdsAreUnused ==
    \A j \in JobIds : owner[j] = NoSource =>
        /\ jobs[j].status = "NONE"
        /\ msg[j].at = "none"
        /\ ~twice[j]
        /\ \A t \in Ticks : tick[t].staged[j] = "NONE"

\* A row staged by a tick is nobody else's and cannot be read yet.
StagedRowsArePrivate ==
    \A t \in Ticks, j \in JobIds : tick[t].staged[j] # "NONE" =>
        /\ jobs[j] = NoRow
        /\ tick[t].staged[j] = "QUEUED" => msg[j].at # "none"
        /\ tick[t].staged[j] = "FAILED" => msg[j].at = "none" \/ twice[j]
        /\ \A u \in Ticks : tick[u].staged[j] # "NONE" => u = t

\* ARQ's counter: a ready message may still be counted up once more, a running
\* one is within its tries.
TriesAreBudgeted ==
    \A j \in JobIds :
        /\ msg[j].at = "none" => msg[j].try = 0
        /\ msg[j].at = "ready" => msg[j].try <= MaxTries
        /\ Running(j) => msg[j].try \in Tries
        /\ msg[j].outcome \in {"ok", "failed"} => msg[j].try \in Tries

\* An execution that works on the scheduler's row has read it.
LoadedRowsAreVisible ==
    \A j \in JobIds :
        /\ jobs[j].status = "NONE" => jobs[j] = NoRow
        /\ (msg[j].at \in {"loaded", "committed"} \/ msg[j].outcome \in {"ok", "failed"})
              /\ ~msg[j].made => jobs[j].status # "NONE"
        /\ msg[j].outcome \in {"ok", "failed"} => msg[j].at \in {"committed", "done"}

\* A settled row has spent its message, unless the message is in doubt.
SettledRowsAreSpent ==
    \A j \in JobIds : Settled(jobs[j]) =>
        \/ twice[j]
        \/ msg[j].at \in {"none", "done"}
        \/ msg[j].at = "committed" /\ msg[j].outcome \in {"ok", "failed"}

\* A row made by a try is that try's own and is there once it has committed.
StraysArePastTries ==
    \A j \in JobIds, n \in Tries : strays[j][n].status # "NONE" =>
        /\ n <= msg[j].try
        /\ msg[j].at \in {"picked", "loaded"} => n < msg[j].try

IInv ==
    /\ TypeOK
    /\ FreshIdsAreUnused
    /\ StagedRowsArePrivate
    /\ TriesAreBudgeted
    /\ LoadedRowsAreVisible
    /\ StraysArePastTries
    /\ SettledRowsAreSpent
    /\ QueuedRowsHaveMessage
    /\ AttemptsNeverOvercount
    /\ RecordMatchesQueue

----------------------------------------------------------------------------
(* What the repository says of the queue and the code does not do.         *)

\* Committed rows of one message: the scheduler's (0), and one of every try that
\* did not see it.
RowsOf(j) ==
    {n \in {0} : jobs[j].status # "NONE"} \cup {n \in Tries : strays[j][n].status # "NONE"}

\* test_worker_policies.py: the worker must find the row it is told to run
\* rather than "quietly create a second ingestion_jobs row": nobody ever reads
\* two rows for one message.
OneRowPerMessage == \A j \in JobIds : Cardinality(RowsOf(j)) <= 1

\* tasks.py:11-12: ingest_source "must record why it gave up": when ARQ is done
\* with a message, the row it was about is settled.
GivingUpIsRecorded ==
    \A j \in JobIds : msg[j].at = "done" /\ jobs[j].status # "NONE" => Settled(jobs[j])

\* The queue refines its ledger.
Ledger == INSTANCE JobLedger WITH
    record  <- [j \in JobIds |-> jobs[j].status],
    issued  <- {j \in JobIds : msg[j].at # "none"},
    retired <- {j \in JobIds : msg[j].at = "done"},
    doubted <- {j \in JobIds : twice[j]}

LedgerSpec == Ledger!Spec
=============================================================================
