------------------------ MODULE IngestionJobsProofs ------------------------
(***************************************************************************)
(* Proofs about IngestionJobs for every number of jobs, sources, ticks,    *)
(* tries and slots.  IInv is inductive: one lemma per action, and in each  *)
(* one step per conjunct of IInv.  The theorems at the end read the        *)
(* promises of the queue off it.                                           *)
(***************************************************************************)
EXTENDS IngestionJobs, TLAPS

(***************************************************************************)
(* The initial state.                                                      *)
(***************************************************************************)
LEMMA InitIInv == Init => IInv
<1> SUFFICES ASSUME Init PROVE IInv
  OBVIOUS
<1>1. TypeOK
  BY MaxTriesAssumption DEF Init, TypeOK, ClosedTick, Tick, NoRow, Row, Message
<1>2. FreshIdsAreUnused /\ StagedRowsArePrivate
  BY DEF Init, FreshIdsAreUnused, StagedRowsArePrivate, ClosedTick, NoRow
<1>3. TriesAreBudgeted /\ LoadedRowsAreVisible
  BY DEF Init, TriesAreBudgeted, LoadedRowsAreVisible, Running, NoRow
<1>4. SettledRowsAreSpent /\ QueuedRowsHaveMessage
  BY DEF Init, SettledRowsAreSpent, QueuedRowsHaveMessage, Settled, NoRow
<1>5. AttemptsNeverOvercount /\ StraysArePastTries /\ RecordMatchesQueue
  BY DEF Init, AttemptsNeverOvercount, StraysArePastTries, RecordMatchesQueue, NoRow
<1> QED
  BY <1>1, <1>2, <1>3, <1>4, <1>5 DEF IInv

(***************************************************************************)
(* Steps that leave rows, messages and doubts alone: time passing, a tick  *)
(* opening its transaction, a tick losing it.                              *)
(***************************************************************************)
LEMMA QuietStepKeeps ==
  ASSUME IInv,
         due' \subseteq Sources,
         tick' \in [Ticks -> Tick],
         \A t \in Ticks, j \in JobIds :
            tick'[t].staged[j] \in {"NONE", tick[t].staged[j]},
         UNCHANGED <<owner, jobs, strays, msg, twice>>
  PROVE  IInv'
<1>1. TypeOK'
  BY DEF IInv, TypeOK
<1>2. FreshIdsAreUnused'
  BY DEF IInv, FreshIdsAreUnused
<1>3. StagedRowsArePrivate'
  BY DEF IInv, StagedRowsArePrivate
<1>4. /\ TriesAreBudgeted' /\ LoadedRowsAreVisible' /\ SettledRowsAreSpent'
      /\ QueuedRowsHaveMessage' /\ AttemptsNeverOvercount' /\ RecordMatchesQueue'
      /\ StraysArePastTries'
  BY DEF IInv, TriesAreBudgeted, LoadedRowsAreVisible, SettledRowsAreSpent,
         QueuedRowsHaveMessage, AttemptsNeverOvercount, RecordMatchesQueue,
         StraysArePastTries, Running, Settled, RowOf
<1> QED
  BY <1>1, <1>2, <1>3, <1>4 DEF IInv

\* A source that becomes due changes nothing of the queue.
LEMMA BecomeDueKeeps ==
  ASSUME IInv, NEW s \in Sources, BecomeDue(s)
  PROVE  IInv'
<1>1. due' \subseteq Sources /\ tick' = tick
  BY DEF BecomeDue, IInv, TypeOK
<1> QED
  BY <1>1, QuietStepKeeps DEF BecomeDue, IInv, TypeOK

\* A tick that is closed has staged no job.
LEMMA ClosedTickType == ClosedTick \in Tick /\ \A j \in JobIds : ClosedTick.staged[j] = "NONE"
BY DEF ClosedTick, Tick

\* A tick that begins has staged nothing yet.
LEMMA TickBeginKeeps ==
  ASSUME IInv, NEW t \in Ticks, TickBegin(t)
  PROVE  IInv'
<1>1. PICK S \in SUBSET due :
        tick' = [tick EXCEPT ![t] = [ClosedTick EXCEPT !.open = TRUE, !.todo = S]]
  BY DEF TickBegin
<1> DEFINE opened == [ClosedTick EXCEPT !.open = TRUE, !.todo = S]
<1>2. opened \in Tick /\ \A j \in JobIds : opened.staged[j] = "NONE"
  BY DEF ClosedTick, Tick, IInv, TypeOK
<1>3. tick' \in [Ticks -> Tick]
  BY <1>1, <1>2 DEF IInv, TypeOK
<1>4. \A u \in Ticks, j \in JobIds : tick'[u].staged[j] \in {"NONE", tick[u].staged[j]}
  BY <1>1, <1>2 DEF IInv, TypeOK
<1> QED
  BY <1>3, <1>4, QuietStepKeeps DEF TickBegin, IInv, TypeOK

\* A tick that fails takes its staged rows with it, and only those.
LEMMA TickAbortKeeps ==
  ASSUME IInv, NEW t \in Ticks, TickAbort(t)
  PROVE  IInv'
<1>1. tick' \in [Ticks -> Tick]
  BY ClosedTickType DEF TickAbort, IInv, TypeOK
<1>2. \A u \in Ticks, j \in JobIds : tick'[u].staged[j] \in {"NONE", tick[u].staged[j]}
  BY ClosedTickType DEF TickAbort, IInv, TypeOK
<1> QED
  BY <1>1, <1>2, QuietStepKeeps DEF TickAbort, IInv, TypeOK

(***************************************************************************)
(* A tick hands out an id: the row is staged, its message possibly sent.   *)
(***************************************************************************)
LEMMA OfferKeeps ==
  ASSUME IInv,
         NEW t \in Ticks, NEW s \in Sources, NEW j \in JobIds,
         NEW status \in {"QUEUED", "FAILED"}, NEW sent \in BOOLEAN,
         status = "QUEUED" => sent,
         Offer(t, s, j, status, sent),
         twice' \in [JobIds -> BOOLEAN],
         status = "FAILED" /\ sent => twice'[j],
         \A k \in JobIds \ {j} : twice'[k] = twice[k]
  PROVE  IInv'
<1>1. /\ jobs[j] = NoRow
      /\ msg[j].at = "none"
      /\ \A u \in Ticks : tick[u].staged[j] = "NONE"
  BY DEF Offer, IInv, FreshIdsAreUnused, LoadedRowsAreVisible
<1>2. /\ owner' \in [JobIds -> Sources \cup {NoSource}]
      /\ owner'[j] # NoSource
      /\ \A k \in JobIds \ {j} : owner'[k] = owner[k]
  BY NoSourceAssumption DEF Offer, IInv, TypeOK
<1>3. tick' = [tick EXCEPT ![t] = [tick[t] EXCEPT
                 !.todo = @ \ {s}, !.staged = [tick[t].staged EXCEPT ![j] = status]]]
  BY DEF Offer, IInv, TypeOK, Tick
<1>4. /\ tick' \in [Ticks -> Tick]
      /\ tick'[t].staged[j] = status
      /\ \A u \in Ticks \ {t} : tick'[u].staged = tick[u].staged
      /\ \A k \in JobIds \ {j} : tick'[t].staged[k] = tick[t].staged[k]
  <2> DEFINE staged == [tick[t].staged EXCEPT ![j] = status]
             new == [tick[t] EXCEPT !.todo = @ \ {s}, !.staged = staged]
  <2>1. tick \in [Ticks -> Tick] /\ tick[t] \in Tick
    BY DEF IInv, TypeOK
  <2>2. tick[t].staged \in [JobIds -> {"NONE", "QUEUED", "FAILED"}]
    BY <2>1 DEF Tick
  <2>3. /\ staged \in [JobIds -> {"NONE", "QUEUED", "FAILED"}] /\ staged[j] = status
        /\ \A k \in JobIds \ {j} : staged[k] = tick[t].staged[k]
    BY <2>2
  <2> HIDE DEF staged
  <2>4. new \in Tick /\ new.staged = staged
    BY <2>1, <2>3 DEF Tick
  <2>5. tick' = [tick EXCEPT ![t] = new]
    BY <1>3 DEF staged
  <2> HIDE DEF new
  <2>6. tick' \in [Ticks -> Tick] /\ tick'[t] = new /\ \A u \in Ticks \ {t} : tick'[u] = tick[u]
    BY <2>1, <2>4, <2>5
  <2> QED
    BY <2>3, <2>4, <2>6
<1>5. /\ msg' \in [JobIds -> Message]
      /\ msg'[j].at = IF sent THEN "ready" ELSE "none"
      /\ msg'[j].try = msg[j].try /\ msg'[j].outcome = msg[j].outcome
      /\ msg[j].try = 0 /\ msg[j].outcome \notin {"ok", "failed"}
      /\ \A k \in JobIds \ {j} : msg'[k] = msg[k]
  <2> DEFINE ready == [msg[j] EXCEPT !.at = "ready"]
  <2>1. msg \in [JobIds -> Message] /\ msg[j] \in Message
    BY DEF IInv, TypeOK
  <2>2. msg[j].try = 0 /\ msg[j].outcome \notin {"ok", "failed"}
    BY <1>1 DEF IInv, TriesAreBudgeted, LoadedRowsAreVisible
  <2>3. /\ ready \in Message /\ ready.at = "ready"
        /\ ready.try = msg[j].try /\ ready.outcome = msg[j].outcome
    BY <2>1 DEF Message
  <2>4. msg' = IF sent THEN [msg EXCEPT ![j] = ready] ELSE msg
    BY DEF Offer
  <2> HIDE DEF ready
  <2>5. CASE sent
    BY <2>1, <2>2, <2>3, <2>4, <2>5
  <2>6. CASE ~sent
    BY <1>1, <2>1, <2>2, <2>4, <2>6
  <2> QED
    BY <2>5, <2>6
<1>6. UNCHANGED <<due, jobs, strays>>
  BY DEF Offer
<1>7. TypeOK'
  BY <1>2, <1>4, <1>5, <1>6 DEF IInv, TypeOK
<1>8. FreshIdsAreUnused'
  BY <1>2, <1>4, <1>5, <1>6 DEF IInv, FreshIdsAreUnused
<1>9. StagedRowsArePrivate'
  <2> SUFFICES ASSUME NEW u \in Ticks, NEW k \in JobIds, tick'[u].staged[k] # "NONE"
               PROVE  /\ jobs'[k] = NoRow
                      /\ tick'[u].staged[k] = "QUEUED" => msg'[k].at # "none"
                      /\ tick'[u].staged[k] = "FAILED" => msg'[k].at = "none" \/ twice'[k]
                      /\ \A v \in Ticks : tick'[v].staged[k] # "NONE" => v = u
    BY DEF StagedRowsArePrivate, NoRow
  <2>1. CASE k = j
    BY <2>1, <1>1, <1>4, <1>5, <1>6
  <2>2. CASE k # j
    BY <2>2, <1>4, <1>5, <1>6 DEF IInv, StagedRowsArePrivate
  <2> QED
    BY <2>1, <2>2
<1>10. TriesAreBudgeted'
  BY <1>5, MaxTriesAssumption DEF IInv, TriesAreBudgeted, Running
<1>11. LoadedRowsAreVisible'
  BY <1>1, <1>5, <1>6 DEF IInv, LoadedRowsAreVisible
<1>12. SettledRowsAreSpent'
  BY <1>1, <1>5, <1>6 DEF IInv, SettledRowsAreSpent, Settled, NoRow
<1>13. QueuedRowsHaveMessage'
  BY <1>1, <1>5, <1>6 DEF IInv, QueuedRowsHaveMessage, NoRow
<1>14. AttemptsNeverOvercount' /\ StraysArePastTries'
  BY <1>1, <1>5, <1>6 DEF IInv, AttemptsNeverOvercount, StraysArePastTries, NoRow
<1>15. RecordMatchesQueue'
  BY <1>5, <1>6 DEF IInv, RecordMatchesQueue, RowOf
<1> QED
  BY <1>7, <1>8, <1>9, <1>10, <1>11, <1>12, <1>13, <1>14, <1>15 DEF IInv

\* A tick that offers a job ...
LEMMA TickOfferKeeps ==
  ASSUME IInv, NEW t \in Ticks, NEW s \in Sources, NEW j \in JobIds, TickOffer(t, s, j)
  PROVE  IInv'
BY OfferKeeps DEF TickOffer, IInv, TypeOK

\* ... and one whose offer fails keep the invariant.
LEMMA TickOfferFailsKeeps ==
  ASSUME IInv, NEW t \in Ticks, NEW s \in Sources, NEW j \in JobIds, NEW sent \in BOOLEAN,
         TickOfferFails(t, s, j, sent)
  PROVE  IInv'
<1>1. /\ twice' \in [JobIds -> BOOLEAN]
      /\ sent => twice'[j]
      /\ \A k \in JobIds \ {j} : twice'[k] = twice[k]
  BY DEF TickOfferFails, IInv, TypeOK
<1> QED
  BY <1>1, OfferKeeps DEF TickOfferFails

(***************************************************************************)
(* A tick commits: the rows it staged become visible.                      *)
(***************************************************************************)
LEMMA TickCommitKeeps ==
  ASSUME IInv, NEW t \in Ticks, TickCommit(t)
  PROVE  IInv'
<1> DEFINE J == {j \in JobIds : tick[t].staged[j] # "NONE"}
<1>1. tick[t].staged \in [JobIds -> {"NONE", "QUEUED", "FAILED"}]
  BY DEF IInv, TypeOK, Tick
<1>2. /\ jobs' \in [JobIds -> Row]
      /\ \A j \in J : jobs'[j] = [status |-> tick[t].staged[j], attempt |-> 0]
      /\ \A j \in JobIds \ J : jobs'[j] = jobs[j]
  BY <1>1, MaxTriesAssumption DEF TickCommit, IInv, TypeOK, Row
<1>3. /\ tick' \in [Ticks -> Tick]
      /\ \A j \in JobIds : tick'[t].staged[j] = "NONE"
      /\ \A u \in Ticks \ {t} : tick'[u] = tick[u]
  BY ClosedTickType DEF TickCommit, IInv, TypeOK
<1>4. UNCHANGED <<due, owner, strays, msg, twice>>
  BY DEF TickCommit
<1>5. \A j \in J : /\ jobs[j] = NoRow
                   /\ owner[j] # NoSource
                   /\ tick[t].staged[j] = "QUEUED" => msg[j].at # "none"
                   /\ tick[t].staged[j] = "FAILED" => msg[j].at = "none" \/ twice[j]
                   /\ \A u \in Ticks \ {t} : tick[u].staged[j] = "NONE"
  BY DEF IInv, StagedRowsArePrivate, FreshIdsAreUnused
<1>6. TypeOK'
  BY <1>2, <1>3, <1>4 DEF IInv, TypeOK
<1>7. FreshIdsAreUnused'
  BY <1>2, <1>3, <1>4, <1>5 DEF IInv, FreshIdsAreUnused
<1>8. StagedRowsArePrivate'
  BY <1>2, <1>3, <1>4, <1>5 DEF IInv, StagedRowsArePrivate
<1>9. TriesAreBudgeted'
  BY <1>4 DEF IInv, TriesAreBudgeted, Running
<1>10. LoadedRowsAreVisible'
  BY <1>1, <1>2, <1>4 DEF IInv, LoadedRowsAreVisible
<1>11. SettledRowsAreSpent'
  BY <1>1, <1>2, <1>4, <1>5 DEF IInv, SettledRowsAreSpent, Settled
<1>12. QueuedRowsHaveMessage'
  BY <1>1, <1>2, <1>4, <1>5 DEF IInv, QueuedRowsHaveMessage
<1>13. AttemptsNeverOvercount' /\ StraysArePastTries'
  BY <1>2, <1>4, <1>5 DEF IInv, AttemptsNeverOvercount, StraysArePastTries, NoRow
<1>14. RecordMatchesQueue'
  <2>1. \A j \in J : msg[j].at \in {"committed", "done"} /\ msg[j].outcome \in {"ok", "failed"}
           => msg[j].made
    BY <1>5 DEF IInv, LoadedRowsAreVisible, NoRow
  <2>2. \A j \in J : msg[j].at = "committed" => msg[j].made
    BY <1>5 DEF IInv, LoadedRowsAreVisible, NoRow
  <2> QED
    BY <1>2, <1>4, <2>1, <2>2 DEF IInv, RecordMatchesQueue, RowOf, Settled
<1> QED
  BY <1>6, <1>7, <1>8, <1>9, <1>10, <1>11, <1>12, <1>13, <1>14 DEF IInv

(***************************************************************************)
(* Steps that move one message and leave every row alone.                  *)
(***************************************************************************)
LEMMA PickKeeps ==
  ASSUME IInv, NEW j \in JobIds, Pick(j)
  PROVE  IInv'
<1>1. /\ msg[j].at = "ready" /\ msg[j].try \in 0..MaxTries
      /\ msg[j].outcome \notin {"ok", "failed"}
  BY DEF Pick, IInv, TypeOK, Message, TriesAreBudgeted, LoadedRowsAreVisible
<1> DEFINE at      == IF msg[j].try < MaxTries THEN "picked" ELSE "done"
           outcome == IF msg[j].try < MaxTries THEN "none" ELSE "exhausted"
<1>2. msg' = [msg EXCEPT ![j] =
                [at |-> at, try |-> msg[j].try + 1, made |-> msg[j].made, outcome |-> outcome]]
  BY DEF Pick, IInv, TypeOK, Message
<1>3. /\ msg' \in [JobIds -> Message]
      /\ msg'[j] = [at |-> at, try |-> msg[j].try + 1, made |-> msg[j].made,
                    outcome |-> outcome]
      /\ \A k \in JobIds \ {j} : msg'[k] = msg[k]
  BY <1>1, <1>2, MaxTriesAssumption DEF IInv, TypeOK, Message
<1>4. UNCHANGED <<due, owner, tick, jobs, strays, twice>>
  BY DEF Pick
<1>5. TypeOK'
  BY <1>3, <1>4 DEF IInv, TypeOK
<1>6. FreshIdsAreUnused' /\ StagedRowsArePrivate'
  BY <1>1, <1>3, <1>4 DEF IInv, FreshIdsAreUnused, StagedRowsArePrivate
<1>7. TriesAreBudgeted'
  BY <1>1, <1>3, MaxTriesAssumption DEF IInv, TriesAreBudgeted, Running, Tries
<1>8. LoadedRowsAreVisible'
  BY <1>3, <1>4 DEF IInv, LoadedRowsAreVisible
<1>9. SettledRowsAreSpent' /\ QueuedRowsHaveMessage'
  BY <1>1, <1>3, <1>4 DEF IInv, SettledRowsAreSpent, QueuedRowsHaveMessage, Settled
<1>10. AttemptsNeverOvercount' /\ StraysArePastTries'
  <2>1. jobs[j].attempt \in Int /\ msg[j].try \in Int /\ jobs[j].attempt <= msg[j].try
    BY MaxTriesAssumption, <1>1 DEF IInv, AttemptsNeverOvercount, TypeOK, Row
  <2>2. AttemptsNeverOvercount'
    BY <1>3, <1>4, <2>1 DEF IInv, AttemptsNeverOvercount
  <2>3. \A n \in Tries : strays[j][n].status # "NONE" => n < msg[j].try + 1
    BY <2>1, MaxTriesAssumption DEF IInv, StraysArePastTries, Tries
  <2>4. StraysArePastTries'
    BY <1>3, <1>4, <2>1, <2>3, MaxTriesAssumption DEF IInv, StraysArePastTries, Tries
  <2> QED
    BY <2>2, <2>4
<1>11. RecordMatchesQueue'
  BY <1>3, <1>4 DEF IInv, RecordMatchesQueue, RowOf, Settled
<1> QED
  BY <1>5, <1>6, <1>7, <1>8, <1>9, <1>10, <1>11 DEF IInv

\* So does a worker that loads the row of its message ...
LEMMA LoadJobKeeps ==
  ASSUME IInv, NEW j \in JobIds, LoadJob(j)
  PROVE  IInv'
<1>1. /\ msg[j].at = "picked" /\ msg[j].try \in Tries
      /\ msg[j].outcome \notin {"ok", "failed"}
  BY DEF LoadJob, IInv, TriesAreBudgeted, LoadedRowsAreVisible, Running
<1>2. msg' = [msg EXCEPT ![j] =
                [msg[j] EXCEPT !.at = "loaded", !.made = (jobs[j].status = "NONE")]]
  BY DEF LoadJob
<1>3. /\ msg' \in [JobIds -> Message]
      /\ msg'[j].at = "loaded"
      /\ msg'[j].made <=> jobs[j].status = "NONE"
      /\ msg'[j].try = msg[j].try /\ msg'[j].outcome = msg[j].outcome
      /\ \A k \in JobIds \ {j} : msg'[k] = msg[k]
  BY <1>2 DEF IInv, TypeOK, Message
<1>4. UNCHANGED <<due, owner, tick, jobs, strays, twice>>
  BY DEF LoadJob
<1>5. TypeOK'
  BY <1>3, <1>4 DEF IInv, TypeOK
<1>6. FreshIdsAreUnused' /\ StagedRowsArePrivate'
  BY <1>1, <1>3, <1>4 DEF IInv, FreshIdsAreUnused, StagedRowsArePrivate
<1>7. TriesAreBudgeted'
  BY <1>1, <1>3 DEF IInv, TriesAreBudgeted, Running
<1>8. LoadedRowsAreVisible'
  BY <1>1, <1>3, <1>4 DEF IInv, LoadedRowsAreVisible
<1>9. SettledRowsAreSpent' /\ QueuedRowsHaveMessage'
  BY <1>1, <1>3, <1>4 DEF IInv, SettledRowsAreSpent, QueuedRowsHaveMessage, Settled
<1>10. AttemptsNeverOvercount' /\ StraysArePastTries'
  BY <1>1, <1>3, <1>4 DEF IInv, AttemptsNeverOvercount, StraysArePastTries
<1>11. RecordMatchesQueue'
  BY <1>3, <1>4 DEF IInv, RecordMatchesQueue, RowOf, Settled
<1> QED
  BY <1>5, <1>6, <1>7, <1>8, <1>9, <1>10, <1>11 DEF IInv

\* The message leaves its execution for "ready", with its fields cleared, or
\* for "done", with its outcome kept or set to "error".
LEMMA LeaveKeeps ==
  ASSUME IInv, NEW j \in JobIds, Running(j), NEW m \in Message,
         msg' = [msg EXCEPT ![j] = m],
         m.try = msg[j].try,
         \/ m.at = "ready" /\ m.outcome = "none"
         \/ m.at = "done" /\ m.outcome = "error"
         \/ m.at = "done" /\ m.outcome = msg[j].outcome /\ m.made = msg[j].made
              /\ msg[j].at = "committed" /\ m.outcome # "retry",
         twice' \in [JobIds -> BOOLEAN],
         \A k \in JobIds : twice[k] => twice'[k],
         \A k \in JobIds \ {j} : twice'[k] = twice[k],
         m.at = "ready" => \/ msg[j].at # "committed"
                           \/ msg[j].outcome = "retry"
                           \/ twice'[j],
         UNCHANGED <<due, owner, tick, jobs, strays>>
  PROVE  IInv'
<1>1. /\ msg' \in [JobIds -> Message]
      /\ msg'[j] = m
      /\ \A k \in JobIds \ {j} : msg'[k] = msg[k]
  BY DEF IInv, TypeOK
<1>2. msg[j].try \in Tries /\ owner[j] # NoSource
  BY DEF IInv, TriesAreBudgeted, FreshIdsAreUnused, Running
<1>3. TypeOK'
  BY <1>1 DEF IInv, TypeOK
<1>4. FreshIdsAreUnused'
  BY <1>1, <1>2 DEF IInv, FreshIdsAreUnused
<1>5. StagedRowsArePrivate'
  BY <1>1 DEF IInv, StagedRowsArePrivate, Running
<1>6. TriesAreBudgeted'
  BY <1>1, <1>2 DEF IInv, TriesAreBudgeted, Running, Tries
<1>7. LoadedRowsAreVisible'
  BY <1>1 DEF IInv, LoadedRowsAreVisible
<1>8. SettledRowsAreSpent'
  BY <1>1 DEF IInv, SettledRowsAreSpent, Settled, Running
<1>9. QueuedRowsHaveMessage'
  BY <1>1 DEF IInv, QueuedRowsHaveMessage, Running
<1>10. AttemptsNeverOvercount' /\ StraysArePastTries'
  BY <1>1 DEF IInv, AttemptsNeverOvercount, StraysArePastTries
<1>11. RecordMatchesQueue'
  BY <1>1 DEF IInv, RecordMatchesQueue, RowOf, Settled, TypeOK, Message
<1> QED
  BY <1>3, <1>4, <1>5, <1>6, <1>7, <1>8, <1>9, <1>10, <1>11 DEF IInv

\* ... one that acknowledges the message ...
LEMMA AcknowledgeKeeps ==
  ASSUME IInv, NEW j \in JobIds, Acknowledge(j)
  PROVE  IInv'
<1>1. msg[j].at = "committed" /\ Running(j)
  BY DEF Acknowledge, Running
<1>2. CASE msg[j].outcome = "retry"
  <2> DEFINE m == [msg[j] EXCEPT !.at = "ready", !.made = FALSE, !.outcome = "none"]
  <2>1. m \in Message /\ m.at = "ready" /\ m.outcome = "none" /\ m.try = msg[j].try
    BY DEF IInv, TypeOK, Message
  <2>2. msg' = [msg EXCEPT ![j] = m]
    BY <1>2 DEF Acknowledge, Requeued
  <2> QED
    BY <1>1, <1>2, <2>1, <2>2, LeaveKeeps DEF Acknowledge, IInv, TypeOK
<1>3. CASE msg[j].outcome # "retry"
  <2> DEFINE m == [msg[j] EXCEPT !.at = "done"]
  <2>1. /\ m \in Message /\ m.at = "done" /\ m.try = msg[j].try
        /\ m.outcome = msg[j].outcome /\ m.made = msg[j].made
    BY DEF IInv, TypeOK, Message
  <2>2. msg' = [msg EXCEPT ![j] = m]
    BY <1>3 DEF Acknowledge
  <2> QED
    BY <1>1, <1>3, <2>1, <2>2, LeaveKeeps DEF Acknowledge, IInv, TypeOK
<1> QED
  BY <1>2, <1>3

\* ... an execution that is lost ...
LEMMA ExecutionLostKeeps ==
  ASSUME IInv, NEW j \in JobIds, ExecutionLost(j)
  PROVE  IInv'
<1> DEFINE m == [msg[j] EXCEPT !.at = "done", !.outcome = "error"]
<1>1. m \in Message /\ m.at = "done" /\ m.outcome = "error" /\ m.try = msg[j].try
  BY DEF IInv, TypeOK, Message
<1>2. msg' = [msg EXCEPT ![j] = m]
  BY DEF ExecutionLost
<1> QED
  BY <1>1, <1>2, LeaveKeeps DEF ExecutionLost, IInv, TypeOK

\* ... and a worker that is stopped while it runs.
LEMMA WorkerStopsKeeps ==
  ASSUME IInv, NEW j \in JobIds, WorkerStops(j)
  PROVE  IInv'
<1> DEFINE m == [msg[j] EXCEPT !.at = "ready", !.made = FALSE, !.outcome = "none"]
<1>1. m \in Message /\ m.at = "ready" /\ m.outcome = "none" /\ m.try = msg[j].try
  BY DEF IInv, TypeOK, Message
<1>2. msg' = [msg EXCEPT ![j] = m]
  BY DEF WorkerStops, Requeued
<1>3. /\ twice' \in [JobIds -> BOOLEAN]
      /\ twice'[j] <=> twice[j] \/ msg[j].at = "committed"
      /\ \A k \in JobIds \ {j} : twice'[k] = twice[k]
  BY DEF WorkerStops, IInv, TypeOK
<1> QED
  BY <1>1, <1>2, <1>3, LeaveKeeps DEF WorkerStops

(***************************************************************************)
(* Steps that commit the transaction of an execution.                      *)
(***************************************************************************)
LEMMA CommitKeeps ==
  ASSUME IInv,
         NEW j \in JobIds, msg[j].at = "loaded",
         NEW status, NEW outcome, NEW attempt \in Nat,
         \/ status = "COMPLETED" /\ outcome = "ok" /\ attempt = msg[j].try
         \/ status = "FAILED" /\ outcome = "failed"
         \/ status = "RETRYING" /\ outcome = "retry",
         attempt <= msg[j].try,
         CommitRow(j, status, attempt),
         Committed(j, outcome),
         due' \subseteq due,
         UNCHANGED <<owner, tick, twice>>
  PROVE  IInv'
<1> DEFINE row == [status |-> status, attempt |-> attempt]
<1>1. msg[j].try \in Tries /\ row \in Row
  BY MaxTriesAssumption DEF IInv, TriesAreBudgeted, Running, TypeOK, Message, Row, Tries
<1>2. msg' = [msg EXCEPT ![j] = [msg[j] EXCEPT !.at = "committed", !.outcome = outcome]]
  BY DEF Committed
<1>3. /\ msg' \in [JobIds -> Message]
      /\ msg'[j] = [at |-> "committed", try |-> msg[j].try, made |-> msg[j].made,
                    outcome |-> outcome]
      /\ \A k \in JobIds \ {j} : msg'[k] = msg[k]
  BY <1>2 DEF IInv, TypeOK, Message
<1>4. /\ jobs' \in [JobIds -> Row]
      /\ jobs'[j] = IF msg[j].made THEN jobs[j] ELSE row
      /\ \A k \in JobIds \ {j} : jobs'[k] = jobs[k]
  BY <1>1 DEF IInv, TypeOK, CommitRow
<1>5. /\ strays' \in [JobIds -> [Tries -> Row]]
      /\ msg[j].made => strays'[j][msg[j].try] = row
      /\ \A n \in Tries \ {msg[j].try} : strays'[j][n] = strays[j][n]
      /\ ~msg[j].made => strays' = strays
      /\ \A k \in JobIds \ {j} : strays'[k] = strays[k]
  <2>1. CASE msg[j].made
    <3> DEFINE f == [strays[j] EXCEPT ![msg[j].try] = row]
    <3>1. strays' = [strays EXCEPT ![j] = f]
      BY <2>1 DEF CommitRow
    <3>2. strays \in [JobIds -> [Tries -> Row]] /\ strays[j] \in [Tries -> Row]
      BY DEF IInv, TypeOK
    <3>3. /\ f \in [Tries -> Row]
          /\ f[msg[j].try] = row
          /\ \A n \in Tries \ {msg[j].try} : f[n] = strays[j][n]
      BY <1>1, <3>2
    <3> HIDE DEF f
    <3>4. /\ strays' \in [JobIds -> [Tries -> Row]]
          /\ strays'[j] = f
          /\ \A k \in JobIds \ {j} : strays'[k] = strays[k]
      BY <3>1, <3>2, <3>3
    <3> QED
      BY <2>1, <3>3, <3>4
  <2>2. CASE ~msg[j].made
    BY <2>2 DEF CommitRow, IInv, TypeOK
  <2> QED
    BY <2>1, <2>2
<1>6. TypeOK'
  BY <1>3, <1>4, <1>5 DEF IInv, TypeOK
<1>7. FreshIdsAreUnused'
  BY <1>3, <1>4 DEF IInv, FreshIdsAreUnused
<1>8. StagedRowsArePrivate'
  BY <1>3, <1>4 DEF IInv, StagedRowsArePrivate, LoadedRowsAreVisible, NoRow
<1>9. TriesAreBudgeted'
  BY <1>1, <1>3 DEF IInv, TriesAreBudgeted, Running
<1>10. LoadedRowsAreVisible'
  BY <1>3, <1>4 DEF IInv, LoadedRowsAreVisible
<1>11. SettledRowsAreSpent'
  BY <1>3, <1>4 DEF IInv, SettledRowsAreSpent, Settled
<1>12. QueuedRowsHaveMessage'
  BY <1>3, <1>4 DEF IInv, QueuedRowsHaveMessage
<1>13. AttemptsNeverOvercount' /\ StraysArePastTries'
  <2>1. AttemptsNeverOvercount'
    BY <1>3, <1>4 DEF IInv, AttemptsNeverOvercount
  <2>2. \A n \in Tries : strays'[j][n].status # "NONE" => n <= msg[j].try
    BY <1>1, <1>5, MaxTriesAssumption DEF IInv, StraysArePastTries, Tries
  <2>3. StraysArePastTries'
    BY <1>3, <1>5, <2>2 DEF IInv, StraysArePastTries
  <2> QED
    BY <2>1, <2>3
<1>14. RecordMatchesQueue'
  <2>1. RowOf(j)' = row
    BY <1>3, <1>4, <1>5 DEF RowOf
  <2>2. \A k \in JobIds \ {j} : RowOf(k)' = RowOf(k)
    BY <1>3, <1>4, <1>5 DEF RowOf
  <2>3. /\ msg'[j].outcome = "ok" => row = [status |-> "COMPLETED", attempt |-> msg'[j].try]
        /\ msg'[j].outcome = "failed" => row.status = "FAILED"
        /\ msg'[j].outcome = "retry" => row.status = "RETRYING"
    BY <1>3
  <2> QED
    BY <1>3, <2>1, <2>2, <2>3 DEF IInv, RecordMatchesQueue, Settled
<1> QED
  BY <1>6, <1>7, <1>8, <1>9, <1>10, <1>11, <1>12, <1>13, <1>14 DEF IInv

\* The attempt counter a task leaves behind is within the tries ARQ counted.
LEMMA AttemptWithinTry ==
  ASSUME IInv, NEW j \in JobIds, msg[j].at = "loaded"
  PROVE  /\ Attempt(j) \in Nat
         /\ Attempt(j) <= msg[j].try
         /\ Greater(Attempt(j), msg[j].try) = msg[j].try
<1>1. /\ jobs[j].attempt \in Nat /\ msg[j].try \in Tries
      /\ jobs[j].attempt < msg[j].try
  BY MaxTriesAssumption
     DEF IInv, TypeOK, Row, AttemptsNeverOvercount, TriesAreBudgeted, Running, Tries
<1> QED
  BY <1>1, MaxTriesAssumption DEF Attempt, Greater, Tries

\* A run may succeed ...
LEMMA RunSucceedsKeeps ==
  ASSUME IInv, NEW j \in JobIds, RunSucceeds(j)
  PROVE  IInv'
<1>1. msg[j].at = "loaded" /\ msg[j].try \in Nat
  BY MaxTriesAssumption DEF RunSucceeds, IInv, TypeOK, Message
<1>2. CommitRow(j, "COMPLETED", msg[j].try)
  BY <1>1, AttemptWithinTry DEF RunSucceeds
<1> QED
  BY <1>1, <1>2, CommitKeeps DEF RunSucceeds

\* ... fail, for now or for good ...
LEMMA RunFailsKeeps ==
  ASSUME IInv, NEW j \in JobIds, NEW transient \in BOOLEAN, RunFails(j, transient)
  PROVE  IInv'
<1>1. msg[j].at = "loaded"
  BY DEF RunFails
<1>2. due' \subseteq due /\ UNCHANGED <<owner, tick, twice>>
  BY DEF RunFails
<1>3. CASE DecideRetry(transient, msg[j].try)
  <2>1. CommitRow(j, "RETRYING", Attempt(j)) /\ Committed(j, "retry")
    BY <1>3 DEF RunFails
  <2> QED
    BY <1>1, <1>2, <2>1, AttemptWithinTry, CommitKeeps
<1>4. CASE ~DecideRetry(transient, msg[j].try)
  <2>1. CommitRow(j, "FAILED", Attempt(j)) /\ Committed(j, "failed")
    BY <1>4 DEF RunFails
  <2> QED
    BY <1>1, <1>2, <2>1, AttemptWithinTry, CommitKeeps
<1> QED
  BY <1>3, <1>4

\* ... or raise out of the pipeline.
LEMMA RunCrashesKeeps ==
  ASSUME IInv, NEW j \in JobIds, RunCrashes(j)
  PROVE  IInv'
<1>1. /\ msg[j].at = "loaded" /\ owner[j] # NoSource
      /\ ~msg[j].made => jobs[j].status # "NONE"
  BY DEF RunCrashes, IInv, FreshIdsAreUnused, LoadedRowsAreVisible
<1>2. /\ jobs' \in [JobIds -> Row]
      /\ jobs'[j] = IF msg[j].made THEN jobs[j]
                    ELSE [status |-> "RETRYING", attempt |-> jobs[j].attempt]
      /\ \A k \in JobIds \ {j} : jobs'[k] = jobs[k]
  BY DEF RunCrashes, IInv, TypeOK, Row
<1>3. msg' = [msg EXCEPT ![j] = [msg[j] EXCEPT !.at = "committed", !.outcome = "retry"]]
  BY DEF RunCrashes, Committed
<1>4. /\ msg' \in [JobIds -> Message]
      /\ msg'[j] = [at |-> "committed", try |-> msg[j].try, made |-> msg[j].made,
                    outcome |-> "retry"]
      /\ \A k \in JobIds \ {j} : msg'[k] = msg[k]
  BY <1>3 DEF IInv, TypeOK, Message
<1>5. UNCHANGED <<due, owner, tick, strays, twice>>
  BY DEF RunCrashes
<1>6. TypeOK'
  BY <1>2, <1>4, <1>5 DEF IInv, TypeOK
<1>7. FreshIdsAreUnused' /\ StagedRowsArePrivate'
  BY <1>1, <1>2, <1>4, <1>5 DEF IInv, FreshIdsAreUnused, StagedRowsArePrivate, NoRow
<1>8. TriesAreBudgeted' /\ LoadedRowsAreVisible'
  BY <1>1, <1>2, <1>4 DEF IInv, TriesAreBudgeted, LoadedRowsAreVisible, Running
<1>9. SettledRowsAreSpent' /\ QueuedRowsHaveMessage'
  BY <1>1, <1>2, <1>4, <1>5 DEF IInv, SettledRowsAreSpent, QueuedRowsHaveMessage, Settled
<1>10. AttemptsNeverOvercount' /\ StraysArePastTries'
  BY <1>1, <1>2, <1>4, <1>5 DEF IInv, AttemptsNeverOvercount, StraysArePastTries
<1>11. RecordMatchesQueue'
  <2>1. msg[j].try \in Tries /\ ~(msg[j].try < msg[j].try)
    BY <1>1, MaxTriesAssumption DEF IInv, TriesAreBudgeted, Running, Tries
  <2>2. strays[j][msg[j].try].status = "NONE"
    BY <1>1, <2>1 DEF IInv, StraysArePastTries
  <2>3. ~Settled(RowOf(j))'
    BY <1>2, <1>4, <1>5, <2>2 DEF RowOf, Settled
  <2>4. \A k \in JobIds \ {j} : RowOf(k)' = RowOf(k)
    BY <1>2, <1>4, <1>5 DEF RowOf
  <2> QED
    BY <1>4, <2>3, <2>4 DEF IInv, RecordMatchesQueue, Settled
<1> QED
  BY <1>6, <1>7, <1>8, <1>9, <1>10, <1>11 DEF IInv

(***************************************************************************)
(* The induction step, and what follows from the invariant.                *)
(***************************************************************************)
LEMMA StepKeeps == IInv /\ [Next]_vars => IInv'
<1> SUFFICES ASSUME IInv, [Next]_vars PROVE IInv'
  OBVIOUS
<1>1. CASE Scheduling
  <2>1. ASSUME NEW s \in Sources, BecomeDue(s) PROVE IInv'
    BY <2>1, BecomeDueKeeps
  <2>2. ASSUME NEW t \in Ticks, TickBegin(t) PROVE IInv'
    BY <2>2, TickBeginKeeps
  <2>3. ASSUME NEW t \in Ticks, NEW s \in Sources, NEW j \in JobIds, TickOffer(t, s, j)
        PROVE  IInv'
    BY <2>3, TickOfferKeeps
  <2>4. ASSUME NEW t \in Ticks, NEW s \in Sources, NEW j \in JobIds, NEW sent \in BOOLEAN,
               TickOfferFails(t, s, j, sent)
        PROVE  IInv'
    BY <2>4, TickOfferFailsKeeps
  <2>5. ASSUME NEW t \in Ticks, TickCommit(t) PROVE IInv'
    BY <2>5, TickCommitKeeps
  <2>6. ASSUME NEW t \in Ticks, TickAbort(t) PROVE IInv'
    BY <2>6, TickAbortKeeps
  <2> QED
    BY <1>1, <2>1, <2>2, <2>3, <2>4, <2>5, <2>6 DEF Scheduling
<1>2. ASSUME NEW j \in JobIds, Pick(j) PROVE IInv'
  BY <1>2, PickKeeps
<1>3. ASSUME NEW j \in JobIds, Execution(j) PROVE IInv'
  <2>1. CASE LoadJob(j)
    BY <2>1, LoadJobKeeps
  <2>2. CASE RunSucceeds(j)
    BY <2>2, RunSucceedsKeeps
  <2>3. ASSUME NEW transient \in BOOLEAN, RunFails(j, transient) PROVE IInv'
    BY <2>3, RunFailsKeeps
  <2>4. CASE RunCrashes(j)
    BY <2>4, RunCrashesKeeps
  <2>5. CASE Acknowledge(j)
    BY <2>5, AcknowledgeKeeps
  <2>6. CASE ExecutionLost(j)
    BY <2>6, ExecutionLostKeeps
  <2>7. CASE WorkerStops(j)
    BY <2>7, WorkerStopsKeeps
  <2> QED
    BY <1>3, <2>1, <2>2, <2>3, <2>4, <2>5, <2>6, <2>7 DEF Execution
<1>4. CASE UNCHANGED vars
  <2>1. UNCHANGED <<due, owner, tick, jobs, strays, msg, twice>>
    BY <1>4 DEF vars
  <2> QED
    BY <2>1, QuietStepKeeps DEF IInv, TypeOK
<1> QED
  BY <1>1, <1>2, <1>3, <1>4 DEF Next

\* The inductive invariant holds always.
LEMMA AlwaysIInv == Spec => []IInv
  BY InitIInv, StepKeeps, PTL DEF Spec

\* Every variable keeps its type, whatever the number of jobs, tries and slots.
THEOREM TypeCorrect == Spec => []TypeOK
<1>1. IInv => TypeOK
  BY DEF IInv
<1> QED
  BY <1>1, AlwaysIInv, PTL

\* A QUEUED row that can be read has had its message enqueued: the scheduler's
\* enqueue-then-commit order never leaves a row that nobody will run.
THEOREM QueuedRowsAreIssued == Spec => []QueuedRowsHaveMessage
<1>1. IInv => QueuedRowsHaveMessage
  BY DEF IInv
<1> QED
  BY <1>1, AlwaysIInv, PTL

\* A message finished by the task's own decision and the row of its last try
\* agree, through crashes, retries and rows made on the way.
THEOREM RecordAgrees == Spec => []RecordMatchesQueue
<1>1. IInv => RecordMatchesQueue
  BY DEF IInv
<1> QED
  BY <1>1, AlwaysIInv, PTL

\* The attempt counter of a row never exceeds the tries ARQ has counted.
THEOREM AttemptsAreBounded == Spec => []AttemptsNeverOvercount
<1>1. IInv => AttemptsNeverOvercount
  BY DEF IInv
<1> QED
  BY <1>1, AlwaysIInv, PTL

(***************************************************************************)
(* Who may write to a settled row.                                         *)
(***************************************************************************)

\* Only an execution that holds the row and a committing tick write to jobs.
LEMMA WhoWrites ==
  ASSUME IInv, Next, NEW j \in JobIds, jobs'[j] # jobs[j]
  PROVE  \/ jobs[j].status = "NONE"
         \/ /\ msg[j].at = "loaded"
            /\ jobs'[j].status \in {"RETRYING", "COMPLETED", "FAILED"}
<1>1. CASE Scheduling
  <2>1. PICK t \in Ticks : TickCommit(t)
    BY <1>1 DEF Scheduling, BecomeDue, TickBegin, TickOffer, TickOfferFails, Offer, TickAbort
  <2>2. tick[t].staged[j] # "NONE"
    BY <2>1 DEF TickCommit
  <2> QED
    BY <2>2 DEF IInv, StagedRowsArePrivate, NoRow
<1>2. ASSUME NEW k \in JobIds, Pick(k) \/ Execution(k)
      PROVE  /\ msg[j].at = "loaded"
             /\ jobs'[j].status \in {"RETRYING", "COMPLETED", "FAILED"}
  <2>1. jobs \in [JobIds -> Row]
    BY DEF IInv, TypeOK
  <2>2. ASSUME NEW status \in {"RETRYING", "COMPLETED", "FAILED"}, NEW attempt,
               msg[k].at = "loaded", CommitRow(k, status, attempt)
        PROVE  msg[j].at = "loaded" /\ jobs'[j].status = status
    BY <2>1, <2>2 DEF CommitRow
  <2>3. CASE RunSucceeds(k)
    BY <2>2, <2>3 DEF RunSucceeds
  <2>4. ASSUME NEW transient \in BOOLEAN, RunFails(k, transient)
        PROVE  /\ msg[j].at = "loaded"
               /\ jobs'[j].status \in {"RETRYING", "COMPLETED", "FAILED"}
    BY <2>2, <2>4 DEF RunFails
  <2>5. CASE RunCrashes(k)
    BY <2>1, <2>5 DEF RunCrashes, Row
  <2> QED
    BY <1>2, <2>3, <2>4, <2>5
       DEF Pick, Execution, LoadJob, Acknowledge, ExecutionLost, WorkerStops
<1> QED
  BY <1>1, <1>2 DEF Next

\* A COMPLETED or FAILED row changes again only if its message is in doubt: the
\* acknowledgement was lost, or an enqueue reported as failed went through.
THEOREM SettledRowsAreFinal == Spec => SettledRowsStaySettled
<1>1. ASSUME IInv, [Next]_vars, NEW j \in JobIds, Settled(jobs[j]), jobs'[j] # jobs[j]
      PROVE  twice[j]
  <2>1. Next
    BY <1>1 DEF vars
  <2>2. msg[j].at = "loaded"
    BY <1>1, <2>1, WhoWrites DEF Settled
  <2> QED
    BY <1>1, <2>2 DEF IInv, SettledRowsAreSpent
<1>2. IInv /\ [Next]_vars =>
        [\A j \in JobIds : Settled(jobs[j]) /\ jobs'[j] # jobs[j] => twice[j]]_vars
  BY <1>1
<1> QED
  BY <1>2, AlwaysIInv, PTL DEF Spec, SettledRowsStaySettled

(***************************************************************************)
(* The queue implements its ledger.                                        *)
(***************************************************************************)
LEMMA LedgerInit == Init => Ledger!Init
  BY DEF Init, Ledger!Init, NoRow

\* Steps that change neither a row, nor whether a message is issued, retired
\* or doubted.
LEMMA LedgerStutter ==
  ASSUME TypeOK,
         UNCHANGED <<jobs, twice>>,
         \A j \in JobIds : /\ msg'[j].at = "none" <=> msg[j].at = "none"
                           /\ msg'[j].at = "done" <=> msg[j].at = "done"
  PROVE  UNCHANGED Ledger!ledgerVars
  BY DEF Ledger!ledgerVars

\* An offer to the queue is a step of the ledger, or none.
LEMMA LedgerIssue ==
  ASSUME IInv, NEW t \in Ticks, NEW s \in Sources, NEW j \in JobIds, NEW status,
         NEW sent \in BOOLEAN, Offer(t, s, j, status, sent),
         \/ twice' = twice /\ sent
         \/ twice' = [twice EXCEPT ![j] = sent]
  PROVE  [Ledger!Next]_Ledger!ledgerVars
<1>1. jobs' = jobs /\ jobs[j].status = "NONE" /\ msg[j].at = "none" /\ ~twice[j]
  BY DEF Offer, IInv, FreshIdsAreUnused
<1>2. twice' \in [JobIds -> BOOLEAN] /\ \A k \in JobIds \ {j} : twice'[k] = twice[k]
  BY DEF IInv, TypeOK
<1>3. CASE sent
  <2> DEFINE m == [msg[j] EXCEPT !.at = "ready"]
  <2>1. msg' = [msg EXCEPT ![j] = m]
    BY <1>3 DEF Offer
  <2>2. /\ msg'[j].at = "ready"
        /\ \A k \in JobIds \ {j} : msg'[k] = msg[k]
    BY <2>1 DEF IInv, TypeOK, Message
  <2>3. Ledger!Issue(j)
    <3>1. {k \in JobIds : msg'[k].at # "none"} = {k \in JobIds : msg[k].at # "none"} \cup {j}
      BY <2>2
    <3>2. {k \in JobIds : msg'[k].at = "done"} = {k \in JobIds : msg[k].at = "done"}
      BY <1>1, <2>2
    <3>3. \/ {k \in JobIds : twice'[k]} = {k \in JobIds : twice[k]}
          \/ {k \in JobIds : twice'[k]} = {k \in JobIds : twice[k]} \cup {j}
      <4>1. CASE twice' = twice
        BY <4>1
      <4>2. CASE twice' = [twice EXCEPT ![j] = sent]
        <5>1. twice'[j]
          BY <1>3, <4>2 DEF IInv, TypeOK
        <5> QED
          BY <1>2, <5>1
      <4> QED
        BY <4>1, <4>2
    <3> QED
      BY <1>1, <3>1, <3>2, <3>3 DEF Ledger!Issue
  <2> QED
    BY <2>3 DEF Ledger!Next
<1>4. CASE ~sent
  <2>1. msg' = msg
    BY <1>4 DEF Offer
  <2>2. twice' = twice
    BY <1>1, <1>4 DEF IInv, TypeOK
  <2> QED
    BY <1>1, <2>1, <2>2 DEF Ledger!ledgerVars
<1> QED
  BY <1>3, <1>4

\* The commit of a tick publishes the jobs it staged.
LEMMA LedgerPublish ==
  ASSUME IInv, NEW t \in Ticks, TickCommit(t)
  PROVE  Ledger!Next
<1> DEFINE after == [j \in JobIds |-> jobs'[j].status]
<1>1. tick[t].staged \in [JobIds -> {"NONE", "QUEUED", "FAILED"}]
  BY DEF IInv, TypeOK, Tick
<1>0. PICK J \in SUBSET JobIds : J = {j \in JobIds : tick[t].staged[j] # "NONE"}
  OBVIOUS
<1>2. \A j \in JobIds \ J : jobs'[j] = jobs[j]
  BY <1>0, <1>1 DEF TickCommit
<1>3. \A j \in J : jobs'[j].status = tick[t].staged[j]
  BY <1>0, <1>1 DEF TickCommit
<1>4. \A j \in J : /\ jobs[j].status = "NONE"
                   /\ tick[t].staged[j] = "QUEUED" => msg[j].at # "none"
                   /\ tick[t].staged[j] = "FAILED" => msg[j].at = "none" \/ twice[j]
  BY <1>0 DEF IInv, StagedRowsArePrivate, NoRow
<1>5. \A j \in JobIds : jobs[j].status \in {"NONE", "QUEUED", "RETRYING", "COMPLETED", "FAILED"}
  BY DEF IInv, TypeOK, Row
<1>6. after \in [JobIds -> {"NONE", "QUEUED", "RETRYING", "COMPLETED", "FAILED"}]
  BY <1>1, <1>2, <1>3, <1>5
<1>7. UNCHANGED <<msg, twice>>
  BY DEF TickCommit
<1>8. Ledger!Publish(J)
  BY <1>0, <1>1, <1>2, <1>3, <1>4, <1>6, <1>7 DEF Ledger!Publish
<1> QED
  BY <1>8 DEF Ledger!Next

\* A commit of an execution writes the row it found, or none at all.
LEMMA LedgerWrite ==
  ASSUME IInv, NEW j \in JobIds, msg[j].at = "loaded",
         NEW status \in {"RETRYING", "COMPLETED", "FAILED"}, NEW outcome,
         Committed(j, outcome),
         \/ jobs' = jobs
         \/ /\ ~msg[j].made
            /\ jobs' \in [JobIds -> Row]
            /\ jobs'[j].status = status
            /\ \A k \in JobIds \ {j} : jobs'[k] = jobs[k],
         twice' = twice
  PROVE  [Ledger!Next]_Ledger!ledgerVars
<1>1. msg' = [msg EXCEPT ![j] = [msg[j] EXCEPT !.at = "committed", !.outcome = outcome]]
  BY DEF Committed
<1>2. msg'[j].at = "committed" /\ \A k \in JobIds \ {j} : msg'[k] = msg[k]
  BY <1>1 DEF IInv, TypeOK, Message
<1>3. \A k \in JobIds : /\ msg'[k].at = "none" <=> msg[k].at = "none"
                        /\ msg'[k].at = "done" <=> msg[k].at = "done"
  BY <1>2
<1>4. CASE jobs' = jobs
  BY <1>3, <1>4, LedgerStutter DEF IInv
<1>5. CASE /\ ~msg[j].made
           /\ jobs' \in [JobIds -> Row]
           /\ jobs'[j].status = status
           /\ \A k \in JobIds \ {j} : jobs'[k] = jobs[k]
  <2>1. jobs[j].status # "NONE"
    BY <1>5 DEF IInv, LoadedRowsAreVisible
  <2>2. jobs[j].status \in {"COMPLETED", "FAILED"} => twice[j]
    BY DEF IInv, SettledRowsAreSpent, Settled
  <2>3. [k \in JobIds |-> jobs'[k].status] =
           [[k \in JobIds |-> jobs[k].status] EXCEPT ![j] = status]
    BY <1>5
  <2>4. Ledger!Write(j, status)
    BY <1>3, <2>1, <2>2, <2>3 DEF Ledger!Write
  <2> QED
    BY <2>4 DEF Ledger!Next
<1> QED
  BY <1>4, <1>5

\* A message leaves the worker: it comes back, or is finished.
LEMMA LedgerLeave ==
  ASSUME IInv, NEW j \in JobIds, Live(j), NEW m, msg' = [msg EXCEPT ![j] = m],
         m.at # "none",
         jobs' = jobs,
         \/ twice' = twice
         \/ m.at # "done" /\ \E b \in BOOLEAN : twice' = [twice EXCEPT ![j] = @ \/ b]
  PROVE  [Ledger!Next]_Ledger!ledgerVars
<1>1. msg'[j] = m /\ \A k \in JobIds \ {j} : msg'[k] = msg[k]
  BY DEF IInv, TypeOK
<1>2. {k \in JobIds : msg'[k].at # "none"} = {k \in JobIds : msg[k].at # "none"}
  BY <1>1 DEF Live
<1>3. CASE m.at = "done"
  <2>1. {k \in JobIds : msg'[k].at = "done"} = {k \in JobIds : msg[k].at = "done"} \cup {j}
    BY <1>1, <1>3
  <2>2. Ledger!Retire(j)
    BY <1>2, <1>3, <2>1 DEF Ledger!Retire, Live
  <2> QED
    BY <2>2 DEF Ledger!Next
<1>4. CASE m.at # "done"
  <2>1. {k \in JobIds : msg'[k].at = "done"} = {k \in JobIds : msg[k].at = "done"}
    BY <1>1, <1>4 DEF Live
  <2>2. \/ {k \in JobIds : twice'[k]} = {k \in JobIds : twice[k]}
        \/ {k \in JobIds : twice'[k]} = {k \in JobIds : twice[k]} \cup {j}
    BY DEF IInv, TypeOK
  <2>3. Ledger!Doubt(j) \/ UNCHANGED Ledger!ledgerVars
    BY <1>2, <2>1, <2>2 DEF Ledger!Doubt, Ledger!ledgerVars, Live
  <2> QED
    BY <2>3 DEF Ledger!Next
<1> QED
  BY <1>3, <1>4

\* What the scheduler does is a step of the ledger, or none ...
LEMMA LedgerScheduling ==
  ASSUME IInv, Scheduling
  PROVE  [Ledger!Next]_Ledger!ledgerVars
<1>1. CASE \/ \E s \in Sources : BecomeDue(s)
           \/ \E t \in Ticks : TickBegin(t) \/ TickAbort(t)
  <2>1. UNCHANGED <<jobs, msg, twice>>
    BY <1>1 DEF BecomeDue, TickBegin, TickAbort
  <2> QED
    BY <2>1 DEF Ledger!ledgerVars
<1>2. ASSUME NEW t \in Ticks, NEW s \in Sources, NEW j \in JobIds, TickOffer(t, s, j)
      PROVE  [Ledger!Next]_Ledger!ledgerVars
  BY <1>2, LedgerIssue DEF TickOffer
<1>3. ASSUME NEW t \in Ticks, NEW s \in Sources, NEW j \in JobIds, NEW sent \in BOOLEAN,
             TickOfferFails(t, s, j, sent)
      PROVE  [Ledger!Next]_Ledger!ledgerVars
  BY <1>3, LedgerIssue DEF TickOfferFails
<1>4. ASSUME NEW t \in Ticks, TickCommit(t) PROVE [Ledger!Next]_Ledger!ledgerVars
  BY <1>4, LedgerPublish
<1> QED
  BY <1>1, <1>2, <1>3, <1>4 DEF Scheduling

\* ... and so is what the workers do.
LEMMA LedgerExecution ==
  ASSUME IInv, NEW j \in JobIds, Pick(j) \/ Execution(j)
  PROVE  [Ledger!Next]_Ledger!ledgerVars
<1>1. msg[j] \in Message /\ jobs \in [JobIds -> Row]
  BY DEF IInv, TypeOK
<1>2. CASE Pick(j)
  <2> DEFINE m == [msg[j] EXCEPT !.try = @ + 1,
                                 !.at = IF msg[j].try < MaxTries THEN "picked" ELSE "done",
                                 !.outcome = IF msg[j].try < MaxTries THEN "none" ELSE "exhausted"]
  <2>1. msg' = [msg EXCEPT ![j] = m] /\ Live(j)
    BY <1>1, <1>2 DEF Pick, Live, IInv, TypeOK
  <2>2. m.at # "none"
    BY <1>1 DEF Message
  <2> QED
    BY <1>2, <2>1, <2>2, LedgerLeave DEF Pick
<1>3. CASE LoadJob(j)
  <2> DEFINE m == [msg[j] EXCEPT !.at = "loaded", !.made = (jobs[j].status = "NONE")]
  <2>1. msg' = [msg EXCEPT ![j] = m] /\ Live(j)
    BY <1>3 DEF LoadJob, Live
  <2>2. m.at # "none"
    BY <1>1 DEF Message
  <2> QED
    BY <1>3, <2>1, <2>2, LedgerLeave DEF LoadJob
<1>4. ASSUME NEW status \in {"RETRYING", "COMPLETED", "FAILED"}, NEW attempt \in Nat,
             attempt <= MaxTries, NEW outcome, msg[j].at = "loaded", twice' = twice,
             CommitRow(j, status, attempt), Committed(j, outcome)
      PROVE  [Ledger!Next]_Ledger!ledgerVars
  <2> DEFINE row == [status |-> status, attempt |-> attempt]
  <2>1. row \in Row
    BY <1>4, MaxTriesAssumption DEF Row
  <2>2. \/ jobs' = jobs
        \/ ~msg[j].made /\ jobs' = [jobs EXCEPT ![j] = row]
    BY <1>4 DEF CommitRow
  <2>3. \/ jobs' = jobs
        \/ /\ ~msg[j].made
           /\ jobs' \in [JobIds -> Row]
           /\ jobs'[j].status = status
           /\ \A k \in JobIds \ {j} : jobs'[k] = jobs[k]
    BY <1>1, <2>1, <2>2
  <2> QED
    BY <1>4, <2>3, LedgerWrite
<1>5. msg[j].at = "loaded" =>
         /\ Attempt(j) \in Nat /\ Attempt(j) <= MaxTries
         /\ msg[j].try \in Nat /\ msg[j].try <= MaxTries
         /\ Greater(Attempt(j), msg[j].try) = msg[j].try
  BY AttemptWithinTry, MaxTriesAssumption
     DEF IInv, TriesAreBudgeted, Running, Tries
<1>6. CASE RunSucceeds(j)
  BY <1>4, <1>5, <1>6 DEF RunSucceeds
<1>7. ASSUME NEW transient \in BOOLEAN, RunFails(j, transient)
      PROVE  [Ledger!Next]_Ledger!ledgerVars
  BY <1>4, <1>5, <1>7 DEF RunFails
<1>8. CASE RunCrashes(j)
  <2> DEFINE row == [jobs[j] EXCEPT !.status = "RETRYING"]
  <2>1. \/ jobs' = jobs
        \/ ~msg[j].made /\ jobs' = [jobs EXCEPT ![j] = row]
    BY <1>8 DEF RunCrashes
  <2>2. row \in Row /\ row.status = "RETRYING"
    BY <1>1 DEF Row
  <2>3. \/ jobs' = jobs
        \/ /\ ~msg[j].made
           /\ jobs' \in [JobIds -> Row]
           /\ jobs'[j].status = "RETRYING"
           /\ \A k \in JobIds \ {j} : jobs'[k] = jobs[k]
    BY <1>1, <2>1, <2>2
  <2> QED
    BY <1>8, <2>3, LedgerWrite DEF RunCrashes
<1>9. CASE Acknowledge(j)
  <2>1. PICK m : msg' = [msg EXCEPT ![j] = m] /\ m.at \in {"ready", "done"}
    <3>1. CASE msg[j].outcome = "retry"
      <4> DEFINE m == [msg[j] EXCEPT !.at = "ready", !.made = FALSE, !.outcome = "none"]
      <4>1. msg' = [msg EXCEPT ![j] = m] /\ m.at = "ready"
        BY <1>1, <1>9, <3>1 DEF Acknowledge, Requeued, Message
      <4> QED
        BY <4>1
    <3>2. CASE msg[j].outcome # "retry"
      <4> DEFINE m == [msg[j] EXCEPT !.at = "done"]
      <4>1. msg' = [msg EXCEPT ![j] = m] /\ m.at = "done"
        BY <1>1, <1>9, <3>2 DEF Acknowledge, Message
      <4> QED
        BY <4>1
    <3> QED
      BY <3>1, <3>2
  <2> QED
    BY <1>9, <2>1, LedgerLeave DEF Acknowledge, Live
<1>10. CASE ExecutionLost(j)
  <2> DEFINE m == [msg[j] EXCEPT !.at = "done", !.outcome = "error"]
  <2>1. msg' = [msg EXCEPT ![j] = m] /\ Live(j) /\ m.at # "none"
    BY <1>1, <1>10 DEF ExecutionLost, Running, Live, Message
  <2> QED
    BY <1>10, <2>1, LedgerLeave DEF ExecutionLost
<1>11. CASE WorkerStops(j)
  <2> DEFINE m == [msg[j] EXCEPT !.at = "ready", !.made = FALSE, !.outcome = "none"]
  <2>1. msg' = [msg EXCEPT ![j] = m] /\ Live(j) /\ m.at = "ready"
    BY <1>1, <1>11 DEF WorkerStops, Requeued, Running, Live, Message
  <2>2. \E b \in BOOLEAN : twice' = [twice EXCEPT ![j] = @ \/ b]
    BY <1>11 DEF WorkerStops
  <2> QED
    BY <1>11, <2>1, <2>2, LedgerLeave DEF WorkerStops
<1> QED
  BY <1>2, <1>3, <1>6, <1>7, <1>8, <1>9, <1>10, <1>11 DEF Execution

\* The whole queue, with its two stores, overlapping ticks, lost executions and
\* worker restarts, implements the ledger a reader of ingestion_jobs relies on.
THEOREM QueueImplementsLedger == Spec => LedgerSpec
<1>1. IInv /\ [Next]_vars => [Ledger!Next]_Ledger!ledgerVars
  <2>1. ASSUME IInv, UNCHANGED vars PROVE UNCHANGED Ledger!ledgerVars
    BY <2>1 DEF vars, Ledger!ledgerVars
  <2> QED
    BY <2>1, LedgerScheduling, LedgerExecution DEF Next
<1> QED
  BY <1>1, LedgerInit, AlwaysIInv, PTL DEF Spec, LedgerSpec, Ledger!Spec
=============================================================================
