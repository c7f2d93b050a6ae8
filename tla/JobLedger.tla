----------------------------- MODULE JobLedger -----------------------------
(***************************************************************************)
(* What the ingestion queue promises whoever reads ingestion_jobs: a row   *)
(* appears once, only an outstanding message writes to it, a message that  *)
(* has been retired stays retired, and a settled row changes only when the *)
(* message is in doubt (delivered although its row is settled).            *)
(***************************************************************************)
EXTENDS Integers

CONSTANT JobIds

VARIABLES
    record,   \* status of the row, "NONE" while it cannot be read
    issued,   \* messages the queue has accepted
    retired,  \* messages the queue has finished with
    doubted   \* messages that may run although their row is settled

ledgerVars == <<record, issued, retired, doubted>>

Init ==
    /\ record = [j \in JobIds |-> "NONE"]
    /\ issued = {}
    /\ retired = {}
    /\ doubted = {}

\* The queue accepts a message, for a row that nobody can read yet.
Issue(j) ==
    /\ j \notin issued
    /\ record[j] = "NONE"
    /\ issued' = issued \cup {j}
    /\ doubted' \in {doubted, doubted \cup {j}}
    /\ UNCHANGED <<record, retired>>

\* Rows become readable, together: QUEUED ones have been issued, and a FAILED
\* one that was issued all the same is in doubt.
Publish(J) ==
    /\ \A j \in J : record[j] = "NONE"
    /\ record' \in [JobIds -> {"NONE", "QUEUED", "RETRYING", "COMPLETED", "FAILED"}]
    /\ \A j \in JobIds \ J : record'[j] = record[j]
    /\ \A j \in J : \/ record'[j] = "QUEUED" /\ j \in issued
                    \/ record'[j] = "FAILED" /\ (j \in issued => j \in doubted)
    /\ UNCHANGED <<issued, retired, doubted>>

\* An outstanding message writes to its row.
Write(j, status) ==
    /\ j \in issued \ retired
    /\ record[j] # "NONE"
    /\ record[j] \in {"COMPLETED", "FAILED"} => j \in doubted
    /\ record' = [record EXCEPT ![j] = status]
    /\ UNCHANGED <<issued, retired, doubted>>

\* A message whose acknowledgement is lost comes back.
Doubt(j) ==
    /\ j \in issued \ retired
    /\ doubted' = doubted \cup {j}
    /\ UNCHANGED <<record, issued, retired>>

Retire(j) ==
    /\ j \in issued \ retired
    /\ retired' = retired \cup {j}
    /\ UNCHANGED <<record, issued, doubted>>

Next ==
    \/ \E J \in SUBSET JobIds : Publish(J)
    \/ \E j \in JobIds :
          \/ Issue(j)
          \/ \E s \in {"RETRYING", "COMPLETED", "FAILED"} : Write(j, s)
          \/ Doubt(j)
          \/ Retire(j)

Spec == Init /\ [][Next]_ledgerVars
=============================================================================
