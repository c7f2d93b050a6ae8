-------------------------- MODULE MCIngestionJobs --------------------------
(* Small instances of IngestionJobs for TLC.                               *)
EXTENDS IngestionJobs, TLC

\* Job ids, sources and ticks are interchangeable (safety runs only).
Symmetry == Permutations(JobIds) \cup Permutations(Sources) \cup Permutations(Ticks)
=============================================================================
