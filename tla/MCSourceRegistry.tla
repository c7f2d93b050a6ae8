-------------------------- MODULE MCSourceRegistry --------------------------
(* Small instances of SourceRegistry for TLC.                              *)
EXTENDS SourceRegistry, TLC

\* All sources are equally urgent (priority has a default).
MCPriority == [s \in Sources |-> 100]

\* Workers and sources are interchangeable.
Symmetry == Permutations(Sources) \cup Permutations(Workers)
=============================================================================
