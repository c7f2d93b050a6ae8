-------------------------- MODULE MCDocumentStore --------------------------
(* Small instances of DocumentStore for TLC.                               *)
EXTENDS DocumentStore, TLC

CONSTANTS d1, d2, c1, c2

\* Both URLs change what they serve, from the same two contents.
MCSite == [d \in Documents |-> Contents]

\* One of them cannot be stored for the second document.
MCRefused == {<<d2, c2>>}

MCRank == [d \in Documents |-> IF d = d1 THEN 1 ELSE 2]

\* The order in which rows are flushed is the other way round.
MCKey == [d \in Documents |-> IF d = d1 THEN 2 ELSE 1]
=============================================================================
