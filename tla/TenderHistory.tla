--------------------------- MODULE TenderHistory ---------------------------
(***************************************************************************)
(* What the catalogue promises whoever reads a tender: a history that only *)
(* grows, a text that is nothing but what the history tells, and one       *)
(* issuer to whom it belongs for ever.  What a run publishes becomes       *)
(* readable at once.                                                       *)
(***************************************************************************)
EXTENDS Naturals, Sequences

CONSTANTS Tenders, Records, Fields, Sources, Muni, None

VARIABLES
    history,  \* the snapshots that the versions of a tender hold, in order
    owner,    \* the source that published its first version
    shown     \* what a reader is shown

historyVars == <<history, owner, shown>>

\* Field f as told by the last snapshot that knows it.
Told(h, f) ==
    LET known == {n \in DOMAIN h : h[n][f] # None}
    IN  IF known = {} THEN None ELSE h[CHOOSE n \in known : \A m \in known : m <= n][f]

Shown(h) ==
    [fields |-> [f \in Fields |-> Told(h, f)], docs |-> UNION {h[n].docs : n \in DOMAIN h}]

Extends(h, g) == Len(h) <= Len(g) /\ \A n \in DOMAIN h : g[n] = h[n]

\* Sources of one issuer: a municipality, or the source itself.
Akin(s, t) == t = s \/ (Muni[s] # None /\ Muni[t] = Muni[s])

Init ==
    /\ history = [i \in Tenders |-> <<>>]
    /\ owner = [i \in Tenders |-> None]
    /\ shown = [i \in Tenders |-> Shown(<<>>)]

\* A run of source s ends: new tenders appear and known ones have new versions,
\* all of them of one issuer.
Publish(s) ==
    /\ history' \in [Tenders -> Seq(Records)]
    /\ owner' \in [Tenders -> Sources \cup {None}]
    /\ shown' = [i \in Tenders |-> Shown(history'[i])]
    /\ \A i \in Tenders :
          /\ Extends(history[i], history'[i])
          /\ history[i] # <<>> => owner'[i] = owner[i]
          /\ IF history'[i] = history[i] THEN owner'[i] = owner[i] ELSE Akin(s, owner'[i])

Next == \E s \in Sources : Publish(s)

Spec == Init /\ [][Next]_historyVars
=============================================================================
