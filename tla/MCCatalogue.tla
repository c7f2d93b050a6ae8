---------------------------- MODULE MCCatalogue ----------------------------
(* Small instances of Catalogue for TLC.                                   *)
EXTENDS Catalogue, TLC

CONSTANTS s1, s2, s3, m1

Rec(ref, ext, title, closing, text, address, docs) ==
    [ref |-> ref, ext |-> ext, title |-> title, closing |-> closing, text |-> text,
     address |-> address, docs |-> docs]

\* s1 and s2 publish for one municipality, s3 for no particular one.
MCMuni == [s \in Sources |-> IF s = s3 THEN None ELSE m1]

\* Two spellings of one reference, another one, and one of which nothing is left.
MCNormRef ==
    [n \in References |-> CASE n \in {"RFQ 1", "RFQ-1"} -> "RFQ1"
                             [] n = "RFQ 2" -> "RFQ2"
                             [] n = "-" -> None]

\* Titles that differ in a lot number are alike; so are equal ones.
MCSimilarity ==
    [p \in Titles \X Titles |->
        IF p[1] = p[2] \/ p \in {<<"road", "roads">>, <<"roads", "road">>} THEN "probable"
        ELSE IF "road" \in {p[1], p[2]} THEN "review" ELSE "low"]

Symmetry == Permutations(Ids) \cup Permutations(Runs)

Records5 ==
    { Rec(None, None, "road", 10, "x", None, {}),
      Rec("RFQ 1", None, "road", 10, None, "hall", {"d"}),
      Rec("RFQ-1", None, "roads", 12, "x", None, {}),
      Rec("-", None, "road", 14, "x", "gate", {}),
      Rec("RFQ 2", "e", "road", 10, "x", "hall", {}) }
=============================================================================
