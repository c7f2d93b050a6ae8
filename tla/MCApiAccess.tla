---------------------------- MODULE MCApiAccess ----------------------------
(* A small instance of ApiAccess: every tier has a budget of one request.  *)
EXTENDS ApiAccess

MCAreas == {"tenders", "health"}
MCGrants == {{"read:sources"}, {"admin"}}
MCBuckets == Presented \cup {Client}
MCBudget == [b \in MCBuckets |-> 1]
=============================================================================
