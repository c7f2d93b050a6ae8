------------------------------- MODULE Clock -------------------------------
(* The time of an API deployment, counted in windows of the rate limiter   *)
(* (WINDOW_SECONDS).  The replicas, Redis and the database read one clock. *)
EXTENDS Naturals

CONSTANT MaxTime   \* windows counted (a bound)

ASSUME TimeAssumption == MaxTime \in Nat

VARIABLE now

Times == 0..MaxTime

\* A time that never comes: expires_at IS NULL.
Never == MaxTime + 1
=============================================================================
