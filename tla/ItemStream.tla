----------------------------- MODULE ItemStream -----------------------------
(***************************************************************************)
(* What parse_source promises the pipeline: once it is read, a finite      *)
(* stream of at most MaxItems items that a failure may cut short.  The     *)
(* failure is recorded once, nothing comes after it, and the stream ends   *)
(* in any case.                                                            *)
(***************************************************************************)
EXTENDS Naturals

CONSTANT MaxItems    \* MAX_ITEMS_PER_RUN

VARIABLES items, errors, state

vars == <<items, errors, state>>

Init == items = 0 /\ errors = 0 /\ state = "unread"

Start ==
    /\ state = "unread" /\ state' = "open"
    /\ UNCHANGED <<items, errors>>

Deliver ==
    /\ state = "open" /\ items < MaxItems
    /\ items' = items + 1
    /\ UNCHANGED <<errors, state>>

Fail ==
    /\ state = "open" /\ state' = "closed"
    /\ errors' = 1
    /\ UNCHANGED items

Finish ==
    /\ state = "open" /\ state' = "closed"
    /\ UNCHANGED <<items, errors>>

Next == Start \/ Deliver \/ Fail \/ Finish

Spec == Init /\ [][Next]_vars /\ (state = "open" ~> state = "closed")
=============================================================================
