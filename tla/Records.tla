------------------------------ MODULE Records ------------------------------
(***************************************************************************)
(* What an item of a listing becomes: dates are parsed into instants       *)
(* (dates.py), a status is found for it (Normalizer) and its quality is    *)
(* judged (Validator).  Instants are minutes of UTC, a source publishes in *)
(* SAST.                                                                   *)
(*                                                                         *)
(* A date text: form, "absent", "free" (no date in it), "iso"              *)
(* (2026-09-15), "hyphened" (15-09-2026), "slashed" (15/09/2026, or with   *)
(* dots) or "worded" (15 September 2026); its day; the time of day and the *)
(* UTC offset that follow, if any.                                         *)
(* An item: title, "none", "short" (fewer than 8 characters) or "plain";   *)
(* the status its source gives; the texts published and closing; and which *)
(* of the other fields it has.                                             *)
(***************************************************************************)
EXTENDS Integers, FiniteSetsExt

Day == 1440
SAST == 120
NoClock == -1       \* a text without a time of day
NoZone == 1440      \* a text without an offset
Unknown == -1       \* NULL in a date column

Local(day, clock) == day * Day + clock - SAST

StartOfDay == 0
EndOfDay == Day - 1

----------------------------------------------------------------------------
(* dates.py                                                                *)

Parsed(at, confidence) == [at |-> at, confidence |-> confidence]
Unparsed == Parsed(Unknown, 0)

\* datetime.fromisoformat takes a bare date for its midnight: the default time
\* of day is never looked at.
ParseIso(text) ==
    LET clock == IF text.clock = NoClock THEN StartOfDay ELSE text.clock
    IN  IF text.zone = NoZone THEN Parsed(Local(text.day, clock), 100)
        ELSE Parsed(text.day * Day + clock - text.zone, 100)

\* A text that ends in an offset is read with it.  The end of a hyphened date,
\* "-2026", looks like one: 20 hours and 26 minutes behind UTC.
ZoneOf(text) ==
    IF text.zone # NoZone THEN text.zone
    ELSE IF text.form = "hyphened" /\ text.clock = NoClock THEN -(20 * 60 + 26)
    ELSE NoZone

\* parse_datetime, with the default for texts without a time of day.
ParseDate(text, default) ==
    LET clock == IF text.clock = NoClock THEN default ELSE text.clock
        zone  == ZoneOf(text)
    IN  IF text.form \in {"absent", "free"} THEN Unparsed
        ELSE IF text.form = "iso" THEN ParseIso(text)
        ELSE IF zone # NoZone THEN Parsed(text.day * Day + clock - zone, 90)
        ELSE Parsed(Local(text.day, clock), IF text.clock = NoClock THEN 70 ELSE 90)

ParseClosing(text) == ParseDate(text, EndOfDay)

DateOnly(text) ==
    text.form \notin {"absent", "free"} /\ text.clock = NoClock /\ text.zone = NoZone

----------------------------------------------------------------------------
(* normalizer.py and validator.py                                          *)

\* A source that says nothing of the status leaves it to the closing time.
StatusOf(item, closing, now) ==
    IF item.status # "none" THEN item.status
    ELSE IF closing = Unknown THEN "UNKNOWN"
    ELSE IF closing >= now THEN "OPEN"
    ELSE "CLOSED"

Weight == [reference |-> 15, description |-> 15, published |-> 15, closing |-> 20,
           organization |-> 10, documents |-> 15, contact |-> 10]

Completeness(present) == MapThenSumSet(LAMBDA f : Weight[f], present)

Known(field, at) == IF at = Unknown THEN {} ELSE {field}

\* Dates that make a record suspicious.
Suspicious(published, closing, now) ==
    \/ published # Unknown /\ published > now + 2 * Day
    \/ published # Unknown /\ published < now - 25 * 365 * Day
    \/ closing # Unknown /\ closing > now + 10 * 365 * Day
    \/ published # Unknown /\ closing # Unknown /\ closing < published - Day

\* normalize raises for a missing title, validate rejects a short one.
Acceptable(item) == item.title = "plain"

Quality(item, published, closing, now) ==
    LET score == Completeness(item.fields \cup Known("published", published)
                                          \cup Known("closing", closing))
    IN  IF ~Acceptable(item) THEN "INVALID"
        ELSE IF Suspicious(published, closing, now) THEN "NEEDS_REVIEW"
        ELSE IF score >= 70 THEN "VALID"
        ELSE IF score >= 30 THEN "INCOMPLETE"
        ELSE "NEEDS_REVIEW"

Normalized(item, now) ==
    LET published == ParseDate(item.published, StartOfDay).at
        closing   == ParseClosing(item.closing).at
    IN  [published |-> published, closing |-> closing,
         status |-> StatusOf(item, closing, now),
         quality |-> Quality(item, published, closing, now)]
=============================================================================
