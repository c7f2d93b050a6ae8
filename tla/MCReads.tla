------------------------------- MODULE MCReads ------------------------------
(* Small tables: a tender with every field, one with few, one without      *)
(* dates, and one that its source cancels.                                 *)
EXTENDS Reads

Text(form, day, clock) == [form |-> form, day |-> day, clock |-> clock, zone |-> NoZone]
NoText == Text("absent", 0, NoClock)

Some == {"reference", "description", "organization"}
All == Some \cup {"documents", "contact"}

Item(status, published, closing, fields) ==
    [title |-> "plain", status |-> status, published |-> published, closing |-> closing,
     fields |-> fields]

Published == Text("iso", 9, NoClock)

MCItems ==
    {Item("none", Published, Text("worded", 10, NoClock), All),
     Item("none", Published, Text("slashed", 11, 660), Some),
     Item("none", NoText, NoText, {}),
     Item("CANCELLED", Published, Text("slashed", 11, 660), All)}

\* With the forms of a date that a source may use for a day alone.
MCDates ==
    {Item("none", Published, Text(form, 10, NoClock), All) :
        form \in {"iso", "worded", "slashed"}}

MCStart == 10 * Day - SAST
MCEnd == MCStart + 2 * 720
=============================================================================
