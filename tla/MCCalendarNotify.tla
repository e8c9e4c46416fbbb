-------------------------- MODULE MCCalendarNotify --------------------------
(***************************************************************************)
(* Small calendars for the notification job: a series of which two         *)
(* occurrences come before its end, or a single event.                     *)
(***************************************************************************)
EXTENDS CalendarNotify

CONSTANTS StartsAt, HalfWay, Offset

\* The rule of a series goes on after its end.
mc_Starts  == [e \in Events |-> StartsAt]
mc_Rule    == [e \in Events |-> StartsAt \cup
                 IF Cardinality(StartsAt) > 1 THEN {s + 10 : s \in StartsAt} ELSE {}]
mc_Half    == [e \in Events |-> HalfWay]
mc_Fanout  == [e \in Events |-> {"region", "group_notice"}]
mc_Wants   == [f \in Followers |-> {"email", "im"}]
mc_Offsets == [f \in Followers |-> {Offset}]
=============================================================================
