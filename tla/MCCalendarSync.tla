--------------------------- MODULE MCCalendarSync ---------------------------
(* CalendarSync for TLC: the events are interchangeable.                   *)
EXTENDS CalendarSync, TLC
CONSTANTS e1, e2
Symmetry == Permutations(Events)
=============================================================================
