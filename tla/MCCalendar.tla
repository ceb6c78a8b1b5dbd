----------------------------- MODULE MCCalendar -----------------------------
(* Calendar for TLC: a clock that goes from a Sunday to a Monday.           *)
EXTENDS Calendar

\* The Sunday has two or three events, the Monday one, the other days none.
MCLoads == {[d \in -7 .. 48 |-> IF d = 20 THEN n ELSE IF d = 21 THEN 1 ELSE 0] : n \in {2, 3}}

OneDayView == CalendarNext /\ calView' # "day"
MCSpec == CalendarInit /\ [][OneDayView]_calVars
=============================================================================
