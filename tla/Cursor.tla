------------------------------- MODULE Cursor -------------------------------
(***************************************************************************)
(* The cursor arithmetic every list of smorg shares (shell/cursor.py).  A   *)
(* list keeps the cursor it had when its rows change, so a cursor may lie   *)
(* beyond the end of a list that shrank: it is pulled back when it is read. *)
(***************************************************************************)
EXTENDS Integers

\* The row a cursor shows in a list of count rows: clamp_cursor.
Clamp(cursor, count) ==
    IF count = 0 THEN 0 ELSE IF cursor < count THEN cursor ELSE count - 1

\* The cursor moved by offset, wrapping at both ends: step_cursor.
Step(cursor, offset, count) ==
    IF count = 0 THEN 0 ELSE (Clamp(cursor, count) + offset) % count

\* `target' is the row one step away from the row that was highlighted, around
\* the ends of a list of `count' rows.
IsNeighbour(row, target, offset, count) ==
    /\ target \in 0 .. count - 1
    /\ \/ target = row + offset
       \/ offset = 1 /\ row = count - 1 /\ target = 0
       \/ offset = -1 /\ row = 0 /\ target = count - 1
=============================================================================
