------------------------------- MODULE Lanes -------------------------------
(***************************************************************************)
(* How a day of the calendar lays its timed events side by side             *)
(* (integrations/gcal/ruler.py).  The events come in the order of their     *)
(* start; each takes the first lane that is free at its first slot, or a    *)
(* new one; an event beyond the last lane a day has room for is hidden.     *)
(***************************************************************************)
EXTENDS Integers, Sequences

CONSTANTS Slots,       \* SLOTS_PER_DAY
          MaxLanes,    \* MAX_LANES
          Moments,     \* where events start and end: slots counted from the
                       \*   day's midnight, also before it and after the day
          MaxEvents    \* how many events a day of this model has at most

ASSUME LanesAssumption ==
    /\ Slots \in Nat \ {0} /\ MaxLanes \in Nat \ {0}
    /\ Moments \subseteq Int

VARIABLES opened,      \* how many lanes there are, counted from 0
          laneEnds,    \* the slot each of them is taken up to
          spans,       \* the events laid out so far: their slots and their lane
          from         \* where the last of them starts: the next is not earlier

laneVars == <<opened, laneEnds, spans, from>>

Opened == 0 .. opened - 1

LanesInit ==
    /\ opened = 0
    /\ laneEnds = [lane \in {} |-> 0]
    /\ spans = <<>>
    /\ from \in Moments

\* The part of an event that falls on this day, one slot at least: lay_out.
FirstSlot(start) == IF start < 0 THEN 0 ELSE start
LastSlot(start, end) ==
    LET last == IF end > Slots THEN Slots ELSE end
    IN IF last > FirstSlot(start) THEN last ELSE FirstSlot(start) + 1

Span(start, end, lane) ==
    [first |-> FirstSlot(start), last |-> LastSlot(start, end), lane |-> lane]

\* Bug: the last slot of the event before is taken for free.
FreeTooSoon(lane, start) == laneEnds[lane] <= FirstSlot(start) + 1

Free(lane, start) == laneEnds[lane] <= FirstSlot(start)

\* _assign_lanes takes the first lane that is free ...
Reuse(start, end) ==
    \E lane \in Opened :
        /\ Free(lane, start)
        /\ \A other \in 0 .. lane - 1 : ~Free(other, start)
        /\ laneEnds' = [laneEnds EXCEPT ![lane] = LastSlot(start, end)]
        /\ spans' = Append(spans, Span(start, end, lane))
        /\ UNCHANGED opened

\* ... and opens another when none is.
OpenLane(start, end) ==
    /\ \A lane \in Opened : ~Free(lane, start)
    /\ opened' = opened + 1
    /\ laneEnds' = [lane \in 0 .. opened |->
                       IF lane = opened THEN LastSlot(start, end) ELSE laneEnds[lane]]
    /\ spans' = Append(spans, Span(start, end, opened))

\* The next event of this day, in the order of _timed_on.
Place(start, end) ==
    /\ Len(spans) < MaxEvents
    /\ from <= start /\ start < Slots /\ start <= end /\ end > 0
    /\ Reuse(start, end) \/ OpenLane(start, end)
    /\ from' = start

LanesNext == \E start, end \in Moments : Place(start, end)

LanesSpec == LanesInit /\ [][LanesNext]_laneVars

-----------------------------------------------------------------------------
(* What the views draw of it.                                               *)

Hidden(i) == spans[i].lane >= MaxLanes
Placed == {i \in DOMAIN spans : ~Hidden(i)}

Covers(i, slot) == spans[i].first <= slot /\ slot < spans[i].last
Overlap(i, j) == spans[i].first < spans[j].last /\ spans[j].first < spans[i].last

\* Placed.lane_count: one more than the highest lane of the events it overlaps.
IsLaneCount(i, n) ==
    /\ \A j \in Placed : Overlap(i, j) => spans[j].lane < n
    /\ \E j \in Placed : Overlap(i, j) /\ spans[j].lane + 1 = n

\* The lanes a row of the ruler is divided into: _format_lane_row.
IsRowLanes(slot, n) ==
    LET occupants == {i \in Placed : Covers(i, slot)} IN
    /\ \A i \in occupants : \A m \in 1 .. MaxLanes : IsLaneCount(i, m) => m <= n
    /\ \E i \in occupants : IsLaneCount(i, n)

-----------------------------------------------------------------------------
\* Two events that share a slot are in different lanes, whatever their order and
\* however an event that began before midnight or ends after it is cut: no chip
\* of _format_lane_row overwrites another.
ChipsAreApart ==
    \A i, j \in DOMAIN spans :
        i # j /\ Overlap(i, j) => spans[i].lane # spans[j].lane

\* No lane is opened, and no event hidden, while a lane is free: at the slot where
\* an event starts, every lane below its own has an event.
LanesAreNeeded ==
    \A i \in DOMAIN spans : \A lane \in 0 .. spans[i].lane - 1 :
        \E j \in DOMAIN spans : spans[j].lane = lane /\ Covers(j, spans[i].first)

\* Every row that has an event is divided into lanes, three at most, and each
\* of its events has one of them (day.py:145 assigns to it by index).
RowsHoldTheirChips ==
    \A slot \in 0 .. Slots - 1 :
        LET occupants == {i \in Placed : Covers(i, slot)} IN
        occupants # {} =>
            \E n \in 1 .. MaxLanes :
                IsRowLanes(slot, n) /\ \A i \in occupants : spans[i].lane < n

\* The ruler draws every event that has a lane beside those it overlaps, in a lane of
\* its own, and hides no event it has room for.
RulerIsSound == ChipsAreApart /\ LanesAreNeeded /\ RowsHoldTheirChips
=============================================================================
