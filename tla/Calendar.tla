------------------------------ MODULE Calendar ------------------------------
(***************************************************************************)
(* The Google Calendar tab: its landing menu, its day view and its week     *)
(* view, the day they focus, the window of two weeks that a fetch covers,   *)
(* and a clock that passes midnight while the tab is open                   *)
(* (integrations/gcal/panel.py and views/).                                 *)
(*                                                                         *)
(* Days are integers and a Monday is a multiple of 7.  A key is handled     *)
(* before the repaint it asks for: `paint' is "due" in between, and says    *)
(* afterwards whether the view in front could be drawn.  The width of the   *)
(* terminal and the hour of the day are read when they are used, so each    *)
(* use chooses them anew.                                                   *)
(***************************************************************************)
EXTENDS Integers, Sequences, Cursor

CONSTANTS Clock,       \* the days the clock goes through, an interval
          Widths,      \* the widths the week view may be drawn at
          Loads,       \* what a fetch may bring: [day -> number of timed events]
          Unset

ASSUME CalendarAssumption ==
    /\ Clock \subseteq Int
    /\ Widths \subseteq Nat
    /\ Unset \notin Int

VARIABLES today,       \* the day the clock shows, in the zone of the panel
          load,        \* the timed events of the last fetch that landed, or Unset
          covered,     \* the first day that fetch asked for
          state,       \* Panel.state
          focused,     \* CalendarPanel.focused_day
          setOn,       \* history: the Monday of today, when focused_day was set last
          calView,     \* CalendarPanel.active_view
          calCursor,   \* the cursor of the menu, of the day and of the week view
          cursorDay,   \* _cursor_day of the day and of the week view
          paint        \* "due", or the outcome of the last repaint

calVars == <<today, load, covered, state, focused, setOn, calView, calCursor,
             cursorDay, paint>>

Views == {"menu", "day", "week"}
DayViews == {"day", "week"}

\* What the landing menu offers: two of its four entries have no view yet.
Destinations == <<"day", "week", "invites", "upcoming">>

Monday(d) == d - (d % 7)

\* window_for: from the Monday of the day's week, two weeks.
FirstDay(d) == Monday(d)
LastDay(d) == Monday(d) + 13
InWindow(day, d) == FirstDay(d) <= day /\ day <= LastDay(d)

Focused == IF focused = Unset THEN today ELSE focused

\* events_on, without the all-day events: a fetch brings the days it asked for.
Timed(day) ==
    IF load = Unset \/ ~InWindow(day, covered) THEN 0 ELSE load[day]

-----------------------------------------------------------------------------
(* The columns of the week view.                                            *)

ColumnCount(width) ==
    IF width >= 140 THEN 7 ELSE IF width >= 110 THEN 5
    ELSE IF width >= 90 THEN 3 ELSE 1

\* Where visible_days starts before it slides into the window: on a Monday, or
\* late enough to end on a weekend day; below five columns, centred.
Unslid(day, count) ==
    IF count >= 5
    THEN IF day % 7 >= count THEN day - (count - 1) ELSE Monday(day)
    ELSE day - (count - 1) \div 2

\* The two slides, one after the other.
Leftmost(day, d, count) ==
    LET start == IF Unslid(day, count) < FirstDay(d) THEN FirstDay(d)
                 ELSE Unslid(day, count)
    IN IF start + count - 1 > LastDay(d) THEN LastDay(d) - (count - 1) ELSE start

\* visible_days: the days shown when `day' is focused and the clock shows `d'.
Shown(day, d, count) == Leftmost(day, d, count) .. Leftmost(day, d, count) + count - 1

\* The days whose events the header counts as hidden by a workweek.
HiddenWeekend(day, d, count) ==
    LET start == Leftmost(day, d, count)
    IN IF count = 5 /\ start % 7 = 0 THEN {start + 5, start + 6} ELSE {}

-----------------------------------------------------------------------------
CalendarInit ==
    /\ today \in Clock
    /\ load = Unset
    /\ covered = FirstDay(today)
    /\ state = "loading"
    /\ focused = Unset
    /\ setOn = FirstDay(today)
    /\ calView = "menu"
    /\ calCursor = [v \in Views |-> 0]
    /\ cursorDay = [v \in DayViews |-> Unset]
    /\ paint = "drawn"

\* The program is up: a repaint that raises ends it.
Up == paint \in {"due", "drawn"}

\* _sync_cursor: on another day the cursor goes to the first event that has not
\* ended, or to the last one; how many of today's have ended depends on the hour.
Synced(v) ==
    LET count == Timed(Focused) IN
    IF cursorDay[v] = Focused THEN {calCursor[v]}
    ELSE IF count = 0 \/ Focused > today THEN {0}
    ELSE IF Focused < today THEN {count - 1}
    ELSE 0 .. count - 1

\* selected_item of a day view, whoever calls it.
SelectsItem(v) ==
    /\ \E c \in Synced(v) : calCursor' = [calCursor EXCEPT ![v] = c]
    /\ cursorDay' = [cursorDay EXCEPT ![v] = Focused]

Unsynced == UNCHANGED <<calCursor, cursorDay>>

\* Bug: the day is not pulled into the window.
SetFocusedAnywhere(day) ==
    /\ focused' = day
    /\ setOn' = FirstDay(today)
    /\ paint' = "due"

\* set_focused: the day is pulled into the window of today and a repaint is due.
SetFocused(day) ==
    /\ focused' = IF day < FirstDay(today) THEN FirstDay(today)
                  ELSE IF day > LastDay(today) THEN LastDay(today) ELSE day
    /\ setOn' = FirstDay(today)
    /\ paint' = "due"

\* The repaint of the view in front.  A stale panel quotes its own ready text,
\* which is the text of the day view, which quotes the panel; the week view
\* looks for the focused day among the days it shows.
Paint ==
    /\ paint = "due"
    /\ \/ /\ calView = "menu" \/ state \in {"loading", "error"}
          /\ paint' = "drawn"
          /\ Unsynced
       \/ /\ calView \in DayViews /\ state = "stale"
          /\ paint' = "recursion"
          /\ Unsynced
       \/ /\ calView \in DayViews /\ state = "ready"
          /\ \E width \in Widths :
                IF calView = "week" /\ Focused \notin Shown(Focused, today, ColumnCount(width))
                THEN paint' = "raised" /\ Unsynced
                ELSE paint' = "drawn" /\ SelectsItem(calView)
    /\ UNCHANGED <<today, load, covered, state, focused, setOn, calView>>

\* The pulse of a day view in front asks for its selection; it repaints the ruler
\* alone, which shows what the last repaint showed.
Pulse ==
    /\ Up /\ calView \in DayViews
    /\ SelectsItem(calView)
    /\ UNCHANGED <<today, load, covered, state, focused, setOn, calView, paint>>

\* Every ten seconds the panel repaints: the clock's line and the countdown move.
Tick ==
    /\ paint = "drawn"
    /\ paint' = "due"
    /\ UNCHANGED <<today, load, covered, state, focused, setOn, calView>>
    /\ Unsynced

Midnight ==
    /\ Up /\ today + 1 \in Clock
    /\ today' = today + 1
    /\ UNCHANGED <<load, covered, state, focused, setOn, calView, paint>>
    /\ Unsynced

\* A fetch that started today or yesterday lands.  Its calendars name the zone the
\* panel shows from now on, in which it may be another day.
Land ==
    /\ Up
    /\ load' \in Loads
    /\ \E began \in {today, today - 1} : covered' = FirstDay(began)
    /\ today' \in {today - 1, today, today + 1} \cap Clock
    /\ state' = "ready"
    /\ paint' = "due"
    /\ UNCHANGED <<focused, setOn, calView>>
    /\ Unsynced

\* A fetch fails: an outage keeps the items that are there, anything else does not.
LoadFails ==
    /\ Up
    /\ \E keepItems \in BOOLEAN :
          state' = IF keepItems /\ load # Unset THEN "stale" ELSE "error"
    /\ paint' = "due"
    /\ UNCHANGED <<today, load, covered, focused, setOn, calView>>
    /\ Unsynced

-----------------------------------------------------------------------------
(* The keys.                                                                *)

MenuKey(offset) ==
    /\ Up /\ calView = "menu"
    /\ calCursor' = [calCursor EXCEPT !.menu = Step(@, offset, Len(Destinations))]
    /\ paint' = "due"
    /\ UNCHANGED <<today, load, covered, state, focused, setOn, calView, cursorDay>>

\* Enter on an entry that has no view says so and stays.
OpenDestination ==
    /\ Up /\ calView = "menu"
    /\ Destinations[calCursor.menu + 1] \in DayViews
    /\ calView' = Destinations[calCursor.menu + 1]
    /\ paint' = "due"
    /\ UNCHANGED <<today, load, covered, state, focused, setOn>>
    /\ Unsynced

\* Bug: the cursor is not pulled back into the list before it is moved.
MoveUnclamped(offset) ==
    /\ Up /\ calView \in DayViews
    /\ Timed(Focused) # 0
    /\ calCursor' = [calCursor EXCEPT ![calView] = (@ + offset) % Timed(Focused)]
    /\ paint' = "due"
    /\ UNCHANGED <<today, load, covered, state, focused, setOn, calView, cursorDay>>

\* An arrow steps the cursor as it is, whichever day it was placed on.
Move(offset) ==
    /\ Up /\ calView \in DayViews
    /\ Timed(Focused) # 0
    /\ calCursor' = [calCursor EXCEPT ![calView] = Step(@, offset, Timed(Focused))]
    /\ paint' = "due"
    /\ UNCHANGED <<today, load, covered, state, focused, setOn, calView, cursorDay>>

\* left, right, t, and in the week view [ and ].
FocusKey(target) ==
    /\ Up /\ calView \in DayViews
    /\ SetFocused(target)
    /\ UNCHANGED <<today, load, covered, state, calView>>
    /\ Unsynced

ChangeDay == \E step \in {-1, 1} : FocusKey(Focused + step)
ChangeWeek == calView = "week" /\ \E step \in {-7, 7} : FocusKey(Focused + step)
Today == FocusKey(today)

\* o opens the selected event in the browser and marks it seen; enter has no event
\* view to show yet.
OpenSelected ==
    /\ Up /\ calView \in DayViews
    /\ SelectsItem(calView)
    /\ paint' \in IF Timed(Focused) = 0 THEN {paint} ELSE {paint, "due"}
    /\ UNCHANGED <<today, load, covered, state, focused, setOn, calView>>

BackToMenu ==
    /\ Up /\ calView \in DayViews
    /\ calView' = "menu"
    /\ paint' = "due"
    /\ UNCHANGED <<today, load, covered, state, focused, setOn>>
    /\ Unsynced

\* The user starts a program that ended in a repaint again.
Restart ==
    /\ ~Up
    /\ load' = Unset /\ state' = "loading" /\ focused' = Unset
    /\ calView' = "menu" /\ paint' = "drawn"
    /\ calCursor' = [v \in Views |-> 0]
    /\ cursorDay' = [v \in DayViews |-> Unset]
    /\ covered' = FirstDay(today) /\ setOn' = FirstDay(today)
    /\ UNCHANGED today

CalendarNext ==
    \/ Paint \/ Pulse \/ Tick \/ Midnight \/ Land \/ LoadFails
    \/ \E offset \in {-1, 1} : MenuKey(offset) \/ Move(offset)
    \/ OpenDestination \/ ChangeDay \/ ChangeWeek \/ Today
    \/ OpenSelected \/ BackToMenu \/ Restart

CalendarSpec == CalendarInit /\ [][CalendarNext]_calVars

-----------------------------------------------------------------------------
\* The week view looks the focused day up among the days it shows (week.py:270,
\* and asserts it at week.py:355).  At every width it finds it, whatever keys were
\* pressed and wherever the run of days slid, unless the clock went on to another
\* week after the day was focused.
WeekIsLostOnlyWithItsWeek ==
    paint = "raised" => /\ focused # Unset
                        /\ setOn # FirstDay(today)

\* An arrow selects the neighbour of the event that was highlighted, also when the
\* day lost events since the cursor was placed; it never selects an event the day
\* does not have.
ArrowsStepFromTheSelection ==
    [][\A offset \in {-1, 1} :
          Move(offset) /\ cursorDay[calView] = Focused =>
             IsNeighbour(Clamp(calCursor[calView], Timed(Focused)),
                         calCursor'[calView], offset, Timed(Focused))]_calVars

\* app.py:614: "Last-good data is kept and marked stale rather than blanked".  The
\* panel with last-good data can be drawn in every view.
LastGoodDataIsDrawn == paint # "recursion"
=============================================================================
