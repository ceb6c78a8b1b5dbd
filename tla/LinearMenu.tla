------------------------------ MODULE LinearMenu ------------------------------
(***************************************************************************)
(* The landing view of the Linear tab (integrations/linear/views/menu.py):  *)
(* what its mark plays, from the panel's state, the fetches under way and   *)
(* the issues that changed since the user saw them.  Its clock counts       *)
(* frames and stands still while another view is in front.                  *)
(***************************************************************************)
EXTENDS Integers

CONSTANTS
    Tracked,       \* the issues of the model
    MaxVersion,    \* bound on an issue's updated_at, per issue; 0: not listed
    Drawn,         \* _HOLD + _DRAW, in frames
    FlashFrames,   \* _FLASH_SECONDS, in frames
    SweepFrames,   \* _SWEEP_SECONDS, in frames
    MaxFetches,    \* bound on the fetches under way at a time
    MaxElapsed,    \* bound on the frames
    Never          \* a time that is not set, a changed set that is not known

ASSUME LinearMenuAssumption ==
    /\ SweepFrames \in Nat \ {0}
    /\ Never \notin Int /\ \A ids \in SUBSET Tracked : Never # ids

VARIABLES
    versions,      \* the version of each issue among the panel's items
    stamp,         \* the version marked seen: SeenState
    mState,        \* Panel.state
    mView,         \* "menu", "issues", or another view or page
    elapsed,       \* _elapsed
    arrived,       \* _arrived
    changedIds,    \* _changed_ids
    waiting,       \* _changes_waiting
    flashedAt,     \* _flash_started_at
    fetching,      \* _fetching
    sweptAt,       \* _sweep_started_at
    sweepEnds,     \* _sweep_ends_at
    underWay,      \* the fetches of the tab between their start and their finish
    lastEnd,       \* history: when the last of them finished
    news           \* history: what became unread since the issues were looked at

sweepVars == <<fetching, sweptAt, sweepEnds, underWay, lastEnd>>
noteVars == <<changedIds, waiting, flashedAt, news>>
menuVars == <<versions, stamp, mState, mView, elapsed, arrived, sweepVars, noteVars>>

\* _changed: the listed issues whose version is past the one marked seen.
ChangedOf(items, seen) == {i \in Tracked : items[i] > seen[i]}
Changed == ChangedOf(versions, stamp)

LinearMenuInit ==
    /\ versions = [i \in Tracked |-> 0] /\ stamp \in [Tracked -> {0, 1}]
    /\ mState = "loading" /\ mView = "menu"
    /\ elapsed = 0 /\ arrived = FALSE
    /\ changedIds = Never /\ waiting = FALSE /\ flashedAt = Never /\ news = {}
    /\ fetching = FALSE /\ sweptAt = Never /\ sweepEnds = Never
    /\ underWay = 0 /\ lastEnd = 0

\* Bug: news that waits is forgotten at the next repaint.
NoteOnce(changed) ==
    LET new == changed \ changedIds IN
    /\ changedIds' = changed
    /\ IF changedIds = Never THEN UNCHANGED <<flashedAt, waiting, news>>
       ELSE /\ flashedAt' = IF new # {} THEN elapsed ELSE flashedAt
            /\ waiting' = (new # {})
            /\ news' = (news \cup (changed \ Changed)) \cap changed

\* refresh_content, when `changed' is what is unread from now on.  The first time
\* there is nothing to compare with.
Note(changed) ==
    LET new == changed \ changedIds IN
    /\ changedIds' = changed
    /\ IF changedIds = Never THEN UNCHANGED <<flashedAt, waiting, news>>
       ELSE /\ flashedAt' = IF new # {} THEN elapsed ELSE flashedAt
            /\ waiting' = (changed # {} /\ (waiting \/ new # {}))
            /\ news' = (news \cup (changed \ Changed)) \cap changed

-----------------------------------------------------------------------------
(* The panel, each of whose changes ends in a refresh of its views.         *)

Repaint ==
    /\ Note(Changed)
    /\ UNCHANGED <<versions, stamp, mState, mView, elapsed, arrived, sweepVars>>

\* _show_items: issues come, change and go.
ItemsLand ==
    /\ versions' \in [Tracked -> Nat \cap UNION {0 .. MaxVersion[i] : i \in Tracked}]
    /\ \A i \in Tracked : versions'[i] \in {0} \cup versions[i] .. MaxVersion[i]
    /\ mState' = "ready"
    /\ Note(ChangedOf(versions', stamp))
    /\ UNCHANGED <<stamp, mView, elapsed, arrived, sweepVars>>

\* _show_error.
ItemsFail ==
    /\ \E keepItems \in BOOLEAN :
          mState' = IF keepItems /\ mState \in {"ready", "stale"} THEN "stale" ELSE "error"
    /\ Note(Changed)
    /\ UNCHANGED <<versions, stamp, mView, elapsed, arrived, sweepVars>>

MarkAs(seen) ==
    /\ stamp' = seen
    /\ Note(ChangedOf(versions, seen))
    /\ UNCHANGED <<versions, mState, mView, elapsed, arrived, sweepVars>>

\* An issue is opened from a list or a page, or in the browser; m; u on an issue.
MarkSeen == \E i \in Tracked : versions[i] # 0 /\ MarkAs([stamp EXCEPT ![i] = versions[i]])
MarkAllSeen == MarkAs([i \in Tracked |-> IF versions[i] # 0 THEN versions[i] ELSE stamp[i]])
MarkUnseen == \E i \in Tracked :
    versions[i] # 0 /\ mView # "menu" /\ MarkAs([stamp EXCEPT ![i] = 0])

\* show_view refreshes the panel; the list of issues acknowledges what waits.
Show(view) ==
    /\ mView' = view
    /\ IF view = "issues"
       THEN changedIds' = Changed /\ waiting' = FALSE /\ news' = {} /\ UNCHANGED flashedAt
       ELSE Note(Changed)
    /\ UNCHANGED <<versions, stamp, mState, elapsed, arrived, sweepVars>>

LookAtIssues == mView # "issues" /\ Show("issues")
LookElsewhere == \E view \in {"menu", "elsewhere"} \ {mView} : Show(view)

-----------------------------------------------------------------------------
(* The clock and the fetches.                                               *)

Frame ==
    /\ mView = "menu" /\ elapsed < MaxElapsed
    /\ elapsed' = elapsed + 1
    /\ arrived' = (arrived \/ elapsed' >= Drawn)
    /\ UNCHANGED <<versions, stamp, mState, mView, sweepVars, noteVars>>

MenuFetchStarted ==
    /\ underWay < MaxFetches
    /\ underWay' = underWay + 1
    /\ fetching' = TRUE /\ sweptAt' = elapsed /\ sweepEnds' = Never
    /\ UNCHANGED <<versions, stamp, mState, mView, elapsed, arrived, noteVars, lastEnd>>

\* Bug: the sweep ends at the pass before.
MenuFetchFinishedEarly ==
    /\ underWay > 0
    /\ underWay' = underWay - 1
    /\ fetching' = FALSE
    /\ sweepEnds' = sweptAt + ((elapsed - sweptAt) \div SweepFrames) * SweepFrames
    /\ lastEnd' = elapsed
    /\ UNCHANGED <<versions, stamp, mState, mView, elapsed, arrived, noteVars, sweptAt>>

\* The sweep goes on to the end of its pass.
MenuFetchFinished ==
    /\ underWay > 0
    /\ underWay' = underWay - 1
    /\ fetching' = FALSE
    /\ sweepEnds' = sweptAt + (((elapsed - sweptAt) \div SweepFrames) + 1) * SweepFrames
    /\ lastEnd' = elapsed
    /\ UNCHANGED <<versions, stamp, mState, mView, elapsed, arrived, noteVars, sweptAt>>

LinearMenuNext ==
    \/ Repaint \/ ItemsLand \/ ItemsFail \/ MarkSeen \/ MarkAllSeen \/ MarkUnseen
    \/ LookAtIssues \/ LookElsewhere \/ Frame \/ MenuFetchStarted \/ MenuFetchFinished

-----------------------------------------------------------------------------
(* What the mark shows: _paint_mark.                                        *)

Flashing == flashedAt # Never /\ elapsed < flashedAt + FlashFrames
Sweeping == sweptAt # Never /\ (fetching \/ (sweepEnds # Never /\ elapsed < sweepEnds))

MarkShows ==
    CASE mState = "error"            -> "dim head"
      [] mState = "stale"            -> "dim"
      [] mState \in {"loading", "ready"} ->
            IF ~arrived THEN "draw in" ELSE IF Flashing THEN "flash"
            ELSE IF Sweeping THEN "sweep" ELSE IF waiting THEN "shine" ELSE "resting"

\* The mark does not rest while there is an unread issue that became unread since
\* the list of issues was opened last, whatever was opened, marked and fetched in
\* between; and it does not shine when there is nothing unread.
NewsShines ==
    /\ MarkShows = "resting" => news = {}
    /\ MarkShows = "shine" => Changed # {}

\* Once no fetch is under way the sweep ends, with a whole pass and not more than one
\* pass after the last fetch, however the fetches overlapped.
SweepEndsWithAPass ==
    underWay = 0 /\ sweptAt # Never =>
        /\ ~fetching
        /\ lastEnd < sweepEnds /\ sweepEnds <= lastEnd + SweepFrames
        /\ (sweepEnds - sweptAt) % SweepFrames = 0

\* What the mark plays is what there is to tell, whatever keys, fetches and repaints
\* come in between.
MarkIsHonest == NewsShines /\ SweepEndsWithAPass
=============================================================================
