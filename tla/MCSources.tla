------------------------------ MODULE MCSources ------------------------------
(* The four sources, and what the views lay out of what they bring, for TLC: *)
(* each part by itself.  The initial state picks the one that is at work, and *)
(* the others stay as they are.                                              *)
EXTENDS LinearFetch, CalendarFetch, SpotifyFetch, GitHubFetch, GitHubDetail,
        Calendar, Lanes, IssueTree, TLC

VARIABLE source

layoutVars == <<calVars, laneVars, treeVars>>
allVars == <<linearVars, fetchVars, spVars, gVars, gdVars, layoutVars, source>>

\* Linear's lists: an issue is a stamp and whether it is done.
Entry(n, c) == [stamp |-> n, closed |-> c]
MCProjects == << [entries |-> <<Entry(1, FALSE), Entry(2, TRUE)>>, next |-> "none"] >>
MCIssues ==
    << [entries |-> <<Entry(10, FALSE), Entry(12, FALSE)>>, next |-> "cursor"],
       [entries |-> <<Entry(11, FALSE), Entry(13, TRUE)>>, next |-> "cursor"],
       [entries |-> <<Entry(9, FALSE)>>, next |-> "none"] >>
\* The endpoint speaks all versions, all but the one asked for, or none that is known.
MCSpeaks == {Supported, Supported \ {Asked}, Others}

MCJobsOf == [s \in Sessions |-> IF s = "s1" THEN {"tab"} ELSE {"issue"}]

\* Calendars of one or two pages.
MCListed == <<"work", "home", "team">>
Event(n, kind) == [start |-> n, is |-> kind]
MCAgendas ==
    { << <<Event(3, "kept")>> >>,
      << <<Event(2, "kept"), Event(1, "declined")>>, <<Event(1, "kept")>> >>,
      << <<Event(4, "kept")>>, <<Event(0, "cancelled"), Event(2, "broken")>> >> }

\* Branches as the viewer may find them, pushed on three days or not at all.
Condition(pr, author, asked, draft, decision, rollup, pushed) ==
    [pr |-> pr, author |-> author, asked |-> asked, draft |-> draft,
     decision |-> decision, rollup |-> rollup, pushed |-> pushed]
MCConditions ==
    { Condition("none", "me", "nobody", FALSE, "none", "none", 1),
      Condition("none", "me", "nobody", FALSE, "none", "none", 2),
      Condition("open", "me", "nobody", FALSE, "approved", "failure", 2),
      Condition("open", "other", "you", FALSE, "none", "success", 0),
      Condition("open", "me", "team", TRUE, "none", "none", 1),
      Condition("open", "other", "team", FALSE, "none", "none", 0),
      Condition("merged", "me", "nobody", FALSE, "approved", "success", 3) }

\* The Sunday has two or three events, the Monday one, the other days none.
MCLoads == {[d \in -7 .. 48 |-> IF d = 20 THEN n ELSE IF d = 21 THEN 1 ELSE 0] : n \in {2, 3}}

\* A part that does not move has one state.
MCInit ==
    /\ source \in {"linear", "gcal", "spotify", "github", "detail", "calendar", "lanes", "tree"}
    /\ LinearInit /\ speaks \in MCSpeaks /\ (source # "linear" => speaks = Supported)
    /\ CalendarFetchInit
    /\ source # "gcal" => agenda = [c \in Range(Listed) |-> CHOOSE a \in Agendas : TRUE]
    /\ SpotifyInit /\ (source # "spotify" => playing = NoTrack)
    /\ GitHubInit
    /\ source # "github" => is = [b \in Branches |-> CHOOSE c \in Conditions : TRUE]
    /\ GitHubDetailInit
    /\ source # "detail" => nextRead = "pull" /\ requested = {} /\ changed = 0
    /\ CalendarInit /\ (source # "calendar" => today = 20)
    /\ LanesInit /\ (source # "lanes" => from = 0)
    /\ IF source = "tree" THEN IssueTreeInit
       ELSE /\ parentOf = [i \in Ids |-> Outside] /\ inFlight = {1}
            /\ roots = <<1>> /\ todo = <<>> /\ rows = <<>>

\* Once a pull request's job is done, nothing more happens to its pull request; the
\* day view moves as the week view does.
MCNext ==
    /\ source' = source
    /\ \/ /\ source = "linear" /\ LinearNext /\ speaks' \in MCSpeaks
          /\ UNCHANGED <<fetchVars, spVars, gVars, gdVars, layoutVars>>
       \/ /\ source = "gcal" /\ CalendarFetchNext
          /\ UNCHANGED <<linearVars, spVars, gVars, gdVars, layoutVars>>
       \/ /\ source = "spotify" /\ SpotifyNext
          /\ UNCHANGED <<linearVars, fetchVars, gVars, gdVars, layoutVars>>
       \/ /\ source = "github" /\ GitHubNext
          /\ UNCHANGED <<linearVars, fetchVars, spVars, gdVars, layoutVars>>
       \/ /\ source = "detail" /\ nextRead \notin {"done", "diff", "failed"} /\ GitHubDetailNext
          /\ UNCHANGED <<linearVars, fetchVars, spVars, gVars, layoutVars>>
       \/ /\ source = "calendar" /\ CalendarNext /\ calView' # "day"
          /\ UNCHANGED <<linearVars, fetchVars, spVars, gVars, gdVars, laneVars, treeVars>>
       \/ /\ source = "lanes" /\ LanesNext
          /\ UNCHANGED <<linearVars, fetchVars, spVars, gVars, gdVars, calVars, treeVars>>
       \/ /\ source = "tree" /\ IssueTreeNext
          /\ UNCHANGED <<linearVars, fetchVars, spVars, gVars, gdVars, calVars, laneVars>>

MCSpec == MCInit /\ [][MCNext]_allVars
=============================================================================
