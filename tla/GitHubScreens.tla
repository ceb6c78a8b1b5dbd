---------------------------- MODULE GitHubScreens ----------------------------
(***************************************************************************)
(* The views of the GitHub tab (integrations/github/panel.py and views/):   *)
(* the menu, the two lists, the page of a pull request and its diff, whose  *)
(* selected file a timer reads as well as the keys.  The details arrive     *)
(* when their workers are done: DetailCache is about who asks for them.     *)
(*                                                                         *)
(* A pull request here is one as it was listed: another updated_at makes    *)
(* another one.                                                             *)
(***************************************************************************)
EXTENDS Integers, Sequences, Functions, Cursor

CONSTANTS
    PullRequests,   \* pull requests, as they were listed
    Inboxes,        \* the orders in which the inbox may show them: sequences
    BranchCounts,   \* how many pushed branches there may be
    MaxDiffFiles,   \* bound on the files of a diff
    MaxLoads,       \* bounds on the workers loading one page, one diff
    Nobody

ASSUME GitHubScreensAssumption ==
    /\ Inboxes \subseteq Seq(PullRequests) /\ BranchCounts \subseteq Nat
    /\ MaxDiffFiles \in Nat /\ Nobody \notin PullRequests

VARIABLES
    isLoading,     \* Panel.state is LOADING: nothing landed and nothing failed yet
    ghView,        \* GitHubPanel.active_view
    viewed,        \* GitHubPanel.viewed
    viewedDiff,    \* GitHubPanel.viewed_diff: whose diff, or Nobody
    inbox,         \* the pull requests, as the inbox shows them
    branches,      \* the number of pushed branches
    cursors,       \* of the menu, the inbox and the pushed branches
    selected,      \* GitHubDiffView.selected_index
    isShown,       \* GitHubDiffView._shown_request is viewed_diff
    pages,         \* the pull requests with a cached detail
    diffs,         \* the files of each cached diff; -1: none is cached
    awaited,       \* _detail_pending
    loads          \* the workers that load each detail

gh == <<isLoading, ghView, viewed, viewedDiff, inbox, branches, cursors, selected, isShown,
        pages, diffs, awaited, loads>>

Details == PullRequests \X {"page", "diff"}
Idle == <<Nobody, "page">>

GitHubScreensInit ==
    /\ isLoading = TRUE /\ ghView = "menu"
    /\ viewed = Nobody /\ viewedDiff = Nobody
    /\ inbox = <<>> /\ branches = 0
    /\ cursors = [menu |-> 0, inbox |-> 0, pushed |-> 0]
    /\ selected = 0 /\ isShown = FALSE
    /\ pages = {} /\ diffs = [p \in PullRequests |-> -1]
    /\ awaited = Idle /\ loads = [d \in Details |-> 0]

-----------------------------------------------------------------------------
(* The diff view is brought up to date by every refresh of the panel.       *)

FilesOf(of, known) == IF of = Nobody THEN -1 ELSE known[of]

\* Bug: the diff that is shown may have lost files.
SyncSelectionOnce(files) == IF isShown THEN selected ELSE 0

\* _sync_selection: a request that was not the one shown starts at its first file.
SyncSelection(files) == IF isShown THEN Clamp(selected, files) ELSE 0

\* GitHubDiffView.refresh_content: nothing is synchronised before the diff is there.
Refresh(of, known, asked) ==
    IF FilesOf(of, known) = -1 \/ asked = <<of, "diff">>
    THEN UNCHANGED <<selected, isShown>>
    ELSE selected' = SyncSelection(FilesOf(of, known)) /\ isShown' = TRUE

\* Another request than the one shown: the selection is that of the former one until
\* the diff is there.
NewRequest(of, asked) ==
    LET isThere == diffs[of] # -1 /\ asked # <<of, "diff">> IN
    /\ isShown' = isThere
    /\ selected' = IF isThere THEN 0 ELSE selected

\* request_detail.
Request(detail) ==
    LET isCached == IF detail[2] = "page" THEN detail[1] \in pages ELSE diffs[detail[1]] # -1
    IN IF isCached \/ awaited = detail THEN UNCHANGED <<awaited, loads>>
       ELSE /\ loads[detail] < MaxLoads[detail[2]]
            /\ awaited' = detail
            /\ loads' = [loads EXCEPT ![detail] = @ + 1]

-----------------------------------------------------------------------------
(* The keys.  While the tab is loading the loading view has the focus.      *)

HasKeys(view) == ~ isLoading /\ ghView = view

\* show_view, which refreshes the panel.
GoTo(view) ==
    /\ ghView' = view
    /\ UNCHANGED <<isLoading, inbox, branches, cursors, pages, diffs>>

Switch(view) ==
    /\ GoTo(view)
    /\ Refresh(viewedDiff, diffs, awaited)
    /\ UNCHANGED <<viewed, viewedDiff, awaited, loads>>

OpenFromMenu ==
    HasKeys("menu") /\ Switch(IF cursors.menu = 0 THEN "inbox" ELSE "pushed")
BackToGitHubMenu == (HasKeys("inbox") \/ HasKeys("pushed")) /\ Switch("menu")

RowsIn(list) ==
    CASE list = "menu" -> 2 [] list = "inbox" -> Len(inbox) [] list = "pushed" -> branches

\* The arrow keys; an empty list keeps its cursor.
MoveCursor(list, offset) ==
    /\ HasKeys(list) /\ RowsIn(list) > 0
    /\ cursors' = [cursors EXCEPT ![list] = Step(@, offset, RowsIn(list))]
    /\ Refresh(viewedDiff, diffs, awaited)
    /\ UNCHANGED <<isLoading, ghView, viewed, viewedDiff, inbox, branches, pages, diffs,
                   awaited, loads>>

SelectedPullRequest == inbox[Clamp(cursors.inbox, Len(inbox)) + 1]

OpenPullRequest ==
    /\ HasKeys("inbox") /\ inbox # <<>>
    /\ viewed' = SelectedPullRequest
    /\ Request(<<viewed', "page">>)
    /\ Refresh(viewedDiff, diffs, awaited')
    /\ GoTo("pull request")
    /\ UNCHANGED viewedDiff

ClosePullRequest ==
    /\ HasKeys("pull request")
    /\ viewed' = Nobody /\ viewedDiff' = Nobody /\ isShown' = FALSE
    /\ GoTo("inbox")
    /\ UNCHANGED <<selected, awaited, loads>>

\* Each opening is a request of its own, also of a diff that is cached.
OpenDiff ==
    /\ HasKeys("pull request") /\ viewed # Nobody
    /\ viewedDiff' = viewed
    /\ Request(<<viewed, "diff">>)
    /\ NewRequest(viewed, awaited')
    /\ GoTo("diff")
    /\ UNCHANGED viewed

CloseDiff ==
    /\ HasKeys("diff")
    /\ viewedDiff' = Nobody /\ isShown' = FALSE
    /\ GoTo("pull request")
    /\ UNCHANGED <<viewed, selected, awaited, loads>>

\* action_next_file and action_previous_file, which do not wrap.
MoveFile(offset) ==
    LET files == FilesOf(viewedDiff, diffs) IN
    /\ HasKeys("diff") /\ files > 0
    /\ SyncSelection(files) + offset \in 0 .. files - 1
    /\ selected' = SyncSelection(files) + offset /\ isShown' = TRUE
    /\ UNCHANGED <<isLoading, ghView, viewed, viewedDiff, inbox, branches, cursors, pages,
                   diffs, awaited, loads>>

-----------------------------------------------------------------------------
(* The app.                                                                 *)

\* A worker ends: show_detail and show_detail_error.  An earlier worker of the same
\* detail may have ended before; what the last one found is shown.
Landed(detail) ==
    /\ loads[detail] > 0
    /\ loads' = [loads EXCEPT ![detail] = @ - 1]
    /\ awaited' = IF awaited = detail THEN Idle ELSE awaited
    /\ Refresh(viewedDiff, diffs', awaited')
    /\ UNCHANGED <<isLoading, ghView, viewed, viewedDiff, inbox, branches, cursors>>

PageLands == \E p \in PullRequests :
    pages' = pages \cup {p} /\ UNCHANGED diffs /\ Landed(<<p, "page">>)

DiffLands == \E p \in PullRequests, files \in 0 .. MaxDiffFiles :
    diffs' = [diffs EXCEPT ![p] = files] /\ UNCHANGED pages /\ Landed(<<p, "diff">>)

DetailIsLost == \E d \in Details : UNCHANGED <<pages, diffs>> /\ Landed(d)

\* _show_items: the details of what is neither listed nor viewed go.  The requests of
\* diffs are not items, so only the viewed one stays.
GitHubItemsLand ==
    /\ inbox' \in Inboxes /\ branches' \in BranchCounts
    /\ isLoading' = FALSE
    /\ pages' = pages \cap (Range(inbox') \cup {viewed})
    /\ diffs' = [p \in PullRequests |-> IF p = viewedDiff THEN diffs[p] ELSE -1]
    /\ Refresh(viewedDiff, diffs', awaited)
    /\ UNCHANGED <<ghView, viewed, viewedDiff, cursors, awaited, loads>>

\* _show_error; a first load that fails ends the loading too.
GitHubFails ==
    /\ isLoading' = FALSE
    /\ Refresh(viewedDiff, diffs, awaited)
    /\ UNCHANGED <<ghView, viewed, viewedDiff, inbox, branches, cursors, pages, diffs,
                   awaited, loads>>

GitHubScreensNext ==
    \/ OpenFromMenu \/ BackToGitHubMenu \/ OpenPullRequest \/ ClosePullRequest
    \/ OpenDiff \/ CloseDiff \/ PageLands \/ DiffLands \/ DetailIsLost
    \/ GitHubItemsLand \/ GitHubFails
    \/ \E offset \in {-1, 1} :
          MoveFile(offset) \/ \E list \in DOMAIN cursors : MoveCursor(list, offset)

GitHubScreensSpec == GitHubScreensInit /\ [][GitHubScreensNext]_gh

-----------------------------------------------------------------------------
\* The page and the diff in front have their pull request, and the lists none.  As soon
\* as a diff is there its selected file is one of its files, and was selected in this
\* diff, not in the one shown before: the marquee's timer reads it at any time, and
\* two workers may bring the same diff one after the other, with fewer files.
DiffHasItsFile ==
    /\ viewed # Nobody <=> ghView \in {"pull request", "diff"}
    /\ viewedDiff = IF ghView = "diff" THEN viewed ELSE Nobody
    /\ FilesOf(viewedDiff, diffs) # -1 =>
          isShown /\ selected = Clamp(selected, FilesOf(viewedDiff, diffs)) /\ selected >= 0
=============================================================================
