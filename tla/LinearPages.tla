----------------------------- MODULE LinearPages -----------------------------
(***************************************************************************)
(* The views of the Linear tab and the trail of pages opened from its lists *)
(* (integrations/linear/panel.py, navigation.py and views/).  All issue     *)
(* pages share one widget, and so do all project pages and all lists of a   *)
(* project's issues: a page's place is in the widget while it is in front   *)
(* and in its visit on the trail while it is not.                           *)
(*                                                                         *)
(* The rows of a list come from the last fetch, or from the detail of the   *)
(* page, which may not be there: each use reads them anew.  The requests    *)
(* for details are those of DetailCache, the marks those of LinearMenu.     *)
(***************************************************************************)
EXTENDS Integers, Sequences, Cursor

CONSTANTS
    LinearIssues, LinearProjects,   \* what pages show
    IssueLists, ProjectLists,       \* the rows each of the two lists may have
    TreeLists, TargetLists,         \* the rows of a project's issues, and what an
                                    \*   issue links to: sequences of issues
    MaxVisits                       \* bound on the pages open at a time

ASSUME LinearPagesAssumption ==
    /\ LinearIssues \cap LinearProjects = {}
    /\ IssueLists \subseteq Seq(LinearIssues) /\ ProjectLists \subseteq Seq(LinearProjects)
    /\ TreeLists \subseteq Seq(LinearIssues) /\ TargetLists \subseteq Seq(LinearIssues)

VARIABLES
    lView,         \* LinearPanel.active_view
    visits,        \* Trail.visits
    root,          \* Trail.root
    listCursor,    \* the cursors of LinearIssues and of LinearProjects
    treeCursor,    \* the cursor of LinearProjectIssues
    pickerCursor,  \* LinearIssueView.picker_cursor
    picker         \* the picker on top of the page: which, its issues, its cursor

pageVars == <<lView, visits, root, listCursor, treeCursor, pickerCursor, picker>>

Lists == {"issues", "projects"}

NoPicker == [is |-> "none", targets |-> <<>>, at |-> 0]
NewVisit(item) == [item |-> item, cursor |-> 0, showing |-> FALSE]
Current == visits[Len(visits)].item

LinearPagesInit ==
    /\ lView = "menu"
    /\ visits = <<>> /\ root = "issues"
    /\ listCursor = [l \in Lists |-> 0] /\ treeCursor = 0 /\ pickerCursor = 0
    /\ picker = NoPicker

\* A key reaches a view only while no picker is on top of it.
InFront(view) == lView = view /\ picker = NoPicker

-----------------------------------------------------------------------------
(* The panel: pages are opened and left.                                    *)

\* remember_view_state: the place of the page in front, put on its visit; `chosen'
\* is the picker cursor of an issue page.
PlaceOf(chosen) ==
    IF Current \in LinearProjects
    THEN [item |-> Current, cursor |-> treeCursor, showing |-> lView = "project_issues"]
    ELSE [item |-> Current, cursor |-> chosen, showing |-> FALSE]
Remembered(chosen) ==
    IF visits = <<>> THEN visits ELSE [visits EXCEPT ![Len(visits)] = PlaceOf(chosen)]

\* open_issue and open_project: a new visit, shown from its beginning.
Push(item, list, chosen) ==
    /\ Len(visits) < MaxVisits
    /\ visits' = Append(Remembered(chosen), NewVisit(item))
    /\ root' = IF visits = <<>> THEN list ELSE root
    /\ UNCHANGED listCursor

OpenIssue(issue, chosen) ==
    /\ Push(issue, "issues", chosen)
    /\ lView' = "issue"
    /\ pickerCursor' = 0
    /\ UNCHANGED treeCursor

OpenProject(project) ==
    /\ Push(project, "projects", pickerCursor)
    /\ lView' = "project"
    /\ treeCursor' = 0
    /\ UNCHANGED pickerCursor

\* Bug: the place of an issue page stays on its visit.
ShowTopAnew(n) ==
    IF n = 0 THEN lView' = root /\ UNCHANGED <<treeCursor, pickerCursor>>
    ELSE IF visits[n].item \notin LinearProjects
    THEN lView' = "issue" /\ UNCHANGED <<treeCursor, pickerCursor>>
    ELSE /\ lView' = IF visits[n].showing THEN "project_issues" ELSE "project"
         /\ treeCursor' = IF visits[n].showing THEN visits[n].cursor ELSE treeCursor
         /\ UNCHANGED pickerCursor

\* _show_trail_top, when the first n visits are left: the page's place goes back
\* from its visit into the widget.
ShowTop(n) ==
    IF n = 0 THEN lView' = root /\ UNCHANGED <<treeCursor, pickerCursor>>
    ELSE IF visits[n].item \notin LinearProjects
    THEN lView' = "issue" /\ pickerCursor' = visits[n].cursor /\ UNCHANGED treeCursor
    ELSE /\ lView' = IF visits[n].showing THEN "project_issues" ELSE "project"
         /\ treeCursor' = IF visits[n].showing THEN visits[n].cursor ELSE treeCursor
         /\ UNCHANGED pickerCursor

\* go_back_to.
LeaveTo(n) ==
    /\ visits' = SubSeq(visits, 1, n)
    /\ ShowTop(n)
    /\ UNCHANGED <<root, listCursor>>

-----------------------------------------------------------------------------
(* The menu and the lists.                                                  *)

SwitchTo(view) ==
    /\ lView' = view
    /\ UNCHANGED <<visits, root, listCursor, treeCursor, pickerCursor, picker>>

OpenList == InFront("menu") /\ \E list \in Lists : SwitchTo(list)
BackToLinearMenu == \E list \in Lists : InFront(list) /\ SwitchTo("menu")

RowsOf(list) == IF list = "issues" THEN IssueLists ELSE ProjectLists
Selected(rows, cursor) == rows[Clamp(cursor, Len(rows)) + 1]

MoveInList(offset) ==
    \E list \in Lists : \E rows \in RowsOf(list) \ {<<>>} :
        /\ InFront(list)
        /\ listCursor' = [listCursor EXCEPT ![list] = Step(@, offset, Len(rows))]
        /\ UNCHANGED <<lView, visits, root, treeCursor, pickerCursor, picker>>

OpenFromIssues ==
    /\ InFront("issues")
    /\ \E rows \in IssueLists \ {<<>>} :
          OpenIssue(Selected(rows, listCursor.issues), pickerCursor)
    /\ UNCHANGED picker

OpenFromProjects ==
    /\ InFront("projects")
    /\ \E rows \in ProjectLists \ {<<>>} : OpenProject(Selected(rows, listCursor.projects))
    /\ UNCHANGED picker

-----------------------------------------------------------------------------
(* The pages.                                                               *)

OpenIssues == InFront("project") /\ SwitchTo("project_issues")
BackToProject == InFront("project_issues") /\ SwitchTo("project")

MoveInTree(offset) ==
    /\ InFront("project_issues")
    /\ \E rows \in TreeLists \ {<<>>} : treeCursor' = Step(treeCursor, offset, Len(rows))
    /\ UNCHANGED <<lView, visits, root, listCursor, pickerCursor, picker>>

OpenFromTree ==
    /\ InFront("project_issues")
    /\ \E rows \in TreeLists \ {<<>>} : OpenIssue(Selected(rows, treeCursor), pickerCursor)
    /\ UNCHANGED picker

\* Escape on a page.
Back ==
    /\ InFront("issue") \/ InFront("project")
    /\ LeaveTo(Len(visits) - 1)
    /\ UNCHANGED picker

-----------------------------------------------------------------------------
(* The pickers of a page.                                                   *)

Pick(is, targets, at) ==
    /\ picker' = [is |-> is, targets |-> targets, at |-> at]
    /\ UNCHANGED <<lView, visits, root, listCursor, treeCursor, pickerCursor>>

\* action_open_from_here: nothing opens without targets.
OpenFromHere ==
    /\ InFront("issue")
    /\ \E targets \in TargetLists \ {<<>>} : Pick("open from", targets, pickerCursor)

\* action_show_trail: what is below the page, the nearest first, the list last.
ShowTrail == (InFront("issue") \/ InFront("project")) /\ Pick("trail", <<>>, 0)

PickerCount == IF picker.is = "trail" THEN Len(visits) ELSE Len(picker.targets)

MoveInPicker(offset) ==
    /\ picker # NoPicker
    /\ picker' = [picker EXCEPT !.at = Step(@, offset, PickerCount)]
    /\ UNCHANGED <<lView, visits, root, listCursor, treeCursor, pickerCursor>>

\* Enter: the picker goes, and what was picked is opened or gone back to.  The page
\* takes the picker's cursor over before it is left.
PickTarget ==
    /\ picker.is = "open from"
    /\ OpenIssue(Selected(picker.targets, picker.at), picker.at)
    /\ picker' = NoPicker

PickVisit ==
    /\ picker.is = "trail"
    /\ LeaveTo(Len(visits) - 1 - Clamp(picker.at, Len(visits)))
    /\ picker' = NoPicker

ClosePicker ==
    /\ picker # NoPicker
    /\ pickerCursor' = IF picker.is = "open from" THEN picker.at ELSE pickerCursor
    /\ picker' = NoPicker
    /\ UNCHANGED <<lView, visits, root, listCursor, treeCursor>>

LinearPagesNext ==
    \/ OpenList \/ BackToLinearMenu \/ OpenFromIssues \/ OpenFromProjects
    \/ OpenIssues \/ BackToProject \/ OpenFromTree \/ Back
    \/ OpenFromHere \/ ShowTrail \/ PickTarget \/ PickVisit \/ ClosePicker
    \/ \E offset \in {-1, 1} :
          MoveInList(offset) \/ MoveInTree(offset) \/ MoveInPicker(offset)

LinearPagesSpec == LinearPagesInit /\ [][LinearPagesNext]_pageVars

-----------------------------------------------------------------------------
\* The page in front is that of the last visit, of the kind its item has; without
\* a visit a list or the menu is.  Escape on the first page leads back to the list
\* the page was opened from, and only issues are opened on top of a page: a project
\* below others was left with its issues shown.
ViewFollowsTrail ==
    /\ visits = <<>> <=> lView \in Lists \cup {"menu"}
    /\ \A i \in DOMAIN visits :
          /\ i > 1 => visits[i].item \in LinearIssues
          /\ visits[i].item \in LinearProjects /\ i < Len(visits) => visits[i].showing
    /\ visits # <<>> =>
          /\ lView = "issue" <=> Current \in LinearIssues
          /\ root = IF visits[1].item \in LinearProjects THEN "projects" ELSE "issues"

\* The places of all the pages: that of the page in front is in its widget.
InWidget ==
    IF Current \in LinearProjects
    THEN [item |-> Current, cursor |-> treeCursor, list |-> lView = "project_issues"]
    ELSE [item |-> Current, cursor |-> pickerCursor, list |-> FALSE]
Places ==
    [i \in 1 .. Len(visits) |->
        IF i = Len(visits) THEN InWidget
        ELSE [item |-> visits[i].item, cursor |-> visits[i].cursor, list |-> visits[i].showing]]

\* Each page has its own place: opening pages on top of it, of the same kind or of
\* the same item, and going back over several of them, leaves it where it was.
Stack == INSTANCE PageStack WITH Items <- LinearIssues \cup LinearProjects, stack <- Places

ImplementsPageStack == Stack!StackSpec
=============================================================================
