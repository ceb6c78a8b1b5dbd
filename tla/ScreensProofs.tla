---------------------------- MODULE ScreensProofs ----------------------------
(***************************************************************************)
(* What is on screen: Linear's pages and mark, GitHub's views, the calendar  *)
(* and its lanes, and the details that pages ask for.  Each part is proved   *)
(* by itself about its own variables, for every value of its constants.     *)
(***************************************************************************)
EXTENDS DetailCache, LinearPages, LinearMenu, GitHubScreens, Calendar, Lanes,
        FiniteSetTheorems, SequenceTheorems, WellFoundedInduction, TLAPS

-----------------------------------------------------------------------------
Shows == LinearIssues \cup LinearProjects
Visit == [item : Shows, cursor : Nat, showing : BOOLEAN]
Pickers == [is : {"none", "open from", "trail"}, targets : Seq(LinearIssues), at : Nat]

LinearPagesTypeOK ==
    /\ lView \in Lists \cup {"menu", "issue", "project", "project_issues"}
    /\ visits \in Seq(Visit)
    /\ root \in Lists
    /\ listCursor \in [Lists -> Nat]
    /\ treeCursor \in Nat /\ pickerCursor \in Nat
    /\ picker \in Pickers

\* Only a project has a list of issues that can be shown on its page.
OnlyProjectsShowIssues ==
    \A i \in DOMAIN visits : visits[i].item \in LinearIssues => ~visits[i].showing

\* A picker is on top of a page, with something to pick; the one of what an issue
\* links to is on top of an issue.
PickerIsOnAPage ==
    /\ picker.is = "none" => picker = NoPicker
    /\ picker.is = "open from" => lView = "issue" /\ picker.targets # <<>>
    /\ picker.is = "trail" => lView \in {"issue", "project"}

PagesInv ==
    LinearPagesTypeOK /\ ViewFollowsTrail /\ OnlyProjectsShowIssues /\ PickerIsOnAPage

-----------------------------------------------------------------------------
\* The cursors: step_cursor and clamp_cursor stay within a list that has rows.
LEMMA ClampIsInList ==
    ASSUME NEW c \in Nat, NEW count \in Nat, count # 0
    PROVE  Clamp(c, count) \in 0 .. count - 1
  BY DEF Clamp

\* A step of the cursor never goes below zero.
LEMMA StepIsInList ==
    ASSUME NEW c \in Nat, NEW count \in Nat, NEW offset \in {-1, 1}
    PROVE  Step(c, offset, count) \in Nat
<1>1. CASE count = 0
  BY <1>1 DEF Step
<1>2. CASE count # 0
  <2>1. Clamp(c, count) \in 0 .. count - 1
    BY <1>2, ClampIsInList
  <2>2. (Clamp(c, count) + offset) % count \in 0 .. count - 1
    BY <1>2, <2>1
  <2>. QED  BY <1>2, <2>2 DEF Step
<1>. QED  BY <1>1, <1>2

\* What is selected is one of the rows, wherever the cursor was.
LEMMA SelectedIsARow ==
    ASSUME NEW S, NEW rows \in Seq(S), rows # <<>>, NEW c \in Nat
    PROVE  Selected(rows, c) \in S
<1>1. Len(rows) \in Nat /\ Len(rows) # 0
  BY EmptySeq
<1>2. Clamp(c, Len(rows)) + 1 \in 1 .. Len(rows)
  <2>1. Clamp(c, Len(rows)) \in 0 .. Len(rows) - 1
    BY <1>1, ClampIsInList
  <2>. QED  BY <1>1, <2>1
<1>. QED  BY <1>2, ElementOfSeq DEF Selected

-----------------------------------------------------------------------------
\* The pages start with their invariant.
LEMMA PagesInit == LinearPagesInit => PagesInv
<1> SUFFICES ASSUME LinearPagesInit PROVE PagesInv
  OBVIOUS
<1>1. visits = <<>> /\ <<>> \in Seq(Visit) /\ <<>> \in Seq(LinearIssues) /\ DOMAIN visits = {}
  BY DEF LinearPagesInit
<1>2. picker \in Pickers /\ picker.is = "none"
  BY <1>1 DEF LinearPagesInit, NoPicker, Pickers
<1>3. LinearPagesTypeOK
  BY <1>1, <1>2 DEF LinearPagesInit, LinearPagesTypeOK, Lists
<1>4. ViewFollowsTrail /\ OnlyProjectsShowIssues /\ PickerIsOnAPage
  BY <1>1, <1>2 DEF LinearPagesInit, ViewFollowsTrail, OnlyProjectsShowIssues, PickerIsOnAPage
<1>. QED  BY <1>3, <1>4 DEF PagesInv

\* What is put on the visit of the page that is left is a visit of the same item.
LEMMA RememberedIsTyped ==
    ASSUME PagesInv, NEW chosen \in Nat
    PROVE  /\ Remembered(chosen) \in Seq(Visit) /\ Len(Remembered(chosen)) = Len(visits)
           /\ \A i \in 1 .. Len(visits) - 1 : Remembered(chosen)[i] = visits[i]
           /\ visits # <<>> => /\ Remembered(chosen)[Len(visits)] = PlaceOf(chosen)
                               /\ PlaceOf(chosen).item = Current
                               /\ PlaceOf(chosen).showing <=>
                                     Current \in LinearProjects /\ lView = "project_issues"
<1>1. CASE visits = <<>>
  <2>1. visits \in Seq(Visit) /\ Len(visits) = 0
    BY <1>1, EmptySeq DEF PagesInv, LinearPagesTypeOK
  <2>. QED  BY <1>1, <2>1 DEF Remembered
<1>2. CASE visits # <<>>
  <2>1. visits \in Seq(Visit) /\ Len(visits) \in Nat /\ Len(visits) \in 1 .. Len(visits)
    BY <1>2, EmptySeq DEF PagesInv, LinearPagesTypeOK
  <2>2. visits[Len(visits)] \in Visit
    BY <2>1, ElementOfSeq
  <2>3. PlaceOf(chosen) \in Visit
    <3>1. treeCursor \in Nat /\ (lView = "project_issues") \in BOOLEAN
      BY DEF PagesInv, LinearPagesTypeOK
    <3>. QED  BY <2>2, <3>1 DEF PlaceOf, Visit, Current
  <2>4. /\ Remembered(chosen) \in Seq(Visit) /\ Len(Remembered(chosen)) = Len(visits)
        /\ \A i \in 1 .. Len(visits) :
              Remembered(chosen)[i] = IF i = Len(visits) THEN PlaceOf(chosen) ELSE visits[i]
    BY <1>2, <2>1, <2>3, ExceptSeq DEF Remembered
  <2>5. /\ PlaceOf(chosen).item = Current
        /\ PlaceOf(chosen).showing <=> Current \in LinearProjects /\ lView = "project_issues"
    <3>1. CASE Current \in LinearProjects
      BY <3>1 DEF PlaceOf
    <3>2. CASE Current \notin LinearProjects
      BY <3>2 DEF PlaceOf
    <3>. QED  BY <3>1, <3>2
  <2>6. /\ \A i \in 1 .. Len(visits) - 1 : Remembered(chosen)[i] = visits[i]
        /\ Remembered(chosen)[Len(visits)] = PlaceOf(chosen)
    BY <2>1, <2>4
  <2>. QED  BY <1>2, <2>4, <2>5, <2>6
<1>. QED  BY <1>1, <1>2

-----------------------------------------------------------------------------
(* Pages are opened and left.                                               *)

\* A new visit on top of the one in front, which is an issue or a project with its
\* issues shown.
LEMMA PushKeepsTheTrail ==
    ASSUME PagesInv, NEW chosen \in Nat, NEW item \in Shows, NEW list \in Lists,
           Push(item, list, chosen),
           lView' = (IF item \in LinearProjects THEN "project" ELSE "issue"),
           visits = <<>> => list = (IF item \in LinearProjects THEN "projects" ELSE "issues"),
           visits # <<>> => item \in LinearIssues,
           visits # <<>> /\ Current \in LinearProjects => lView = "project_issues"
    PROVE  /\ visits' \in Seq(Visit) /\ root' \in Lists
           /\ Len(visits') = Len(visits) + 1
           /\ visits'[Len(visits) + 1] = NewVisit(item)
           /\ \A i \in 1 .. Len(visits) - 1 : visits'[i] = visits[i]
           /\ visits # <<>> => visits'[Len(visits)].item = Current
           /\ ViewFollowsTrail' /\ OnlyProjectsShowIssues'
<1> DEFINE rem == Remembered(chosen)  new == NewVisit(item)
<1>1. /\ rem \in Seq(Visit) /\ Len(rem) = Len(visits) /\ Len(visits) \in Nat
      /\ \A i \in 1 .. Len(visits) - 1 : rem[i] = visits[i]
      /\ visits # <<>> => /\ rem[Len(visits)].item = Current
                          /\ rem[Len(visits)].showing <=>
                                Current \in LinearProjects /\ lView = "project_issues"
  BY RememberedIsTyped, LenProperties DEF PagesInv, LinearPagesTypeOK
<1>2. new \in Visit /\ new.item = item /\ new.showing = FALSE
  BY DEF NewVisit, Visit
<1>3. visits' = Append(rem, new)
  BY DEF Push
<1> HIDE DEF rem, new
<1>4. /\ visits' \in Seq(Visit) /\ Len(visits') = Len(visits) + 1
      /\ visits' # <<>> /\ DOMAIN visits' = 1 .. Len(visits) + 1
      /\ \A i \in 1 .. Len(visits) : visits'[i] = rem[i]
      /\ visits'[Len(visits) + 1] = new
  BY <1>1, <1>2, <1>3, AppendProperties, LenProperties
<1>5. visits # <<>> => Len(visits) \in 1 .. Len(visits)
  BY EmptySeq DEF PagesInv, LinearPagesTypeOK
<1>6. visits = <<>> => Len(visits) = 0
  BY EmptySeq
<1>7. DOMAIN visits = 1 .. Len(visits)
  BY LenProperties DEF PagesInv, LinearPagesTypeOK
<1>8. root' \in Lists
  BY DEF Push, PagesInv, LinearPagesTypeOK
<1>9. /\ \A i \in 1 .. Len(visits) - 1 : visits'[i] = visits[i]
      /\ visits # <<>> => visits'[Len(visits)].item = Current
  BY <1>1, <1>4, <1>5
<1>10. Current' = item
  BY <1>2, <1>4 DEF Current
<1>11. \A i \in DOMAIN visits' :
          /\ i > 1 => visits'[i].item \in LinearIssues
          /\ visits'[i].item \in LinearProjects /\ i < Len(visits') => visits'[i].showing
          /\ visits'[i].item \in LinearIssues => ~visits'[i].showing
  <2> SUFFICES ASSUME NEW i \in 1 .. Len(visits) + 1
               PROVE  /\ i > 1 => visits'[i].item \in LinearIssues
                      /\ visits'[i].item \in LinearProjects /\ i < Len(visits') =>
                            visits'[i].showing
                      /\ visits'[i].item \in LinearIssues => ~visits'[i].showing
    BY <1>4
  <2>1. CASE i = Len(visits) + 1
    BY <1>1, <1>2, <1>4, <1>6, <2>1
  <2>2. CASE i = Len(visits)
    <3>1. visits # <<>>
      BY <1>6, <2>2
    <3>2. visits'[i].item = Current /\ (visits'[i].showing <=>
                                Current \in LinearProjects /\ lView = "project_issues")
      BY <1>1, <1>4, <2>2, <3>1
    <3>3. Current \in LinearProjects => lView = "project_issues" /\ Current \notin LinearIssues
      BY <3>1, LinearPagesAssumption
    <3>4. i > 1 => Current \in LinearIssues
      BY <1>7, <2>2 DEF PagesInv, ViewFollowsTrail, Current
    <3>. QED  BY <3>2, <3>3, <3>4
  <2>3. CASE i < Len(visits)
    BY <1>1, <1>7, <1>9, <2>3 DEF PagesInv, ViewFollowsTrail, OnlyProjectsShowIssues
  <2>. QED  BY <1>1, <2>1, <2>2, <2>3
<1>12. root' = IF visits'[1].item \in LinearProjects THEN "projects" ELSE "issues"
  <2>1. CASE visits = <<>>
    BY <1>2, <1>4, <1>6, <2>1 DEF Push
  <2>2. CASE visits # <<>>
    <3>1. root' = root
      BY <2>2 DEF Push
    <3>2. visits'[1].item = visits[1].item
      BY <1>1, <1>4, <1>5, <1>9, <2>2 DEF Current
    <3>. QED  BY <2>2, <3>1, <3>2 DEF PagesInv, ViewFollowsTrail
  <2>. QED  BY <2>1, <2>2
<1>13. lView' = "issue" <=> Current' \in LinearIssues
  BY <1>10, LinearPagesAssumption DEF Shows
<1>14. ViewFollowsTrail'
  BY <1>4, <1>11, <1>12, <1>13 DEF ViewFollowsTrail, Lists
<1>. QED  BY <1>4, <1>8, <1>9, <1>11, <1>14 DEF OnlyProjectsShowIssues, new

\* The first n visits are kept and the last of them is shown.
LEMMA LeaveKeepsTheTrail ==
    ASSUME PagesInv, NEW n \in 0 .. Len(visits) - 1, LeaveTo(n)
    PROVE  /\ visits' \in Seq(Visit) /\ Len(visits') = n /\ listCursor' = listCursor
           /\ \A i \in 1 .. n : visits'[i] = visits[i]
           /\ treeCursor' \in Nat /\ pickerCursor' \in Nat /\ root' \in Lists
           /\ lView' \in Lists \cup {"issue", "project", "project_issues"}
           /\ ViewFollowsTrail' /\ OnlyProjectsShowIssues'
<1>1. /\ visits \in Seq(Visit) /\ Len(visits) \in Nat /\ DOMAIN visits = 1 .. Len(visits)
      /\ \A i \in 1 .. Len(visits) : visits[i] \in Visit
      /\ n \in Nat /\ n <= Len(visits)
  BY LenProperties, ElementOfSeq DEF PagesInv, LinearPagesTypeOK
<1>2. /\ visits' \in Seq(Visit) /\ Len(visits') = n
      /\ \A i \in 1 .. n : visits'[i] = visits[i]
  BY <1>1, SubSeqProperties DEF LeaveTo
<1>3. DOMAIN visits' = 1 .. n /\ (visits' = <<>> <=> n = 0)
  BY <1>2, LenProperties, EmptySeq
<1>4. visits # <<>> /\ root \in Lists /\ root' = root /\ listCursor' = listCursor
  BY <1>1, EmptySeq DEF PagesInv, LinearPagesTypeOK, LeaveTo
<1>5. n # 0 => Current' = visits[n].item /\ visits[n] \in Visit /\ visits'[1] = visits[1]
  BY <1>1, <1>2 DEF Current
<1>6. /\ treeCursor' \in Nat /\ pickerCursor' \in Nat
      /\ n = 0 => lView' = root
      /\ n # 0 => lView' \in {"issue", "project", "project_issues"}
      /\ n # 0 => (lView' = "issue" <=> visits[n].item \in LinearIssues)
  <2>1. CASE n = 0
    BY <2>1 DEF LeaveTo, ShowTop, PagesInv, LinearPagesTypeOK
  <2>2. CASE n # 0
    BY <1>5, <2>2, LinearPagesAssumption
    DEF LeaveTo, ShowTop, PagesInv, LinearPagesTypeOK, Visit, Shows
  <2>. QED  BY <2>1, <2>2
<1>7. OnlyProjectsShowIssues'
  BY <1>1, <1>2, <1>3 DEF PagesInv, OnlyProjectsShowIssues
<1>8. ViewFollowsTrail'
  <2>1. \A i \in DOMAIN visits' :
          /\ i > 1 => visits'[i].item \in LinearIssues
          /\ visits'[i].item \in LinearProjects /\ i < Len(visits') => visits'[i].showing
    BY <1>1, <1>2, <1>3 DEF PagesInv, ViewFollowsTrail
  <2>2. visits' = <<>> <=> lView' \in Lists \cup {"menu"}
    BY <1>3, <1>4, <1>6 DEF Lists
  <2>3. visits' # <<>> => /\ lView' = "issue" <=> Current' \in LinearIssues
                          /\ root' =
                                IF visits'[1].item \in LinearProjects THEN "projects" ELSE "issues"
    BY <1>3, <1>4, <1>5, <1>6 DEF PagesInv, ViewFollowsTrail
  <2>. QED  BY <2>1, <2>2, <2>3 DEF ViewFollowsTrail
<1>. QED  BY <1>2, <1>4, <1>6, <1>7, <1>8, LinearPagesAssumption
          DEF PagesInv, LinearPagesTypeOK, Lists

\* A page of `item' opens, from a list of its kind or from another page.
Opens(item, list, chosen) ==
    /\ item \in Shows /\ list \in Lists /\ chosen \in Nat
    /\ Push(item, list, chosen)
    /\ lView' = IF item \in LinearProjects THEN "project" ELSE "issue"
    /\ IF item \in LinearProjects THEN treeCursor' = 0 /\ pickerCursor' = pickerCursor
       ELSE pickerCursor' = 0 /\ treeCursor' = treeCursor
    /\ picker' = NoPicker
    /\ visits = <<>> => list = IF item \in LinearProjects THEN "projects" ELSE "issues"
    /\ visits # <<>> => item \in LinearIssues
    /\ visits # <<>> /\ Current \in LinearProjects => lView = "project_issues"

\* The four ways to open a page are one.
LEMMA OpensAPage ==
    ASSUME PagesInv, OpenFromIssues \/ OpenFromProjects \/ OpenFromTree \/ PickTarget
    PROVE  \E item, list, chosen : Opens(item, list, chosen)
<1>1. /\ listCursor.issues \in Nat /\ listCursor.projects \in Nat
      /\ treeCursor \in Nat /\ pickerCursor \in Nat
      /\ picker.at \in Nat /\ picker.targets \in Seq(LinearIssues)
  BY DEF PagesInv, LinearPagesTypeOK, Pickers, Lists
<1>2. ASSUME NEW issue \in LinearIssues, NEW chosen \in Nat, OpenIssue(issue, chosen),
             picker' = NoPicker,
             visits # <<>> /\ Current \in LinearProjects => lView = "project_issues"
      PROVE  Opens(issue, "issues", chosen)
  BY <1>2, LinearPagesAssumption DEF OpenIssue, Opens, Shows, Lists
<1>3. CASE OpenFromIssues
  <2>1. PICK rows \in IssueLists \ {<<>>} :
          OpenIssue(Selected(rows, listCursor.issues), pickerCursor)
    BY <1>3 DEF OpenFromIssues
  <2>2. Selected(rows, listCursor.issues) \in LinearIssues
    BY <1>1, SelectedIsARow, LinearPagesAssumption
  <2>3. picker' = NoPicker /\ visits = <<>>
    BY <1>3 DEF OpenFromIssues, InFront, PagesInv, ViewFollowsTrail, Lists
  <2>. QED  BY <1>1, <1>2, <2>1, <2>2, <2>3
<1>4. CASE OpenFromProjects
  <2>1. PICK rows \in ProjectLists \ {<<>>} : OpenProject(Selected(rows, listCursor.projects))
    BY <1>4 DEF OpenFromProjects
  <2>2. Selected(rows, listCursor.projects) \in LinearProjects
    BY <1>1, SelectedIsARow, LinearPagesAssumption
  <2>3. picker' = NoPicker /\ visits = <<>>
    BY <1>4 DEF OpenFromProjects, InFront, PagesInv, ViewFollowsTrail, Lists
  <2>4. Opens(Selected(rows, listCursor.projects), "projects", pickerCursor)
    BY <1>1, <2>1, <2>2, <2>3 DEF OpenProject, Opens, Shows, Lists
  <2>. QED  BY <2>4
<1>5. CASE OpenFromTree
  <2>1. PICK rows \in TreeLists \ {<<>>} : OpenIssue(Selected(rows, treeCursor), pickerCursor)
    BY <1>5 DEF OpenFromTree
  <2>2. Selected(rows, treeCursor) \in LinearIssues
    BY <1>1, SelectedIsARow, LinearPagesAssumption
  <2>3. picker' = NoPicker /\ lView = "project_issues"
    BY <1>5 DEF OpenFromTree, InFront
  <2>. QED  BY <1>1, <1>2, <2>1, <2>2, <2>3
<1>6. CASE PickTarget
  <2>1. /\ OpenIssue(Selected(picker.targets, picker.at), picker.at)
        /\ picker' = NoPicker /\ lView = "issue" /\ picker.targets # <<>>
    BY <1>6 DEF PickTarget, PagesInv, PickerIsOnAPage
  <2>2. Selected(picker.targets, picker.at) \in LinearIssues
    BY <1>1, <2>1, SelectedIsARow
  <2>3. visits # <<>> => Current \in LinearIssues
    BY <2>1 DEF PagesInv, ViewFollowsTrail
  <2>. QED  BY <1>1, <1>2, <2>1, <2>2, <2>3, LinearPagesAssumption
<1>. QED  BY <1>3, <1>4, <1>5, <1>6

\* Going back and picking a visit both leave pages from the top.
LEMMA LeavesPages ==
    ASSUME PagesInv, Back \/ PickVisit
    PROVE  \E n \in 0 .. Len(visits) - 1 : LeaveTo(n) /\ picker' = NoPicker
<1>1. visits # <<>> /\ Len(visits) \in Nat \ {0} /\ picker.at \in Nat
  <2>1. visits # <<>>
    BY DEF Back, PickVisit, InFront, PagesInv, PickerIsOnAPage, ViewFollowsTrail, Lists
  <2>. QED  BY <2>1, EmptySeq DEF PagesInv, LinearPagesTypeOK, Pickers
<1>2. CASE Back
  BY <1>1, <1>2 DEF Back, InFront
<1>3. CASE PickVisit
  <2>1. Clamp(picker.at, Len(visits)) \in 0 .. Len(visits) - 1
    BY <1>1, ClampIsInList
  <2>2. Len(visits) - 1 - Clamp(picker.at, Len(visits)) \in 0 .. Len(visits) - 1
    BY <1>1, <2>1
  <2>. QED  BY <1>3, <2>2 DEF PickVisit
<1>. QED  BY <1>2, <1>3

\* No page is opened or left.
LEMMA SameVisits ==
    ASSUME PagesInv, UNCHANGED <<visits, root>>,
           lView' = lView \/ /\ {lView, lView'} \subseteq Lists \cup {"menu"}
                         \/ /\ {lView, lView'} \subseteq {"project", "project_issues"}
    PROVE  /\ visits' \in Seq(Visit) /\ root' \in Lists
           /\ lView' \in Lists \cup {"menu", "issue", "project", "project_issues"}
           /\ ViewFollowsTrail' /\ OnlyProjectsShowIssues'
  BY DEF PagesInv, LinearPagesTypeOK, ViewFollowsTrail, OnlyProjectsShowIssues, Current, Lists

\* Whatever step is taken, the type of the rest and the picker follow from the steps'
\* own lines.
LEMMA PagesStep == PagesInv /\ [LinearPagesNext]_pageVars => PagesInv'
<1> SUFFICES ASSUME PagesInv, [LinearPagesNext]_pageVars PROVE PagesInv'
  OBVIOUS
<1>1. /\ listCursor \in [Lists -> Nat] /\ treeCursor \in Nat /\ pickerCursor \in Nat
      /\ picker \in Pickers /\ picker.at \in Nat /\ picker.targets \in Seq(LinearIssues)
      /\ visits \in Seq(Visit) /\ Len(visits) \in Nat
  BY LenProperties DEF PagesInv, LinearPagesTypeOK, Pickers
<1>2. /\ NoPicker \in Pickers /\ NoPicker.is = "none"
  <2>1. <<>> \in Seq(LinearIssues)
    BY EmptySeq
  <2>. QED  BY <2>1 DEF NoPicker, Pickers
<1>3. CASE OpenList \/ BackToLinearMenu \/ OpenIssues \/ BackToProject
  <2>1. /\ UNCHANGED <<visits, root, listCursor, treeCursor, pickerCursor, picker>>
        /\ picker = NoPicker
        /\ \/ {lView, lView'} \subseteq Lists \cup {"menu"}
           \/ {lView, lView'} \subseteq {"project", "project_issues"}
    BY <1>3 DEF OpenList, BackToLinearMenu, OpenIssues, BackToProject, SwitchTo, InFront
  <2>2. PickerIsOnAPage'
    BY <1>2, <2>1 DEF PickerIsOnAPage
  <2>. QED  BY <1>1, <2>1, <2>2, SameVisits DEF PagesInv, LinearPagesTypeOK
<1>4. CASE \E offset \in {-1, 1} : MoveInList(offset)
  <2>1. PICK offset \in {-1, 1} : MoveInList(offset)
    BY <1>4
  <2>0. PICK list \in Lists : \E rows \in RowsOf(list) :
           /\ InFront(list)
           /\ listCursor' = [listCursor EXCEPT ![list] = Step(@, offset, Len(rows))]
           /\ UNCHANGED <<lView, visits, root, treeCursor, pickerCursor, picker>>
    BY <2>1 DEF MoveInList
  <2>2. PICK rows \in RowsOf(list) :
           /\ InFront(list)
           /\ listCursor' = [listCursor EXCEPT ![list] = Step(@, offset, Len(rows))]
           /\ UNCHANGED <<lView, visits, root, treeCursor, pickerCursor, picker>>
    BY <2>0
  <2>3. rows \in Seq(LinearIssues) \cup Seq(LinearProjects)
    BY LinearPagesAssumption DEF RowsOf
  <2>4. Len(rows) \in Nat
    BY <2>3, LenProperties
  <2>5. listCursor' \in [Lists -> Nat]
    BY <1>1, <2>2, <2>4, StepIsInList
  <2>6. PickerIsOnAPage'
    BY <2>2 DEF PagesInv, PickerIsOnAPage
  <2>. QED  BY <1>1, <2>2, <2>5, <2>6, SameVisits DEF PagesInv, LinearPagesTypeOK
<1>5. CASE \E offset \in {-1, 1} : MoveInTree(offset)
  <2>1. PICK offset \in {-1, 1}, rows \in TreeLists :
           /\ treeCursor' = Step(treeCursor, offset, Len(rows))
           /\ UNCHANGED <<lView, visits, root, listCursor, pickerCursor, picker>>
    BY <1>5 DEF MoveInTree
  <2>2. rows \in Seq(LinearIssues)
    BY LinearPagesAssumption
  <2>3. Len(rows) \in Nat
    BY <2>2, LenProperties
  <2>4. treeCursor' \in Nat
    BY <1>1, <2>1, <2>3, StepIsInList
  <2>5. PickerIsOnAPage'
    BY <2>1 DEF PagesInv, PickerIsOnAPage
  <2>. QED  BY <1>1, <2>1, <2>4, <2>5, SameVisits DEF PagesInv, LinearPagesTypeOK
<1>6. CASE \E offset \in {-1, 1} : MoveInPicker(offset)
  <2>1. PICK offset \in {-1, 1} : MoveInPicker(offset)
    BY <1>6
  <2>2. PickerCount \in Nat
    BY <1>1, LenProperties DEF PickerCount
  <2>3. Step(picker.at, offset, PickerCount) \in Nat
    BY <1>1, <2>2, StepIsInList
  <2>4. /\ UNCHANGED <<lView, visits, root, listCursor, treeCursor, pickerCursor>>
        /\ picker' \in Pickers /\ picker'.is = picker.is /\ picker'.targets = picker.targets
        /\ picker # NoPicker
    BY <1>1, <2>1, <2>3 DEF MoveInPicker, Pickers
  <2>5. PickerIsOnAPage'
    BY <2>4 DEF PagesInv, PickerIsOnAPage
  <2>. QED  BY <1>1, <2>4, <2>5, SameVisits DEF PagesInv, LinearPagesTypeOK
<1>7. CASE OpenFromHere \/ ShowTrail
  <2>1. /\ UNCHANGED <<lView, visits, root, listCursor, treeCursor, pickerCursor>>
        /\ picker' \in Pickers /\ PickerIsOnAPage'
    <3>1. CASE OpenFromHere
      <4>1. PICK targets \in TargetLists \ {<<>>} : Pick("open from", targets, pickerCursor)
        BY <3>1 DEF OpenFromHere
      <4>2. targets \in Seq(LinearIssues) /\ lView = "issue"
        BY <3>1, LinearPagesAssumption DEF OpenFromHere, InFront
      <4>. QED  BY <1>1, <4>1, <4>2 DEF Pick, Pickers, PickerIsOnAPage
    <3>2. CASE ShowTrail
      <4>1. <<>> \in Seq(LinearIssues)
        BY EmptySeq
      <4>. QED  BY <3>2, <4>1 DEF ShowTrail, InFront, Pick, Pickers, PickerIsOnAPage
    <3>. QED  BY <1>7, <3>1, <3>2
  <2>. QED  BY <1>1, <2>1, SameVisits DEF PagesInv, LinearPagesTypeOK
<1>8. CASE ClosePicker
  <2>1. /\ UNCHANGED <<lView, visits, root, listCursor, treeCursor>>
        /\ pickerCursor' \in Nat /\ picker' = NoPicker
    BY <1>1, <1>8 DEF ClosePicker
  <2>2. PickerIsOnAPage'
    BY <1>2, <2>1 DEF PickerIsOnAPage
  <2>. QED  BY <1>1, <1>2, <2>1, <2>2, SameVisits DEF PagesInv, LinearPagesTypeOK
<1>9. CASE OpenFromIssues \/ OpenFromProjects \/ OpenFromTree \/ PickTarget
  <2>1. PICK item, list, chosen : Opens(item, list, chosen)
    BY <1>9, OpensAPage
  <2>2. PickerIsOnAPage'
    BY <1>2, <2>1 DEF PickerIsOnAPage, Opens
  <2>3. /\ visits' \in Seq(Visit) /\ root' \in Lists
        /\ ViewFollowsTrail' /\ OnlyProjectsShowIssues'
    BY <2>1, PushKeepsTheTrail DEF Opens
  <2>4. lView' \in {"issue", "project"} /\ listCursor' = listCursor /\ picker' = NoPicker
        /\ treeCursor' \in Nat /\ pickerCursor' \in Nat
    BY <1>1, <2>1 DEF Opens, Push
  <2>. QED  BY <1>1, <1>2, <2>2, <2>3, <2>4 DEF PagesInv, LinearPagesTypeOK
<1>10. CASE Back \/ PickVisit
  <2>1. PICK n \in 0 .. Len(visits) - 1 : LeaveTo(n) /\ picker' = NoPicker
    BY <1>10, LeavesPages
  <2>2. PickerIsOnAPage'
    BY <1>2, <2>1 DEF PickerIsOnAPage
  <2>. QED  BY <1>1, <1>2, <2>1, <2>2, LeaveKeepsTheTrail DEF PagesInv, LinearPagesTypeOK
<1>11. CASE UNCHANGED pageVars
  BY <1>11 DEF pageVars, PagesInv, LinearPagesTypeOK, ViewFollowsTrail, OnlyProjectsShowIssues,
     PickerIsOnAPage, Current
<1>. QED  BY <1>3, <1>4, <1>5, <1>6, <1>7, <1>8, <1>9, <1>10, <1>11 DEF LinearPagesNext

-----------------------------------------------------------------------------
(* The stack of the places.                                                 *)

OnVisit(visit) == [item |-> visit.item, cursor |-> visit.cursor, list |-> visit.showing]

PlacesAreThePages ==
    /\ Places \in Seq(Stack!Page) /\ Len(Places) = Len(visits) /\ Len(visits) \in Nat
    /\ visits = <<>> <=> Len(visits) = 0
    /\ Places = <<>> <=> visits = <<>>
    /\ \A i \in 1 .. Len(visits) - 1 : Places[i] = OnVisit(visits[i])
    /\ visits # <<>> => Places[Len(visits)] = InWidget

\* The pages that are open and what they show go together.
LEMMA PlacesAreTyped == PagesInv => PlacesAreThePages
<1> SUFFICES ASSUME PagesInv PROVE PlacesAreThePages
  OBVIOUS
<1>1. /\ visits \in Seq(Visit) /\ Len(visits) \in Nat
      /\ \A i \in 1 .. Len(visits) : visits[i] \in Visit
      /\ visits = <<>> <=> Len(visits) = 0
  BY LenProperties, ElementOfSeq, EmptySeq DEF PagesInv, LinearPagesTypeOK
<1>2. visits # <<>> => InWidget \in Stack!Page
  <2> SUFFICES ASSUME visits # <<>> PROVE InWidget \in Stack!Page
    OBVIOUS
  <2>1. Current \in Shows
    BY <1>1 DEF Current, Visit
  <2>2. treeCursor \in Nat /\ pickerCursor \in Nat /\ (lView = "project_issues") \in BOOLEAN
    BY DEF PagesInv, LinearPagesTypeOK
  <2>3. CASE Current \in LinearProjects
    BY <2>1, <2>2, <2>3 DEF InWidget, Stack!Page, Shows
  <2>4. CASE Current \notin LinearProjects
    BY <2>1, <2>2, <2>4 DEF InWidget, Stack!Page, Shows
  <2>. QED  BY <2>3, <2>4
<1>3. \A i \in 1 .. Len(visits) : OnVisit(visits[i]) \in Stack!Page
  BY <1>1 DEF OnVisit, Stack!Page, Visit, Shows
<1>4. Places = [i \in 1 .. Len(visits) |-> IF i = Len(visits) THEN InWidget ELSE OnVisit(visits[i])]
  BY DEF Places, OnVisit
<1>5. Places \in [1 .. Len(visits) -> Stack!Page]
  BY <1>1, <1>2, <1>3, <1>4
<1>6. Places \in Seq(Stack!Page) /\ Len(Places) = Len(visits)
  BY <1>1, <1>5, IsASeq
<1>7. Places = <<>> <=> visits = <<>>
  BY <1>1, <1>6, EmptySeq
<1>8. \A i \in 1 .. Len(visits) - 1 : Places[i] = OnVisit(visits[i])
  <2> SUFFICES ASSUME NEW i \in 1 .. Len(visits) - 1 PROVE Places[i] = OnVisit(visits[i])
    OBVIOUS
  <2>1. i \in 1 .. Len(visits) /\ i # Len(visits)
    BY <1>1
  <2>. QED  BY <1>4, <2>1
<1>9. visits # <<>> => Places[Len(visits)] = InWidget
  <2> SUFFICES ASSUME visits # <<>> PROVE Places[Len(visits)] = InWidget
    OBVIOUS
  <2>1. Len(visits) \in 1 .. Len(visits)
    BY <1>1
  <2>. QED  BY <1>4, <2>1
<1>. QED  BY <1>1, <1>6, <1>7, <1>8, <1>9 DEF PlacesAreThePages

\* Opening a page enters it in the stack.
LEMMA OpensEnters ==
    ASSUME PagesInv, PagesInv', PlacesAreThePages, PlacesAreThePages',
           NEW item, NEW list, NEW chosen, Opens(item, list, chosen)
    PROVE  Stack!Enter
<1>1. /\ Len(visits') = Len(visits) + 1
      /\ visits'[Len(visits) + 1] = NewVisit(item)
      /\ \A i \in 1 .. Len(visits) - 1 : visits'[i] = visits[i]
      /\ visits # <<>> => visits'[Len(visits)].item = Current
      /\ item \in Shows /\ Len(visits) \in Nat
  BY PushKeepsTheTrail DEF Opens, PlacesAreThePages
<1>2. /\ Places' \in Seq(Stack!Page) /\ Len(Places') = Len(Places) + 1 /\ Len(Places) = Len(visits)
      /\ Places'[Len(visits) + 1] = InWidget'
      /\ Places = <<>> <=> Len(visits) = 0
  BY <1>1 DEF PlacesAreThePages
<1>3. Current' = item
  BY <1>1 DEF Current, NewVisit
<1>4. InWidget' = Stack!Fresh(item)
  <2>1. CASE item \in LinearProjects
    BY <1>3, <2>1 DEF InWidget, Opens, Stack!Fresh
  <2>2. CASE item \notin LinearProjects
    BY <1>3, <2>2 DEF InWidget, Opens, Stack!Fresh
  <2>. QED  BY <2>1, <2>2
<1>5. visits # <<>> => Places'[Len(visits)].item = Places[Len(visits)].item
  <2> SUFFICES ASSUME visits # <<>> PROVE Places'[Len(visits)].item = Places[Len(visits)].item
    OBVIOUS
  <2>1. Places'[Len(visits)].item = Current
    <3>1. Len(visits) # 0 /\ Len(visits) \in 1 .. Len(visits') - 1
      BY <1>1 DEF PlacesAreThePages
    <3>2. Places'[Len(visits)] = OnVisit(visits'[Len(visits)])
      BY <3>1 DEF PlacesAreThePages
    <3>. QED  BY <1>1, <3>2 DEF OnVisit
  <2>2. Places[Len(visits)].item = Current
    BY <1>1 DEF PlacesAreThePages, InWidget
  <2>. QED  BY <2>1, <2>2
<1>6. \A i \in 1 .. Len(visits) - 1 : Places'[i] = Places[i]
  BY <1>1 DEF PlacesAreThePages
<1>7. Places # <<>> => Places'[Len(Places)].item = Places[Len(Places)].item
  BY <1>1, <1>2, <1>5 DEF PlacesAreThePages
<1>. QED  BY <1>1, <1>2, <1>4, <1>6, <1>7 DEF Stack!Enter, Stack!Stay, Shows

\* Leaving pages leaves them in the stack.
LEMMA LeavesLeaves ==
    ASSUME PagesInv, PagesInv', PlacesAreThePages, PlacesAreThePages',
           NEW n \in 0 .. Len(visits) - 1, LeaveTo(n)
    PROVE  Stack!Leave
<1>1. Len(visits') = n /\ (\A i \in 1 .. n : visits'[i] = visits[i]) /\ Len(visits) \in Nat
  BY LeaveKeepsTheTrail DEF PlacesAreThePages
<1>2. Places' \in Seq(Stack!Page) /\ Len(Places') = n /\ n \in 0 .. Len(Places) - 1
  BY <1>1 DEF PlacesAreThePages
<1>3. \A i \in 1 .. n - 1 : Places'[i] = Places[i]
  BY <1>1 DEF PlacesAreThePages
<1>4. n # 0 => Places'[n] = Places[n]
  <2> SUFFICES ASSUME n # 0 PROVE Places'[n] = Places[n]
    OBVIOUS
  <2>1. Places[n] = OnVisit(visits[n]) /\ Places'[n] = InWidget' /\ Current' = visits[n].item
    BY <1>1 DEF PlacesAreThePages, Current
  <2>2. n \in DOMAIN visits /\ visits[n] \in Visit
    BY <1>1, ElementOfSeq, LenProperties DEF PagesInv, LinearPagesTypeOK
  <2>3. CASE visits[n].item \in LinearProjects
    <3>1. visits[n].showing = TRUE
      BY <1>1, <2>2, <2>3 DEF PagesInv, ViewFollowsTrail, Visit
    <3>2. treeCursor' = visits[n].cursor /\ lView' = "project_issues"
      BY <2>3, <3>1 DEF LeaveTo, ShowTop
    <3>. QED  BY <2>1, <2>3, <3>1, <3>2 DEF InWidget, OnVisit
  <2>4. CASE visits[n].item \notin LinearProjects
    <3>1. visits[n].showing = FALSE
      BY <2>2, <2>4 DEF PagesInv, OnlyProjectsShowIssues, Visit, Shows
    <3>2. pickerCursor' = visits[n].cursor
      BY <2>4 DEF LeaveTo, ShowTop
    <3>. QED  BY <2>1, <2>4, <3>1, <3>2 DEF InWidget, OnVisit
  <2>. QED  BY <2>3, <2>4
<1>5. \A i \in 1 .. n : Places'[i] = Places[i]
  BY <1>1, <1>3, <1>4
<1>. QED  BY <1>2, <1>5 DEF Stack!Leave, Stack!Stay

\* While the visits stay, only the place of the page in front may change.
LEMMA StaysReads ==
    ASSUME PagesInv, PagesInv', PlacesAreThePages, PlacesAreThePages', visits' = visits
    PROVE  [Stack!StackNext]_Places
<1>1. CASE visits = <<>>
  BY <1>1 DEF PlacesAreThePages
<1>2. CASE visits # <<>>
  <2>1. /\ Places # <<>> /\ Places' \in Seq(Stack!Page)
        /\ Len(Places') = Len(Places) /\ Len(Places) = Len(visits)
        /\ \A i \in 1 .. Len(visits) - 1 : Places'[i] = Places[i]
    BY <1>2 DEF PlacesAreThePages
  <2>2. Places'[Len(visits)].item = Current' /\ Places[Len(visits)].item = Current
    BY <1>2 DEF PlacesAreThePages, InWidget
  <2>3. Current' = Current
    BY DEF Current
  <2>. QED  BY <2>1, <2>2, <2>3 DEF Stack!StackNext, Stack!Read, Stack!Stay
<1>. QED  BY <1>1, <1>2

-----------------------------------------------------------------------------
\* The trail and the views agree in every state: the page in front is that of the last
\* visit (ViewFollowsTrail), and every variable has its type.
THEOREM TrailIsFollowed == LinearPagesSpec => []PagesInv
  BY PagesInit, PagesStep, PTL DEF LinearPagesSpec

\* The pages of the Linear tab implement the stack of PageStack: whatever is opened on
\* top of a page, and however many pages are left at once, a page that is returned
\* to is as it was left (ImplementsPageStack).
THEOREM PagesImplementTheStack == LinearPagesSpec => ImplementsPageStack
<1>1. LinearPagesInit => Stack!StackInit
  <2> SUFFICES ASSUME LinearPagesInit PROVE Places = <<>>
    BY DEF Stack!StackInit
  <2>1. PlacesAreThePages /\ visits = <<>>
    BY PagesInit, PlacesAreTyped DEF LinearPagesInit
  <2>. QED  BY <2>1 DEF PlacesAreThePages
<1>2. PagesInv => PlacesAreThePages
  BY PlacesAreTyped
<1>3. PagesInv /\ PagesInv' /\ PlacesAreThePages /\ PlacesAreThePages'
        /\ [LinearPagesNext]_pageVars => [Stack!StackNext]_Places
  <2> SUFFICES ASSUME PagesInv, PagesInv', PlacesAreThePages, PlacesAreThePages',
                      [LinearPagesNext]_pageVars
               PROVE  [Stack!StackNext]_Places
    OBVIOUS
  <2>1. CASE OpenFromIssues \/ OpenFromProjects \/ OpenFromTree \/ PickTarget
    <3>1. PICK item, list, chosen : Opens(item, list, chosen)
      BY <2>1, OpensAPage
    <3>. QED  BY <3>1, OpensEnters DEF Stack!StackNext
  <2>2. CASE Back \/ PickVisit
    <3>1. PICK n \in 0 .. Len(visits) - 1 : LeaveTo(n)
      BY <2>2, LeavesPages
    <3>. QED  BY <3>1, LeavesLeaves DEF Stack!StackNext
  <2>3. CASE ~(OpenFromIssues \/ OpenFromProjects \/ OpenFromTree \/ PickTarget
            \/ Back \/ PickVisit)
    <3>1. visits' = visits
      BY <2>3 DEF LinearPagesNext, OpenList, BackToLinearMenu, OpenIssues, BackToProject, SwitchTo,
         OpenFromHere, ShowTrail, Pick, ClosePicker, MoveInList, MoveInTree, MoveInPicker, pageVars
    <3>. QED  BY <3>1, StaysReads
  <2>. QED  BY <2>1, <2>2, <2>3
<1>. QED  BY <1>1, <1>2, <1>3, TrailIsFollowed, PTL
          DEF LinearPagesSpec, ImplementsPageStack, Stack!StackSpec

-----------------------------------------------------------------------------
Counts == {1, 3, 5, 7}

\* A load has a number of events for every day.
LoadsAssumption == \A l \in Loads, d \in Int : l[d] \in Nat

CalTypeOK ==
    /\ today \in Int /\ covered \in Int /\ setOn \in Int
    /\ focused \in Int \cup {Unset}
    /\ load \in Loads \cup {Unset}
    /\ calCursor \in [Views -> Nat]
    /\ calView \in Views

\* The day focused lies in the window it was focused in.
FocusWasInWindow ==
    /\ focused # Unset => setOn <= focused /\ focused <= setOn + 13
    /\ paint = "raised" => focused # Unset /\ setOn # FirstDay(today)

CalInv == CalTypeOK /\ FocusWasInWindow

-----------------------------------------------------------------------------
\* The screen always has a number of columns the model knows.
LEMMA CountsOfColumns ==
    ASSUME NEW width \in Nat
    PROVE  ColumnCount(width) \in Counts
  BY DEF ColumnCount, Counts

\* The week of a day starts on a Monday, at most six days before it.
LEMMA MondayOfDay ==
    ASSUME NEW d \in Int
    PROVE  /\ FirstDay(d) \in Int /\ FirstDay(d) <= d /\ d <= FirstDay(d) + 6
           /\ FirstDay(d) % 7 = 0 /\ LastDay(d) = FirstDay(d) + 13
  BY DEF FirstDay, Monday, LastDay

\* The days the week view shows are consecutive days of the window, and the
\* focused day is one of them when it is in the window: visible_days.
LEMMA FocusIsShown ==
    ASSUME NEW day \in Int, NEW d \in Int, NEW count \in Counts
    PROVE  /\ Shown(day, d, count) \subseteq FirstDay(d) .. LastDay(d)
           /\ InWindow(day, d) => day \in Shown(day, d, count)
<1> DEFINE w == FirstDay(d)
<1>1. w \in Int /\ LastDay(d) = w + 13 /\ w % 7 = 0
  BY MondayOfDay
<1>2. Monday(day) \in Int /\ Monday(day) <= day /\ day <= Monday(day) + 6
      /\ day % 7 = day - Monday(day)
  BY DEF Monday
<1> DEFINE u == Unslid(day, count)
<1>3. u \in Int /\ u <= day /\ day <= u + count - 1
  BY <1>2 DEF Unslid, Counts
<1> HIDE DEF w, u
<1>4. Leftmost(day, d, count) =
        LET start == IF u < w THEN w ELSE u
        IN IF start + count - 1 > w + 13 THEN w + 13 - (count - 1) ELSE start
  BY <1>1, <1>3 DEF Leftmost, w, u, Counts
<1>5. /\ Leftmost(day, d, count) \in Int
      /\ w <= Leftmost(day, d, count)
      /\ Leftmost(day, d, count) + count - 1 <= w + 13
      /\ (w <= day /\ day <= w + 13) =>
            Leftmost(day, d, count) <= day /\ day <= Leftmost(day, d, count) + count - 1
  BY <1>1, <1>3, <1>4 DEF Counts
<1>. QED  BY <1>1, <1>5 DEF Shown, InWindow, w, Counts

\* A workweek that starts on a Monday shows or counts every day of its week.
LEMMA WorkweekCountsItsWeekend ==
    ASSUME NEW day \in Int, NEW d \in Int, Leftmost(day, d, 5) % 7 = 0
    PROVE  Shown(day, d, 5) \cup HiddenWeekend(day, d, 5)
             = Leftmost(day, d, 5) .. Leftmost(day, d, 5) + 6
<1>1. Leftmost(day, d, 5) \in Int
  BY DEF Leftmost, Unslid, FirstDay, LastDay, Monday
<1>. QED  BY <1>1 DEF Shown, HiddenWeekend

\* A step of the cursor lands on the neighbour of the row that was shown.
LEMMA StepIsToNeighbour ==
    ASSUME NEW cursor \in Nat, NEW count \in Nat, count # 0, NEW offset \in {-1, 1}
    PROVE  /\ Step(cursor, offset, count) \in Nat
           /\ IsNeighbour(Clamp(cursor, count), Step(cursor, offset, count), offset, count)
<1>1. Clamp(cursor, count) \in 0 .. count - 1
  BY DEF Clamp
<1>2. ASSUME NEW row \in 0 .. count - 1
      PROVE  /\ (row + offset) % count \in 0 .. count - 1
             /\ (row + offset) % count
                  = IF row + offset = count THEN 0
                    ELSE IF row + offset = -1 THEN count - 1 ELSE row + offset
  OBVIOUS
<1>. QED  BY <1>1, <1>2 DEF Step, IsNeighbour

\* A day has a number of timed events.
LEMMA TimedIsNat ==
    ASSUME LoadsAssumption, CalTypeOK, NEW day \in Int
    PROVE  Timed(day) \in Nat
  BY CalendarAssumption DEF LoadsAssumption, CalTypeOK, Timed

\* The focused column is a day.
LEMMA FocusedIsDay == ASSUME CalTypeOK PROVE Focused \in Int
  BY DEF CalTypeOK, Focused

\* Selecting an item leaves a selection in every view.
LEMMA SelectionIsTyped ==
    ASSUME LoadsAssumption, CalInv, NEW v \in Views, SelectsItem(v)
    PROVE  calCursor' \in [Views -> Nat]
<1>1. Timed(Focused) \in Nat
  BY TimedIsNat, FocusedIsDay DEF CalInv
<1>2. Synced(v) \subseteq Nat
  BY <1>1 DEF Synced, CalInv, CalTypeOK
<1>. QED  BY <1>2 DEF SelectsItem, CalInv, CalTypeOK

-----------------------------------------------------------------------------
\* The calendar starts with its invariant.
LEMMA CalInit == CalendarInit => CalInv
  BY CalendarAssumption, MondayOfDay
  DEF CalendarInit, CalInv, CalTypeOK, FocusWasInWindow, Views

\* Painting keeps the invariant: it clamps what it shows, never below zero.
LEMMA CalPaint ==
    ASSUME LoadsAssumption, CalInv, Paint
    PROVE  CalInv'
<1>1. calCursor' \in [Views -> Nat]
  BY SelectionIsTyped DEF Paint, Unsynced, CalInv, CalTypeOK
<1>2. paint' = "raised" => focused # Unset /\ setOn # FirstDay(today)
  <2> SUFFICES ASSUME paint' = "raised" PROVE focused # Unset /\ setOn # FirstDay(today)
    OBVIOUS
  <2>1. PICK width \in Widths : Focused \notin Shown(Focused, today, ColumnCount(width))
    BY DEF Paint
  <2>2. ColumnCount(width) \in Counts
    BY CountsOfColumns, CalendarAssumption
  <2>3. today \in Int /\ Focused \in Int /\ setOn \in Int
    BY FocusedIsDay DEF CalInv, CalTypeOK
  <2>4. ~InWindow(Focused, today)
    BY <2>1, <2>2, <2>3, FocusIsShown
  <2>5. focused # Unset
    BY <2>3, <2>4, MondayOfDay DEF Focused, InWindow
  <2>6. setOn # FirstDay(today)
    BY <2>3, <2>4, <2>5, MondayOfDay DEF CalInv, FocusWasInWindow, Focused, InWindow
  <2>. QED  BY <2>5, <2>6
<1>. QED  BY <1>1, <1>2 DEF Paint, CalInv, CalTypeOK, FocusWasInWindow

\* A key that focuses a day keeps the invariant.
LEMMA CalFocus ==
    ASSUME CalInv, NEW target \in Int, FocusKey(target)
    PROVE  CalInv'
<1>1. /\ FirstDay(today) \in Int /\ LastDay(today) = FirstDay(today) + 13
      /\ today \in Int
  BY MondayOfDay DEF CalInv, CalTypeOK
<1>2. /\ focused' \in Int /\ FirstDay(today) <= focused' /\ focused' <= FirstDay(today) + 13
      /\ setOn' = FirstDay(today) /\ paint' = "due"
  BY <1>1 DEF FocusKey, SetFocused
<1>. QED  BY <1>1, <1>2
          DEF FocusKey, Unsynced, CalInv, CalTypeOK, FocusWasInWindow

\* Every step of the calendar keeps the invariant.
LEMMA CalStep ==
    ASSUME LoadsAssumption, CalInv, [CalendarNext]_calVars
    PROVE  CalInv'
<1>0. Focused \in Int /\ Timed(Focused) \in Nat /\ FirstDay(today) \in Int /\ today \in Int
  BY FocusedIsDay, TimedIsNat, MondayOfDay DEF CalInv, CalTypeOK
<1>1. CASE Paint
  BY <1>1, CalPaint
<1>2. CASE Pulse \/ OpenSelected
  <2>1. calCursor' \in [Views -> Nat]
    BY <1>2, SelectionIsTyped DEF Pulse, OpenSelected, DayViews, Views
  <2>2. paint' = "raised" => paint = "raised"
    BY <1>2 DEF Pulse, OpenSelected
  <2>. QED  BY <1>2, <2>1, <2>2 DEF Pulse, OpenSelected, CalInv, CalTypeOK, FocusWasInWindow
<1>3. CASE Tick \/ LoadFails \/ BackToMenu \/ OpenDestination
  BY <1>3 DEF Tick, LoadFails, BackToMenu, OpenDestination, Unsynced, CalInv, CalTypeOK,
              FocusWasInWindow, DayViews, Views
<1>4. CASE Midnight
  BY <1>4, CalendarAssumption DEF Midnight, Up, Unsynced, CalInv, CalTypeOK, FocusWasInWindow
<1>5. CASE Land
  <2>1. covered' \in Int /\ today' \in Int
    BY <1>0, <1>5, CalendarAssumption, MondayOfDay DEF Land
  <2>. QED  BY <1>5, <2>1 DEF Land, Unsynced, CalInv, CalTypeOK, FocusWasInWindow
<1>6. ASSUME NEW offset \in {-1, 1}, MenuKey(offset) \/ Move(offset)
      PROVE  CalInv'
  <2>1. CASE MenuKey(offset)
    <3>1. calCursor["menu"] \in Nat /\ Len(Destinations) = 4
      BY DEF CalInv, CalTypeOK, Views, Destinations
    <3>2. Step(calCursor["menu"], offset, Len(Destinations)) \in Nat
      BY <3>1, StepIsToNeighbour
    <3>. QED  BY <2>1, <3>2 DEF MenuKey, CalInv, CalTypeOK, FocusWasInWindow
  <2>2. CASE Move(offset)
    <3>1. calCursor[calView] \in Nat /\ Timed(Focused) # 0
      BY <2>2 DEF Move, CalInv, CalTypeOK
    <3>2. Step(calCursor[calView], offset, Timed(Focused)) \in Nat
      BY <1>0, <3>1, StepIsToNeighbour
    <3>. QED  BY <2>2, <3>2 DEF Move, CalInv, CalTypeOK, FocusWasInWindow
  <2>. QED  BY <1>6, <2>1, <2>2
<1>7. CASE ChangeDay \/ ChangeWeek \/ Today
  <2>1. PICK target \in Int : FocusKey(target)
    BY <1>0, <1>7 DEF ChangeDay, ChangeWeek, Today
  <2>. QED  BY <2>1, CalFocus
<1>8. CASE Restart
  BY <1>0, <1>8, CalendarAssumption DEF Restart, CalInv, CalTypeOK, FocusWasInWindow, Views
<1>9. CASE UNCHANGED calVars
  BY <1>9 DEF calVars, CalInv, CalTypeOK, FocusWasInWindow, FirstDay, Monday
<1>. QED  BY <1>1, <1>2, <1>3, <1>4, <1>5, <1>6, <1>7, <1>8, <1>9 DEF CalendarNext

-----------------------------------------------------------------------------
\* The invariant of the calendar, for loads that count their events.
THEOREM CalInvariance == LoadsAssumption /\ CalendarSpec => []CalInv
<1>1. LoadsAssumption /\ CalInv /\ [CalendarNext]_calVars => CalInv'
  BY CalStep
<1>2. SUFFICES ASSUME LoadsAssumption PROVE CalendarSpec => []CalInv
  OBVIOUS
<1>3. CalInv /\ [CalendarNext]_calVars => CalInv'
  BY <1>1, <1>2
<1>. QED  BY <1>3, CalInit, PTL DEF CalendarSpec

\* At every width and after any keys the week view finds the focused day among the
\* days it shows, unless the week changed after the day was focused
\* (WeekIsLostOnlyWithItsWeek).
THEOREM WeekFindsItsFocus == LoadsAssumption /\ CalendarSpec => []WeekIsLostOnlyWithItsWeek
<1>1. CalInv => WeekIsLostOnlyWithItsWeek
  BY DEF CalInv, FocusWasInWindow, WeekIsLostOnlyWithItsWeek
<1>. QED  BY <1>1, CalInvariance, PTL

\* An arrow goes to the neighbour of the event that was highlighted, whatever the
\* list became since the cursor was placed (ArrowsStepFromTheSelection).
THEOREM ArrowsStep == LoadsAssumption /\ CalendarSpec => ArrowsStepFromTheSelection
<1>1. ASSUME LoadsAssumption, CalInv, NEW offset \in {-1, 1}, Move(offset)
      PROVE  IsNeighbour(Clamp(calCursor[calView], Timed(Focused)),
                         calCursor'[calView], offset, Timed(Focused))
  <2>1. /\ calCursor[calView] \in Nat /\ calCursor \in [Views -> Nat] /\ calView \in Views
        /\ Timed(Focused) \in Nat /\ Timed(Focused) # 0
    BY <1>1, FocusedIsDay, TimedIsNat DEF Move, CalInv, CalTypeOK
  <2>2. calCursor'[calView] = Step(calCursor[calView], offset, Timed(Focused))
    BY <1>1, <2>1 DEF Move
  <2>. QED  BY <2>1, <2>2, StepIsToNeighbour
<1>2. SUFFICES ASSUME LoadsAssumption PROVE CalendarSpec => ArrowsStepFromTheSelection
  OBVIOUS
<1>3. CalInv /\ [CalendarNext]_calVars =>
        [\A offset \in {-1, 1} :
          Move(offset) /\ cursorDay[calView] = Focused =>
             IsNeighbour(Clamp(calCursor[calView], Timed(Focused)),
                         calCursor'[calView], offset, Timed(Focused))]_calVars
  BY <1>1, <1>2
<1>4. CalendarSpec => []CalInv
  BY <1>2, CalInvariance
<1>. QED  BY <1>3, <1>4, PTL DEF CalendarSpec, ArrowsStepFromTheSelection

-----------------------------------------------------------------------------
Spans == [first : Int, last : Int, lane : Nat]

LanesTypeOK ==
    /\ opened \in Nat
    /\ laneEnds \in [Opened -> Int]
    /\ spans \in Seq(Spans)
    /\ from \in Int

\* Every event lies in an opened lane, before the end of that lane.
LanesReachTheirSpans ==
    \A i \in DOMAIN spans :
        /\ spans[i].lane \in Opened
        /\ spans[i].first < spans[i].last
        /\ spans[i].first <= FirstSlot(from)
        /\ spans[i].last <= laneEnds[spans[i].lane]

\* The end of every lane is the end of an event in it, so that a lane that is not
\* free at a slot has an event there.
LanesEndWithASpan ==
    \A lane \in Opened : \E i \in DOMAIN spans :
        spans[i].lane = lane /\ spans[i].last = laneEnds[lane]

LanesInv == LanesTypeOK /\ LanesReachTheirSpans /\ LanesEndWithASpan
       /\ ChipsAreApart /\ LanesAreNeeded

-----------------------------------------------------------------------------
\* A span has a slot, and starts no earlier than the one before it.
LEMMA SpanHasASlot ==
    ASSUME NEW start \in Int, NEW stop \in Int, NEW lane \in Nat, start < Slots
    PROVE  /\ Span(start, stop, lane) \in Spans
           /\ Span(start, stop, lane).first = FirstSlot(start)
           /\ Span(start, stop, lane).last = LastSlot(start, stop)
           /\ Span(start, stop, lane).lane = lane
           /\ FirstSlot(start) < LastSlot(start, stop)
  BY LanesAssumption DEF Span, Spans, FirstSlot, LastSlot

\* Of two starts, the earlier one is not in a later slot.
LEMMA StartsAreOrdered ==
    ASSUME NEW a \in Int, NEW b \in Int, a <= b
    PROVE  FirstSlot(a) \in Int /\ FirstSlot(b) \in Int /\ FirstSlot(a) <= FirstSlot(b)
  BY DEF FirstSlot

\* Both ways to take a lane add one span, whose lane was not open or free, and
\* below which no lane is free.
LEMMA PlaceAddsASpan ==
    ASSUME LanesInv, NEW start \in Int, NEW stop \in Int, Place(start, stop)
    PROVE  \E lane \in 0 .. opened :
              /\ spans' = Append(spans, Span(start, stop, lane))
              /\ lane # opened => Free(lane, start)
              /\ \A other \in 0 .. lane - 1 : ~Free(other, start)
              /\ opened' = IF lane = opened THEN opened + 1 ELSE opened
              /\ laneEnds' = [l \in 0 .. opened' - 1 |->
                                 IF l = lane THEN LastSlot(start, stop) ELSE laneEnds[l]]
<1>0. opened \in Nat /\ laneEnds \in [0 .. opened - 1 -> Int]
  BY DEF LanesInv, LanesTypeOK, Opened
<1>1. CASE Reuse(start, stop)
  <2>1. PICK lane \in Opened :
            /\ Free(lane, start)
            /\ \A other \in 0 .. lane - 1 : ~Free(other, start)
            /\ laneEnds' = [laneEnds EXCEPT ![lane] = LastSlot(start, stop)]
            /\ spans' = Append(spans, Span(start, stop, lane))
            /\ UNCHANGED opened
    BY <1>1 DEF Reuse
  <2>2. lane \in 0 .. opened /\ lane # opened
    BY <1>0 DEF Opened
  <2>3. laneEnds' = [l \in 0 .. opened' - 1 |->
                        IF l = lane THEN LastSlot(start, stop) ELSE laneEnds[l]]
    BY <1>0, <2>1
  <2>. QED  BY <2>1, <2>2, <2>3
<1>2. CASE OpenLane(start, stop)
  <2>1. /\ \A other \in 0 .. opened - 1 : ~Free(other, start)
        /\ opened' = opened + 1
        /\ laneEnds' = [l \in 0 .. opened |->
                           IF l = opened THEN LastSlot(start, stop) ELSE laneEnds[l]]
        /\ spans' = Append(spans, Span(start, stop, opened))
    BY <1>2 DEF OpenLane, Opened
  <2>2. opened' - 1 = opened
    BY <1>0, <2>1
  <2>. QED  BY <1>0, <2>1, <2>2
<1>. QED  BY <1>1, <1>2 DEF Place

\* The layout starts with its invariant.
LEMMA LanesInitInv == LanesInit => LanesInv
  BY LanesAssumption
  DEF LanesInit, LanesInv, LanesTypeOK, Opened, LanesReachTheirSpans, LanesEndWithASpan,
      ChipsAreApart, LanesAreNeeded, Spans

\* Placing an event keeps the invariant, in a lane that was free or in a new one.
LEMMA PlaceInv ==
    ASSUME LanesInv, NEW start \in Int, NEW stop \in Int, Place(start, stop)
    PROVE  LanesInv'
<1>1. PICK lane \in 0 .. opened :
          /\ spans' = Append(spans, Span(start, stop, lane))
          /\ lane # opened => Free(lane, start)
          /\ \A other \in 0 .. lane - 1 : ~Free(other, start)
          /\ opened' = IF lane = opened THEN opened + 1 ELSE opened
          /\ laneEnds' = [l \in 0 .. opened' - 1 |->
                             IF l = lane THEN LastSlot(start, stop) ELSE laneEnds[l]]
  BY PlaceAddsASpan
<1> DEFINE new == Span(start, stop, lane)
           k == Len(spans) + 1
<1>2. /\ opened \in Nat /\ opened' \in Nat
      /\ laneEnds \in [0 .. opened - 1 -> Int]
      /\ spans \in Seq(Spans) /\ from \in Int
  BY <1>1 DEF LanesInv, LanesTypeOK, Opened
<1>3. /\ new \in Spans
      /\ new.first = FirstSlot(start) /\ new.last = LastSlot(start, stop) /\ new.lane = lane
      /\ new.first < new.last
      /\ FirstSlot(from) <= FirstSlot(start) /\ from' = start
      /\ FirstSlot(from) \in Int /\ FirstSlot(start) \in Int /\ LastSlot(start, stop) \in Int
  <2>1. start < Slots /\ from <= start /\ from' = start
    BY DEF Place
  <2>2. FirstSlot(from) \in Int /\ FirstSlot(start) \in Int /\ FirstSlot(from) <= FirstSlot(start)
    BY <1>2, <2>1, StartsAreOrdered
  <2>3. lane \in Nat
    BY <1>2
  <2>4. new \in Spans /\ new.first = FirstSlot(start) /\ new.last = LastSlot(start, stop)
        /\ new.lane = lane /\ new.first < new.last
    BY <2>1, <2>3, SpanHasASlot
  <2>5. LastSlot(start, stop) \in Int
    BY LanesAssumption DEF LastSlot, FirstSlot
  <2>. QED  BY <2>1, <2>2, <2>4, <2>5
<1>4. /\ DOMAIN spans = 1 .. k - 1 /\ k \in Nat \ {0}
      /\ DOMAIN spans' = 1 .. k
      /\ spans'[k] = new
      /\ \A i \in DOMAIN spans : i \in 1 .. k - 1 /\ spans'[i] = spans[i] /\ spans[i] \in Spans
  BY <1>1, <1>2, <1>3
<1> HIDE DEF new, k
<1>5. LanesTypeOK'
  BY <1>1, <1>2, <1>3, <1>4 DEF LanesTypeOK, Opened, new
<1>6. LanesReachTheirSpans'
  <2> SUFFICES ASSUME NEW i \in 1 .. k
               PROVE  /\ spans'[i].lane \in 0 .. opened' - 1
                      /\ spans'[i].first < spans'[i].last
                      /\ spans'[i].first <= FirstSlot(start)
                      /\ spans'[i].last <= laneEnds'[spans'[i].lane]
    BY <1>3, <1>4 DEF LanesReachTheirSpans, Opened, FirstSlot
  <2>1. CASE i = k
    BY <1>1, <1>2, <1>3, <1>4, <2>1
  <2>2. CASE i # k
    <3>1. i \in DOMAIN spans /\ spans'[i] = spans[i] /\ spans[i] \in Spans
      BY <1>4, <2>2
    <3>2. /\ spans[i].lane \in 0 .. opened - 1
          /\ spans[i].first < spans[i].last
          /\ spans[i].first <= FirstSlot(from)
          /\ spans[i].last <= laneEnds[spans[i].lane]
      BY <3>1 DEF LanesInv, LanesReachTheirSpans, Opened
    <3>3. spans[i].first \in Int /\ spans[i].last \in Int /\ spans[i].lane \in 0 .. opened' - 1
      BY <1>1, <1>2, <3>1, <3>2 DEF Spans
    <3>4. CASE spans[i].lane = lane
      <4>1. Free(lane, start)
        BY <1>1, <1>2, <3>2, <3>4
      <4>2. laneEnds[lane] <= FirstSlot(start) /\ laneEnds[lane] \in Int
        BY <1>2, <3>2, <3>4, <4>1 DEF Free
      <4>. QED  BY <1>1, <1>3, <3>1, <3>2, <3>3, <3>4, <4>2
    <3>5. CASE spans[i].lane # lane
      BY <1>1, <1>3, <3>1, <3>2, <3>3, <3>5
    <3>. QED  BY <3>4, <3>5
  <2>. QED  BY <2>1, <2>2
<1>7. LanesEndWithASpan'
  <2> SUFFICES ASSUME NEW l \in 0 .. opened' - 1
               PROVE  \E i \in 1 .. k : spans'[i].lane = l /\ spans'[i].last = laneEnds'[l]
    BY <1>4 DEF LanesEndWithASpan, Opened
  <2>1. CASE l = lane
    BY <1>1, <1>3, <1>4, <2>1
  <2>2. CASE l # lane
    <3>1. l \in 0 .. opened - 1
      BY <1>1, <1>2, <2>2
    <3>2. PICK i \in DOMAIN spans : spans[i].lane = l /\ spans[i].last = laneEnds[l]
      BY <3>1 DEF LanesInv, LanesEndWithASpan, Opened
    <3>. QED  BY <1>1, <1>4, <2>2, <3>2
  <2>. QED  BY <2>1, <2>2
<1>8. ChipsAreApart'
  <2> SUFFICES ASSUME NEW i \in 1 .. k, NEW j \in 1 .. k, i # j,
                      spans'[i].first < spans'[j].last, spans'[j].first < spans'[i].last
               PROVE  spans'[i].lane # spans'[j].lane
    BY <1>4 DEF ChipsAreApart, Overlap
  \* A span laid out before that reaches past the new one's start is in another lane.
  <2>1. ASSUME NEW m \in DOMAIN spans, FirstSlot(start) < spans[m].last
        PROVE  spans[m].lane # lane
    <3>1. /\ spans[m].lane \in 0 .. opened - 1 /\ spans[m].last <= laneEnds[spans[m].lane]
          /\ spans[m].last \in Int
      BY <1>4 DEF LanesInv, LanesReachTheirSpans, Opened, Spans
    <3>2. SUFFICES ASSUME spans[m].lane = lane PROVE FALSE
      OBVIOUS
    <3>3. laneEnds[lane] <= FirstSlot(start) /\ laneEnds[lane] \in Int
      BY <1>1, <1>2, <3>1, <3>2 DEF Free
    <3>. QED  BY <1>3, <2>1, <3>1, <3>2, <3>3
  <2>2. CASE i = k
    <3>1. j \in DOMAIN spans /\ spans'[j] = spans[j]
      BY <1>4, <2>2
    <3>. QED  BY <1>3, <1>4, <2>1, <2>2, <3>1
  <2>3. CASE j = k
    <3>1. i \in DOMAIN spans /\ spans'[i] = spans[i]
      BY <1>4, <2>3
    <3>. QED  BY <1>3, <1>4, <2>1, <2>3, <3>1
  <2>4. CASE i # k /\ j # k
    <3>1. i \in DOMAIN spans /\ spans'[i] = spans[i] /\ j \in DOMAIN spans /\ spans'[j] = spans[j]
      BY <1>4, <2>4
    <3>. QED  BY <3>1 DEF LanesInv, ChipsAreApart, Overlap
  <2>. QED  BY <2>2, <2>3, <2>4
<1>9. LanesAreNeeded'
  <2> SUFFICES ASSUME NEW i \in 1 .. k, NEW l \in 0 .. spans'[i].lane - 1
               PROVE  \E j \in 1 .. k : /\ spans'[j].lane = l
                                        /\ spans'[j].first <= spans'[i].first
                                        /\ spans'[i].first < spans'[j].last
    BY <1>4 DEF LanesAreNeeded, Covers
  <2>1. CASE i = k
    <3>1. l \in 0 .. lane - 1 /\ l \in 0 .. opened - 1
      BY <1>2, <1>3, <1>4, <2>1
    <3>2. FirstSlot(start) < laneEnds[l]
      BY <1>1, <1>2, <1>3, <3>1 DEF Free
    <3>3. PICK j \in DOMAIN spans : spans[j].lane = l /\ spans[j].last = laneEnds[l]
      BY <3>1 DEF LanesInv, LanesEndWithASpan, Opened
    <3>4. spans[j].first <= FirstSlot(from) /\ spans[j].first \in Int
      BY <1>4, <3>3 DEF LanesInv, LanesReachTheirSpans, Spans
    <3>5. spans[j].first <= FirstSlot(start)
      BY <1>3, <3>4
    <3>. QED  BY <1>3, <1>4, <2>1, <3>2, <3>3, <3>5
  <2>2. CASE i # k
    <3>1. i \in DOMAIN spans /\ spans'[i] = spans[i]
      BY <1>4, <2>2
    <3>2. PICK j \in DOMAIN spans : /\ spans[j].lane = l
                                    /\ spans[j].first <= spans[i].first
                                    /\ spans[i].first < spans[j].last
      BY <3>1 DEF LanesInv, LanesAreNeeded, Covers
    <3>. QED  BY <1>4, <3>1, <3>2
  <2>. QED  BY <2>1, <2>2
<1>. QED  BY <1>5, <1>6, <1>7, <1>8, <1>9 DEF LanesInv

-----------------------------------------------------------------------------
\* The lanes of a row: the least and the greatest of some numbers.
LEMMA LeastOfNats ==
    ASSUME NEW T \in SUBSET Nat, T # {}
    PROVE  \E x \in T : \A y \in T : x <= y
<1>1. PICK x \in T : \A y \in T : ~ (<<y, x>> \in OpToRel(<, Nat))
  BY WFMin, NatLessThanWellFounded
<1>2. \A y \in T : ~ (y < x)
  BY <1>1 DEF OpToRel
<1>. QED  BY <1>2

\* A bounded set of numbers has a greatest one.
LEMMA GreatestOfNats ==
    ASSUME NEW limit \in Nat, NEW T \in SUBSET (0 .. limit), T # {}
    PROVE  \E x \in T : \A y \in T : y <= x
<1> DEFINE Rest == {limit - x : x \in T}
<1>1. Rest \in SUBSET Nat /\ Rest # {}
  <2>1. \A x \in T : limit - x \in Nat
    OBVIOUS
  <2>2. PICK x : x \in T
    OBVIOUS
  <2>3. limit - x \in Rest
    BY <2>2
  <2>. QED  BY <2>1, <2>3
<1>2. PICK z \in Rest : \A y \in Rest : z <= y
  BY <1>1, LeastOfNats
<1>3. PICK x \in T : z = limit - x
  OBVIOUS
<1>4. ASSUME NEW y \in T PROVE y <= x
  <2>1. limit - y \in Rest
    OBVIOUS
  <2>2. limit - x <= limit - y
    BY <1>2, <1>3, <2>1
  <2>. QED  BY <2>2
<1>. QED  BY <1>4

\* An event that is shown has a lane count, which is a number of lanes there are.
LEMMA ShownHasALane ==
    ASSUME LanesInv, NEW i \in Placed
    PROVE  /\ i \in DOMAIN spans /\ spans[i].lane \in Nat /\ spans[i].lane < MaxLanes
           /\ spans[i].first < spans[i].last
<1>1. i \in DOMAIN spans /\ ~ (spans[i].lane >= MaxLanes)
  BY DEF Placed, Hidden
<1>2. spans[i] \in Spans
  BY <1>1 DEF LanesInv, LanesTypeOK
<1>3. spans[i].lane \in Nat
  BY <1>2 DEF Spans
<1>4. MaxLanes \in Nat
  BY LanesAssumption
<1>5. spans[i].lane < MaxLanes
  BY <1>1, <1>3, <1>4
<1>6. spans[i].first < spans[i].last
  BY <1>1 DEF LanesInv, LanesReachTheirSpans
<1>. QED  BY <1>1, <1>3, <1>5, <1>6

\* Every placed event overlaps some that fill the lanes up to its own.
LEMMA ShownHasALaneCount ==
    ASSUME LanesInv, NEW i \in Placed
    PROVE  \E n \in 1 .. MaxLanes : IsLaneCount(i, n) /\ spans[i].lane < n
<1> DEFINE Enough == {n \in 1 .. MaxLanes :
                         \A j \in Placed : Overlap(i, j) => spans[j].lane < n}
<1>1. \A j \in Placed : spans[j].lane \in Nat /\ spans[j].lane < MaxLanes
  BY ShownHasALane
<1>2. Overlap(i, i)
  BY ShownHasALane DEF Overlap
<1>3. MaxLanes \in Enough /\ Enough \in SUBSET Nat
  BY <1>1, LanesAssumption
<1>4. PICK n \in Enough : \A m \in Enough : n <= m
  BY <1>3, LeastOfNats
<1>5. n \in 1 .. MaxLanes /\ \A j \in Placed : Overlap(i, j) => spans[j].lane < n
  BY <1>4
<1>6. \E j \in Placed : Overlap(i, j) /\ spans[j].lane + 1 = n
  <2>1. CASE n = 1
    BY <1>1, <1>2, <1>5, <2>1
  <2>2. CASE n # 1
    <3>1. n - 1 \in 1 .. MaxLanes /\ ~ (n <= n - 1)
      BY <1>5, <2>2, LanesAssumption
    <3>3. n - 1 \notin Enough
      BY <1>4, <3>1
    <3>2. PICK j \in Placed : Overlap(i, j) /\ ~ (spans[j].lane < n - 1)
      BY <3>1, <3>3
    <3>. QED  BY <1>1, <1>5, <3>2
  <2>. QED  BY <2>1, <2>2
<1>. QED  BY <1>2, <1>5, <1>6 DEF IsLaneCount

\* What the rows show follows from the invariant.
LEMMA LanesHoldTheRows == LanesInv => RowsHoldTheirChips
<1> SUFFICES ASSUME LanesInv, NEW slot \in 0 .. Slots - 1,
                    {i \in Placed : Covers(i, slot)} # {}
             PROVE  \E n \in 1 .. MaxLanes :
                       /\ IsRowLanes(slot, n)
                       /\ \A i \in {k \in Placed : Covers(k, slot)} : spans[i].lane < n
  BY DEF RowsHoldTheirChips
<1> DEFINE occupants == {i \in Placed : Covers(i, slot)}
           Divisions == {n \in 1 .. MaxLanes : \E i \in occupants : IsLaneCount(i, n)}
<1>1. \A i \in occupants : \E n \in Divisions : IsLaneCount(i, n) /\ spans[i].lane < n
  BY ShownHasALaneCount
<1>2. MaxLanes \in Nat /\ Divisions \in SUBSET (0 .. MaxLanes) /\ Divisions # {}
  <2>1. MaxLanes \in Nat
    BY LanesAssumption
  <2>2. Divisions \in SUBSET (0 .. MaxLanes)
    BY <2>1
  <2>3. Divisions # {}
    BY <1>1
  <2>. QED  BY <2>1, <2>2, <2>3
<1>3. PICK n \in Divisions : \A m \in Divisions : m <= n
  BY <1>2, GreatestOfNats
<1>4. IsRowLanes(slot, n)
  BY <1>3 DEF IsRowLanes
<1>5. ASSUME NEW i \in occupants PROVE spans[i].lane < n
  <2>1. PICK m \in Divisions : spans[i].lane < m
    BY <1>1
  <2>2. m <= n /\ m \in Nat /\ n \in Nat /\ spans[i].lane \in Nat
    BY <1>2, <1>3, ShownHasALane
  <2>. QED  BY <2>1, <2>2
<1>. QED  BY <1>3, <1>4, <1>5

-----------------------------------------------------------------------------
\* In every reachable layout, two events that share a slot are in different lanes
\* (ChipsAreApart), and below the lane of an event every lane has an event at the
\* slot where it starts (LanesAreNeeded): _assign_lanes uses as few lanes as the
\* busiest slot needs, and hides an event only where MAX_LANES others are shown.  Every
\* row is divided into enough lanes for its events (RowsHoldTheirChips).
THEOREM LanesAreSound == LanesSpec => []RulerIsSound
<1>1. LanesInit => LanesInv
  BY LanesInitInv
<1>2. LanesInv /\ [LanesNext]_laneVars => LanesInv'
  <2> SUFFICES ASSUME LanesInv, [LanesNext]_laneVars PROVE LanesInv'
    OBVIOUS
  <2>1. CASE LanesNext
    <3>1. PICK start, stop \in Moments : Place(start, stop)
      BY <2>1 DEF LanesNext
    <3>2. start \in Int /\ stop \in Int
      BY LanesAssumption
    <3>. QED  BY <3>1, <3>2, PlaceInv
  <2>2. CASE UNCHANGED laneVars
    BY <2>2 DEF laneVars, LanesInv, LanesTypeOK, Opened, LanesReachTheirSpans, FirstSlot,
                LanesEndWithASpan, ChipsAreApart, Overlap, LanesAreNeeded, Covers
  <2>. QED  BY <2>1, <2>2
<1>3. LanesInv => RulerIsSound
  BY LanesHoldTheRows DEF LanesInv, RulerIsSound
<1>. QED  BY <1>1, <1>2, <1>3, PTL DEF LanesSpec

-----------------------------------------------------------------------------
GhTypeOK ==
    /\ isLoading \in BOOLEAN /\ isShown \in BOOLEAN
    /\ ghView \in {"menu", "inbox", "pushed", "pull request", "diff"}
    /\ viewed \in PullRequests \cup {Nobody} /\ viewedDiff \in PullRequests \cup {Nobody}
    /\ inbox \in Seq(PullRequests) /\ branches \in Nat
    /\ cursors \in [{"menu", "inbox", "pushed"} -> Nat]
    /\ selected \in Nat
    /\ pages \subseteq PullRequests
    /\ diffs \in [PullRequests -> {-1} \cup 0 .. MaxDiffFiles]
    /\ awaited \in Details \cup {Idle} /\ loads \in [Details -> Nat]

\* A diff that is awaited is not there, so a refresh never finds a diff that it
\* may not synchronise.
AwaitedIsAway == \A p \in PullRequests : awaited = <<p, "diff">> => diffs[p] = -1

ViewHasItsRequest ==
    /\ viewed # Nobody <=> ghView \in {"pull request", "diff"}
    /\ viewedDiff = IF ghView = "diff" THEN viewed ELSE Nobody

SelectionIsInDiff ==
    FilesOf(viewedDiff, diffs) # -1 =>
        isShown /\ selected = Clamp(selected, FilesOf(viewedDiff, diffs))

GhInv == GhTypeOK /\ AwaitedIsAway /\ ViewHasItsRequest /\ SelectionIsInDiff

-----------------------------------------------------------------------------
\* Clamping once is enough.
LEMMA ClampTwice ==
    ASSUME NEW c \in Nat, NEW count \in Nat
    PROVE  Clamp(c, count) \in Nat /\ Clamp(Clamp(c, count), count) = Clamp(c, count)
  BY DEF Clamp

\* The files of a diff are counted, or the diff is not loaded (-1).
LEMMA FilesAreTyped ==
    ASSUME NEW of \in PullRequests \cup {Nobody},
           NEW known \in [PullRequests -> {-1} \cup 0 .. MaxDiffFiles]
    PROVE  FilesOf(of, known) = -1 \/ FilesOf(of, known) \in Nat
  BY GitHubScreensAssumption DEF FilesOf

\* A refresh that knows the diff of the request on screen pulls its selection into it.
LEMMA RefreshSelects ==
    ASSUME selected \in Nat, isShown \in BOOLEAN,
           NEW of \in PullRequests \cup {Nobody},
           NEW known \in [PullRequests -> {-1} \cup 0 .. MaxDiffFiles],
           NEW asked, \A p \in PullRequests : asked = <<p, "diff">> => known[p] = -1,
           Refresh(of, known, asked)
    PROVE  /\ selected' \in Nat /\ isShown' \in BOOLEAN
           /\ FilesOf(of, known) # -1 =>
                 isShown' /\ selected' = Clamp(selected', FilesOf(of, known))
<1>1. CASE FilesOf(of, known) = -1 \/ asked = <<of, "diff">>
  <2>1. FilesOf(of, known) = -1
    <3>1. CASE asked = <<of, "diff">> /\ of # Nobody
      BY <3>1 DEF FilesOf
    <3>. QED  BY <1>1, <3>1 DEF FilesOf
  <2>. QED  BY <1>1, <2>1 DEF Refresh
<1>2. CASE ~ (FilesOf(of, known) = -1 \/ asked = <<of, "diff">>)
  <2>1. FilesOf(of, known) \in Nat
    BY <1>2, FilesAreTyped
  <2>2. selected' = SyncSelection(FilesOf(of, known)) /\ isShown' = TRUE
    BY <1>2 DEF Refresh
  <2>3. CASE isShown
    BY <2>1, <2>2, <2>3, ClampTwice DEF SyncSelection
  <2>4. CASE ~isShown
    BY <2>1, <2>2, <2>4 DEF SyncSelection, Clamp
  <2>. QED  BY <2>3, <2>4
<1>. QED  BY <1>1, <1>2

\* The screens start with their invariant.
LEMMA GhInit == GitHubScreensInit => GhInv
<1> SUFFICES ASSUME GitHubScreensInit PROVE GhInv
  OBVIOUS
<1>1. GhTypeOK
  <2>1. \A d \in Details : loads[d] = 0
    BY DEF GitHubScreensInit
  <2>2. awaited = Idle /\ loads \in [Details -> Nat]
    BY DEF GitHubScreensInit
  <2>3. /\ inbox \in Seq(PullRequests)
        /\ diffs \in [PullRequests -> {-1} \cup 0 .. MaxDiffFiles]
        /\ cursors \in [{"menu", "inbox", "pushed"} -> Nat]
    BY DEF GitHubScreensInit
  <2>. QED  BY <2>2, <2>3 DEF GitHubScreensInit, GhTypeOK
<1>2. AwaitedIsAway
  BY DEF GitHubScreensInit, AwaitedIsAway, Idle
<1>3. ViewHasItsRequest /\ SelectionIsInDiff
  BY DEF GitHubScreensInit, ViewHasItsRequest, SelectionIsInDiff, FilesOf
<1>. QED  BY <1>1, <1>2, <1>3 DEF GhInv

\* A request keeps what awaits away: it asks only for what is not there.
LEMMA RequestIsAway ==
    ASSUME GhInv, NEW detail \in Details, Request(detail)
    PROVE  /\ awaited' \in Details \cup {Idle} /\ loads' \in [Details -> Nat]
           /\ \A p \in PullRequests : awaited' = <<p, "diff">> => diffs[p] = -1
<1>1. CASE UNCHANGED <<awaited, loads>>
  BY <1>1 DEF GhInv, GhTypeOK, AwaitedIsAway
<1>2. CASE /\ awaited' = detail /\ loads' = [loads EXCEPT ![detail] = @ + 1]
           /\ ~ (IF detail[2] = "page" THEN detail[1] \in pages ELSE diffs[detail[1]] # -1)
  <2>1. loads' \in [Details -> Nat]
    <3>1. loads \in [Details -> Nat]
      BY DEF GhInv, GhTypeOK
    <3>2. loads[detail] + 1 \in Nat
      BY <3>1
    <3>. QED  BY <1>2, <3>1, <3>2
  <2>2. ASSUME NEW p \in PullRequests, awaited' = <<p, "diff">> PROVE diffs[p] = -1
    <3>1. detail[1] = p /\ detail[2] = "diff"
      BY <1>2, <2>2
    <3>. QED  BY <1>2, <3>1
  <2>. QED  BY <1>2, <2>1, <2>2
<1>. QED  BY <1>1, <1>2 DEF Request

\* What a step that refreshes the views has to keep.
LEMMA RefreshedStep ==
    ASSUME GhInv,
           isLoading' \in BOOLEAN, inbox' \in Seq(PullRequests), branches' \in Nat,
           ghView' \in {"menu", "inbox", "pushed", "pull request", "diff"},
           viewed' \in PullRequests \cup {Nobody},
           viewed' # Nobody <=> ghView' \in {"pull request", "diff"},
           viewedDiff' = viewedDiff,
           viewedDiff = IF ghView' = "diff" THEN viewed' ELSE Nobody,
           cursors' \in [{"menu", "inbox", "pushed"} -> Nat],
           pages' \subseteq PullRequests,
           diffs' \in [PullRequests -> {-1} \cup 0 .. MaxDiffFiles],
           awaited' \in Details \cup {Idle}, loads' \in [Details -> Nat],
           \A p \in PullRequests : awaited' = <<p, "diff">> => diffs'[p] = -1,
           Refresh(viewedDiff, diffs', awaited')
    PROVE  GhInv'
<1>1. /\ selected' \in Nat /\ isShown' \in BOOLEAN
      /\ FilesOf(viewedDiff, diffs') # -1 =>
            isShown' /\ selected' = Clamp(selected', FilesOf(viewedDiff, diffs'))
  BY RefreshSelects DEF GhInv, GhTypeOK
<1>2. GhTypeOK'
  BY <1>1 DEF GhInv, GhTypeOK
<1>3. AwaitedIsAway' /\ ViewHasItsRequest'
  BY DEF AwaitedIsAway, ViewHasItsRequest
<1>4. SelectionIsInDiff'
  BY <1>1 DEF SelectionIsInDiff, FilesOf
<1>. QED  BY <1>2, <1>3, <1>4 DEF GhInv

\* Every step of the screens keeps the invariant.
LEMMA GhStep == GhInv /\ [GitHubScreensNext]_gh => GhInv'
<1> SUFFICES ASSUME GhInv, [GitHubScreensNext]_gh PROVE GhInv'
  OBVIOUS
<1> USE DEF GhInv
<1>1. CASE OpenFromMenu \/ BackToGitHubMenu
  <2>1. PICK view \in {"menu", "inbox", "pushed"} : Switch(view)
    BY <1>1 DEF OpenFromMenu, BackToGitHubMenu
  <2>2. ghView \in {"menu", "inbox", "pushed"}
    BY <1>1 DEF OpenFromMenu, BackToGitHubMenu, HasKeys
  <2>. QED
    BY <2>1, <2>2, RefreshedStep
    DEF Switch, GoTo, GhTypeOK, ViewHasItsRequest, AwaitedIsAway
<1>2. CASE OpenPullRequest
  <2>1. ghView = "inbox" /\ inbox # <<>> /\ viewed' = SelectedPullRequest
    BY <1>2 DEF OpenPullRequest, HasKeys
  <2>2. viewed' \in PullRequests
    <3>1. inbox \in Seq(PullRequests) /\ cursors.inbox \in Nat
      BY DEF GhTypeOK
    <3>2. Len(inbox) \in Nat /\ Len(inbox) # 0
      BY <2>1, <3>1, EmptySeq
    <3>3. Clamp(cursors.inbox, Len(inbox)) \in 0 .. Len(inbox) - 1
      BY <3>1, <3>2, ClampIsInList
    <3>4. Clamp(cursors.inbox, Len(inbox)) + 1 \in 1 .. Len(inbox)
      BY <3>2, <3>3
    <3>. QED  BY <2>1, <3>1, <3>4, ElementOfSeq DEF SelectedPullRequest
  <2>3. <<viewed', "page">> \in Details /\ Request(<<viewed', "page">>)
    BY <1>2, <2>2 DEF OpenPullRequest, Details
  <2>4. /\ awaited' \in Details \cup {Idle} /\ loads' \in [Details -> Nat]
        /\ \A p \in PullRequests : awaited' = <<p, "diff">> => diffs[p] = -1
    BY <2>3, RequestIsAway
  <2>5. viewed' # Nobody /\ viewedDiff = Nobody
    BY <2>1, <2>2, GitHubScreensAssumption DEF ViewHasItsRequest
  <2>6. /\ ghView' = "pull request" /\ viewedDiff' = viewedDiff
        /\ UNCHANGED <<isLoading, inbox, branches, cursors, pages, diffs>>
        /\ Refresh(viewedDiff, diffs, awaited')
    BY <1>2 DEF OpenPullRequest, GoTo
  <2>. QED  BY <2>2, <2>4, <2>5, <2>6, RefreshedStep DEF GhTypeOK
<1>3. CASE ClosePullRequest
  <2>1. GhTypeOK'
    BY <1>3 DEF ClosePullRequest, GoTo, GhTypeOK
  <2>2. AwaitedIsAway' /\ ViewHasItsRequest' /\ SelectionIsInDiff'
    BY <1>3
    DEF ClosePullRequest, GoTo, AwaitedIsAway, ViewHasItsRequest, SelectionIsInDiff, FilesOf
  <2>. QED  BY <2>1, <2>2
<1>4. CASE OpenDiff
  <2>1. viewed \in PullRequests /\ viewed # Nobody
    BY <1>4 DEF OpenDiff, GhTypeOK
  <2>2. <<viewed, "diff">> \in Details /\ Request(<<viewed, "diff">>)
    BY <1>4, <2>1 DEF OpenDiff, Details
  <2>3. /\ awaited' \in Details \cup {Idle} /\ loads' \in [Details -> Nat]
        /\ \A p \in PullRequests : awaited' = <<p, "diff">> => diffs[p] = -1
    BY <2>2, RequestIsAway
  <2>4. /\ viewedDiff' = viewed /\ viewed' = viewed /\ ghView' = "diff"
        /\ UNCHANGED <<isLoading, inbox, branches, cursors, pages, diffs>>
        /\ NewRequest(viewed, awaited')
    BY <1>4 DEF OpenDiff, GoTo
  <2>5. diffs[viewed] \in {-1} \cup 0 .. MaxDiffFiles /\ MaxDiffFiles \in Nat
    BY <2>1, GitHubScreensAssumption DEF GhTypeOK
  <2>6. selected' \in Nat /\ isShown' \in BOOLEAN
    BY <2>4 DEF NewRequest, GhTypeOK
  <2>7. diffs[viewed] # -1 => isShown' /\ selected' = Clamp(selected', diffs[viewed])
    <3> SUFFICES ASSUME diffs[viewed] # -1
                 PROVE  isShown' /\ selected' = Clamp(selected', diffs[viewed])
      OBVIOUS
    <3>1. isShown' /\ selected' = 0
      <4>1. awaited' # <<viewed, "diff">>
        BY <2>1, <2>3
      <4>. QED  BY <2>4, <4>1 DEF NewRequest
    <3>2. diffs[viewed] \in Nat
      BY <2>5
    <3>3. Clamp(0, diffs[viewed]) = 0
      BY <3>2 DEF Clamp
    <3>. QED  BY <3>1, <3>3
  <2>8. GhTypeOK'
    BY <2>1, <2>3, <2>4, <2>6 DEF GhTypeOK
  <2>9. AwaitedIsAway' /\ ViewHasItsRequest'
    BY <2>1, <2>3, <2>4 DEF AwaitedIsAway, ViewHasItsRequest
  <2>10. SelectionIsInDiff'
    BY <2>1, <2>4, <2>7 DEF SelectionIsInDiff, FilesOf
  <2>. QED  BY <2>8, <2>9, <2>10
<1>5. CASE CloseDiff
  <2>1. GhTypeOK'
    BY <1>5 DEF CloseDiff, GoTo, GhTypeOK
  <2>2. AwaitedIsAway' /\ ViewHasItsRequest' /\ SelectionIsInDiff'
    BY <1>5 DEF CloseDiff, HasKeys, GoTo, AwaitedIsAway, ViewHasItsRequest,
                SelectionIsInDiff, FilesOf
  <2>. QED  BY <2>1, <2>2
<1>6. ASSUME NEW detail \in Details, Landed(detail),
             pages' \subseteq PullRequests,
             diffs' \in [PullRequests -> {-1} \cup 0 .. MaxDiffFiles],
             \A p \in PullRequests : detail # <<p, "diff">> => diffs'[p] = diffs[p]
      PROVE  GhInv'
  <2>1. awaited' \in Details \cup {Idle} /\ loads' \in [Details -> Nat]
    <3>1. loads[detail] > 0 /\ loads' = [loads EXCEPT ![detail] = @ - 1]
      BY <1>6 DEF Landed
    <3>2. loads \in [Details -> Nat] /\ awaited \in Details \cup {Idle}
      BY DEF GhTypeOK
    <3>3. loads[detail] \in Nat /\ loads[detail] - 1 \in Nat
      BY <3>1, <3>2
    <3>4. loads' \in [Details -> Nat]
      BY <3>1, <3>2, <3>3
    <3>. QED  BY <1>6, <3>2, <3>4 DEF Landed
  <2>2. \A p \in PullRequests : awaited' = <<p, "diff">> => diffs'[p] = -1
    <3> SUFFICES ASSUME NEW p \in PullRequests, awaited' = <<p, "diff">>
                 PROVE  diffs'[p] = -1
      OBVIOUS
    <3>1. awaited # detail
      <4> SUFFICES ASSUME awaited = detail PROVE FALSE
        OBVIOUS
      <4>1. <<p, "diff">> = <<Nobody, "page">>
        BY <1>6 DEF Landed, Idle
      <4>. QED  BY <4>1
    <3>2. awaited = <<p, "diff">> /\ detail # <<p, "diff">>
      BY <1>6, <3>1 DEF Landed
    <3>. QED  BY <1>6, <3>2 DEF AwaitedIsAway
  <2>3. /\ UNCHANGED <<isLoading, ghView, viewed, viewedDiff, inbox, branches, cursors>>
        /\ Refresh(viewedDiff, diffs', awaited')
    BY <1>6 DEF Landed
  <2>. QED  BY <1>6, <2>1, <2>2, <2>3, RefreshedStep DEF GhTypeOK, ViewHasItsRequest
<1>7. CASE PageLands
  <2>1. PICK p \in PullRequests :
          pages' = pages \cup {p} /\ diffs' = diffs /\ Landed(<<p, "page">>)
    BY <1>7 DEF PageLands
  <2>2. <<p, "page">> \in Details
    BY DEF Details
  <2>. QED  BY <1>6, <2>1, <2>2 DEF GhTypeOK
<1>8. CASE DiffLands
  <2>1. PICK p \in PullRequests, files \in 0 .. MaxDiffFiles :
          diffs' = [diffs EXCEPT ![p] = files] /\ pages' = pages /\ Landed(<<p, "diff">>)
    BY <1>8 DEF DiffLands
  <2>2. <<p, "diff">> \in Details
    BY DEF Details
  <2>3. \A q \in PullRequests : <<p, "diff">> # <<q, "diff">> => diffs'[q] = diffs[q]
    BY <2>1 DEF GhTypeOK
  <2>. QED  BY <1>6, <2>1, <2>2, <2>3 DEF GhTypeOK
<1>9. CASE DetailIsLost
  BY <1>6, <1>9 DEF DetailIsLost, GhTypeOK
<1>10. CASE GitHubItemsLand
  <2>1. inbox' \in Seq(PullRequests) /\ branches' \in Nat /\ isLoading' \in BOOLEAN
    BY <1>10, GitHubScreensAssumption DEF GitHubItemsLand
  <2>2. /\ diffs' \in [PullRequests -> {-1} \cup 0 .. MaxDiffFiles]
        /\ \A p \in PullRequests : diffs[p] = -1 => diffs'[p] = -1
    BY <1>10 DEF GitHubItemsLand, GhTypeOK
  <2>3. pages' \subseteq PullRequests
    BY <1>10 DEF GitHubItemsLand, GhTypeOK
  <2>4. /\ UNCHANGED <<ghView, viewed, viewedDiff, cursors, awaited, loads>>
        /\ Refresh(viewedDiff, diffs', awaited')
    BY <1>10 DEF GitHubItemsLand
  <2>. QED
    BY <2>1, <2>2, <2>3, <2>4, RefreshedStep DEF GhTypeOK, ViewHasItsRequest, AwaitedIsAway
<1>11. CASE GitHubFails
  BY <1>11, RefreshedStep DEF GitHubFails, GhTypeOK, ViewHasItsRequest, AwaitedIsAway
<1>12. ASSUME NEW offset \in {-1, 1}, MoveFile(offset) PROVE GhInv'
  <2> DEFINE files == FilesOf(viewedDiff, diffs)
             chosen == SyncSelection(files) + offset
  <2>1. /\ files > 0 /\ chosen \in 0 .. files - 1
        /\ selected' = chosen /\ isShown' = TRUE
        /\ UNCHANGED <<isLoading, ghView, viewed, viewedDiff, inbox, branches, cursors, pages,
                       diffs, awaited, loads>>
    BY <1>12 DEF MoveFile
  <2>2. files = -1 \/ files \in Nat
    BY FilesAreTyped DEF GhTypeOK
  <2>3. chosen \in Nat /\ chosen = Clamp(chosen, files)
    <3> HIDE DEF chosen, files
    <3>. QED  BY <2>1, <2>2 DEF Clamp
  <2>4. FilesOf(viewedDiff', diffs') = files
    BY <2>1
  <2>5. GhTypeOK'
    <3> HIDE DEF chosen, files
    <3>. QED  BY <2>1, <2>3 DEF GhTypeOK
  <2>6. AwaitedIsAway' /\ ViewHasItsRequest'
    BY <2>1 DEF AwaitedIsAway, ViewHasItsRequest
  <2>7. SelectionIsInDiff'
    <3> HIDE DEF chosen, files
    <3>. QED  BY <2>1, <2>3, <2>4 DEF SelectionIsInDiff
  <2>. QED  BY <2>5, <2>6, <2>7
<1>13. ASSUME NEW offset \in {-1, 1}, NEW list \in DOMAIN cursors, MoveCursor(list, offset)
       PROVE  GhInv'
  <2>1. list \in {"menu", "inbox", "pushed"} /\ cursors[list] \in Nat
    BY DEF GhTypeOK
  <2>2. RowsIn(list) \in Nat
    <3>1. Len(inbox) \in Nat /\ branches \in Nat
      BY LenProperties DEF GhTypeOK
    <3>. QED  BY <2>1, <3>1 DEF RowsIn
  <2>3. Step(cursors[list], offset, RowsIn(list)) \in Nat
    BY <2>1, <2>2, StepIsInList
  <2>4. cursors' \in [{"menu", "inbox", "pushed"} -> Nat]
    BY <1>13, <2>3 DEF MoveCursor, GhTypeOK
  <2>. QED
    BY <1>13, <2>4, RefreshedStep DEF MoveCursor, GhTypeOK, ViewHasItsRequest, AwaitedIsAway
<1>14. CASE UNCHANGED gh
  BY <1>14 DEF gh, GhTypeOK, AwaitedIsAway, ViewHasItsRequest, SelectionIsInDiff, FilesOf
<1>. QED
  BY <1>1, <1>2, <1>3, <1>4, <1>5, <1>7, <1>8, <1>9, <1>10, <1>11, <1>12, <1>13, <1>14
  DEF GitHubScreensNext

\* The page and the diff in front have their pull request, and the file that the
\* marquee's timer and the keys read is one of the files of the diff in front.
THEOREM SelectionsAreInTheirDiff == GitHubScreensSpec => []DiffHasItsFile
<1>1. GhInv => DiffHasItsFile
  <2> SUFFICES ASSUME GhInv PROVE DiffHasItsFile
    OBVIOUS
  <2>1. selected >= 0
    <3>1. selected \in Nat
      BY DEF GhInv, GhTypeOK
    <3>. QED  BY <3>1
  <2>2. ViewHasItsRequest /\ SelectionIsInDiff
    BY DEF GhInv
  <2>. QED  BY <2>1, <2>2 DEF ViewHasItsRequest, SelectionIsInDiff, DiffHasItsFile
<1>. QED  BY <1>1, GhInit, GhStep, PTL DEF GitHubScreensSpec

-----------------------------------------------------------------------------
\* Every page on the trail keeps its cache key while it can be returned to: neither a
\* refresh of the list nor another page takes its detail away, and a reload takes only
\* the one that failed.
THEOREM DetailsAreKept == Spec => PagesKeepDetails
<1> DEFINE DetailStays == \A k \in Pages \cap Pages' :
                      k \in details /\ k \notin errors => k \in details'
<1>1. [Next]_vars => [DetailStays]_vars
  <2> SUFFICES ASSUME Next, NEW k \in Pages \cap Pages', k \in details, k \notin errors
               PROVE  k \in details'
    OBVIOUS
  <2>1. ASSUME NEW key, Open(key) PROVE k \in details'
    <3>1. CASE Reloads /\ key \in errors
      BY <2>1, <3>1 DEF Open, ReloadDetail
    <3>2. CASE ~ (Reloads /\ key \in errors)
      BY <2>1, <3>2 DEF Open, RequestDetail
    <3>. QED  BY <3>1, <3>2
  <2>2. CASE \E i \in Items : OpenListed(i) \/ OpenTarget(i)
    BY <2>1, <2>2 DEF OpenListed, OpenTarget
  <2>3. CASE \E n \in 0 .. MaxTrail : GoBack(n)
    BY <2>3 DEF GoBack, cacheVars
  <2>4. CASE \E t \in Tabs : SwitchTab(t)
    BY <2>4 DEF SwitchTab, cacheVars
  <2>5. CASE \E w \in Workers : DetailRequested(w) \/ ShowDetail(w) \/ ShowDetailError(w)
    BY <2>5 DEF DetailRequested, ShowDetail, ShowDetailError, cacheVars
  <2>6. CASE ShowItems
    BY <2>6 DEF ShowItems, KeysInUse
  <2>. QED  BY <2>2, <2>3, <2>4, <2>5, <2>6 DEF Next
<1>. QED  BY <1>1, PTL DEF Spec, PagesKeepDetails

-----------------------------------------------------------------------------
MenuTypeOK ==
    /\ mState \in {"loading", "ready", "stale", "error"}
    /\ elapsed \in Nat /\ arrived \in BOOLEAN
    /\ waiting \in BOOLEAN
    /\ underWay \in Nat /\ lastEnd \in Nat

\* What the view compares with is what is unread, or nothing yet; what waits to be
\* seen waits because of the news, and only while something is unread.
NewsWaits ==
    /\ changedIds \in {Never, Changed}
    /\ changedIds = Never => ~waiting /\ news = {}
    /\ waiting => Changed # {}
    /\ ~waiting => news = {}

\* A sweep began in the past, and a fetch under way has begun one.
SweepHasBegun ==
    /\ sweptAt = Never \/ sweptAt \in 0 .. elapsed
    /\ underWay > 0 => sweptAt # Never

MenuInv == MenuTypeOK /\ NewsWaits /\ SweepHasBegun /\ SweepEndsWithAPass

-----------------------------------------------------------------------------
\* A sweep that began at `begun' and is told at `now' to end.
LEMMA PassEnds ==
    ASSUME NEW now \in Nat, NEW begun \in 0 .. now, NEW frames \in Nat \ {0},
           NEW ends, ends = begun + (((now - begun) \div frames) + 1) * frames
    PROVE  now < ends /\ ends <= now + frames /\ (ends - begun) % frames = 0
<1> DEFINE past == now - begun
           times == past \div frames
<1>1. past \in Nat /\ now = begun + past
  OBVIOUS
<1>2. ends = begun + (times + 1) * frames
  OBVIOUS
<1> HIDE DEF past
<1>3. past % frames \in 0 .. frames - 1 /\ times \in Nat
  BY <1>1
<1>4. past = times * frames + (past % frames)
  BY <1>1, SMTT(30)
<1> HIDE DEF times
<1>5. (times + 1) * frames = times * frames + frames /\ times * frames \in Nat
  BY <1>3
<1>6. now < ends /\ ends <= now + frames
  BY <1>1, <1>2, <1>3, <1>4, <1>5
<1>7. ends - begun = (times + 1) * frames
  BY <1>2, <1>5
<1>8. ((times + 1) * frames) % frames = 0
  BY <1>3
<1>. QED  BY <1>6, <1>7, <1>8

\* The repaint keeps the news.
LEMMA NoteKeepsTheNews ==
    ASSUME MenuTypeOK, NewsWaits, NEW changed, Note(changed), Changed' = changed
    PROVE  waiting' \in BOOLEAN /\ NewsWaits'
<1>1. changedIds' = changed
  BY DEF Note
<1>2. CASE changedIds = Never
  BY <1>1, <1>2 DEF Note, NewsWaits, MenuTypeOK
<1>3. CASE changedIds # Never
  <2>1. changedIds = Changed
    BY <1>3 DEF NewsWaits
  <2>2. /\ waiting' = (changed # {} /\ (waiting \/ changed \ Changed # {}))
        /\ news' = (news \cup (changed \ Changed)) \cap changed
    BY <1>3, <2>1 DEF Note
  <2>3. changedIds' = Changed' /\ changedIds' # Never
    BY <1>1, LinearMenuAssumption DEF Changed, ChangedOf
  <2>4. waiting' => changed # {}
    BY <2>2
  <2>5. ~waiting' => news' = {}
    <3> SUFFICES ASSUME ~waiting', changed # {} PROVE news' = {}
      BY <2>2
    <3>1. ~waiting /\ changed \ Changed = {}
      BY <2>2
    <3>. QED  BY <2>2, <3>1 DEF NewsWaits
  <2>. QED  BY <2>2, <2>3, <2>4, <2>5 DEF NewsWaits
<1>. QED  BY <1>2, <1>3

\* The menu starts with its invariant.
LEMMA MenuInit == LinearMenuInit => MenuInv
<1> SUFFICES ASSUME LinearMenuInit PROVE MenuInv
  OBVIOUS
<1>1. MenuTypeOK
  BY DEF LinearMenuInit, MenuTypeOK
<1>2. NewsWaits
  BY DEF LinearMenuInit, NewsWaits
<1>3. SweepHasBegun
  BY DEF LinearMenuInit, SweepHasBegun
<1>4. SweepEndsWithAPass
  BY DEF LinearMenuInit, SweepEndsWithAPass
<1>. QED  BY <1>1, <1>2, <1>3, <1>4 DEF MenuInv

\* Every step of the menu keeps the invariant.
LEMMA MenuStep == MenuInv /\ [LinearMenuNext]_menuVars => MenuInv'
<1> SUFFICES ASSUME MenuInv, [LinearMenuNext]_menuVars PROVE MenuInv'
  OBVIOUS
<1>1. MenuTypeOK /\ NewsWaits /\ SweepHasBegun /\ SweepEndsWithAPass
  BY DEF MenuInv
<1>2. ASSUME NEW changed, Note(changed), Changed' = changed,
             mState' \in {"loading", "ready", "stale", "error"},
             UNCHANGED <<elapsed, arrived, sweepVars>>
      PROVE  MenuInv'
  <2>1. waiting' \in BOOLEAN /\ NewsWaits'
    BY <1>1, <1>2, NoteKeepsTheNews
  <2>2. MenuTypeOK'
    BY <1>1, <1>2, <2>1 DEF MenuTypeOK, sweepVars
  <2>3. SweepHasBegun' /\ SweepEndsWithAPass'
    BY <1>1, <1>2 DEF SweepHasBegun, SweepEndsWithAPass, sweepVars
  <2>. QED  BY <2>1, <2>2, <2>3 DEF MenuInv
<1>3. mState \in {"loading", "ready", "stale", "error"}
  BY <1>1 DEF MenuTypeOK
<1>4. CASE Repaint
  BY <1>2, <1>3, <1>4 DEF Repaint, Changed
<1>5. CASE ItemsLand
  BY <1>2, <1>5 DEF ItemsLand, Changed
<1>6. CASE ItemsFail
  BY <1>2, <1>6 DEF ItemsFail, Changed
<1>7. ASSUME NEW seen, MarkAs(seen) PROVE MenuInv'
  BY <1>2, <1>3, <1>7 DEF MarkAs, Changed
<1>8. CASE MarkSeen \/ MarkAllSeen \/ MarkUnseen
  BY <1>7, <1>8 DEF MarkSeen, MarkAllSeen, MarkUnseen
<1>9. CASE LookAtIssues
  <2>1. /\ changedIds' = Changed /\ waiting' = FALSE /\ news' = {}
        /\ UNCHANGED <<versions, stamp, mState, elapsed, arrived, sweepVars>>
    BY <1>9 DEF LookAtIssues, Show
  <2>2. MenuTypeOK'
    BY <1>1, <2>1 DEF MenuTypeOK, sweepVars
  <2>3. NewsWaits'
    BY <2>1 DEF NewsWaits, Changed
  <2>4. SweepHasBegun' /\ SweepEndsWithAPass'
    BY <1>1, <2>1 DEF SweepHasBegun, SweepEndsWithAPass, sweepVars
  <2>. QED  BY <2>2, <2>3, <2>4 DEF MenuInv
<1>10. CASE LookElsewhere
  <2>1. PICK view \in {"menu", "elsewhere"} : Show(view)
    BY <1>10 DEF LookElsewhere
  <2>. QED  BY <1>2, <1>3, <2>1 DEF Show, Changed
<1>11. CASE Frame
  <2>1. /\ elapsed' = elapsed + 1 /\ arrived' = (arrived \/ elapsed' >= Drawn)
        /\ UNCHANGED <<versions, stamp, mState, mView, sweepVars, noteVars>>
    BY <1>11 DEF Frame
  <2>2. elapsed' \in Nat /\ 0 .. elapsed \in SUBSET (0 .. elapsed')
    BY <1>1, <2>1 DEF MenuTypeOK
  <2>3. MenuTypeOK'
    BY <1>1, <2>1, <2>2 DEF MenuTypeOK, sweepVars, noteVars
  <2>4. NewsWaits'
    BY <1>1, <2>1 DEF NewsWaits, Changed, noteVars
  <2>5. SweepHasBegun' /\ SweepEndsWithAPass'
    BY <1>1, <2>1, <2>2 DEF SweepHasBegun, SweepEndsWithAPass, sweepVars
  <2>. QED  BY <2>3, <2>4, <2>5 DEF MenuInv
<1>12. CASE MenuFetchStarted
  <2>1. /\ underWay' = underWay + 1 /\ sweptAt' = elapsed
        /\ UNCHANGED <<versions, stamp, mState, mView, elapsed, arrived, noteVars, lastEnd>>
    BY <1>12 DEF MenuFetchStarted
  <2>2. elapsed \in Nat /\ underWay \in Nat /\ elapsed # Never
    BY <1>1, LinearMenuAssumption DEF MenuTypeOK
  <2>3. underWay' \in Nat /\ underWay' # 0 /\ elapsed \in 0 .. elapsed
    BY <2>1, <2>2
  <2>4. MenuTypeOK'
    BY <1>1, <2>1, <2>3 DEF MenuTypeOK, noteVars
  <2>5. NewsWaits'
    BY <1>1, <2>1 DEF NewsWaits, Changed, noteVars
  <2>6. SweepHasBegun' /\ SweepEndsWithAPass'
    BY <2>1, <2>2, <2>3 DEF SweepHasBegun, SweepEndsWithAPass
  <2>. QED  BY <2>4, <2>5, <2>6 DEF MenuInv
<1>13. CASE MenuFetchFinished
  <2>1. /\ underWay > 0 /\ underWay' = underWay - 1 /\ fetching' = FALSE
        /\ sweepEnds' = sweptAt + (((elapsed - sweptAt) \div SweepFrames) + 1) * SweepFrames
        /\ lastEnd' = elapsed
        /\ UNCHANGED <<versions, stamp, mState, mView, elapsed, arrived, noteVars, sweptAt>>
    BY <1>13 DEF MenuFetchFinished
  <2>2. elapsed \in Nat /\ underWay \in Nat
    BY <1>1 DEF MenuTypeOK
  <2>3. sweptAt \in 0 .. elapsed /\ sweptAt # Never
    BY <1>1, <2>1 DEF SweepHasBegun
  <2>4. underWay' \in Nat
    BY <2>1, <2>2
  <2>5. /\ elapsed < sweepEnds' /\ sweepEnds' <= elapsed + SweepFrames
        /\ (sweepEnds' - sweptAt) % SweepFrames = 0
    BY <2>1, <2>2, <2>3, PassEnds, LinearMenuAssumption
  <2>6. MenuTypeOK'
    BY <1>1, <2>1, <2>4 DEF MenuTypeOK, noteVars
  <2>7. NewsWaits'
    BY <1>1, <2>1 DEF NewsWaits, Changed, noteVars
  <2>8. SweepHasBegun'
    BY <2>1, <2>3 DEF SweepHasBegun
  <2>9. SweepEndsWithAPass'
    BY <2>1, <2>5 DEF SweepEndsWithAPass
  <2>. QED  BY <2>6, <2>7, <2>8, <2>9 DEF MenuInv
<1>14. CASE UNCHANGED menuVars
  BY <1>1, <1>14
  DEF menuVars, sweepVars, noteVars, MenuInv, MenuTypeOK, NewsWaits, Changed, SweepHasBegun,
      SweepEndsWithAPass
<1>. QED
  BY <1>4, <1>5, <1>6, <1>8, <1>9, <1>10, <1>11, <1>12, <1>13, <1>14 DEF LinearMenuNext

\* The mark never rests while there is news that the list of issues did not show, and
\* never shines without an unread issue; and its sweep ends with a whole pass after the
\* last fetch, whatever keys, fetches and repaints come in between.
THEOREM TheMarkIsHonest ==
    LinearMenuInit /\ [][LinearMenuNext]_menuVars => []MarkIsHonest
<1>1. MenuInv => MarkIsHonest
  <2> SUFFICES ASSUME MenuInv PROVE MarkIsHonest
    OBVIOUS
  <2>1. NewsWaits /\ SweepEndsWithAPass
        /\ mState \in {"loading", "ready", "stale", "error"}
    BY DEF MenuInv, MenuTypeOK
  <2>2. MarkShows = "resting" => ~waiting
    BY <2>1 DEF MarkShows
  <2>3. MarkShows = "shine" => waiting
    BY <2>1 DEF MarkShows
  <2>. QED  BY <2>1, <2>2, <2>3 DEF MarkIsHonest, NewsShines, NewsWaits
<1>. QED  BY <1>1, MenuInit, MenuStep, PTL

=============================================================================
