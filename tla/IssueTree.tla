------------------------------ MODULE IssueTree ------------------------------
(***************************************************************************)
(* The tree of a project's issues (linear/views/project_issues.py): each    *)
(* in-flight issue without an in-flight ancestor is a root, and all that is *)
(* below it follows, depth first.  Linear sends parents as it likes: a      *)
(* parent may not be among the project's issues, and parents may go round   *)
(* in a circle.                                                             *)
(***************************************************************************)
EXTENDS Lists, SequencesExt

CONSTANTS Ids,      \* the project's issues, numbers in the order of _row_key
          Outside   \* a parent that is none of them

ASSUME IssueTreeAssumption == IsFiniteSet(Ids) /\ Ids \subseteq Int

VARIABLES parentOf, \* parent_id of each issue
          inFlight, \* the issues whose status is started or unstarted
          roots,    \* the roots whose subtree is still to come, in order
          todo,     \* what _subtree still has to visit: rows, the next one first
          rows      \* the rows of the tree so far: an issue and its depth

treeVars == <<parentOf, inFlight, roots, todo, rows>>

\* The chain of parents that _has_in_flight_ancestor walks, until it leaves the
\* project or comes to an issue it has seen.
Above(i) ==
    LET f[n \in 0 .. Cardinality(Ids)] ==
            IF n = 0 THEN {parentOf[i]} ELSE f[n - 1] \cup {parentOf[j] : j \in f[n - 1] \cap Ids}
    IN f[Cardinality(Ids)] \cap Ids

\* Bug: only the parent is looked at.
HasInFlightParent(i) == parentOf[i] \in inFlight

HasInFlightAncestor(i) == Above(i) \cap inFlight # {}
Roots == {i \in inFlight : ~HasInFlightAncestor(i)}

\* Siblings are sorted by _row_key.
Sorted(issues) == SortedBy(SetToSeq(issues), SetToSeq(issues))
Children(i) == Sorted({j \in Ids : parentOf[j] = i})

Row(i, depth) == [issue |-> i, depth |-> depth]
RowsAt(issues, depth) == [n \in DOMAIN issues |-> Row(issues[n], depth)]

IssueTreeInit ==
    /\ parentOf \in [Ids -> Ids \cup {Outside}]
    /\ inFlight \in SUBSET Ids
    /\ roots = Sorted(Roots)
    /\ todo = <<>> /\ rows = <<>>

\* issue_tree goes on with the next root.
NextRoot ==
    /\ todo = <<>> /\ roots # <<>>
    /\ todo' = <<Row(Head(roots), 0)>>
    /\ roots' = Tail(roots)
    /\ UNCHANGED <<parentOf, inFlight, rows>>

\* _subtree puts a row down, and what is below it before its siblings.
NextRow ==
    /\ todo # <<>>
    /\ rows' = Append(rows, Head(todo))
    /\ todo' = RowsAt(Children(Head(todo).issue), Head(todo).depth + 1) \o Tail(todo)
    /\ UNCHANGED <<parentOf, inFlight, roots>>

IssueTreeNext == NextRoot \/ NextRow

-----------------------------------------------------------------------------
\* The ancestors of an issue go round in a circle that has an in-flight issue.
UnderALoop(i) == \E j \in Above(i) \cup {i} : j \in Above(j) /\ (Above(j) \cap inFlight # {})

\* No issue has two rows, so the recursion ends whatever circles the parents make;
\* and when it has ended an issue is shown if it is in flight or below one that is,
\* unless its parents go round in a circle of issues in flight: those have no root.
TreeShowsTheInFlight ==
    /\ \A m, n \in DOMAIN rows : m # n => rows[m].issue # rows[n].issue
    /\ roots = <<>> /\ todo = <<>> =>
          \A i \in Ids :
             (\E n \in DOMAIN rows : rows[n].issue = i)
                <=> /\ i \in inFlight \/ HasInFlightAncestor(i)
                    /\ ~UnderALoop(i)

\* A row below the first of its root comes after its parent's, one deeper, and no
\* row between the two is as shallow as the parent: the branches drawn in front of
\* the rows lead to it.
RowsHangFromTheirParents ==
    \A n \in DOMAIN rows : rows[n].depth > 0 =>
        \E m \in 1 .. n - 1 :
            /\ rows[m] = Row(parentOf[rows[n].issue], rows[n].depth - 1)
            /\ \A k \in m + 1 .. n - 1 : rows[k].depth > rows[m].depth

\* The tree shows what is in flight and what is below it, each issue once and under
\* its parent, whatever parents Linear sends.
TreeIsWhole == TreeShowsTheInFlight /\ RowsHangFromTheirParents
=============================================================================
