------------------------------ MODULE PageStack ------------------------------
(***************************************************************************)
(* What the pages of the Linear tab promise (integrations/linear): pages    *)
(* open on top of one another, each has a place of its own, and a page that *)
(* is returned to is as it was left.                                        *)
(***************************************************************************)
EXTENDS Integers, Sequences

CONSTANT Items       \* what a page can show

VARIABLE stack       \* the open pages, the one in front last: an item, the cursor
                     \*   of its list, and whether that list is shown

Page == [item : Items, cursor : Nat, list : BOOLEAN]

\* A page as it is when it is opened.
Fresh(item) == [item |-> item, cursor |-> 0, list |-> FALSE]

\* The first n pages stay as they are.
Stay(n) == \A i \in 1 .. n : stack'[i] = stack[i]

StackInit == stack = <<>>

\* The place of the page in front changes, of no other.
Read ==
    /\ stack # <<>>
    /\ stack' \in Seq(Page) /\ Len(stack') = Len(stack)
    /\ stack'[Len(stack)].item = stack[Len(stack)].item
    /\ Stay(Len(stack) - 1)

\* A page opens on top of the one in front, which is left where the reader was.
Enter ==
    /\ stack' \in Seq(Page) /\ Len(stack') = Len(stack) + 1
    /\ \E item \in Items : stack'[Len(stack) + 1] = Fresh(item)
    /\ stack # <<>> => stack'[Len(stack)].item = stack[Len(stack)].item
    /\ Stay(Len(stack) - 1)

\* Pages are left until one of those below is in front, or the list they came from.
Leave ==
    \E n \in 0 .. Len(stack) - 1 :
        /\ stack' \in Seq(Page) /\ Len(stack') = n
        /\ Stay(n)

StackNext == Read \/ Enter \/ Leave

StackSpec == StackInit /\ [][StackNext]_stack
=============================================================================
