-------------------------------- MODULE Lists --------------------------------
(***************************************************************************)
(* Two things the program does with a list: it keeps the entries that pass  *)
(* a test, in their order (a comprehension, or a loop with `continue'), and *)
(* it sorts them (list.sort, sorted), which keeps entries with equal keys   *)
(* as they were.  SelectSeq and SortSeq do the same for TLC; these two are  *)
(* written out so that proofs can look into them, and the sort is stable.   *)
(***************************************************************************)
EXTENDS Integers, Sequences, FiniteSets

\* The entries of the list that are in `ids'.
Kept(list, ids) ==
    LET kept[n \in 0 .. Len(list)] ==
            IF n = 0 THEN <<>>
            ELSE IF list[n] \in ids THEN Append(kept[n - 1], list[n]) ELSE kept[n - 1]
    IN kept[Len(list)]

\* keys[i] is the key of list[i].
Earlier(keys, i, j) == keys[i] < keys[j] \/ (keys[i] = keys[j] /\ i < j)
SortedBy(list, keys) ==
    [n \in 1 .. Len(list) |->
        list[CHOOSE i \in 1 .. Len(list) :
                Cardinality({j \in 1 .. Len(list) : Earlier(keys, j, i)}) = n - 1]]
=============================================================================
