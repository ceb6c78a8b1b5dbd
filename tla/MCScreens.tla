------------------------------ MODULE MCScreens ------------------------------
(* What is on screen, for TLC: each part by itself.  The initial state picks  *)
(* the part that moves, and the others stay as they are.                      *)
EXTENDS DetailCache, LinearPages, LinearMenu, GitHubScreens, TabOrder, TLC

VARIABLE part

screenVars == <<vars, pageVars, menuVars, gh, tabVars, part>>

MCIssueLists == {<<>>, <<"i1">>, <<"i1", "i2">>}
MCProjectLists == {<<>>, <<"p1", "p2">>}
MCTreeLists == {<<>>, <<"i1", "i2">>}
MCTargetLists == {<<>>, <<"i2">>, <<"i1", "i2">>}

MCMaxVersion == [i \in Tracked |-> IF i = "a" THEN 2 ELSE 1]

MCInboxes == {<<"p1">>, <<"p2", "p1">>}
MCMaxLoads == [page |-> 1, diff |-> 2]

MCInit ==
    /\ part \in {"details", "pages", "menu", "github", "tabs"}
    /\ Init /\ LinearPagesInit /\ GitHubScreensInit
    /\ LinearMenuInit /\ (part # "menu" => stamp = [i \in Tracked |-> 0])
    /\ TabOrderInit /\ (part # "tabs" => config = <<>>)

MCNext ==
    /\ part' = part
    /\ \/ /\ part = "details" /\ Next
          /\ UNCHANGED <<pageVars, menuVars, gh, tabVars>>
       \/ /\ part = "pages" /\ LinearPagesNext
          /\ UNCHANGED <<vars, menuVars, gh, tabVars>>
       \/ /\ part = "menu" /\ LinearMenuNext
          /\ UNCHANGED <<vars, pageVars, gh, tabVars>>
       \/ /\ part = "github" /\ GitHubScreensNext
          /\ UNCHANGED <<vars, pageVars, menuVars, tabVars>>
       \/ /\ part = "tabs" /\ TabOrderNext
          /\ UNCHANGED <<vars, pageVars, menuVars, gh>>

MCSpec == MCInit /\ [][MCNext]_screenVars /\ Fairness
=============================================================================
