---------------------------- MODULE MCPushedTiers ----------------------------
(* PushedTiers for TLC: two repositories and one worker, or one repository    *)
(* and two workers whose refreshes overlap.                                   *)
EXTENDS PushedTiers, TLC

MCInit ==
    /\ Init
    /\ \E w \in Workers : pc[w] = "idle"
    /\ \E r \in Repos : pushed[r] # None
    /\ \/ pushed[N] = None
       \/ \E w \in Workers : pc[w] = "off"

MCSpec == MCInit /\ [][Next]_vars /\ Fairness
=============================================================================
