--------------------------- MODULE MCTokenRefresh ---------------------------
(* TokenRefresh on a few integrations and worker threads for TLC. *)
EXTENDS TokenRefresh, TLC

\* Worker threads are interchangeable: no action names one.
WorkersAreAlike == Permutations(Workers)
=============================================================================
