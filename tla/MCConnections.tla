---------------------------- MODULE MCConnections ----------------------------
(* Connections on a few integrations and CLI processes for TLC. *)
EXTENDS Connections, TLC

\* Integrations and CLI processes are interchangeable: no action names one.
Interchangeable == Permutations(Ids) \cup Permutations(Commands)
=============================================================================
