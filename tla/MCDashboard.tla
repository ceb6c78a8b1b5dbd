----------------------------- MODULE MCDashboard -----------------------------
(* Dashboard on a few tabs, panels and fetch workers for TLC. *)
EXTENDS Dashboard, TLC

\* Worker threads and panel objects are interchangeable: no action names one.
Interchangeable == Permutations(Workers) \cup Permutations(Panels)
=============================================================================
