------------------------------- MODULE MCLogin -------------------------------
(* Login with a few logins at one port for TLC. *)
EXTENDS Login
=============================================================================
