----------------------------- MODULE AtomicFile -----------------------------
(***************************************************************************)
(* What the callers of core/config.py's write_private_file are promised: a *)
(* small file under the config directory behaves as an atomic register.  A *)
(* write is all or nothing, whatever fails on the way, and a reader that   *)
(* opened the file sees one complete value, however many writes follow.    *)
(***************************************************************************)
CONSTANTS
    Writers,    \* calls that may be writing this file
    Readers,    \* calls that may be reading it
    Values,     \* what a caller may write
    None        \* no file, no pending write, nothing opened

VARIABLES
    file,       \* the value of the file, None when there is no file
    pending,    \* pending[w]: the value w has asked to write and not settled
    snapshot    \* snapshot[r]: the value r opened

vars == <<file, pending, snapshot>>

Init ==
    /\ file \in Values \cup {None}
    /\ pending = [w \in Writers |-> None]
    /\ snapshot = [r \in Readers |-> None]

Begin(w) ==
    /\ pending[w] = None
    /\ \E v \in Values : pending' = [pending EXCEPT ![w] = v]
    /\ UNCHANGED <<file, snapshot>>

\* The write succeeds: the call returns and the file holds exactly its value.
Commit(w) ==
    /\ pending[w] # None
    /\ file' = pending[w]
    /\ pending' = [pending EXCEPT ![w] = None]
    /\ UNCHANGED snapshot

\* The write fails: the call raises and the file is what it was.
Abort(w) ==
    /\ pending[w] # None
    /\ pending' = [pending EXCEPT ![w] = None]
    /\ UNCHANGED <<file, snapshot>>

Open(r) ==
    /\ snapshot[r] = None
    /\ file # None
    /\ snapshot' = [snapshot EXCEPT ![r] = file]
    /\ UNCHANGED <<file, pending>>

Close(r) ==
    /\ snapshot[r] # None
    /\ snapshot' = [snapshot EXCEPT ![r] = None]
    /\ UNCHANGED <<file, pending>>

\* The process dies: what was pending never happened, the file survives.
Crash ==
    /\ pending' = [w \in Writers |-> None]
    /\ snapshot' = [r \in Readers |-> None]
    /\ UNCHANGED file

Next ==
    \/ \E w \in Writers : Begin(w) \/ Commit(w) \/ Abort(w)
    \/ \E r \in Readers : Open(r) \/ Close(r)
    \/ Crash

Spec == Init /\ [][Next]_vars

=============================================================================
