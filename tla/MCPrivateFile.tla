---------------------------- MODULE MCPrivateFile ----------------------------
(* PrivateFile on a few writers, readers, payloads and inodes for TLC: the    *)
(* callers as the .cfg gives them, or callers without a lock whose calls do   *)
(* not fail.  The initial state picks which of the two moves.                 *)
EXTENDS PrivateFile, TLC

VARIABLES part, freeTarget, freeTemporary, freeContent, freePc, freeData,
          freeDescriptor, freeLock, freeOpened

freeVars == <<freeTarget, freeTemporary, freeContent, freePc, freeData,
              freeDescriptor, freeLock, freeOpened>>

Unlocked == INSTANCE PrivateFile WITH
    Locked <- FALSE, Faults <- FALSE,
    target <- freeTarget, temporary <- freeTemporary, content <- freeContent,
    pc <- freePc, data <- freeData, descriptor <- freeDescriptor,
    lock <- freeLock, opened <- freeOpened

\* The part that stays still has neither a file nor a temporary.
MCInit ==
    \/ /\ part = "callers"
       /\ freeTarget = None /\ freeTemporary = None /\ freeContent = [i \in Inodes |-> Partial]
       /\ Init /\ Unlocked!Init
    \/ /\ part = "unlocked"
       /\ target = None /\ temporary = None /\ content = [i \in Inodes |-> Partial]
       /\ Init /\ Unlocked!Init

MCNext ==
    /\ part' = part
    /\ \/ part = "callers" /\ Next /\ UNCHANGED freeVars
       \/ part = "unlocked" /\ Unlocked!Next /\ UNCHANGED vars

MCSpec == MCInit /\ [][MCNext]_<<vars, freeVars, part>>

\* Even callers without a lock leave a whole file behind when no call fails:
\* a torn file is one that some call is still filling.
UnlockedTornOnlyWhileWriting == Unlocked!TornOnlyWhileWriting

\* Inodes and payloads are interchangeable: no action names one.
Interchangeable == Permutations(Inodes) \cup Permutations(Values)

=============================================================================
