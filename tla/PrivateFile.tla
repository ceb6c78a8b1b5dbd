----------------------------- MODULE PrivateFile -----------------------------
(***************************************************************************)
(* core/config.py's write_private_file, one action per system call it      *)
(* makes, and the read_text of the files it writes.  The temporary has ONE *)
(* name per file, path + ".tmp", so two calls that write the same file at  *)
(* once work on the same directory entry.                                  *)
(*                                                                         *)
(* Directory entries (target, temporary) point to inodes; a descriptor or  *)
(* an open file keeps its inode whatever happens to the entry.             *)
(*                                                                         *)
(* Callers: SeenState.save, save_config, _FileStore._write (no lock) and   *)
(* ActivityCache.save (under the module lock _LOCK): CONSTANT Locked.      *)
(***************************************************************************)
CONSTANTS
    Writers,    \* threads or processes that may call write_private_file
    Readers,    \* threads or processes that may read the file
    Values,     \* payloads
    Inodes,     \* inodes of the directory's filesystem
    None,
    Partial,    \* content of an inode whose payload is not all written
    Locked,     \* do the callers hold one lock around the call?
    Faults      \* may a system call fail, may the process die?

ASSUME NoneAssumption == None \notin Values \cup Inodes \cup Writers
ASSUME PartialAssumption == Partial \notin Values \cup {None}
ASSUME FlagsAssumption == Locked \in BOOLEAN /\ Faults \in BOOLEAN

VARIABLES
    target,     \* the inode the file's name points to, or None
    temporary,  \* the inode the ".tmp" name points to, or None
    content,    \* content[i]: the payload in inode i, or Partial
    pc,         \* pc[w]: the next system call of w
    data,       \* data[w]: the payload w was called with, None when idle
    descriptor, \* descriptor[w]: the inode w has open for writing, or None
    lock,       \* the holder of the callers' lock, or None
    opened      \* opened[r]: the inode r has open for reading, or None

vars == <<target, temporary, content, pc, data, descriptor, lock, opened>>

PCs == {"idle", "unlink", "open", "write", "cleanup", "replace"}

TypeOK ==
    /\ target \in Inodes \cup {None}
    /\ temporary \in Inodes \cup {None}
    /\ content \in [Inodes -> Values \cup {Partial}]
    /\ pc \in [Writers -> PCs]
    /\ data \in [Writers -> Values \cup {None}]
    /\ descriptor \in [Writers -> Inodes \cup {None}]
    /\ lock \in Writers \cup {None}
    /\ opened \in [Readers -> Inodes \cup {None}]
    /\ \A w \in Writers : (data[w] = None) <=> (pc[w] = "idle")
    /\ \A w \in Writers : (descriptor[w] # None) <=> (pc[w] = "write")

\* The program starts with whatever the last run left: a complete file or
\* none, and perhaps the temporary of a write that died half way.
Init ==
    /\ target \in Inodes \cup {None}
    /\ temporary \in Inodes \cup {None}
    /\ content \in [Inodes -> Values \cup {Partial}]
    /\ target # None => target # temporary /\ content[target] # Partial
    /\ pc = [w \in Writers |-> "idle"]
    /\ data = [w \in Writers |-> None]
    /\ descriptor = [w \in Writers |-> None]
    /\ lock = None
    /\ opened = [r \in Readers |-> None]

-----------------------------------------------------------------------------
(* The writer *)

\* Bug: the call does not wait for the callers' lock.
BeginUnlocked(w) ==
    /\ pc[w] = "idle"
    /\ lock' = IF Locked THEN w ELSE lock
    /\ pc' = [pc EXCEPT ![w] = "unlink"]
    /\ \E v \in Values : data' = [data EXCEPT ![w] = v]
    /\ UNCHANGED <<target, temporary, content, descriptor, opened>>

Begin(w) ==
    /\ pc[w] = "idle"
    /\ Locked => lock = None
    /\ lock' = IF Locked THEN w ELSE lock
    /\ pc' = [pc EXCEPT ![w] = "unlink"]
    /\ \E v \in Values : data' = [data EXCEPT ![w] = v]
    /\ UNCHANGED <<target, temporary, content, descriptor, opened>>

\* The call returns or raises; a caller's lock is released either way.
Return(w) ==
    /\ pc' = [pc EXCEPT ![w] = "idle"]
    /\ data' = [data EXCEPT ![w] = None]
    /\ descriptor' = [descriptor EXCEPT ![w] = None]
    /\ lock' = IF Locked THEN None ELSE lock

\* temporary.unlink(missing_ok=True)
Unlink(w) ==
    /\ pc[w] = "unlink"
    /\ temporary' = None
    /\ pc' = [pc EXCEPT ![w] = "open"]
    /\ UNCHANGED <<target, content, data, descriptor, lock, opened>>

Free(i) ==
    /\ i # target
    /\ i # temporary
    /\ \A w \in Writers : i # descriptor[w]
    /\ \A r \in Readers : i # opened[r]

\* os.open(..., O_WRONLY | O_CREAT | O_EXCL): a new, empty inode.
OpenExclusive(w) ==
    /\ pc[w] = "open"
    /\ temporary = None
    /\ \E i \in Inodes :
        /\ Free(i)
        /\ temporary' = i
        /\ descriptor' = [descriptor EXCEPT ![w] = i]
        /\ content' = [content EXCEPT ![i] = Partial]
    /\ pc' = [pc EXCEPT ![w] = "write"]
    /\ UNCHANGED <<target, data, lock, opened>>

\* O_EXCL finds the name taken: FileExistsError, raised to the caller.
OpenFindsOther(w) ==
    /\ pc[w] = "open"
    /\ temporary # None
    /\ Return(w)
    /\ UNCHANGED <<target, temporary, content, opened>>

\* Bug: the handle is not flushed before the rename.
WriteUnflushed(w) ==
    /\ pc[w] = "write"
    /\ descriptor' = [descriptor EXCEPT ![w] = None]
    /\ pc' = [pc EXCEPT ![w] = "replace"]
    /\ UNCHANGED <<target, temporary, content, data, lock, opened>>

\* fchmod, write, close: the payload is all in the inode w has open.
Write(w) ==
    /\ pc[w] = "write"
    /\ content' = [content EXCEPT ![descriptor[w]] = data[w]]
    /\ descriptor' = [descriptor EXCEPT ![w] = None]
    /\ pc' = [pc EXCEPT ![w] = "replace"]
    /\ UNCHANGED <<target, temporary, data, lock, opened>>

\* temporary.replace(path): rename(2) of whatever the temporary name is now.
Replace(w) ==
    /\ pc[w] = "replace"
    /\ temporary # None
    /\ target' = temporary
    /\ temporary' = None
    /\ Return(w)
    /\ UNCHANGED <<content, opened>>

\* The temporary is gone: FileNotFoundError, raised to the caller.
ReplaceFindsNone(w) ==
    /\ pc[w] = "replace"
    /\ temporary = None
    /\ Return(w)
    /\ UNCHANGED <<target, temporary, content, opened>>

-----------------------------------------------------------------------------
(* Faults *)

\* unlink, open or replace raises OSError: outside the try, nothing undone.
CallFails(w) ==
    /\ Faults
    /\ pc[w] \in {"unlink", "open", "replace"}
    /\ Return(w)
    /\ UNCHANGED <<target, temporary, content, opened>>

\* Bug: the failure is swallowed and the rename goes on.
WriteFailsSilently(w) ==
    /\ Faults
    /\ pc[w] = "write"
    /\ pc' = [pc EXCEPT ![w] = "replace"]
    /\ descriptor' = [descriptor EXCEPT ![w] = None]
    /\ UNCHANGED <<target, temporary, content, data, lock, opened>>

\* fchmod, write or close raises: the except clause takes over.
WriteFails(w) ==
    /\ Faults
    /\ pc[w] = "write"
    /\ pc' = [pc EXCEPT ![w] = "cleanup"]
    /\ descriptor' = [descriptor EXCEPT ![w] = None]
    /\ UNCHANGED <<target, temporary, content, data, lock, opened>>

\* temporary.unlink(missing_ok=True); raise
Cleanup(w) ==
    /\ pc[w] = "cleanup"
    /\ temporary' = None
    /\ Return(w)
    /\ UNCHANGED <<target, content, opened>>

\* The process dies between two system calls and its locks die with it.
Crash ==
    /\ Faults
    /\ pc' = [w \in Writers |-> "idle"]
    /\ data' = [w \in Writers |-> None]
    /\ descriptor' = [w \in Writers |-> None]
    /\ lock' = None
    /\ opened' = [r \in Readers |-> None]
    /\ UNCHANGED <<target, temporary, content>>

-----------------------------------------------------------------------------
(* The reader: path.read_text() opens the file, then reads that inode. *)

OpenRead(r) ==
    /\ opened[r] = None
    /\ target # None
    /\ opened' = [opened EXCEPT ![r] = target]
    /\ UNCHANGED <<target, temporary, content, pc, data, descriptor, lock>>

CloseRead(r) ==
    /\ opened[r] # None
    /\ opened' = [opened EXCEPT ![r] = None]
    /\ UNCHANGED <<target, temporary, content, pc, data, descriptor, lock>>

-----------------------------------------------------------------------------

WriterStep(w) ==
    \/ Begin(w)
    \/ Unlink(w)
    \/ OpenExclusive(w)
    \/ OpenFindsOther(w)
    \/ Write(w)
    \/ Replace(w)
    \/ ReplaceFindsNone(w)
    \/ CallFails(w)
    \/ WriteFails(w)
    \/ Cleanup(w)

ReaderStep(r) == OpenRead(r) \/ CloseRead(r)

Next ==
    \/ \E w \in Writers : WriterStep(w)
    \/ \E r \in Readers : ReaderStep(r)
    \/ Crash

Spec == Init /\ [][Next]_vars

-----------------------------------------------------------------------------
(* Properties *)

\* The callers that keep the promise: a lock around every call, or only one
\* caller at all.
Exclusive == Locked \/ \A v, w \in Writers : v = w

\* "Replace a file atomically": neither the file nor the copy a reader has
\* open is ever an inode whose payload is not complete.
NeverTorn ==
    /\ target # None => content[target] # Partial
    /\ \A r \in Readers : opened[r] # None => content[opened[r]] # Partial

\* The temporary name is the caller's own from the unlink to the rename: a
\* temporary left by a dead process is never in the way of O_EXCL, and what
\* is renamed is what this call wrote.
OwnTemporary ==
    \A w \in Writers :
        /\ pc[w] = "open" => temporary = None
        /\ pc[w] = "write" => temporary = descriptor[w]
        /\ pc[w] = "replace" => temporary # None /\ content[temporary] = data[w]

\* Even callers without a lock leave a whole file behind when no call fails:
\* a torn file is one that some call is still filling.
TornOnlyWhileWriting ==
    target # None /\ content[target] = Partial =>
        \E w \in Writers : pc[w] = "write" /\ descriptor[w] = target

\* An inode that has been published, or that a reader still has open, is
\* never written again.
Published(i) == i = target \/ \E r \in Readers : opened[r] = i
PublishedStays ==
    \A i \in Inodes : Published(i) /\ Published(i)' => content'[i] = content[i]
PublishedIsImmutable == [][PublishedStays]_vars

\* The abstract register this implements.
Abstract == INSTANCE AtomicFile WITH
    file <- IF target = None THEN None ELSE content[target],
    pending <- data,
    snapshot <- [r \in Readers |->
                    IF opened[r] = None THEN None ELSE content[opened[r]]]

\* A call of write_private_file is one atomic write of a register: every
\* system call is a stutter but the rename, which publishes this payload.
ImplementsAtomicFile == Abstract!Spec

=============================================================================
