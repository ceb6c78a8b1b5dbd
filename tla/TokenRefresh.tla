---------------------------- MODULE TokenRefresh ----------------------------
(***************************************************************************)
(* auth/refresh.py's fresh_credentials as fetch workers run it, one worker *)
(* thread per fetch, over auth/store.py's credential store and a token     *)
(* endpoint that may rotate refresh tokens: each refresh spends the token  *)
(* it presents.  One outsider at a time stores a new login or removes the  *)
(* integration; neither takes the refresh lock.                            *)
(*                                                                         *)
(* A credential is the number under which the provider issued it.          *)
(***************************************************************************)
EXTENDS Integers, FiniteSets

CONSTANTS
    Ids,        \* integrations
    Workers,    \* worker threads, each running one fetch
    Refreshable,\* integrations with a refresh token and a client id
    Rotating,   \* integrations whose provider rotates refresh tokens
    PerEntry,   \* TRUE: keychain, one entry per integration; FALSE: one JSON file
    Outsiders,  \* may a login be stored, or an integration removed, meanwhile?
    Faults,     \* may calls fail and the process die?
    MaxToken,   \* bound: credentials issued per integration
    None

ASSUME SetsAssumption == Refreshable \subseteq Ids /\ Rotating \subseteq Ids
ASSUME NoneAssumption == None \notin Ids \cup Workers \cup Nat
ASSUME FlagsAssumption ==
    PerEntry \in BOOLEAN /\ Outsiders \in BOOLEAN /\ Faults \in BOOLEAN
ASSUME MaxAssumption == MaxToken \in Nat \ {0}

VARIABLES
    store,      \* store[i]: the stored credential of i, or None
    issued,     \* issued[i]: how many credentials the provider has issued
    spent,      \* spent[i]: credentials whose refresh token a refresh used up
    expired,    \* expired[i]: credentials expired or within EXPIRY_MARGIN of it
    lock,       \* lock[i]: the holder of _locks[i], or None
    pc,         \* pc[w]: where worker w is in fresh_credentials
    target,     \* target[w]: the integration w fetches, or None
    held,       \* held[w]: the credential in w's local variable, or None
    payload,    \* payload[w]: what w's read-modify-write of the store has read
    outsider,   \* where the login or removal under way is
    subject,    \* the integration it is about, or None
    login,      \* the credential it is to store; None for a removal
    draft,      \* what its read-modify-write of the store has read
    logins,     \* logins[i]: credentials issued by a login, after the first
    removed,    \* removed[i]: i was removed when no refresh of it was past its
                \* second look, and no login came since
    spoiled     \* spoiled[i]: a rotated token was lost before it was stored

providerVars == <<issued, spent, expired>>
workerVars == <<pc, target, held, payload>>
outsiderVars == <<outsider, subject, login, draft, logins>>
vars == <<store, providerVars, lock, workerVars, outsiderVars, removed, spoiled>>

Token == 1..MaxToken
Stored == Token \cup {None}
Payload == [Ids -> Stored]
Nothing == [i \in Ids |-> None]

\* Inside the with block, and in the part of it that has a token to store.
Locked == {"recheck", "post", "read", "write"}
Storing == {"read", "write"}
Refreshing == {"post"} \cup Storing
PCs == {"idle", "get", "lock", "done"} \cup Locked

TypeOK ==
    /\ store \in Payload
    /\ issued \in [Ids -> Token]
    /\ spent \in [Ids -> SUBSET Token]
    /\ expired \in [Ids -> SUBSET Token]
    /\ lock \in [Ids -> Workers \cup {None}]
    /\ pc \in [Workers -> PCs]
    /\ target \in [Workers -> Ids \cup {None}]
    /\ held \in [Workers -> Stored]
    /\ payload \in [Workers -> Payload]
    /\ outsider \in {"idle", "revoke", "read", "write"}
    /\ subject \in Ids \cup {None}
    /\ login \in Stored
    /\ draft \in Payload
    /\ logins \in [Ids -> Nat]
    /\ removed \in [Ids -> BOOLEAN]
    /\ spoiled \in [Ids -> BOOLEAN]
    /\ \A w \in Workers : target[w] = None <=> pc[w] \in {"idle", "done"}
    /\ \A w \in Workers : pc[w] \in {"post", "read", "write"} => held[w] # None
    /\ subject = None <=> outsider = "idle"

\* Every integration is connected with the first credential of its login.
Init ==
    /\ store = [i \in Ids |-> 1]
    /\ issued = [i \in Ids |-> 1]
    /\ spent = [i \in Ids |-> {}]
    /\ expired = [i \in Ids |-> {}]
    /\ lock = [i \in Ids |-> None]
    /\ pc = [w \in Workers |-> "idle"]
    /\ target = [w \in Workers |-> None]
    /\ held = [w \in Workers |-> None]
    /\ payload = [w \in Workers |-> Nothing]
    /\ outsider = "idle" /\ subject = None /\ login = None /\ draft = Nothing
    /\ logins = [i \in Ids |-> 0]
    /\ removed = [i \in Ids |-> FALSE]
    /\ spoiled = [i \in Ids |-> FALSE]

-----------------------------------------------------------------------------
(* The store *)

Expiring(i, t) == t \in expired[i]

\* The payload a read-modify-write starts from; the keychain has none.
ReadPayload == IF PerEntry THEN Nothing ELSE store

\* What set_credentials and delete_credentials leave in the store: the
\* keychain replaces one entry, _FileStore writes back the payload it read.
Updated(read, i, t) == [(IF PerEntry THEN store ELSE read) EXCEPT ![i] = t]

\* Time passes.  The last credential of the bound never expires.
Expire(i) ==
    /\ \E t \in 1..issued[i] :
        /\ t < MaxToken
        /\ ~ Expiring(i, t)
        /\ expired' = [expired EXCEPT ![i] = @ \cup {t}]
    /\ UNCHANGED <<store, issued, spent, lock, workerVars, outsiderVars, removed, spoiled>>

-----------------------------------------------------------------------------
(* A fetch worker *)

Start(w, i) ==
    /\ pc[w] = "idle"
    /\ pc' = [pc EXCEPT ![w] = "get"]
    /\ target' = [target EXCEPT ![w] = i]
    /\ UNCHANGED <<store, providerVars, lock, held, payload, outsiderVars, removed, spoiled>>

\* fresh_credentials returns or raises: the fetch goes on without it.
Finish(w) ==
    /\ pc' = [pc EXCEPT ![w] = "done"]
    /\ target' = [target EXCEPT ![w] = None]
    /\ held' = [held EXCEPT ![w] = None]
    /\ payload' = [payload EXCEPT ![w] = Nothing]

\* The first, unlocked look: not connected, fresh or not refreshable returns.
Get(w) ==
    LET i == target[w]
        t == store[i]
    IN  /\ pc[w] = "get"
        /\ IF t # None /\ Expiring(i, t) /\ i \in Refreshable
             THEN /\ pc' = [pc EXCEPT ![w] = "lock"]
                  /\ held' = [held EXCEPT ![w] = t]
                  /\ UNCHANGED <<target, payload>>
             ELSE Finish(w)
        /\ UNCHANGED <<store, providerVars, lock, outsiderVars, removed, spoiled>>

Acquire(w) ==
    /\ pc[w] = "lock"
    /\ lock[target[w]] = None
    /\ lock' = [lock EXCEPT ![target[w]] = w]
    /\ pc' = [pc EXCEPT ![w] = "recheck"]
    /\ UNCHANGED <<store, providerVars, target, held, payload, outsiderVars, removed, spoiled>>

\* Leaving the with block, by a return or by an exception.
Release(w) == lock' = [lock EXCEPT ![target[w]] = None]

\* Bug: no second look; the credential of the first one is refreshed.
RecheckSkipped(w) ==
    /\ pc[w] = "recheck"
    /\ pc' = [pc EXCEPT ![w] = "post"]
    /\ UNCHANGED <<store, providerVars, lock, target, held, payload, outsiderVars, removed,
                   spoiled>>

\* Bug: the second look does not ask whether the credential still expires.
RecheckPresence(w) ==
    LET t == store[target[w]]
    IN  /\ pc[w] = "recheck"
        /\ IF t # None
             THEN /\ pc' = [pc EXCEPT ![w] = "post"]
                  /\ held' = [held EXCEPT ![w] = t]
                  /\ UNCHANGED <<target, payload, lock>>
             ELSE Finish(w) /\ Release(w)
        /\ UNCHANGED <<store, providerVars, outsiderVars, removed, spoiled>>

\* The second look, under the lock: another worker may have refreshed.
Recheck(w) ==
    LET i == target[w]
        t == store[i]
    IN  /\ pc[w] = "recheck"
        /\ IF t # None /\ Expiring(i, t)
             THEN /\ pc' = [pc EXCEPT ![w] = "post"]
                  /\ held' = [held EXCEPT ![w] = t]
                  /\ UNCHANGED <<target, payload, lock>>
             ELSE Finish(w) /\ Release(w)
        /\ UNCHANGED <<store, providerVars, outsiderVars, removed, spoiled>>

\* The token endpoint issues the next credential for refresh token t of i.
Issue(i, t) ==
    /\ t \notin spent[i]
    /\ issued[i] < MaxToken
    /\ issued' = [issued EXCEPT ![i] = @ + 1]
    /\ spent' = IF i \in Rotating THEN [spent EXCEPT ![i] = @ \cup {t}] ELSE spent
    /\ UNCHANGED expired

\* The provider accepts the refresh token and the response arrives.
Refreshed(w) ==
    /\ pc[w] = "post"
    /\ Issue(target[w], held[w])
    /\ pc' = [pc EXCEPT ![w] = "read"]
    /\ held' = [held EXCEPT ![w] = issued[target[w]] + 1]
    /\ UNCHANGED <<store, lock, target, payload, outsiderVars, removed, spoiled>>

\* Bug: a refused refresh is tried again from the start.
RefusedRetries(w) ==
    /\ pc[w] = "post"
    /\ pc' = [pc EXCEPT ![w] = "get"]
    /\ Release(w)
    /\ UNCHANGED <<store, providerVars, target, held, payload, outsiderVars, removed, spoiled>>

\* A spent or revoked token, a discovery or a network that fails: OAuthError,
\* raised as AuthExpired.
Refused(w) ==
    /\ pc[w] = "post"
    /\ Finish(w)
    /\ Release(w)
    /\ UNCHANGED <<store, providerVars, outsiderVars, removed, spoiled>>

\* The provider rotates, but the response is lost: OAuthError as well.
ResponseLost(w) ==
    /\ Faults
    /\ pc[w] = "post"
    /\ Issue(target[w], held[w])
    /\ spoiled' = [spoiled EXCEPT ![target[w]] = TRUE]
    /\ Finish(w)
    /\ Release(w)
    /\ UNCHANGED <<store, outsiderVars, removed>>

\* set_credentials, first half: _FileStore.set reads the payload.
PersistRead(w) ==
    /\ pc[w] = "read"
    /\ pc' = [pc EXCEPT ![w] = "write"]
    /\ payload' = [payload EXCEPT ![w] = ReadPayload]
    /\ UNCHANGED <<store, providerVars, lock, target, held, outsiderVars, removed, spoiled>>

\* Bug: the new credential is returned but not stored.
PersistSkipped(w) ==
    /\ pc[w] = "write"
    /\ Finish(w)
    /\ Release(w)
    /\ UNCHANGED <<store, providerVars, outsiderVars, removed, spoiled>>

\* Second half: the new credential is stored and returned, the lock released.
PersistWrite(w) ==
    /\ pc[w] = "write"
    /\ store' = Updated(payload[w], target[w], held[w])
    /\ Finish(w)
    /\ Release(w)
    /\ UNCHANGED <<providerVars, outsiderVars, removed, spoiled>>

\* get_credentials raises CredentialStoreError.
GetFails(w) ==
    /\ Faults
    /\ pc[w] \in {"get", "recheck"}
    /\ Finish(w)
    /\ IF pc[w] = "recheck" THEN Release(w) ELSE UNCHANGED lock
    /\ UNCHANGED <<store, providerVars, outsiderVars, removed, spoiled>>

\* set_credentials raises CredentialStoreError: the new token is lost.
PersistFails(w) ==
    /\ Faults
    /\ pc[w] \in Storing
    /\ spoiled' = [spoiled EXCEPT ![target[w]] = TRUE]
    /\ Finish(w)
    /\ Release(w)
    /\ UNCHANGED <<store, providerVars, outsiderVars, removed>>

\* The process dies and is started again; the locks are in its memory only.
Crash ==
    /\ Faults
    /\ pc' = [w \in Workers |-> "idle"]
    /\ target' = [w \in Workers |-> None]
    /\ held' = [w \in Workers |-> None]
    /\ payload' = [w \in Workers |-> Nothing]
    /\ lock' = [i \in Ids |-> None]
    /\ spoiled' = [i \in Ids |->
          spoiled[i] \/ \E w \in Workers : target[w] = i /\ pc[w] \in Storing]
    /\ UNCHANGED <<store, providerVars, outsiderVars, removed>>

-----------------------------------------------------------------------------
(* The outsider: a login or a removal, in this process or in the CLI's *)

\* perform_login returned a new grant; open_tab_for or _connect stores it.
LoginDone(i) ==
    /\ Outsiders
    /\ outsider = "idle"
    /\ issued[i] < MaxToken
    /\ issued' = [issued EXCEPT ![i] = @ + 1]
    /\ outsider' = "read"
    /\ subject' = i
    /\ login' = issued[i] + 1
    /\ logins' = [logins EXCEPT ![i] = @ + 1]
    /\ removed' = [removed EXCEPT ![i] = FALSE]
    /\ UNCHANGED <<store, spent, expired, lock, workerVars, draft, spoiled>>

\* remove_integration has read the credentials and goes to revoke them.
RemoveStart(i) ==
    /\ Outsiders
    /\ outsider = "idle"
    /\ outsider' = "revoke"
    /\ subject' = i
    /\ UNCHANGED <<store, providerVars, lock, workerVars, login, draft, logins, removed, spoiled>>

\* revoke_best_effort: whatever the provider answers, deletion goes on.
Revoke ==
    /\ outsider = "revoke"
    /\ outsider' = "read"
    /\ UNCHANGED <<store, providerVars, lock,
                   workerVars, subject, login, draft, logins, removed, spoiled>>

OutsiderRead ==
    /\ outsider = "read"
    /\ outsider' = "write"
    /\ draft' = ReadPayload
    /\ UNCHANGED <<store, providerVars, lock, workerVars, subject, login, logins, removed, spoiled>>

OutsiderEnds == outsider' = "idle" /\ subject' = None /\ login' = None /\ draft' = Nothing

\* set_credentials of the login, or delete_credentials (login is None).
OutsiderWrite ==
    /\ outsider = "write"
    /\ store' = Updated(draft, subject, login)
    /\ removed' = [removed EXCEPT ![subject] =
          login = None /\ \A w \in Workers : target[w] = subject => pc[w] \notin Refreshing]
    /\ OutsiderEnds
    /\ UNCHANGED <<providerVars, lock, workerVars, logins, spoiled>>

\* CredentialStoreError: the removal stops, the login is given up.
OutsiderFails ==
    /\ Faults
    /\ outsider \in {"read", "write"}
    /\ OutsiderEnds
    /\ UNCHANGED <<store, providerVars, lock, workerVars, logins, removed, spoiled>>

-----------------------------------------------------------------------------

WorkerStep(w) ==
    \/ Get(w)
    \/ Acquire(w)
    \/ Recheck(w)
    \/ Refreshed(w)
    \/ Refused(w)
    \/ ResponseLost(w)
    \/ PersistRead(w)
    \/ PersistWrite(w)
    \/ GetFails(w)
    \/ PersistFails(w)

OutsiderStep ==
    \/ \E i \in Ids : LoginDone(i) \/ RemoveStart(i)
    \/ Revoke
    \/ OutsiderRead
    \/ OutsiderWrite
    \/ OutsiderFails

Next ==
    \/ \E w \in Workers : WorkerStep(w) \/ \E i \in Ids : Start(w, i)
    \/ \E i \in Ids : Expire(i)
    \/ OutsiderStep
    \/ Crash

\* A thread that can run does run; no fetch is obliged to start and nothing is
\* obliged to fail.
Fairness == \A w \in Workers : WF_vars(WorkerStep(w))

Spec == Init /\ [][Next]_vars
FairSpec == Spec /\ Fairness

-----------------------------------------------------------------------------
(* Properties *)

\* "The lock is what makes two tabs' concurrent refreshes safe": unless a
\* rotated token was lost on its way to the store, no refresh presents a
\* refresh token that an earlier one used up.
NeverReplays ==
    \A w \in Workers :
        pc[w] = "post" /\ ~ spoiled[target[w]] => held[w] \notin spent[target[w]]

\* Whenever no refresh of it is under way, the stored credential is one that
\* can still be refreshed.
StoredIsLive ==
    \A i \in Ids : ~ spoiled[i] /\ lock[i] = None => store[i] \notin spent[i]

\* "The others block, re-read the store, and find fresh credentials already
\* there": however many fetches meet an expiring credential, one refreshes it.
RefreshedOnce ==
    \A i \in Ids : ~ spoiled[i] =>
        issued[i] <= 1 + logins[i] + Cardinality(expired[i])

\* The lock of an integration is held by exactly the one worker that is
\* between its acquisition and its release, whichever way it leaves.
HeldByOne ==
    /\ \A w \in Workers : pc[w] \in Locked => lock[target[w]] = w
    /\ \A i \in Ids : lock[i] # None =>
          pc[lock[i]] \in Locked /\ target[lock[i]] = i

\* "Remove every trace of an integration": once removed, no credential of it
\* is stored until the next login, unless a refresh had taken its second look
\* at the store before it was removed.  Whoever waits for the lock meanwhile,
\* or starts later with what it read before, brings nothing back.
StaysRemoved == \A i \in Ids : removed[i] => store[i] = None

\* No fetch is left waiting for a lock that nobody will release: every call
\* returns, raises, or dies with the process.
EveryCallEnds ==
    \A w \in Workers : pc[w] = "get" ~> pc[w] \in {"done", "idle"}

=============================================================================
