-------------------------- MODULE TokenRefreshProofs --------------------------
(***************************************************************************)
(* What the refresh lock buys, for every set of integrations and worker    *)
(* threads: it is held by one worker at a time over every store; over the  *)
(* keychain, where an update touches one entry, no refresh presents a      *)
(* spent token, also while logins are stored and integrations removed, and *)
(* an integration that was removed stays removed.                          *)
(***************************************************************************)
EXTENDS TokenRefresh, FiniteSetTheorems, TLAPS

\* The steps of the specification, for the case split every proof makes.
LEMMA StepCases ==
  ASSUME [Next]_vars
  PROVE  \/ \E w \in Workers, i \in Ids : Start(w, i)
         \/ \E w \in Workers : Get(w) \/ Acquire(w) \/ Recheck(w)
         \/ \E w \in Workers : Refreshed(w) \/ Refused(w) \/ ResponseLost(w)
         \/ \E w \in Workers : PersistRead(w) \/ PersistWrite(w)
         \/ \E w \in Workers : GetFails(w) \/ PersistFails(w)
         \/ \E i \in Ids : Expire(i) \/ LoginDone(i) \/ RemoveStart(i)
         \/ Revoke \/ OutsiderRead \/ OutsiderWrite \/ OutsiderFails
         \/ Crash
         \/ UNCHANGED vars
  BY DEF Next, WorkerStep, OutsiderStep

-----------------------------------------------------------------------------

\* Every variable keeps its type; who names no integration has nothing under
\* way, and a worker with something to post or to store holds a credential.
THEOREM TypeCorrect == Spec => []TypeOK
<1> USE NoneAssumption, MaxAssumption DEF Token, Stored, Payload, Nothing, Locked, PCs
<1>1. Init => TypeOK
  BY DEF Init, TypeOK
<1>2. TypeOK /\ [Next]_vars => TypeOK'
  <2> SUFFICES ASSUME TypeOK, [Next]_vars PROVE TypeOK'
    OBVIOUS
  <2> USE DEF TypeOK, providerVars, workerVars, outsiderVars
  <2>0. ASSUME NEW w \in Workers, Finish(w)
        PROVE  /\ pc' \in [Workers -> PCs]
               /\ target' \in [Workers -> Ids \cup {None}]
               /\ held' \in [Workers -> Stored]
               /\ payload' \in [Workers -> Payload]
               /\ \A v \in Workers : target'[v] = None <=> pc'[v] \in {"idle", "done"}
               /\ \A v \in Workers : pc'[v] \in {"post", "read", "write"} => held'[v] # None
    BY <2>0 DEF Finish
  <2>1. ASSUME NEW w \in Workers, NEW i \in Ids, Start(w, i) PROVE TypeOK'
    BY <2>1 DEF Start
  <2>2. ASSUME NEW w \in Workers, Get(w) PROVE TypeOK'
    <3>1. target[w] \in Ids /\ store[target[w]] \in Stored
      BY <2>2 DEF Get
    <3>2. CASE Finish(w)
      BY <2>0, <2>2, <3>2 DEF Get
    <3>3. CASE ~ Finish(w)
      BY <2>2, <3>1, <3>3 DEF Get
    <3> QED
      BY <3>2, <3>3
  <2>3. ASSUME NEW w \in Workers, Acquire(w) PROVE TypeOK'
    BY <2>3 DEF Acquire
  <2>4. ASSUME NEW w \in Workers, Recheck(w) PROVE TypeOK'
    <3>1. target[w] \in Ids /\ store[target[w]] \in Stored
      BY <2>4 DEF Recheck
    <3>2. CASE Finish(w) /\ Release(w)
      BY <2>0, <2>4, <3>2 DEF Recheck, Release
    <3>3. CASE ~ (Finish(w) /\ Release(w))
      BY <2>4, <3>1, <3>3 DEF Recheck
    <3> QED
      BY <3>2, <3>3
  <2>5. ASSUME NEW w \in Workers, Refreshed(w) PROVE TypeOK'
    <3>1. target[w] \in Ids /\ held[w] \in 1..MaxToken
      BY <2>5 DEF Refreshed
    <3>2. /\ issued' \in [Ids -> 1..MaxToken]
          /\ spent' \in [Ids -> SUBSET (1..MaxToken)]
          /\ issued[target[w]] + 1 \in 1..MaxToken
      BY <2>5, <3>1 DEF Refreshed, Issue
    <3> QED
      BY <2>5, <3>1, <3>2 DEF Refreshed, Issue
  <2>6. ASSUME NEW w \in Workers, Refused(w) PROVE TypeOK'
    BY <2>0, <2>6 DEF Refused, Release
  <2>7. ASSUME NEW w \in Workers, ResponseLost(w) PROVE TypeOK'
    <3>1. target[w] \in Ids /\ held[w] \in 1..MaxToken
      BY <2>7 DEF ResponseLost
    <3>2. /\ issued' \in [Ids -> 1..MaxToken]
          /\ spent' \in [Ids -> SUBSET (1..MaxToken)]
      BY <2>7, <3>1 DEF ResponseLost, Issue
    <3> QED
      BY <2>0, <2>7, <3>1, <3>2 DEF ResponseLost, Issue, Release
  <2>8. ASSUME NEW w \in Workers, PersistRead(w) PROVE TypeOK'
    BY <2>8 DEF PersistRead, ReadPayload
  <2>9. ASSUME NEW w \in Workers, PersistWrite(w) PROVE TypeOK'
    <3>1. store' \in [Ids -> (1..MaxToken) \cup {None}]
      BY <2>9 DEF PersistWrite, Updated
    <3> QED
      BY <2>0, <2>9, <3>1 DEF PersistWrite, Release
  <2>10. ASSUME NEW w \in Workers, GetFails(w) \/ PersistFails(w) PROVE TypeOK'
    BY <2>0, <2>10 DEF GetFails, PersistFails, Release
  <2>11. ASSUME NEW i \in Ids, Expire(i) \/ LoginDone(i) \/ RemoveStart(i)
         PROVE  TypeOK'
    <3>1. CASE Expire(i)
      BY <3>1 DEF Expire
    <3>2. CASE LoginDone(i)
      BY <3>2 DEF LoginDone
    <3>3. CASE RemoveStart(i)
      BY <3>3 DEF RemoveStart
    <3> QED
      BY <2>11, <3>1, <3>2, <3>3
  <2>12. CASE Revoke \/ OutsiderRead \/ OutsiderWrite \/ OutsiderFails
    <3>1. CASE Revoke
      BY <3>1 DEF Revoke
    <3>2. CASE OutsiderRead
      BY <3>2 DEF OutsiderRead, ReadPayload
    <3>3. CASE OutsiderWrite
      <4>1. store' \in [Ids -> (1..MaxToken) \cup {None}]
        BY <3>3 DEF OutsiderWrite, Updated
      <4> QED
        BY <3>3, <4>1 DEF OutsiderWrite, OutsiderEnds
    <3>4. CASE OutsiderFails
      BY <3>4 DEF OutsiderFails, OutsiderEnds
    <3> QED
      BY <2>12, <3>1, <3>2, <3>3, <3>4
  <2>13. CASE Crash
    BY <2>13 DEF Crash
  <2>14. CASE UNCHANGED vars
    BY <2>14 DEF vars
  <2> QED
    BY <2>1, <2>2, <2>3, <2>4, <2>5, <2>6, <2>7, <2>8, <2>9, <2>10, <2>11, <2>12,
       <2>13, <2>14, StepCases
<1> QED
  BY <1>1, <1>2, PTL DEF Spec

-----------------------------------------------------------------------------
(* The lock *)

\* No interleaving and no failure leaves the lock of an integration held by
\* anyone but the worker inside its with block: mutual exclusion, whatever
\* the store, and a lock that is never leaked.
THEOREM LockIsSound == Spec => []HeldByOne
<1> USE NoneAssumption DEF Locked
<1>1. Init => HeldByOne
  BY DEF Init, HeldByOne
<1>2. TypeOK /\ HeldByOne /\ [Next]_vars => HeldByOne'
  <2> SUFFICES ASSUME TypeOK, HeldByOne, [Next]_vars PROVE HeldByOne'
    OBVIOUS
  <2> USE DEF TypeOK, HeldByOne, PCs, workerVars
  <2>1. ASSUME NEW w \in Workers, NEW i \in Ids, Start(w, i) PROVE HeldByOne'
    BY <2>1 DEF Start
  <2>2. ASSUME NEW w \in Workers, Get(w) PROVE HeldByOne'
    BY <2>2 DEF Get, Finish
  <2>3. ASSUME NEW w \in Workers, Acquire(w) PROVE HeldByOne'
    BY <2>3 DEF Acquire
  <2>4. ASSUME NEW w \in Workers, pc[w] \in Locked, Finish(w), Release(w)
        PROVE  HeldByOne'
    BY <2>4 DEF Finish, Release
  <2>5. ASSUME NEW w \in Workers, Recheck(w) PROVE HeldByOne'
    BY <2>4, <2>5 DEF Recheck
  <2>6. ASSUME NEW w \in Workers, Refreshed(w) \/ PersistRead(w) PROVE HeldByOne'
    BY <2>6 DEF Refreshed, PersistRead
  <2>7. ASSUME NEW w \in Workers, GetFails(w) PROVE HeldByOne'
    <3>1. CASE pc[w] = "recheck"
      BY <2>4, <2>7, <3>1 DEF GetFails
    <3>2. CASE pc[w] = "get"
      BY <2>7, <3>2 DEF GetFails, Finish
    <3> QED
      BY <2>7, <3>1, <3>2 DEF GetFails
  <2>8. ASSUME NEW w \in Workers,
               Refused(w) \/ ResponseLost(w) \/ PersistWrite(w) \/ PersistFails(w)
        PROVE  HeldByOne'
    BY <2>4, <2>8 DEF Refused, ResponseLost, PersistWrite, PersistFails, Storing
  <2>9. ASSUME NEW i \in Ids, Expire(i) \/ LoginDone(i) \/ RemoveStart(i)
        PROVE  HeldByOne'
    BY <2>9 DEF Expire, LoginDone, RemoveStart
  <2>10. CASE Revoke \/ OutsiderRead \/ OutsiderWrite \/ OutsiderFails
    BY <2>10 DEF Revoke, OutsiderRead, OutsiderWrite, OutsiderFails
  <2>11. CASE Crash
    BY <2>11 DEF Crash
  <2>12. CASE UNCHANGED vars
    BY <2>12 DEF vars
  <2> QED
    BY <2>1, <2>2, <2>3, <2>5, <2>6, <2>7, <2>8, <2>9, <2>10, <2>11, <2>12, StepCases
<1> QED
  BY <1>1, <1>2, TypeCorrect, PTL DEF Spec

-----------------------------------------------------------------------------
(* Spent tokens, over a store with one entry per integration *)

\* Nothing in use was issued later than the provider's count.
Ledger ==
    /\ \A i \in Ids : \A t \in spent[i] : t <= issued[i]
    /\ \A i \in Ids : store[i] # None => store[i] <= issued[i]
    /\ \A w \in Workers : pc[w] \in {"post"} \cup Storing => held[w] <= issued[target[w]]

\* A login that is being stored is known to nobody else yet.
LoginIsNew ==
    login # None =>
        /\ subject # None
        /\ login <= issued[subject]
        /\ login \notin spent[subject]
        /\ store[subject] # login
        /\ \A w \in Workers :
              pc[w] \in {"post"} \cup Storing /\ target[w] = subject => held[w] # login

\* A token that is being stored has not been used.
StoringIsNew ==
    \A w \in Workers : pc[w] \in Storing => held[w] \notin spent[target[w]]

\* Unless it is being replaced, the stored token has not been used either.
StoredUnlessStoring ==
    \A i \in Ids :
        /\ ~ spoiled[i]
        /\ \A w \in Workers : target[w] = i => pc[w] \notin Storing
        => store[i] \notin spent[i]

IInv == Ledger /\ LoginIsNew /\ StoringIsNew /\ StoredUnlessStoring /\ NeverReplays

\* The initial state satisfies the invariant.
LEMMA InitInv == Init => IInv
  BY NoneAssumption, MaxAssumption
     DEF Init, IInv, Ledger, LoginIsNew, StoringIsNew, StoredUnlessStoring, NeverReplays, Storing

\* A worker that leaves without having changed the store or spent a token.
LEMMA FinishInv ==
  ASSUME TypeOK, IInv, NEW w \in Workers, Finish(w), pc[w] \notin Storing,
         UNCHANGED <<store, issued, spent, login, subject, spoiled>>
  PROVE  IInv'
<1> USE DEF TypeOK, PCs, Locked, Storing, Finish
<1>1. \A v \in Workers : v # w => pc'[v] = pc[v] /\ target'[v] = target[v] /\ held'[v] = held[v]
  OBVIOUS
<1>2. pc'[w] = "done"
  OBVIOUS
<1>3. Ledger'
  BY <1>1, <1>2 DEF IInv, Ledger
<1>4. LoginIsNew'
  BY <1>1, <1>2 DEF IInv, LoginIsNew
<1>5. StoringIsNew' /\ NeverReplays'
  BY <1>1, <1>2 DEF IInv, StoringIsNew, NeverReplays
<1>6. StoredUnlessStoring'
  BY <1>1, <1>2 DEF IInv, StoredUnlessStoring
<1> QED
  BY <1>3, <1>4, <1>5, <1>6 DEF IInv

\* Spending the token a lock holder presents disturbs nobody else.
LEMMA IssueInv ==
  ASSUME TypeOK, HeldByOne, IInv, NEW w \in Workers, pc[w] = "post",
         Issue(target[w], held[w])
  PROVE  /\ \A i \in Ids : issued[i] <= issued'[i]
         /\ \A i \in Ids : i # target[w] => issued'[i] = issued[i] /\ spent'[i] = spent[i]
         /\ issued'[target[w]] = issued[target[w]] + 1
         /\ spent'[target[w]] \subseteq spent[target[w]] \cup {held[w]}
         /\ \A i \in Ids : \A t \in spent'[i] : t <= issued[i]
         /\ \A v \in Workers : v # w /\ pc[v] \in Locked => target[v] # target[w]
         /\ login # None => login \notin spent'[subject]
<1> USE NoneAssumption DEF TypeOK, Token, Stored
<1>1. target[w] \in Ids /\ held[w] \in 1..MaxToken
  OBVIOUS
<1>2. /\ issued' = [issued EXCEPT ![target[w]] = @ + 1]
      /\ spent' = IF target[w] \in Rotating
                    THEN [spent EXCEPT ![target[w]] = @ \cup {held[w]}] ELSE spent
  BY DEF Issue
<1>3. spent'[target[w]] \subseteq spent[target[w]] \cup {held[w]}
  BY <1>1, <1>2
<1>4. \A i \in Ids : i # target[w] => issued'[i] = issued[i] /\ spent'[i] = spent[i]
  BY <1>1, <1>2
<1>5. issued'[target[w]] = issued[target[w]] + 1
  BY <1>1, <1>2
<1>6. \A i \in Ids : \A t \in spent'[i] : t <= issued[i]
  BY <1>1, <1>3, <1>4 DEF IInv, Ledger
<1>7. \A v \in Workers : v # w /\ pc[v] \in Locked => target[v] # target[w]
  BY DEF HeldByOne, Locked
<1>8. login # None => login \notin spent'[subject]
  BY <1>1, <1>3, <1>4 DEF IInv, LoginIsNew
<1>9. \A i \in Ids : issued[i] <= issued'[i]
  BY <1>1, <1>4, <1>5
<1> QED
  BY <1>3, <1>4, <1>5, <1>6, <1>7, <1>8, <1>9

\* The second look presents what is stored, and nobody is storing meanwhile.
LEMMA RecheckInv ==
  ASSUME TypeOK, HeldByOne, IInv, NEW w \in Workers, Recheck(w)
  PROVE  IInv'
<1> USE NoneAssumption DEF TypeOK, Token, Stored, Storing
<1>1. CASE Finish(w)
  BY <1>1, FinishInv DEF Recheck, outsiderVars, providerVars
<1>2. CASE ~ Finish(w)
  <2> USE DEF Payload
  <2> DEFINE i == target[w]
  <2>1. /\ i \in Ids /\ store[i] # None /\ store[i] \in 1..MaxToken
        /\ pc[w] = "recheck"
        /\ pc' = [pc EXCEPT ![w] = "post"]
        /\ held' = [held EXCEPT ![w] = store[i]]
        /\ UNCHANGED <<store, issued, spent, target, login, subject, spoiled>>
    BY <1>2 DEF Recheck, outsiderVars, providerVars
  <2>2. \A v \in Workers : target[v] = i => pc[v] \notin Storing
    BY <2>1 DEF HeldByOne, Locked
  <2>3. ~ spoiled[i] => store[i] \notin spent[i]
    BY <2>1, <2>2 DEF IInv, StoredUnlessStoring
  <2>4. Ledger'
    BY <2>1 DEF IInv, Ledger
  <2>5. LoginIsNew'
    BY <2>1 DEF IInv, LoginIsNew
  <2>6. StoringIsNew' /\ StoredUnlessStoring'
    BY <2>1 DEF IInv, StoringIsNew, StoredUnlessStoring
  <2>7. NeverReplays'
    BY <2>1, <2>3 DEF IInv, NeverReplays
  <2> QED
    BY <2>4, <2>5, <2>6, <2>7 DEF IInv
<1> QED
  BY <1>1, <1>2

\* The refreshed credential is new, and its holder is now storing it.
LEMMA RefreshedInv ==
  ASSUME TypeOK, HeldByOne, IInv, NEW w \in Workers, Refreshed(w)
  PROVE  IInv'
<1> USE NoneAssumption DEF TypeOK, Token, Stored, Storing
<1> DEFINE i == target[w]
<1>1. /\ i \in Ids /\ held[w] \in 1..MaxToken /\ pc[w] = "post"
      /\ Issue(target[w], held[w])
      /\ pc' = [pc EXCEPT ![w] = "read"]
      /\ held' = [held EXCEPT ![w] = issued[i] + 1]
      /\ UNCHANGED <<store, target, login, subject, spoiled>>
  BY DEF Refreshed, outsiderVars
<1>2. /\ \A j \in Ids : issued[j] <= issued'[j]
      /\ \A j \in Ids : j # i => issued'[j] = issued[j] /\ spent'[j] = spent[j]
      /\ issued'[i] = issued[i] + 1
      /\ spent'[i] \subseteq spent[i] \cup {held[w]}
      /\ \A j \in Ids : \A t \in spent'[j] : t <= issued[j]
      /\ \A v \in Workers : v # w /\ pc[v] \in Locked => target[v] # i
      /\ login # None => login \notin spent'[subject]
  BY <1>1, IssueInv
<1>3. issued \in [Ids -> 1..MaxToken] /\ issued' \in [Ids -> Nat]
      /\ spent' \in [Ids -> SUBSET (1..MaxToken)]
  BY <1>1 DEF Issue
<1>4. Ledger'
  <2>1. ASSUME NEW j \in Ids, NEW t \in spent'[j] PROVE t <= issued'[j]
    <3>1. t \in 1..MaxToken /\ issued[j] \in 1..MaxToken /\ issued'[j] \in Nat
      BY <1>3
    <3>2. t <= issued[j] /\ issued[j] <= issued'[j]
      BY <1>2
    <3> QED
      BY <3>1, <3>2, MaxAssumption
  <2>2. ASSUME NEW j \in Ids, store'[j] # None PROVE store'[j] <= issued'[j]
    <3>1. store'[j] \in 1..MaxToken /\ issued[j] \in 1..MaxToken /\ issued'[j] \in Nat
      BY <1>1, <1>3, <2>2 DEF Payload
    <3>2. store'[j] <= issued[j] /\ issued[j] <= issued'[j]
      BY <1>1, <1>2, <2>2 DEF IInv, Ledger
    <3> QED
      BY <3>1, <3>2, MaxAssumption
  <2>3. \A v \in Workers : pc'[v] \in {"post"} \cup Storing => held'[v] <= issued'[target'[v]]
    <3> SUFFICES ASSUME NEW v \in Workers, pc'[v] \in {"post"} \cup Storing
                 PROVE  held'[v] <= issued'[target'[v]]
      OBVIOUS
    <3>1. CASE v = w
      BY <1>1, <1>2, <1>3, <3>1
    <3>2. CASE v # w
      <4>1. target[v] \in Ids /\ held[v] \in 1..MaxToken /\ held[v] <= issued[target[v]]
        BY <1>1, <3>2 DEF IInv, Ledger
      <4> QED
        BY <1>1, <1>2, <1>3, <3>2, <4>1
    <3> QED
      BY <3>1, <3>2
  <2> QED
    BY <2>1, <2>2, <2>3 DEF Ledger
<1>5. LoginIsNew'
  <2> SUFFICES ASSUME login # None PROVE LoginIsNew'
    BY <1>1 DEF LoginIsNew
  <2>1. subject \in Ids /\ login \in 1..MaxToken /\ login <= issued[subject]
    BY DEF IInv, LoginIsNew
  <2>2. login <= issued'[subject] /\ store[subject] # login
    BY <1>2, <1>3, <2>1 DEF IInv, LoginIsNew
  <2>3. \A v \in Workers :
           pc'[v] \in {"post"} \cup Storing /\ target[v] = subject => held'[v] # login
    BY <1>1, <1>3, <2>1 DEF IInv, LoginIsNew
  <2> QED
    BY <1>1, <1>2, <2>1, <2>2, <2>3 DEF LoginIsNew
<1>6. StoringIsNew'
  <2> SUFFICES ASSUME NEW v \in Workers, pc'[v] \in Storing
               PROVE  held'[v] \notin spent'[target'[v]]
    BY DEF StoringIsNew
  <2>1. CASE v = w
    BY <1>1, <1>2, <1>3, <2>1
  <2>2. CASE v # w
    <3>1. target[v] \in Ids /\ target[v] # i
      BY <1>1, <1>2, <2>2 DEF Locked
    <3> QED
      BY <1>1, <1>2, <2>2, <3>1 DEF IInv, StoringIsNew
  <2> QED
    BY <2>1, <2>2
<1>7. StoredUnlessStoring'
  <2> SUFFICES ASSUME NEW j \in Ids, ~ spoiled'[j],
                      \A v \in Workers : target'[v] = j => pc'[v] \notin Storing
               PROVE  store'[j] \notin spent'[j]
    BY DEF StoredUnlessStoring
  <2>1. j # i
    BY <1>1
  <2>2. \A v \in Workers : target[v] = j => pc[v] \notin Storing
    BY <1>1, <2>1
  <2> QED
    BY <1>1, <1>2, <2>1, <2>2 DEF IInv, StoredUnlessStoring
<1>8. NeverReplays'
  <2> SUFFICES ASSUME NEW v \in Workers, pc'[v] = "post", ~ spoiled'[target'[v]]
               PROVE  held'[v] \notin spent'[target'[v]]
    BY DEF NeverReplays
  <2>1. v # w /\ pc[v] = "post"
    BY <1>1
  <2>2. target[v] \in Ids /\ target[v] # i
    BY <1>2, <2>1 DEF Locked
  <2> QED
    BY <1>1, <1>2, <2>1, <2>2 DEF IInv, NeverReplays
<1> QED
  BY <1>4, <1>5, <1>6, <1>7, <1>8 DEF IInv

\* A refresh whose credential never arrives leaves a spoiled integration.
LEMMA ResponseLostInv ==
  ASSUME TypeOK, HeldByOne, IInv, NEW w \in Workers, ResponseLost(w)
  PROVE  IInv'
<1> USE NoneAssumption, MaxAssumption DEF TypeOK, Token, Stored, Storing
<1> DEFINE i == target[w]
<1>1. /\ i \in Ids /\ held[w] \in 1..MaxToken /\ pc[w] = "post"
      /\ Issue(target[w], held[w])
      /\ pc' = [pc EXCEPT ![w] = "done"]
      /\ target' = [target EXCEPT ![w] = None]
      /\ held' = [held EXCEPT ![w] = None]
      /\ spoiled' = [spoiled EXCEPT ![i] = TRUE]
      /\ UNCHANGED <<store, login, subject>>
  BY DEF ResponseLost, outsiderVars, Finish
<1>2. /\ \A j \in Ids : issued[j] <= issued'[j]
      /\ \A j \in Ids : j # i => issued'[j] = issued[j] /\ spent'[j] = spent[j]
      /\ \A j \in Ids : \A t \in spent'[j] : t <= issued[j]
      /\ \A v \in Workers : v # w /\ pc[v] \in Locked => target[v] # i
      /\ login # None => login \notin spent'[subject]
  BY <1>1, IssueInv
<1>3. issued \in [Ids -> 1..MaxToken] /\ issued' \in [Ids -> Nat]
      /\ spent' \in [Ids -> SUBSET (1..MaxToken)]
  BY <1>1 DEF Issue
<1>4. \A v \in Workers : pc'[v] # "done" =>
         v # w /\ pc'[v] = pc[v] /\ target'[v] = target[v] /\ held'[v] = held[v]
  BY <1>1
<1>5. Ledger'
  <2>1. ASSUME NEW j \in Ids, NEW t \in spent'[j] PROVE t <= issued'[j]
    <3>1. t \in 1..MaxToken /\ issued[j] \in 1..MaxToken /\ issued'[j] \in Nat
      BY <1>3
    <3>2. t <= issued[j] /\ issued[j] <= issued'[j]
      BY <1>2
    <3> QED
      BY <3>1, <3>2
  <2>2. ASSUME NEW j \in Ids, store'[j] # None PROVE store'[j] <= issued'[j]
    <3>1. store'[j] \in 1..MaxToken /\ issued[j] \in 1..MaxToken /\ issued'[j] \in Nat
      BY <1>1, <1>3, <2>2 DEF Payload
    <3>2. store'[j] <= issued[j] /\ issued[j] <= issued'[j]
      BY <1>1, <1>2, <2>2 DEF IInv, Ledger
    <3> QED
      BY <3>1, <3>2
  <2>3. ASSUME NEW v \in Workers, pc'[v] \in {"post"} \cup Storing
        PROVE  held'[v] <= issued'[target'[v]]
    <3>1. v # w /\ pc[v] = pc'[v] /\ target'[v] = target[v] /\ held'[v] = held[v]
      BY <1>4, <2>3
    <3>2. target[v] \in Ids /\ target[v] # i
      BY <1>2, <2>3, <3>1 DEF Locked
    <3> QED
      BY <1>2, <2>3, <3>1, <3>2 DEF IInv, Ledger
  <2> QED
    BY <2>1, <2>2, <2>3 DEF Ledger
<1>6. LoginIsNew'
  <2> SUFFICES ASSUME login # None PROVE LoginIsNew'
    BY <1>1 DEF LoginIsNew
  <2>1. subject \in Ids /\ login \in 1..MaxToken /\ login <= issued[subject]
    BY DEF IInv, LoginIsNew
  <2>2. login <= issued'[subject] /\ store[subject] # login
    BY <1>2, <1>3, <2>1 DEF IInv, LoginIsNew
  <2>3. \A v \in Workers :
           pc'[v] \in {"post"} \cup Storing /\ target'[v] = subject => held'[v] # login
    BY <1>4 DEF IInv, LoginIsNew
  <2> QED
    BY <1>1, <1>2, <2>1, <2>2, <2>3 DEF LoginIsNew
<1>7. \A v \in Workers : pc'[v] \in {"post"} \cup Storing =>
         spent'[target[v]] = spent[target[v]]
  BY <1>2, <1>4 DEF Locked
<1>8. StoringIsNew'
  BY <1>4, <1>7 DEF IInv, StoringIsNew
<1>9. NeverReplays'
  BY <1>1, <1>4, <1>7 DEF IInv, NeverReplays
<1>10. StoredUnlessStoring'
  <2> SUFFICES ASSUME NEW j \in Ids, ~ spoiled'[j],
                      \A v \in Workers : target'[v] = j => pc'[v] \notin Storing
               PROVE  store'[j] \notin spent'[j]
    BY DEF StoredUnlessStoring
  <2>1. j # i /\ ~ spoiled[j]
    BY <1>1
  <2>2. \A v \in Workers : target[v] = j => pc[v] \notin Storing
    BY <1>1, <2>1
  <2> QED
    BY <1>1, <1>2, <2>1, <2>2 DEF IInv, StoredUnlessStoring
<1> QED
  BY <1>5, <1>6, <1>8, <1>9, <1>10 DEF IInv

\* Over the keychain the write stores the new token and touches nothing else.
LEMMA PersistWriteInv ==
  ASSUME PerEntry, TypeOK, HeldByOne, IInv, NEW w \in Workers, PersistWrite(w)
  PROVE  IInv'
<1> USE NoneAssumption DEF TypeOK, Token, Stored, Storing
<1> DEFINE i == target[w]
<1>1. /\ i \in Ids /\ held[w] \in 1..MaxToken /\ pc[w] = "write"
      /\ store' = [store EXCEPT ![i] = held[w]]
      /\ pc' = [pc EXCEPT ![w] = "done"]
      /\ target' = [target EXCEPT ![w] = None]
      /\ held' = [held EXCEPT ![w] = None]
      /\ UNCHANGED <<issued, spent, login, subject, spoiled>>
  BY DEF PersistWrite, Updated, Finish, providerVars, outsiderVars
<1>2. \A v \in Workers : pc'[v] # "done" =>
         v # w /\ pc'[v] = pc[v] /\ target'[v] = target[v] /\ held'[v] = held[v]
  BY <1>1
<1>3. held[w] <= issued[i] /\ held[w] \notin spent[i]
  BY <1>1 DEF IInv, Ledger, StoringIsNew
<1>4. \A j \in Ids : store'[j] = IF j = i THEN held[w] ELSE store[j]
  BY <1>1 DEF Payload
<1>5. Ledger'
  BY <1>1, <1>2, <1>3, <1>4 DEF IInv, Ledger
<1>6. LoginIsNew'
  BY <1>1, <1>2, <1>4 DEF IInv, LoginIsNew
<1>7. StoringIsNew' /\ NeverReplays'
  BY <1>1, <1>2 DEF IInv, StoringIsNew, NeverReplays
<1>8. StoredUnlessStoring'
  <2> SUFFICES ASSUME NEW j \in Ids, ~ spoiled'[j],
                      \A v \in Workers : target'[v] = j => pc'[v] \notin Storing
               PROVE  store'[j] \notin spent'[j]
    BY DEF StoredUnlessStoring
  <2>1. CASE j = i
    BY <1>1, <1>3, <1>4, <2>1
  <2>2. CASE j # i
    <3>1. \A v \in Workers : target[v] = j => pc[v] \notin Storing
      BY <1>1, <2>2
    <3> QED
      BY <1>1, <1>4, <2>2, <3>1 DEF IInv, StoredUnlessStoring
  <2> QED
    BY <2>1, <2>2
<1> QED
  BY <1>5, <1>6, <1>7, <1>8 DEF IInv

\* A login that is stored is live, and it replaces one entry.
LEMMA OutsiderWriteInv ==
  ASSUME PerEntry, TypeOK, IInv, OutsiderWrite
  PROVE  IInv'
<1> USE NoneAssumption DEF TypeOK, Token, Stored, Storing
<1>1. /\ subject \in Ids
      /\ \A j \in Ids : store'[j] = IF j = subject THEN login ELSE store[j]
      /\ login' = None
      /\ UNCHANGED <<issued, spent, pc, target, held, spoiled>>
  BY DEF OutsiderWrite, OutsiderEnds, Updated, providerVars, workerVars, Payload
<1>2. Ledger'
  BY <1>1 DEF IInv, Ledger, LoginIsNew
<1>3. LoginIsNew' /\ StoringIsNew' /\ NeverReplays'
  BY <1>1 DEF IInv, LoginIsNew, StoringIsNew, NeverReplays
<1>4. \A j \in Ids : None \notin spent[j]
  BY MaxAssumption
<1>5. login \notin spent[subject]
  BY <1>1, <1>4 DEF IInv, LoginIsNew
<1>6. StoredUnlessStoring'
  BY <1>1, <1>5 DEF IInv, StoredUnlessStoring
<1> QED
  BY <1>2, <1>3, <1>6 DEF IInv

\* A worker that has no token to store, or has spoiled what it had, dies or
\* gives up; the others go on.
LEMMA LossInv ==
  ASSUME TypeOK, IInv, UNCHANGED <<store, issued, spent, login, subject>>,
         \A v \in Workers :
            pc'[v] \in {"post"} \cup Storing =>
               pc'[v] = pc[v] /\ target'[v] = target[v] /\ held'[v] = held[v],
         \A v \in Workers :
            pc[v] \in Storing =>
               \/ pc'[v] = pc[v] /\ target'[v] = target[v]
               \/ spoiled'[target[v]],
         \A j \in Ids : spoiled[j] => spoiled'[j]
  PROVE  IInv'
<1> USE DEF TypeOK, Storing
<1>1. Ledger'
  BY DEF IInv, Ledger
<1>2. LoginIsNew'
  BY DEF IInv, LoginIsNew
<1>3. StoringIsNew'
  BY DEF IInv, StoringIsNew
<1>4. NeverReplays'
  BY DEF IInv, NeverReplays, Locked, PCs
<1>5. StoredUnlessStoring'
  <2> SUFFICES ASSUME NEW j \in Ids, ~ spoiled'[j],
                      \A v \in Workers : target'[v] = j => pc'[v] \notin Storing
               PROVE  store'[j] \notin spent'[j]
    BY DEF StoredUnlessStoring
  <2>1. \A v \in Workers : target[v] = j => pc[v] \notin Storing
    OBVIOUS
  <2> QED
    BY <2>1 DEF IInv, StoredUnlessStoring
<1> QED
  BY <1>1, <1>2, <1>3, <1>4, <1>5 DEF IInv

\* Every step keeps the invariant.
LEMMA StepInv ==
  ASSUME PerEntry, TypeOK, HeldByOne, IInv, [Next]_vars
  PROVE  IInv'
<1> USE NoneAssumption DEF providerVars, workerVars, outsiderVars
<1>1. ASSUME NEW w \in Workers, NEW i \in Ids, Start(w, i) PROVE IInv'
  BY <1>1, LossInv DEF Start, TypeOK, Storing
<1>2. ASSUME NEW w \in Workers, Get(w) PROVE IInv'
  <2>1. CASE Finish(w)
    BY <1>2, <2>1, FinishInv DEF Get, Storing
  <2>2. CASE ~ Finish(w)
    <3>1. /\ pc[w] = "get" /\ pc' = [pc EXCEPT ![w] = "lock"]
          /\ \A v \in Workers : v # w => held'[v] = held[v]
          /\ UNCHANGED <<store, issued, spent, target, login, subject, spoiled>>
      BY <1>2, <2>2 DEF Get, TypeOK
    <3> QED
      BY <3>1, LossInv DEF TypeOK, Storing
  <2> QED
    BY <2>1, <2>2
<1>3. ASSUME NEW w \in Workers, Acquire(w) PROVE IInv'
  BY <1>3, LossInv DEF Acquire, TypeOK, Storing
<1>4. ASSUME NEW w \in Workers, Refused(w) PROVE IInv'
  BY <1>4, FinishInv DEF Refused, Storing
<1>5. ASSUME NEW w \in Workers, PersistRead(w) PROVE IInv'
  <2>1. /\ pc[w] = "read" /\ pc' = [pc EXCEPT ![w] = "write"]
        /\ UNCHANGED <<store, issued, spent, target, held, login, subject, spoiled>>
    BY <1>5 DEF PersistRead
  <2>2. \A v \in Workers : pc'[v] = "post" <=> pc[v] = "post"
    BY <2>1 DEF TypeOK
  <2>3. \A v \in Workers : pc'[v] \in Storing <=> pc[v] \in Storing
    BY <2>1 DEF TypeOK, Storing
  <2>4. Ledger' /\ LoginIsNew'
    BY <2>1, <2>2, <2>3 DEF IInv, Ledger, LoginIsNew
  <2>5. StoringIsNew' /\ StoredUnlessStoring' /\ NeverReplays'
    BY <2>1, <2>2, <2>3 DEF IInv, StoringIsNew, StoredUnlessStoring, NeverReplays
  <2> QED
    BY <2>4, <2>5 DEF IInv
<1>6. ASSUME NEW w \in Workers, GetFails(w) PROVE IInv'
  BY <1>6, FinishInv DEF GetFails, Storing
<1>7. ASSUME NEW w \in Workers, PersistFails(w) PROVE IInv'
  <2>1. /\ target[w] \in Ids
        /\ spoiled' = [spoiled EXCEPT ![target[w]] = TRUE]
        /\ \A v \in Workers :
              v # w => pc'[v] = pc[v] /\ target'[v] = target[v] /\ held'[v] = held[v]
        /\ pc'[w] = "done"
        /\ UNCHANGED <<store, issued, spent, login, subject>>
    BY <1>7 DEF PersistFails, Finish, TypeOK, Storing
  <2>2. spoiled'[target[w]] /\ \A j \in Ids : spoiled[j] => spoiled'[j]
    BY <2>1 DEF TypeOK
  <2> QED
    BY <2>1, <2>2, LossInv DEF Storing
<1>8. ASSUME NEW i \in Ids, Expire(i) \/ RemoveStart(i) PROVE IInv'
  <2>1. CASE Expire(i)
    BY <2>1, LossInv DEF Expire, TypeOK
  <2>2. CASE RemoveStart(i)
    <3>1. /\ login = None /\ login' = None
          /\ UNCHANGED <<store, issued, spent, pc, target, held, spoiled>>
      BY <2>2 DEF RemoveStart, IInv, LoginIsNew, TypeOK
    <3> QED
      BY <3>1 DEF IInv, Ledger, LoginIsNew, StoringIsNew, StoredUnlessStoring, NeverReplays
  <2> QED
    BY <1>8, <2>1, <2>2
<1>9. ASSUME NEW i \in Ids, LoginDone(i) PROVE IInv'
  <2> USE DEF TypeOK, Token, Stored, Storing
  <2>1. /\ issued' = [issued EXCEPT ![i] = @ + 1]
        /\ subject' = i /\ login' = issued[i] + 1
        /\ UNCHANGED <<store, spent, pc, target, held, spoiled>>
    BY <1>9 DEF LoginDone
  <2>2. \A j \in Ids : issued[j] \in 1..MaxToken /\ issued'[j] >= issued[j]
    BY <2>1
  <2>3. \A j \in Ids : \A t \in spent[j] : t <= issued[j] /\ t \in 1..MaxToken
    BY DEF IInv, Ledger
  <2>4. \A j \in Ids : store[j] # None => store[j] <= issued[j] /\ store[j] \in 1..MaxToken
    BY DEF IInv, Ledger, Payload
  <2>5. \A v \in Workers : pc[v] \in {"post"} \cup Storing =>
           target[v] \in Ids /\ held[v] <= issued[target[v]] /\ held[v] \in 1..MaxToken
    BY DEF IInv, Ledger
  <2>6. Ledger'
    <3>1. \A j \in Ids : \A t \in spent'[j] : t <= issued'[j]
      BY <2>1, <2>2, <2>3, MaxAssumption
    <3>2. \A j \in Ids : store'[j] # None => store'[j] <= issued'[j]
      BY <2>1, <2>2, <2>4, MaxAssumption
    <3>3. \A v \in Workers : pc'[v] \in {"post"} \cup Storing => held'[v] <= issued'[target'[v]]
      BY <2>1, <2>2, <2>5, MaxAssumption
    <3> QED
      BY <3>1, <3>2, <3>3 DEF Ledger
  <2>7. LoginIsNew'
    BY <2>1, <2>2, <2>3, <2>4, <2>5, MaxAssumption DEF LoginIsNew
  <2>8. StoringIsNew' /\ StoredUnlessStoring' /\ NeverReplays'
    BY <2>1 DEF IInv, StoringIsNew, StoredUnlessStoring, NeverReplays
  <2> QED
    BY <2>6, <2>7, <2>8 DEF IInv
<1>10. CASE Revoke \/ OutsiderRead
  BY <1>10, LossInv DEF Revoke, OutsiderRead, TypeOK
<1>11. CASE OutsiderFails
  <2>1. login' = None /\ UNCHANGED <<store, issued, spent, pc, target, held, spoiled>>
    BY <1>11 DEF OutsiderFails, OutsiderEnds
  <2> QED
    BY <2>1 DEF IInv, Ledger, LoginIsNew, StoringIsNew, StoredUnlessStoring, NeverReplays
<1>12. CASE Crash
  <2>1. /\ \A v \in Workers : pc'[v] = "idle"
        /\ UNCHANGED <<store, issued, spent, login, subject>>
    BY <1>12 DEF Crash
  <2>2. \A j \in Ids : spoiled[j] => spoiled'[j]
    BY <1>12 DEF Crash, TypeOK
  <2>3. \A v \in Workers : pc[v] \in Storing => target[v] \in Ids /\ spoiled'[target[v]]
    BY <1>12 DEF Crash, TypeOK, Storing
  <2> QED
    BY <2>1, <2>2, <2>3, LossInv DEF Storing
<1>13. CASE UNCHANGED vars
  BY <1>13, LossInv DEF vars
<1> QED
  BY <1>1, <1>2, <1>3, <1>4, <1>5, <1>6, <1>7, <1>8, <1>9, <1>10, <1>11, <1>12, <1>13,
     StepCases, RecheckInv, RefreshedInv, ResponseLostInv, PersistWriteInv, OutsiderWriteInv

\* IInv alone is not inductive without the lock: HeldByOne is what keeps the
\* token of a lock holder from being spent or replaced by another worker.
LEMMA Inductive == ASSUME PerEntry PROVE Spec => []IInv
<1>1. TypeOK /\ HeldByOne /\ IInv /\ [Next]_vars => IInv'
  BY StepInv
<1> QED
  BY <1>1, InitInv, TypeCorrect, LockIsSound, PTL DEF Spec

\* Over the keychain, however fetches, logins, removals, failures and crashes
\* interleave: a refresh never presents a refresh token already used up,
\* unless a rotated one was lost on its way to the store.
THEOREM KeychainNeverReplays == ASSUME PerEntry PROVE Spec => []NeverReplays
<1>1. IInv => NeverReplays
  BY DEF IInv
<1> QED
  BY <1>1, Inductive, PTL

\* Over the keychain, while nobody holds an integration's lock, what is
\* stored for it can still be refreshed.
THEOREM KeychainStoredIsLive == ASSUME PerEntry PROVE Spec => []StoredIsLive
<1>1. TypeOK /\ HeldByOne /\ IInv => StoredIsLive
  BY NoneAssumption
     DEF TypeOK, HeldByOne, IInv, StoredIsLive, StoredUnlessStoring, Storing, Locked
<1> QED
  BY <1>1, Inductive, TypeCorrect, LockIsSound, PTL

-----------------------------------------------------------------------------
(* Removals, over a store with one entry per integration *)

\* A removed integration has no credential, and no worker has one of it left
\* to store: the second look under the lock keeps the later ones out.
RemovedIsOver ==
    \A i \in Ids : removed[i] =>
        /\ store[i] = None
        /\ \A w \in Workers : target[w] = i => pc[w] \notin Refreshing

\* Over the keychain a removal that no refresh has overtaken is final until
\* the next login, whatever fetches were waiting for the lock at the time.
THEOREM KeychainStaysRemoved == ASSUME PerEntry PROVE Spec => []StaysRemoved
<1> USE NoneAssumption DEF Refreshing, Storing
<1>1. Init => RemovedIsOver
  BY DEF Init, RemovedIsOver
<1>2. TypeOK /\ RemovedIsOver /\ [Next]_vars => RemovedIsOver'
  <2> SUFFICES ASSUME TypeOK, RemovedIsOver, [Next]_vars PROVE RemovedIsOver'
    OBVIOUS
  <2> USE DEF TypeOK, RemovedIsOver, PCs, Locked, Payload, workerVars
  <2>1. ASSUME NEW w \in Workers, NEW i \in Ids, Start(w, i) PROVE RemovedIsOver'
    BY <2>1 DEF Start
  <2>2. ASSUME NEW w \in Workers, Finish(w), UNCHANGED <<store, removed>>
        PROVE  RemovedIsOver'
    BY <2>2 DEF Finish
  <2>3. ASSUME NEW w \in Workers, Get(w) \/ Acquire(w) PROVE RemovedIsOver'
    BY <2>2, <2>3 DEF Get, Acquire
  <2>4. ASSUME NEW w \in Workers, Recheck(w) PROVE RemovedIsOver'
    BY <2>2, <2>4 DEF Recheck
  <2>5. ASSUME NEW w \in Workers, Refreshed(w) \/ PersistRead(w) PROVE RemovedIsOver'
    BY <2>5 DEF Refreshed, PersistRead
  <2>6. ASSUME NEW w \in Workers,
               Refused(w) \/ ResponseLost(w) \/ GetFails(w) \/ PersistFails(w)
        PROVE  RemovedIsOver'
    BY <2>2, <2>6 DEF Refused, ResponseLost, GetFails, PersistFails
  <2>7. ASSUME NEW w \in Workers, PersistWrite(w) PROVE RemovedIsOver'
    <3>1. \A i \in Ids : i # target[w] => store'[i] = store[i]
      BY <2>7 DEF PersistWrite, Updated
    <3>2. ~ removed[target[w]]
      BY <2>7 DEF PersistWrite
    <3> QED
      BY <2>7, <3>1, <3>2 DEF PersistWrite, Finish
  <2>8. ASSUME NEW i \in Ids, Expire(i) \/ LoginDone(i) \/ RemoveStart(i)
        PROVE  RemovedIsOver'
    <3>1. \A j \in Ids : removed'[j] => removed[j]
      BY <2>8 DEF Expire, LoginDone, RemoveStart
    <3>2. UNCHANGED <<store, pc, target>>
      BY <2>8 DEF Expire, LoginDone, RemoveStart
    <3> QED
      BY <3>1, <3>2
  <2>9. CASE OutsiderWrite
    <3>1. \A i \in Ids : store'[i] = IF i = subject THEN login ELSE store[i]
      BY <2>9 DEF OutsiderWrite, Updated
    <3> QED
      BY <2>9, <3>1 DEF OutsiderWrite
  <2>10. CASE Revoke \/ OutsiderRead \/ OutsiderFails
    BY <2>10 DEF Revoke, OutsiderRead, OutsiderFails
  <2>11. CASE Crash
    BY <2>11 DEF Crash
  <2>12. CASE UNCHANGED vars
    BY <2>12 DEF vars
  <2> QED
    BY <2>1, <2>3, <2>4, <2>5, <2>6, <2>7, <2>8, <2>9, <2>10, <2>11, <2>12, StepCases
<1>3. RemovedIsOver => StaysRemoved
  BY DEF RemovedIsOver, StaysRemoved
<1> QED
  BY <1>1, <1>2, <1>3, TypeCorrect, PTL DEF Spec

-----------------------------------------------------------------------------
(* One refresh per expiring credential, over a store with one entry per     *)
(* integration                                                              *)

\* A credential that may still be refreshed: it is stored and nobody replaces it, a
\* login is about to store it, or a worker posts it or is about to store it.
IsLive(i, t) ==
    \/ t = store[i] /\ \A w \in Workers : target[w] = i => pc[w] \notin Storing
    \/ subject = i /\ t = login
    \/ \E w \in Workers : target[w] = i /\ pc[w] \in {"post"} \cup Storing /\ t = held[w]

\* The expired credentials that are over: each of them was refreshed at most once.
Over(i) == {t \in expired[i] : ~ IsLive(i, t)}

OnlyIssuedExpire == \A i \in Ids : expired[i] \subseteq 1 .. issued[i]

OnlyExpiredIsPosted == \A w \in Workers : pc[w] = "post" => held[w] \in expired[target[w]]

\* What was issued beyond the first credential and the logins was issued for a
\* credential that is over.
Counted(i) == ~ spoiled[i] => issued[i] <= 1 + logins[i] + Cardinality(Over(i))

OnceInv == OnlyIssuedExpire /\ OnlyExpiredIsPosted /\ \A i \in Ids : Counted(i)

\* Sets of tokens are finite, so they can be counted.
LEMMA TokensAreFinite ==
  ASSUME NEW S \in SUBSET Token, NEW T \in SUBSET S
  PROVE  /\ IsFiniteSet(S) /\ IsFiniteSet(T)
         /\ Cardinality(T) \in Nat /\ Cardinality(S) \in Nat
         /\ Cardinality(T) <= Cardinality(S)
<1>1. IsFiniteSet(Token)
  BY FS_Interval, MaxAssumption DEF Token
<1>2. IsFiniteSet(S) /\ IsFiniteSet(T)
  BY <1>1, FS_Subset
<1> QED
  BY <1>2, FS_Subset, FS_CardinalityType

\* A step that issues nothing but a login keeps the count when what was over stays over.
LEMMA CountedKept ==
  ASSUME TypeOK, TypeOK', NEW i \in Ids, Counted(i),
         ~ spoiled'[i] => /\ ~ spoiled[i] /\ Over(i) \subseteq Over(i)'
                          /\ issued'[i] - logins'[i] = issued[i] - logins[i]
  PROVE  Counted(i)'
<1> SUFFICES ASSUME ~ spoiled'[i]
             PROVE  issued'[i] <= 1 + logins'[i] + Cardinality(Over(i)')
  BY DEF Counted
<1>1. IsFiniteSet(Over(i)') /\ Cardinality(Over(i)') \in Nat
  <2>1. expired'[i] \in SUBSET Token /\ Over(i)' \in SUBSET expired'[i]
    BY DEF TypeOK, Over
  <2> QED
    BY <2>1, TokensAreFinite
<1>2. Cardinality(Over(i)) \in Nat
  <2>1. expired[i] \in SUBSET Token /\ Over(i) \in SUBSET expired[i]
    BY DEF TypeOK, Over
  <2> QED
    BY <2>1, TokensAreFinite
<1>3. Cardinality(Over(i)) <= Cardinality(Over(i)')
  BY <1>1, FS_Subset
<1>4. issued[i] \in Nat /\ issued'[i] \in Nat /\ logins[i] \in Nat /\ logins'[i] \in Nat
  BY DEF TypeOK, Token
<1>5. issued[i] <= 1 + logins[i] + Cardinality(Over(i))
  BY DEF Counted
<1> QED
  BY <1>1, <1>2, <1>3, <1>4, <1>5

\* Steps that issue nothing and let only what expired be posted.
LEMMA MoveOnce ==
  ASSUME TypeOK, TypeOK', OnceInv,
         UNCHANGED <<store, issued, expired, logins>>,
         \A i \in Ids : ~ spoiled'[i] => ~ spoiled[i],
         \A i \in Ids : subject' = i /\ login' # None => subject = i /\ login = login',
         \A v \in Workers : pc'[v] = "post" =>
             /\ target'[v] = target[v]
             /\ \/ pc[v] = "post" /\ held'[v] = held[v]
                \/ /\ held'[v] \in expired[target[v]] /\ held'[v] = store[target[v]]
                   /\ \A w \in Workers : target[w] = target[v] => pc[w] \notin Storing,
         \A v \in Workers : pc'[v] \in Storing =>
             pc[v] \in Storing /\ target'[v] = target[v] /\ held'[v] = held[v],
         \A v \in Workers : pc[v] \in Storing =>
             (pc'[v] \in Storing /\ target'[v] = target[v]) \/ spoiled'[target[v]]
  PROVE  OnceInv'
<1>1. OnlyIssuedExpire'
  BY DEF OnceInv, OnlyIssuedExpire
<1>2. OnlyExpiredIsPosted'
  BY DEF OnceInv, OnlyExpiredIsPosted
<1>3. ASSUME NEW i \in Ids PROVE Counted(i)'
  <2>1. ASSUME ~ spoiled'[i], NEW t \in expired[i], IsLive(i, t)' PROVE IsLive(i, t)
    <3>0. t # None
      BY NoneAssumption DEF TypeOK, Token
    <3>1. CASE t = store'[i] /\ \A w \in Workers : target'[w] = i => pc'[w] \notin Storing
      BY <2>1, <3>1 DEF IsLive
    <3>2. CASE subject' = i /\ t = login'
      BY <3>0, <3>2 DEF IsLive
    <3>3. ASSUME NEW w \in Workers, target'[w] = i, pc'[w] \in {"post"} \cup Storing,
                 t = held'[w]
          PROVE  IsLive(i, t)
      <4>1. CASE pc'[w] = "post"
        BY <3>3, <4>1 DEF IsLive
      <4>2. CASE pc'[w] \in Storing
        BY <3>3, <4>2 DEF IsLive
      <4> QED
        BY <3>3, <4>1, <4>2
    <3> QED
      BY <2>1, <3>1, <3>2, <3>3 DEF IsLive
  <2>2. ~ spoiled'[i] => Over(i) \subseteq Over(i)'
    BY <2>1 DEF Over
  <2>3. Counted(i)
    BY DEF OnceInv
  <2> QED
    BY <2>2, <2>3, CountedKept
<1> QED
  BY <1>1, <1>2, <1>3 DEF OnceInv

\* A refresh that is answered: the credential it presented is over.
LEMMA RefreshedOnceMore ==
  ASSUME TypeOK, TypeOK', HeldByOne, IInv, OnceInv, NEW w \in Workers, Refreshed(w),
         NEW i \in Ids, i = target[w], NEW t, t = held[w]
  PROVE  OnceInv'
<1> USE NoneAssumption
<1> DEFINE new == issued[i] + 1
<1>1. /\ i \in Ids /\ t \in 1 .. issued[i] /\ t \in expired[i] /\ new \in Nat
      /\ pc[w] = "post"
  BY DEF Refreshed, TypeOK, Token, Stored, OnceInv, OnlyExpiredIsPosted, OnlyIssuedExpire
<1>2. /\ issued' = [issued EXCEPT ![i] = new]
      /\ pc' = [pc EXCEPT ![w] = "read"] /\ held' = [held EXCEPT ![w] = new]
      /\ UNCHANGED <<store, expired, target, subject, login, logins, spoiled>>
  BY DEF Refreshed, Issue, outsiderVars
<1>3. \A v \in Workers : v # w => pc'[v] = pc[v] /\ held'[v] = held[v]
  BY <1>2 DEF TypeOK
<1>4. pc'[w] = "read" /\ held'[w] = new
  BY <1>2 DEF TypeOK
<1>5. \A v \in Workers : v # w /\ target[v] = i => pc[v] \notin {"post"} \cup Storing
  BY <1>1 DEF HeldByOne, Locked, Storing
<1> HIDE DEF new
<1>6. \A j \in Ids : issued[j] \in Nat /\ issued'[j] \in Nat /\ issued[j] <= issued'[j]
  <2>1. \A j \in Ids : issued[j] \in Nat /\ issued'[j] \in Nat
    BY DEF TypeOK, Token
  <2>2. \A j \in Ids : issued'[j] = IF j = i THEN new ELSE issued[j]
    BY <1>2 DEF TypeOK
  <2>3. issued[i] <= new
    BY <1>1, <2>1 DEF new
  <2> QED
    BY <1>1, <2>1, <2>2, <2>3
<1>7. OnlyIssuedExpire'
  BY <1>2, <1>6 DEF OnceInv, OnlyIssuedExpire
<1>8. OnlyExpiredIsPosted'
  BY <1>2, <1>3, <1>4 DEF OnceInv, OnlyExpiredIsPosted
<1>9. ASSUME NEW j \in Ids, j # i PROVE Counted(j)'
  <2>1. ~ (target[w] = j)
    BY <1>9
  <2>2. \A x : IsLive(j, x)' <=> IsLive(j, x)
    BY <1>2, <1>3, <2>1 DEF IsLive
  <2>3. Over(j)' = Over(j)
    BY <1>2, <2>2 DEF Over
  <2>4. issued'[j] = issued[j] /\ Counted(j)
    BY <1>2, <1>9 DEF OnceInv, TypeOK
  <2> QED
    BY <1>2, <2>3, <2>4 DEF Counted
<1>10. Counted(i)'
  <2>1. new \notin expired[i] /\ t # new
    BY <1>1, <1>6 DEF OnceInv, OnlyIssuedExpire, new
  <2>2. ASSUME NEW x \in expired[i], IsLive(i, x)' PROVE IsLive(i, x) /\ x # t
    <3>1. x # new /\ x # None
      <4>1. x \in Nat
        BY DEF TypeOK, Token
      <4> QED
        BY <2>1, <2>2, <4>1
    <3>2. \E v \in Workers : target'[v] = i /\ pc'[v] \in Storing
      BY <1>2, <1>4 DEF Storing
    <3>3. ~ \E v \in Workers : /\ target'[v] = i /\ pc'[v] \in {"post"} \cup Storing
                               /\ x = held'[v]
      BY <1>2, <1>3, <1>4, <1>5, <3>1
    <3>4. subject' = i /\ x = login'
      BY <2>2, <3>2, <3>3 DEF IsLive
    <3>5. subject = i /\ x = login /\ login # None
      BY <1>2, <3>1, <3>4
    <3>6. held[w] # login
      BY <1>1, <3>5 DEF IInv, LoginIsNew
    <3> QED
      BY <3>5, <3>6 DEF IsLive
  <2>3. IsLive(i, t)
    BY <1>1 DEF IsLive
  <2>4. Over(i) \cup {t} \subseteq Over(i)' /\ t \notin Over(i)
    BY <1>1, <1>2, <2>2, <2>3 DEF Over
  <2>5. IsFiniteSet(Over(i)) /\ IsFiniteSet(Over(i)')
        /\ Cardinality(Over(i)) \in Nat /\ Cardinality(Over(i)') \in Nat
    <3>1. expired[i] \in SUBSET Token /\ Over(i) \in SUBSET expired[i]
      BY DEF TypeOK, Over
    <3>2. expired'[i] \in SUBSET Token /\ Over(i)' \in SUBSET expired'[i]
      BY DEF TypeOK, Over
    <3> QED
      BY <3>1, <3>2, TokensAreFinite
  <2>6. Cardinality(Over(i) \cup {t}) = Cardinality(Over(i)) + 1
    BY <2>4, <2>5, FS_AddElement
  <2>7. Cardinality(Over(i)) + 1 <= Cardinality(Over(i)')
    BY <2>4, <2>5, <2>6, FS_Subset
  <2>8. /\ logins[i] \in Nat /\ logins'[i] = logins[i] /\ issued[i] \in Nat
        /\ issued'[i] = issued[i] + 1
    BY <1>1, <1>2 DEF TypeOK, Token, new
  <2>9. spoiled' = spoiled /\ (~ spoiled[i] => issued[i] <= 1 + logins[i] + Cardinality(Over(i)))
    BY <1>1, <1>2 DEF OnceInv, Counted
  <2>10. ~ spoiled'[i] => issued'[i] <= 1 + logins'[i] + Cardinality(Over(i)')
    BY <2>5, <2>7, <2>8, <2>9
  <2> QED
    BY <2>10 DEF Counted
<1> QED
  BY <1>7, <1>8, <1>9, <1>10 DEF OnceInv

\* Every step keeps what is known of the refreshes.
LEMMA OnceStep ==
  ASSUME PerEntry, TypeOK, TypeOK', HeldByOne, IInv, OnceInv, [Next]_vars
  PROVE  OnceInv'
<1> USE NoneAssumption DEF providerVars, workerVars, outsiderVars
<1>1. ASSUME NEW w \in Workers, NEW i \in Ids, Start(w, i) PROVE OnceInv'
  BY <1>1, MoveOnce DEF Start, TypeOK, Storing
<1>2. ASSUME NEW w \in Workers, Get(w) \/ Acquire(w) PROVE OnceInv'
  BY <1>2, MoveOnce DEF Get, Acquire, Finish, TypeOK, Storing
<1>3. ASSUME NEW w \in Workers, Recheck(w) PROVE OnceInv'
  <2>1. CASE Finish(w)
    BY <1>3, <2>1, MoveOnce DEF Recheck, Finish, TypeOK, Storing
  <2>2. CASE ~ Finish(w)
    <3>1. /\ pc[w] = "recheck" /\ store[target[w]] \in expired[target[w]]
          /\ pc' = [pc EXCEPT ![w] = "post"]
          /\ held' = [held EXCEPT ![w] = store[target[w]]]
          /\ UNCHANGED <<store, issued, expired, logins, target, subject, login, spoiled>>
      BY <1>3, <2>2 DEF Recheck, Expiring
    <3>2. \A v \in Workers : target[v] = target[w] => pc[v] \notin Storing
      BY <3>1 DEF HeldByOne, Locked, Storing, TypeOK
    <3>3. \A v \in Workers : v # w => pc'[v] = pc[v] /\ held'[v] = held[v]
      BY <3>1 DEF TypeOK
    <3>4. pc'[w] = "post" /\ held'[w] = store[target[w]]
      BY <3>1 DEF TypeOK
    <3> QED
      BY <3>1, <3>2, <3>3, <3>4, MoveOnce DEF Storing
  <2> QED
    BY <2>1, <2>2
<1>4. ASSUME NEW w \in Workers, Refused(w) \/ PersistRead(w) \/ GetFails(w) PROVE OnceInv'
  BY <1>4, MoveOnce DEF Refused, PersistRead, GetFails, Finish, TypeOK, Storing
<1>5. ASSUME NEW w \in Workers, PersistFails(w) PROVE OnceInv'
  BY <1>5, MoveOnce DEF PersistFails, Finish, TypeOK, Storing
<1>6. ASSUME NEW w \in Workers, ResponseLost(w), NEW i \in Ids, i = target[w]
      PROVE  OnceInv'
  <2>1. /\ target[w] = i /\ issued' = [issued EXCEPT ![i] = @ + 1] /\ spoiled'[i]
        /\ \A j \in Ids : j # i => spoiled'[j] = spoiled[j]
        /\ \A v \in Workers :
              v # w => pc'[v] = pc[v] /\ target'[v] = target[v] /\ held'[v] = held[v]
        /\ pc[w] = "post" /\ pc'[w] = "done" /\ target'[w] = None
        /\ UNCHANGED <<store, expired, logins, subject, login>>
    BY <1>6 DEF ResponseLost, Issue, Finish, TypeOK
  <2>2. \A j \in Ids : issued[j] \in Nat /\ issued'[j] \in Nat /\ issued[j] <= issued'[j]
    BY <2>1 DEF TypeOK, Token
  <2>3. OnlyIssuedExpire'
    BY <2>1, <2>2 DEF OnceInv, OnlyIssuedExpire
  <2>4. OnlyExpiredIsPosted'
    BY <2>1 DEF OnceInv, OnlyExpiredIsPosted
  <2>5. ASSUME NEW j \in Ids, j # i PROVE Counted(j)'
    <3>0. \A v \in Workers :
             (target'[v] = j <=> target[v] = j)
             /\ (target[v] = j => pc'[v] = pc[v] /\ held'[v] = held[v])
      BY <2>1, <2>5
    <3>1. \A x : IsLive(j, x)' <=> IsLive(j, x)
      BY <2>1, <3>0 DEF IsLive
    <3>2. Over(j)' = Over(j)
      BY <2>1, <3>1 DEF Over
    <3>3. issued'[j] = issued[j] /\ Counted(j)
      BY <2>1, <2>5 DEF OnceInv, TypeOK
    <3> QED
      BY <2>1, <2>5, <3>2, <3>3 DEF Counted
  <2>6. Counted(i)'
    BY <2>1 DEF Counted
  <2> QED
    BY <2>3, <2>4, <2>5, <2>6 DEF OnceInv
<1>7. ASSUME NEW w \in Workers, PersistWrite(w), NEW i \in Ids, i = target[w]
      PROVE  OnceInv'
  <2>1. /\ target[w] = i /\ store' = [store EXCEPT ![i] = held[w]]
        /\ pc[w] = "write" /\ pc'[w] = "done" /\ target'[w] = None
        /\ \A v \in Workers :
              v # w => pc'[v] = pc[v] /\ target'[v] = target[v] /\ held'[v] = held[v]
        /\ UNCHANGED <<issued, expired, logins, subject, login, spoiled>>
    BY <1>7 DEF PersistWrite, Updated, Finish, TypeOK
  <2>2. \A v \in Workers : v # w /\ target[v] = i => pc[v] \notin {"post"} \cup Storing
    BY <2>1 DEF HeldByOne, Locked, Storing
  <2>3. OnlyIssuedExpire' /\ OnlyExpiredIsPosted'
    BY <2>1 DEF OnceInv, OnlyIssuedExpire, OnlyExpiredIsPosted
  <2>4. ASSUME NEW j \in Ids, NEW x, IsLive(j, x)' PROVE IsLive(j, x)
    <3>1. CASE j = i
      <4>1. store'[i] = held[w]
        BY <2>1 DEF TypeOK, Payload
      <4> QED
        BY <2>1, <2>2, <2>4, <3>1, <4>1 DEF IsLive, Storing
    <3>2. CASE j # i
      <4>1. store'[j] = store[j]
        BY <2>1, <3>2 DEF TypeOK, Payload
      <4> QED
        BY <2>1, <2>4, <3>2, <4>1 DEF IsLive
    <3> QED
      BY <3>1, <3>2
  <2>5. ASSUME NEW j \in Ids PROVE Counted(j)'
    <3>1. Over(j) \subseteq Over(j)'
      BY <2>1, <2>4 DEF Over
    <3> QED
      BY <2>1, <3>1, CountedKept DEF OnceInv
  <2> QED
    BY <2>3, <2>5 DEF OnceInv
<1>8. ASSUME NEW i \in Ids, Expire(i) PROVE OnceInv'
  <2>1. /\ \A j \in Ids : expired[j] \subseteq expired'[j] /\ expired'[j] \subseteq 1 .. issued[j]
        /\ UNCHANGED <<store, issued, workerVars, outsiderVars, spoiled>>
    BY <1>8 DEF Expire, TypeOK, OnceInv, OnlyIssuedExpire
  <2>2. OnlyIssuedExpire' /\ OnlyExpiredIsPosted'
    BY <2>1 DEF OnlyIssuedExpire, OnceInv, OnlyExpiredIsPosted, TypeOK
  <2>3. ASSUME NEW j \in Ids PROVE Counted(j)'
    <3>1. \A x : IsLive(j, x)' <=> IsLive(j, x)
      BY <2>1 DEF IsLive
    <3>2. Over(j) \subseteq Over(j)'
      BY <2>1, <3>1 DEF Over
    <3> QED
      BY <2>1, <3>2, CountedKept DEF OnceInv
  <2> QED
    BY <2>2, <2>3 DEF OnceInv
<1>9. ASSUME NEW i \in Ids, LoginDone(i) PROVE OnceInv'
  <2>1. /\ issued' = [issued EXCEPT ![i] = @ + 1] /\ logins' = [logins EXCEPT ![i] = @ + 1]
        /\ subject' = i /\ login' = issued[i] + 1
        /\ UNCHANGED <<store, expired, workerVars, spoiled>>
    BY <1>9 DEF LoginDone
  <2>2. /\ \A j \in Ids : issued[j] \in Nat /\ logins[j] \in Nat
        /\ \A j \in Ids : issued'[j] = IF j = i THEN issued[i] + 1 ELSE issued[j]
        /\ \A j \in Ids : logins'[j] = IF j = i THEN logins[i] + 1 ELSE logins[j]
    BY <2>1 DEF TypeOK, Token
  <2>3. \A j \in Ids : issued'[j] - logins'[j] = issued[j] - logins[j] /\ issued'[j] >= issued[j]
    BY <2>2
  <2>4. OnlyIssuedExpire'
    <3>1. \A j \in Ids : 1 .. issued[j] \subseteq 1 .. issued'[j]
      BY <2>2, <2>3
    <3> QED
      BY <2>1, <3>1 DEF OnlyIssuedExpire, OnceInv
  <2>5. OnlyExpiredIsPosted'
    BY <2>1 DEF OnlyExpiredIsPosted, OnceInv
  <2>6. ASSUME NEW j \in Ids, NEW x \in expired[j], IsLive(j, x)' PROVE IsLive(j, x)
    <3>1. x \in 1 .. issued[j]
      BY DEF OnlyIssuedExpire, OnceInv
    <3>2. ~ (subject' = j /\ x = login')
      BY <2>1, <2>2, <3>1
    <3> QED
      BY <2>1, <2>6, <3>2 DEF IsLive
  <2>7. ASSUME NEW j \in Ids PROVE Counted(j)'
    <3>1. Over(j) \subseteq Over(j)'
      BY <2>1, <2>6 DEF Over
    <3> QED
      BY <2>1, <2>3, <3>1, CountedKept DEF OnceInv
  <2> QED
    BY <2>4, <2>5, <2>7 DEF OnceInv
<1>10. ASSUME NEW i \in Ids, RemoveStart(i) PROVE OnceInv'
  <2>1. /\ login' = login /\ login = None
        /\ UNCHANGED <<store, issued, expired, logins, workerVars, spoiled>>
    BY <1>10 DEF RemoveStart, IInv, LoginIsNew, TypeOK
  <2> QED
    BY <2>1, MoveOnce
<1>11. CASE Revoke \/ OutsiderRead
  BY <1>11, MoveOnce DEF Revoke, OutsiderRead
<1>12. CASE OutsiderFails
  BY <1>12, MoveOnce DEF OutsiderFails, OutsiderEnds
<1>13. CASE OutsiderWrite
  <2>1. /\ subject \in Ids /\ store' = [store EXCEPT ![subject] = login]
        /\ subject' = None /\ login' = None
        /\ UNCHANGED <<issued, expired, logins, workerVars, spoiled>>
    BY <1>13 DEF OutsiderWrite, OutsiderEnds, Updated, TypeOK
  <2>2. OnlyIssuedExpire' /\ OnlyExpiredIsPosted'
    BY <2>1 DEF OnceInv, OnlyIssuedExpire, OnlyExpiredIsPosted
  <2>3. ASSUME NEW j \in Ids, NEW x, IsLive(j, x)' PROVE IsLive(j, x)
    <3>1. store'[j] = IF j = subject THEN login ELSE store[j]
      BY <2>1 DEF TypeOK, Payload
    <3>2. ~ (subject' = j)
      BY <2>1
    <3> QED
      BY <2>1, <2>3, <3>1, <3>2 DEF IsLive
  <2>4. ASSUME NEW j \in Ids PROVE Counted(j)'
    <3>1. Over(j) \subseteq Over(j)'
      BY <2>1, <2>3 DEF Over
    <3> QED
      BY <2>1, <3>1, CountedKept DEF OnceInv
  <2> QED
    BY <2>2, <2>4 DEF OnceInv
<1>14. CASE Crash
  BY <1>14, MoveOnce DEF Crash, TypeOK, Storing
<1>15. CASE UNCHANGED vars
  BY <1>15, MoveOnce DEF vars, TypeOK, Storing
<1>16. \A w \in Workers :
          Refreshed(w) \/ ResponseLost(w) \/ PersistWrite(w) => target[w] \in Ids
  BY DEF Refreshed, ResponseLost, PersistWrite, TypeOK
<1> QED
  BY <1>1, <1>2, <1>3, <1>4, <1>5, <1>6, <1>7, <1>8, <1>9, <1>10, <1>11, <1>12, <1>13, <1>14,
     <1>15, <1>16, StepCases, RefreshedOnceMore

\* "The others block, re-read the store, and find fresh credentials already there": over
\* the keychain, an expiring credential is refreshed once, however many fetches meet it.
THEOREM KeychainRefreshesOnce == ASSUME PerEntry PROVE Spec => []RefreshedOnce
<1>1. Init => OnceInv
  <2> SUFFICES ASSUME Init PROVE OnceInv
    OBVIOUS
  <2>1. OnlyIssuedExpire /\ OnlyExpiredIsPosted
    BY DEF Init, OnlyIssuedExpire, OnlyExpiredIsPosted
  <2>2. ASSUME NEW i \in Ids PROVE Counted(i)
    <3>1. Over(i) = {} /\ issued[i] = 1 /\ logins[i] = 0
      BY DEF Init, Over
    <3> QED
      BY <3>1, FS_EmptySet DEF Counted
  <2> QED
    BY <2>1, <2>2 DEF OnceInv
<1>2. TypeOK /\ TypeOK' /\ HeldByOne /\ IInv /\ OnceInv /\ [Next]_vars => OnceInv'
  BY OnceStep
<1>3. TypeOK /\ OnceInv => RefreshedOnce
  <2> SUFFICES ASSUME TypeOK, OnceInv, NEW i \in Ids, ~ spoiled[i]
               PROVE  issued[i] <= 1 + logins[i] + Cardinality(expired[i])
    BY DEF RefreshedOnce
  <2>1. issued[i] \in Nat /\ logins[i] \in Nat
    BY DEF TypeOK, Token
  <2>2. issued[i] <= 1 + logins[i] + Cardinality(Over(i))
    BY DEF OnceInv, Counted
  <2>3. expired[i] \in SUBSET Token /\ Over(i) \in SUBSET expired[i]
    BY DEF TypeOK, Over
  <2> QED
    BY <2>1, <2>2, <2>3, TokensAreFinite
<1> QED
  BY <1>1, <1>2, <1>3, Inductive, TypeCorrect, LockIsSound, PTL DEF Spec

=============================================================================
