----------------------------- MODULE LoginProofs -----------------------------
(***************************************************************************)
(* Theorems of Login, for any number of logins, on shared ports and on     *)
(* their own: types, and the safety properties of a login by one inductive *)
(* invariant.                                                              *)
(***************************************************************************)
EXTENDS Login, SequenceTheorems, TLAPS

\* The steps of the specification, for the case split every proof makes.
LEMMA StepCases ==
    [Next]_vars =>
        \/ \E l \in Logins, kind \in {"code", "error"} : Answer(l, kind)
        \/ \E p \in Ports, kind \in {"stray", "silent"} : Intrude(p, kind)
        \/ \E l \in Logins :
              \/ OpenModal(l) \/ RunCommand(l) \/ Bind(l) \/ Prepare(l) \/ PrepareFails(l)
              \/ DeadlinePasses(l) \/ Poll(l) \/ ServeNothing(l) \/ ServeRequest(l)
              \/ HangUp(l) \/ Decide(l) \/ Exchange(l) \/ ExchangeFails(l)
              \/ Close(l) \/ Store(l) \/ StoreFails(l) \/ HandBack(l) \/ Die(l)
        \/ Escape
        \/ UNCHANGED vars
  BY DEF Next, LoginStep

\* The port of a login is one of the ports.
LEMMA PortInPorts == \A l \in Logins : Port(l) \in Ports
  BY DEF Port, Ports

\* A server that closes leaves types, and the queues of silent ports, alone.
LEMMA CloseType ==
    ASSUME TypeOK, NEW l \in Logins, CloseServer(l)
    PROVE  /\ server' \in [Ports -> Logins \cup {None}]
           /\ queue' \in [Ports -> Seq(Request)]
           /\ \A p \in Ports : server'[p] = None => queue'[p] = <<>>
  BY DEF TypeOK, CloseServer

-----------------------------------------------------------------------------

\* Every variable keeps its type; nothing waits at a port where nobody
\* listens, and a login exchanges only an answer it has received.
THEOREM TypeCorrect == Spec => []TypeOK
<1>1. Init => TypeOK
  BY NoneAssumption DEF Init, TypeOK, PCs, UnderWay, Tokens
<1>2. TypeOK /\ [Next]_vars => TypeOK'
  <2> SUFFICES ASSUME TypeOK, [Next]_vars PROVE TypeOK'
    OBVIOUS
  <2>1. ASSUME NEW p \in Ports, NEW r \in Request, Connects(p, r), answered' \subseteq Answers
        PROVE  TypeOK'
    <3>1. queue' \in [Ports -> Seq(Request)]
      BY <2>1 DEF Connects, TypeOK
    <3>2. \A q \in Ports : server'[q] = None => queue'[q] = <<>>
      BY <2>1 DEF Connects, TypeOK
    <3> QED
      BY <2>1, <3>1, <3>2 DEF Connects, TypeOK, modalVars
  <2>2. ASSUME NEW l \in Logins, NEW kind \in {"code", "error"}, Answer(l, kind) PROVE TypeOK'
    <3>1. [login |-> l, kind |-> kind] \in Answers
      BY DEF Answers
    <3>2. [login |-> l, kind |-> kind] \in Request /\ answered' \subseteq Answers
      BY <2>2, <3>1 DEF Answer, Request, TypeOK
    <3> QED
      BY <2>1, <2>2, <3>2, PortInPorts DEF Answer
  <2>3. ASSUME NEW p \in Ports, NEW kind \in {"stray", "silent"}, Intrude(p, kind) PROVE TypeOK'
    <3>1. [login |-> None, kind |-> kind] \in Request
      BY DEF Request, Others
    <3> QED
      BY <2>1, <2>3, <3>1 DEF Intrude, TypeOK
  <2>4. ASSUME NEW l \in Logins, OpenModal(l) \/ RunCommand(l) \/ Prepare(l) PROVE TypeOK'
    <3>1. CASE OpenModal(l)
      BY <3>1 DEF OpenModal, TypeOK, PCs, UnderWay, browserVars
    <3>2. CASE RunCommand(l)
      BY <3>2 DEF RunCommand, TypeOK, PCs, UnderWay, browserVars, modalVars
    <3>3. CASE Prepare(l)
      <4>1. pages' \subseteq Logins /\ pc' \in [Logins -> PCs]
        BY <3>3 DEF Prepare, TypeOK, PCs, UnderWay, Listening, Waiting
      <4>2. \A m \in Logins : pc'[m] = "exchange" => received'[m] # None
        BY <3>3 DEF Prepare, TypeOK
      <4> QED
        BY <3>3, <4>1, <4>2 DEF Prepare, TypeOK, modalVars
    <3> QED
      BY <2>4, <3>1, <3>2, <3>3
  <2>5. ASSUME NEW l \in Logins, Bind(l) PROVE TypeOK'
    <3>1. CASE server[Port(l)] = None
      <4>0. /\ server' = [server EXCEPT ![Port(l)] = l]
            /\ pc' = [pc EXCEPT ![l] = "prepare"]
            /\ queue' = queue /\ received' = received
        BY <2>5, <3>1 DEF Bind
      <4>1. server' \in [Ports -> Logins \cup {None}]
        BY <4>0 DEF TypeOK
      <4>2. \A p \in Ports : server'[p] = None => queue'[p] = <<>>
        BY <4>0, NoneAssumption DEF TypeOK
      <4>3. pc' \in [Logins -> PCs]
        BY <4>0 DEF TypeOK, PCs, UnderWay, Listening
      <4>4. \A m \in Logins : pc'[m] = "exchange" => received'[m] # None
        BY <4>0 DEF TypeOK
      <4> QED
        BY <2>5, <4>0, <4>1, <4>2, <4>3, <4>4 DEF Bind, TypeOK, modalVars
    <3>2. CASE server[Port(l)] # None
      BY <2>5, <3>2, CloseType DEF Bind, Raise, TypeOK, PCs, UnderWay, Listening, Waiting, modalVars
    <3> QED
      BY <3>1, <3>2
  <2>6. ASSUME NEW l \in Logins, PrepareFails(l) PROVE TypeOK'
    BY <2>6, CloseType DEF PrepareFails, Raise, TypeOK, PCs, UnderWay, Listening, Waiting, modalVars
  <2>7. ASSUME NEW l \in Logins, DeadlinePasses(l) \/ Poll(l) \/ ServeNothing(l) \/ HangUp(l)
        PROVE  TypeOK'
    BY <2>7 DEF DeadlinePasses, Poll, ServeNothing, HangUp, TypeOK, PCs, UnderWay, Listening,
       Waiting, browserVars, modalVars
  <2>8. ASSUME NEW l \in Logins, ServeRequest(l) PROVE TypeOK'
    <3> DEFINE q == queue[Port(l)]
    <3>1. q \in Seq(Request) /\ q # <<>>
      BY <2>8, PortInPorts DEF ServeRequest, TypeOK
    <3>2. Head(q) \in Request /\ Tail(q) \in Seq(Request)
      BY <3>1, HeadTailProperties
    <3>3. queue' \in [Ports -> Seq(Request)]
      BY <2>8, <3>2 DEF ServeRequest, TypeOK
    <3>4. Accepted(l, Head(q)) => Head(q) \in Answers
      BY <3>2 DEF Accepted, Request, Others
    <3>5. received' \in [Logins -> Answers \cup {None}]
      BY <2>8, <3>4 DEF ServeRequest, TypeOK
    <3>6. \A p \in Ports : server'[p] = None => queue'[p] = <<>>
      BY <2>8, <3>1 DEF ServeRequest, TypeOK
    <3>7. pc' \in [Logins -> PCs] /\ overrun' \in [Logins -> Nat]
      BY <2>8 DEF ServeRequest, TypeOK, PCs, UnderWay, Listening, Waiting
    <3>8. \A m \in Logins : pc'[m] = "exchange" => received'[m] # None
      BY <2>8 DEF ServeRequest, TypeOK
    <3> QED
      BY <2>8, <3>3, <3>5, <3>6, <3>7, <3>8 DEF ServeRequest, TypeOK, modalVars
  <2>9. ASSUME NEW l \in Logins, Decide(l) PROVE TypeOK'
    <3>1. CASE received[l] # None /\ received[l].kind = "code"
      BY <2>9, <3>1 DEF Decide, TypeOK, PCs, UnderWay, Listening, Waiting, modalVars
    <3>2. CASE ~ (received[l] # None /\ received[l].kind = "code")
      <4>1. Raise(l)
        BY <2>9, <3>2 DEF Decide
      <4> QED
        BY <2>9, <4>1, CloseType
           DEF Decide, Raise, TypeOK, PCs, UnderWay, Listening, Waiting, modalVars
    <3> QED
      BY <3>1, <3>2
  <2>10. ASSUME NEW l \in Logins, Exchange(l) \/ ExchangeFails(l) PROVE TypeOK'
    BY <2>10, CloseType DEF Exchange, ExchangeFails, Raise, TypeOK, PCs, UnderWay, Listening,
       Waiting, Tokens, modalVars
  <2>11. ASSUME Escape PROVE TypeOK'
    BY <2>11 DEF Escape, TypeOK, browserVars
  <2>12. ASSUME NEW l \in Logins, Close(l) \/ Store(l) \/ HandBack(l) PROVE TypeOK'
    BY <2>12 DEF Close, Store, HandBack, Dismiss, TypeOK, PCs, UnderWay, Tokens, browserVars
  <2>12a. ASSUME NEW l \in Logins, StoreFails(l) PROVE TypeOK'
    BY <2>12a DEF StoreFails, TypeOK, PCs, UnderWay, browserVars
  <2>13. ASSUME NEW l \in Logins, Die(l) PROVE TypeOK'
    BY <2>13, CloseType DEF Die, Dismiss, TypeOK, PCs, UnderWay, Tokens
  <2>14. CASE UNCHANGED vars
    BY <2>14 DEF vars, TypeOK, browserVars, modalVars
  <2> QED
    BY <2>2, <2>3, <2>4, <2>5, <2>6, <2>7, <2>8, <2>9, <2>10, <2>11, <2>12, <2>12a, <2>13, <2>14,
       StepCases
<1> QED
  BY <1>1, <1>2, PTL DEF Spec

-----------------------------------------------------------------------------
(* The inductive invariant *)

\* The one connection a login may serve too late is the one it was polling for.
LateOnce ==
    \A l \in Logins :
        \/ overrun[l] = 0
        \/ overrun[l] = 1 /\ (late[l] \/ cancelled[l]) /\ pc[l] # "serve"

\* A login has a live token exactly between the exchange and the store, or what takes
\* the store's place.
TokenIsHeld == \A l \in Logins : token[l] = "live" <=> pc[l] \in {"returned", "handback"}

\* What waits at a port, other than stray requests, was answered in the browser, and what
\* a login has received was answered on its own page.
AnswersAreGiven ==
    /\ \A p \in Ports : queue[p] \in Seq(answered \cup Others)
    /\ \A l \in Logins : received[l] # None => received[l] \in answered /\ received[l].login = l

IInv ==
    /\ AnswersAreGiven /\ UserDecides /\ PortIsFreed /\ LateOnce
    /\ TokenIsHeld /\ ModalIsUnderWay

\* What was answered stays so.
LEMMA AnswersStay ==
    ASSUME TypeOK, AnswersAreGiven, answered \subseteq answered',
           UNCHANGED received,
           \A p \in Ports : queue'[p] = queue[p] \/ queue'[p] = <<>>
    PROVE  AnswersAreGiven'
<1>1. ASSUME NEW p \in Ports PROVE queue'[p] \in Seq(answered' \cup Others)
  <2>1. queue[p] \in Seq(answered \cup Others)
    BY DEF AnswersAreGiven
  <2>2. queue[p] \in Seq(answered' \cup Others)
    BY <2>1, SeqMonotonic
  <2>3. <<>> \in Seq(answered' \cup Others)
    OBVIOUS
  <2> QED
    BY <2>2, <2>3
<1> QED
  BY <1>1 DEF AnswersAreGiven

\* A server that closes leaves nothing waiting at its port.
LEMMA CloseQueue ==
    ASSUME TypeOK, NEW l \in Logins, CloseServer(l)
    PROVE  \A p \in Ports : queue'[p] = queue[p] \/ queue'[p] = <<>>
  BY DEF TypeOK, CloseServer

\* The initial state satisfies the invariant.
LEMMA InitInv == Init => IInv
  BY SetsAssumption, NoneAssumption
     DEF Init, IInv, AnswersAreGiven, UserDecides, PortIsFreed, LateOnce, TokenIsHeld,
         ModalIsUnderWay, UnderWay, Listening, Waiting

\* A step of one login that only moves it on, within the part that listens or
\* within the part that does not: no port, no token, no modal is disturbed.
LEMMA MoveInv ==
    ASSUME TypeOK, IInv, NEW l \in Logins, NEW step \in UnderWay \ {"returned", "handback"},
           pc[l] \in UnderWay \ {"returned", "handback"},
           pc' = [pc EXCEPT ![l] = step],
           pc[l] \in Listening => step \in Listening,
           UNCHANGED <<server, queue, answered, received, modalVars, token>>
    PROVE  AnswersAreGiven' /\ PortIsFreed' /\ TokenIsHeld' /\ ModalIsUnderWay'
<1>1. AnswersAreGiven'
  BY AnswersStay DEF IInv
<1>2. PortIsFreed'
  BY DEF TypeOK, IInv, PortIsFreed
<1>3. TokenIsHeld'
  BY DEF TypeOK, IInv, TokenIsHeld
<1>4. ModalIsUnderWay'
  BY SetsAssumption DEF TypeOK, IInv, ModalIsUnderWay, modalVars
<1> QED
  BY <1>1, <1>2, <1>3, <1>4

\* A login that leaves perform_login, its server closed.
LEMMA RaiseInv ==
    ASSUME TypeOK, IInv, NEW l \in Logins, Raise(l),
           pc[l] \in UnderWay \ {"returned", "handback"},
           UNCHANGED <<answered, received, late, modalVars, overrun>>,
           \A m \in Logins : token'[m] = token[m]
                              \/ (m = l /\ pc[l] = "exchange" /\ token'[m] = "lost")
    PROVE  IInv'
<1>1. AnswersAreGiven'
  BY AnswersStay, CloseQueue DEF IInv, Raise
<1>1a. UserDecides'
  BY DEF TypeOK, IInv, UserDecides, Raise, modalVars
<1>2. PortIsFreed'
  BY DEF TypeOK, IInv, PortIsFreed, Raise, CloseServer
<1>3. LateOnce'
  BY DEF TypeOK, IInv, LateOnce, Raise, modalVars
<1>4. TokenIsHeld'
  BY DEF TypeOK, IInv, TokenIsHeld, Raise
<1>5. ModalIsUnderWay'
  BY SetsAssumption DEF TypeOK, IInv, ModalIsUnderWay, Raise, modalVars, UnderWay
<1> QED
  BY <1>1, <1>1a, <1>2, <1>3, <1>4, <1>5 DEF IInv

\* A login whose frontend is done with it.
LEMMA DismissInv ==
    ASSUME TypeOK, IInv, NEW l \in Logins, Dismiss(l), pc[l] \in UnderWay,
           UNCHANGED <<answered, received, late, cancelled, overrun>>,
           \A p \in Ports : server'[p] = None \/ (server'[p] = server[p] /\ server[p] # l),
           \A p \in Ports : queue'[p] = queue[p] \/ queue'[p] = <<>>,
           \A m \in Logins \ {l} : token'[m] = token[m],
           token'[l] # "live", token'[l] # "none" => token[l] # "none"
    PROVE  IInv'
<1>1. AnswersAreGiven'
  BY AnswersStay DEF IInv
<1>1a. UserDecides'
  BY DEF TypeOK, IInv, UserDecides, Dismiss
<1>2. PortIsFreed'
  BY DEF TypeOK, IInv, PortIsFreed, Dismiss
<1>3. LateOnce'
  BY DEF TypeOK, IInv, LateOnce, Dismiss
<1>4. TokenIsHeld'
  BY DEF TypeOK, IInv, TokenIsHeld, Dismiss
<1>5. ModalIsUnderWay'
  BY SetsAssumption, NoneAssumption
     DEF TypeOK, IInv, ModalIsUnderWay, Dismiss, UnderWay, Listening, Waiting
<1> QED
  BY <1>1, <1>1a, <1>2, <1>3, <1>4, <1>5 DEF IInv

\* Every step keeps the invariant.
LEMMA StepInv == TypeOK /\ IInv /\ [Next]_vars => IInv'
<1> SUFFICES ASSUME TypeOK, IInv, [Next]_vars PROVE IInv'
  OBVIOUS
<1> USE DEF UnderWay, Listening, Waiting
<1>1. ASSUME NEW p \in Ports, NEW r, Connects(p, r), answered \subseteq answered',
             r \in answered' \cup Others
      PROVE  IInv'
  <2>1. ASSUME NEW q \in Ports PROVE queue'[q] \in Seq(answered' \cup Others)
    <3>1. queue[q] \in Seq(answered \cup Others)
      BY DEF IInv, AnswersAreGiven
    <3>2. queue[q] \in Seq(answered' \cup Others)
      BY <1>1, <3>1, SeqMonotonic
    <3>3. queue'[q] = queue[q] \/ queue'[q] = Append(queue[q], r)
      BY <1>1 DEF Connects, TypeOK
    <3> QED
      BY <1>1, <3>2, <3>3, AppendProperties
  <2>2. AnswersAreGiven'
    BY <1>1, <2>1 DEF Connects, IInv, AnswersAreGiven
  <2> QED
    BY <1>1, <2>2 DEF Connects, IInv, UserDecides, PortIsFreed, LateOnce, TokenIsHeld,
       ModalIsUnderWay, modalVars
<1>1a. ASSUME NEW l \in Logins, NEW kind \in {"code", "error"}, Answer(l, kind) PROVE IInv'
  BY <1>1, <1>1a, PortInPorts DEF Answer
<1>1b. ASSUME NEW p \in Ports, NEW kind \in {"stray", "silent"}, Intrude(p, kind) PROVE IInv'
  <2>1. [login |-> None, kind |-> kind] \in Others
    BY DEF Others
  <2> QED
    BY <1>1, <1>1b, <2>1 DEF Intrude
<1>2. ASSUME NEW l \in Logins, OpenModal(l) \/ RunCommand(l) PROVE IInv'
  <2>1. UserDecides' /\ LateOnce'
    BY <1>2 DEF OpenModal, RunCommand, TypeOK, IInv, UserDecides, LateOnce, browserVars, modalVars
  <2>1a. AnswersAreGiven'
    BY <1>2, AnswersStay DEF OpenModal, RunCommand, IInv, browserVars
  <2>2. pc[l] = "idle" /\ pc' = [pc EXCEPT ![l] = "bind"] /\ UNCHANGED <<server, token>>
    BY <1>2 DEF OpenModal, RunCommand, browserVars
  <2>3. PortIsFreed'
    BY <2>2 DEF TypeOK, IInv, PortIsFreed
  <2>4. TokenIsHeld'
    BY <2>2 DEF TypeOK, IInv, TokenIsHeld
  <2>5. ModalIsUnderWay'
    BY <1>2, SetsAssumption, NoneAssumption
       DEF OpenModal, RunCommand, TypeOK, IInv, ModalIsUnderWay, modalVars
  <2> QED
    BY <2>1, <2>1a, <2>3, <2>4, <2>5 DEF IInv
<1>3. ASSUME NEW l \in Logins, Bind(l) PROVE IInv'
  <2>1. CASE server[Port(l)] = None
    <3>1. /\ server' = [server EXCEPT ![Port(l)] = l]
          /\ pc[l] = "bind" /\ pc' = [pc EXCEPT ![l] = "prepare"]
          /\ UNCHANGED <<queue, answered, received, late, modalVars, token, overrun>>
      BY <1>3, <2>1 DEF Bind
    <3>2. UserDecides' /\ LateOnce'
      BY <3>1 DEF TypeOK, IInv, UserDecides, LateOnce, modalVars
    <3>2a. AnswersAreGiven'
      BY <3>1, AnswersStay DEF IInv
    <3>3. PortIsFreed'
      BY <3>1 DEF TypeOK, IInv, PortIsFreed
    <3>4. TokenIsHeld' /\ ModalIsUnderWay'
      BY <3>1, SetsAssumption DEF TypeOK, IInv, TokenIsHeld, ModalIsUnderWay, modalVars
    <3> QED
      BY <3>2, <3>2a, <3>3, <3>4 DEF IInv
  <2>2. CASE server[Port(l)] # None
    <3>1. /\ Raise(l) /\ pc[l] = "bind"
          /\ UNCHANGED <<answered, received, late, modalVars, token, overrun>>
      BY <1>3, <2>2 DEF Bind
    <3> QED
      BY <3>1, RaiseInv
  <2> QED
    BY <2>1, <2>2
<1>4. ASSUME NEW l \in Logins, Prepare(l) \/ ServeNothing(l) \/ HangUp(l) PROVE IInv'
  <2>1. /\ pc[l] \in Listening
        /\ pc' = [pc EXCEPT ![l] = "poll"]
        /\ UNCHANGED <<server, queue, answered, received, late, modalVars, token, overrun>>
    BY <1>4 DEF Prepare, ServeNothing, HangUp, browserVars
  <2>2. LateOnce' /\ UserDecides'
    BY <2>1 DEF TypeOK, IInv, LateOnce, UserDecides, modalVars
  <2> QED
    BY <2>1, <2>2, MoveInv DEF IInv
<1>5. ASSUME NEW l \in Logins, PrepareFails(l) PROVE IInv'
  BY <1>5, RaiseInv DEF PrepareFails
<1>6. ASSUME NEW l \in Logins, DeadlinePasses(l) PROVE IInv'
  <2>1. AnswersAreGiven'
    BY <1>6, AnswersStay DEF DeadlinePasses, IInv, browserVars
  <2> QED
    BY <1>6, <2>1 DEF DeadlinePasses, TypeOK, IInv, UserDecides, PortIsFreed, LateOnce,
       TokenIsHeld, ModalIsUnderWay, browserVars, modalVars
<1>7. ASSUME NEW l \in Logins, Poll(l) PROVE IInv'
  <2> DEFINE step == IF received[l] = None /\ ~ late[l] /\ ~ cancelled[l]
                       THEN "serve" ELSE "decide"
  <2>1. /\ pc[l] = "poll" /\ pc' = [pc EXCEPT ![l] = step]
        /\ UNCHANGED <<server, queue, answered, received, late, modalVars, token, overrun>>
    BY <1>7 DEF Poll, browserVars
  <2>2. LateOnce' /\ UserDecides'
    BY <2>1 DEF TypeOK, IInv, AnswersAreGiven, LateOnce, UserDecides, modalVars
  <2> QED
    BY <2>1, <2>2, MoveInv DEF IInv
<1>8. ASSUME NEW l \in Logins, ServeRequest(l) PROVE IInv'
  <2> DEFINE q == queue[Port(l)]
  <2>0. /\ q \in Seq(answered \cup Others) /\ q # <<>>
        /\ Head(q) \in answered \cup Others /\ Tail(q) \in Seq(answered \cup Others)
    <3>1. q \in Seq(answered \cup Others) /\ q # <<>>
      BY <1>8, PortInPorts DEF ServeRequest, IInv, AnswersAreGiven
    <3> QED
      BY <3>1, HeadTailProperties
  <2>0a. Accepted(l, Head(q)) => Head(q) \in answered /\ Head(q).login = l
    BY <2>0 DEF Accepted, Others
  <2>1. AnswersAreGiven'
    BY <1>8, <2>0, <2>0a DEF ServeRequest, TypeOK, IInv, AnswersAreGiven
  <2>1a. UserDecides'
    BY <1>8 DEF ServeRequest, TypeOK, IInv, UserDecides, modalVars
  <2>2. LateOnce'
    BY <1>8 DEF ServeRequest, TypeOK, IInv, LateOnce, modalVars
  <2>3. PortIsFreed' /\ TokenIsHeld'
    BY <1>8 DEF ServeRequest, TypeOK, IInv, PortIsFreed, TokenIsHeld
  <2>4. ModalIsUnderWay'
    BY <1>8, SetsAssumption DEF ServeRequest, TypeOK, IInv, ModalIsUnderWay, modalVars
  <2> QED
    BY <2>1, <2>1a, <2>2, <2>3, <2>4 DEF IInv
<1>9. ASSUME NEW l \in Logins, Decide(l) PROVE IInv'
  <2>1. CASE received[l] # None /\ received[l].kind = "code"
    <3>1. /\ pc[l] = "decide" /\ pc' = [pc EXCEPT ![l] = "exchange"]
          /\ UNCHANGED <<server, queue, answered, received, late, modalVars, token, overrun>>
      BY <1>9, <2>1 DEF Decide
    <3>2. LateOnce'
      BY <3>1 DEF TypeOK, IInv, LateOnce, modalVars
    <3>3. [login |-> l, kind |-> "code"] \in answered
      <4>1. /\ received[l] \in Answers /\ received[l].login = l
            /\ received[l] \in answered /\ received[l].kind = "code"
        BY <2>1 DEF TypeOK, IInv, AnswersAreGiven
      <4>2. received[l] = [login |-> l, kind |-> "code"]
        BY <4>1 DEF Answers
      <4> QED
        BY <4>1, <4>2
    <3>4. UserDecides'
      BY <3>1, <3>3 DEF TypeOK, IInv, UserDecides, modalVars
    <3> QED
      BY <3>1, <3>2, <3>4, MoveInv DEF IInv
  <2>2. CASE ~ (received[l] # None /\ received[l].kind = "code")
    <3>1. /\ Raise(l) /\ pc[l] = "decide"
          /\ UNCHANGED <<answered, received, late, modalVars, token, overrun>>
      BY <1>9, <2>2 DEF Decide
    <3> QED
      BY <3>1, RaiseInv
  <2> QED
    BY <2>1, <2>2
<1>10. ASSUME NEW l \in Logins, Exchange(l) PROVE IInv'
  <2>1. UserDecides' /\ LateOnce'
    BY <1>10 DEF Exchange, TypeOK, IInv, UserDecides, LateOnce, modalVars
  <2>1a. AnswersAreGiven'
    BY <1>10, CloseQueue, AnswersStay DEF Exchange, IInv
  <2>2. PortIsFreed'
    BY <1>10 DEF Exchange, CloseServer, TypeOK, IInv, PortIsFreed
  <2>3. TokenIsHeld'
    BY <1>10 DEF Exchange, TypeOK, IInv, TokenIsHeld
  <2>4. ModalIsUnderWay'
    BY <1>10, SetsAssumption DEF Exchange, TypeOK, IInv, ModalIsUnderWay, modalVars
  <2> QED
    BY <2>1, <2>1a, <2>2, <2>3, <2>4 DEF IInv
<1>11. ASSUME NEW l \in Logins, ExchangeFails(l) PROVE IInv'
  <2>1. \A m \in Logins : token'[m] = token[m]
                           \/ (m = l /\ pc[l] = "exchange" /\ token'[m] = "lost")
    BY <1>11 DEF ExchangeFails, TypeOK
  <2> QED
    BY <1>11, <2>1, RaiseInv DEF ExchangeFails
<1>12. ASSUME NEW l \in Logins, Close(l) \/ Store(l) \/ HandBack(l) PROVE IInv'
  <2>1. \A p \in Ports : server'[p] = server[p] /\ server[p] # l
    <3>1. pc[l] \in {"raised", "returned", "handback"} /\ server' = server
      BY <1>12 DEF Close, Store, HandBack, browserVars
    <3> QED
      BY <3>1, NoneAssumption DEF TypeOK, IInv, PortIsFreed
  <2>2. /\ \A m \in Logins \ {l} : token'[m] = token[m]
        /\ token'[l] # "live" /\ UNCHANGED <<queue, answered>>
    BY <1>12 DEF Close, Store, HandBack, TypeOK, IInv, TokenIsHeld, browserVars
  <2>3. token'[l] # "none" => token[l] # "none"
    BY <1>12 DEF Close, Store, HandBack, TypeOK, IInv, TokenIsHeld
  <2> QED
    BY <1>12, <2>1, <2>2, <2>3, DismissInv DEF Close, Store, HandBack
<1>12a. ASSUME NEW l \in Logins, StoreFails(l) PROVE IInv'
  <2>1. /\ pc[l] = "returned" /\ pc' = [pc EXCEPT ![l] = "handback"]
        /\ UNCHANGED <<server, queue, answered, received, late, screen, cancelled, token, overrun>>
    BY <1>12a DEF StoreFails, browserVars
  <2>2. AnswersAreGiven'
    BY <2>1, AnswersStay DEF IInv
  <2>3. UserDecides' /\ LateOnce'
    BY <2>1 DEF TypeOK, IInv, UserDecides, LateOnce
  <2>4. PortIsFreed' /\ TokenIsHeld' /\ ModalIsUnderWay'
    BY <2>1, SetsAssumption DEF TypeOK, IInv, PortIsFreed, TokenIsHeld, ModalIsUnderWay
  <2> QED
    BY <2>2, <2>3, <2>4 DEF IInv
<1>13. ASSUME NEW l \in Logins, Die(l) PROVE IInv'
  <2>1. /\ \A p \in Ports : server'[p] = None \/ (server'[p] = server[p] /\ server[p] # l)
        /\ \A p \in Ports : queue'[p] = queue[p] \/ queue'[p] = <<>>
    <3>1. CloseServer(l)
      BY <1>13 DEF Die
    <3> QED
      BY <3>1, CloseQueue DEF CloseServer
  <2>2. /\ \A m \in Logins \ {l} : token'[m] = token[m]
        /\ token'[l] # "live" /\ (token'[l] # "none" => token[l] # "none")
    BY <1>13 DEF Die, TypeOK
  <2> QED
    BY <1>13, <2>1, <2>2, DismissInv DEF Die
<1>14. ASSUME Escape PROVE IInv'
  <2>1. AnswersAreGiven'
    BY <1>14, AnswersStay DEF Escape, IInv, browserVars
  <2> QED
    BY <1>14, <2>1 DEF Escape, TypeOK, IInv, UserDecides, PortIsFreed, LateOnce, TokenIsHeld,
       ModalIsUnderWay, browserVars
<1>15. CASE UNCHANGED vars
  BY <1>15 DEF vars, IInv, AnswersAreGiven, UserDecides, PortIsFreed, LateOnce, TokenIsHeld,
     ModalIsUnderWay, browserVars, modalVars
<1> QED
  BY <1>1a, <1>1b, <1>2, <1>3, <1>4, <1>5, <1>6, <1>7, <1>8, <1>9, <1>10, <1>11, <1>12, <1>12a,
     <1>13, <1>14, <1>15, StepCases

\* The invariant holds of every behaviour.
LEMMA Inductive == Spec => []IInv
<1>1. TypeOK /\ IInv /\ [Next]_vars => IInv'
  BY StepInv
<1> QED
  BY <1>1, InitInv, TypeCorrect, PTL DEF Spec

-----------------------------------------------------------------------------

\* A login's wait is ended and its code exchanged only on the user's own answer to it,
\* among any number of logins, pages left open and requests at their ports.
THEOREM UsersDecide == Spec => []UserDecides
<1>1. IInv => UserDecides
  BY DEF IInv
<1> QED
  BY <1>1, Inductive, PTL

\* After escape or the deadline at most one connection is still served.
THEOREM WaitIsBounded == Spec => []StopsListening
<1>1. TypeOK /\ IInv => StopsListening
  <2> SUFFICES ASSUME IInv, NEW l \in Logins PROVE overrun[l] <= 1
    BY DEF StopsListening
  <2>1. overrun[l] = 0 \/ overrun[l] = 1
    BY DEF IInv, LateOnce
  <2> QED
    BY <2>1
<1> QED
  BY <1>1, Inductive, TypeCorrect, PTL

\* No login that has ended, however it did, still holds a port.
THEOREM PortsAreFreed == Spec => []PortIsFreed
<1>1. IInv => PortIsFreed
  BY DEF IInv
<1> QED
  BY <1>1, Inductive, PTL

\* No login that ends leaves a token that is neither stored nor asked to be revoked.
THEOREM TokensAreKept == Spec => []TokenIsKept
<1>1. IInv => TokenIsKept
  BY DEF IInv, TokenIsHeld, TokenIsKept
<1> QED
  BY <1>1, Inductive, PTL

\* The modal is on the screen exactly while its login is under way.
THEOREM ModalIsHonest == Spec => []ModalIsUnderWay
<1>1. IInv => ModalIsUnderWay
  BY DEF IInv
<1> QED
  BY <1>1, Inductive, PTL

=============================================================================
