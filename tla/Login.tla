-------------------------------- MODULE Login --------------------------------
(***************************************************************************)
(* auth/login.py's perform_login under its two frontends: ConnectModal in  *)
(* the dashboard, which escape cancels, and `smorg connect`, a process of  *)
(* its own.  A login listens for the browser's callback on a port, waits   *)
(* under one deadline, and exchanges the code for a token.                 *)
(*                                                                         *)
(* An authorize page outlives its login: the browser may answer it late,   *)
(* twice (a reload), or after another login has taken the port; and it     *)
(* makes requests nobody asked for (an icon, a connection left idle).      *)
(* What follows a stored token is the subject of Connections.              *)
(***************************************************************************)
EXTENDS Integers, Sequences

CONSTANTS
    Logins,     \* logins, each of one integration
    Modal,      \* those of the dashboard; the others are CLI processes
    Fixed,      \* those of a static provider, which listen at FixedPort
    FixedPort,  \* REGISTRATION_PORT
    MaxQueue,   \* bound: connections waiting at a port
    None

ASSUME SetsAssumption == Modal \subseteq Logins /\ Fixed \subseteq Logins
ASSUME PortAssumption == FixedPort \notin Logins
ASSUME QueueAssumption == MaxQueue \in Nat \ {0}

\* Other providers accept any loopback port: the system chooses a free one.
Port(l) == IF l \in Fixed THEN FixedPort ELSE l
Ports == Logins \cup {FixedPort}

\* A request at a port: the answer of login's page, something else, or a
\* connection that sends nothing.
Answers == [login : Logins, kind : {"code", "error"}]
Others == [login : {None}, kind : {"stray", "silent"}]
Request == Answers \cup Others
ASSUME NoneAssumption == None \notin Logins \cup Ports \cup Request

VARIABLES
    server,     \* server[p]: the login whose server listens at p, or None
    queue,      \* queue[p]: the requests waiting there
    pages,      \* logins whose authorize page is open in the browser
    pc,         \* pc[l]: where the login is
    received,   \* received[l]: the answer its handler has accepted, or None
    late,       \* late[l]: its deadline has passed
    cancelled,  \* cancelled[l]: its cancellation event is set
    screen,     \* the ConnectModal on top, or None
    cancellable,\* cancellable[l]: its modal takes keys
    token,      \* what became of the token that it was issued
    answered,   \* history: the answers that were given in the browser
    overrun     \* overrun[l]: connections served after escape or the deadline

browserVars == <<server, queue, pages, answered>>
modalVars == <<screen, cancellable, cancelled>>
vars == <<browserVars, pc, received, late, modalVars, token, overrun>>

Waiting == {"poll", "serve", "stuck"}
Listening == Waiting \cup {"prepare", "decide", "exchange"}
UnderWay == Listening \cup {"bind", "raised", "returned", "handback"}
PCs == UnderWay \cup {"idle", "done"}

\* A token is issued, and then stored, or revoked, or a revocation that was asked for
\* did not succeed; or the response or the process that had it was lost.
Tokens == {"none", "live", "stored", "revoked", "unrevoked", "lost"}

TypeOK ==
    /\ server \in [Ports -> Logins \cup {None}]
    /\ queue \in [Ports -> Seq(Request)]
    /\ pages \subseteq Logins
    /\ pc \in [Logins -> PCs]
    /\ received \in [Logins -> Answers \cup {None}]
    /\ late \in [Logins -> BOOLEAN] /\ cancelled \in [Logins -> BOOLEAN]
    /\ screen \in Modal \cup {None}
    /\ cancellable \in [Logins -> BOOLEAN]
    /\ token \in [Logins -> Tokens]
    /\ answered \subseteq Answers
    /\ overrun \in [Logins -> Nat]
    /\ \A p \in Ports : server[p] = None => queue[p] = <<>>
    /\ \A l \in Logins : pc[l] = "exchange" => received[l] # None

Init ==
    /\ server = [p \in Ports |-> None]
    /\ queue = [p \in Ports |-> <<>>]
    /\ pages = {}
    /\ pc = [l \in Logins |-> "idle"]
    /\ received = [l \in Logins |-> None]
    /\ late = [l \in Logins |-> FALSE]
    /\ screen = None
    /\ cancellable = [l \in Logins |-> l \in Modal]
    /\ cancelled = [l \in Logins |-> FALSE]
    /\ token = [l \in Logins |-> "none"]
    /\ answered = {}
    /\ overrun = [l \in Logins |-> 0]

-----------------------------------------------------------------------------
(* The browser *)

Connects(p, r) ==
    /\ server[p] # None
    /\ Len(queue[p]) < MaxQueue
    /\ queue' = [queue EXCEPT ![p] = Append(@, r)]
    /\ UNCHANGED <<server, pages, pc, received, late, modalVars, token, overrun>>

\* The user grants or refuses on l's page, or reloads where that led.
Answer(l, kind) ==
    /\ l \in pages
    /\ Connects(Port(l), [login |-> l, kind |-> kind])
    /\ answered' = answered \cup {[login |-> l, kind |-> kind]}

\* A request for an icon, a connection opened in advance.
Intrude(p, kind) ==
    /\ Connects(p, [login |-> None, kind |-> kind])
    /\ UNCHANGED answered

-----------------------------------------------------------------------------
(* perform_login *)

\* ConnectModal's on_mount starts the worker.
OpenModal(l) ==
    /\ l \in Modal /\ pc[l] = "idle"
    /\ screen = None
    /\ screen' = l
    /\ pc' = [pc EXCEPT ![l] = "bind"]
    /\ UNCHANGED <<browserVars, received, late, cancellable, cancelled, token, overrun>>

RunCommand(l) ==
    /\ l \notin Modal /\ pc[l] = "idle"
    /\ pc' = [pc EXCEPT ![l] = "bind"]
    /\ UNCHANGED <<browserVars, received, late, modalVars, token, overrun>>

\* server_close resets the connections that were not served.
CloseServer(l) ==
    LET own == {p \in Ports : server[p] = l}
    IN  /\ server' = [p \in Ports |-> IF p \in own THEN None ELSE server[p]]
        /\ queue' = [p \in Ports |-> IF p \in own THEN <<>> ELSE queue[p]]

\* perform_login raises OAuthError, LoginCancelled among them.
Raise(l) ==
    /\ CloseServer(l)
    /\ pc' = [pc EXCEPT ![l] = "raised"]

\* HTTPServer's constructor listens; a port that is taken raises.
Bind(l) ==
    /\ pc[l] = "bind"
    /\ IF server[Port(l)] = None
         THEN /\ server' = [server EXCEPT ![Port(l)] = l]
              /\ pc' = [pc EXCEPT ![l] = "prepare"]
              /\ UNCHANGED queue
         ELSE Raise(l)
    /\ UNCHANGED <<pages, answered, received, late, modalVars, token, overrun>>

\* resolve_metadata, register_client; then the browser opens the page.
Prepare(l) ==
    /\ pc[l] = "prepare"
    /\ pages' = pages \cup {l}
    /\ pc' = [pc EXCEPT ![l] = "poll"]
    /\ UNCHANGED <<server, queue, answered, received, late, modalVars, token, overrun>>

PrepareFails(l) ==
    /\ pc[l] = "prepare"
    /\ Raise(l)
    /\ UNCHANGED <<pages, answered, received, late, modalVars, token, overrun>>

\* LOGIN_TIMEOUT_SECONDS are over.
DeadlinePasses(l) ==
    /\ pc[l] \in Waiting /\ ~ late[l]
    /\ late' = [late EXCEPT ![l] = TRUE]
    /\ UNCHANGED <<browserVars, pc, received, modalVars, token, overrun>>

\* Bug: only the deadline ends the wait.
PollDeadlineOnly(l) ==
    /\ pc[l] = "poll"
    /\ pc' = [pc EXCEPT ![l] =
          IF received[l] = None /\ ~ late[l] THEN "serve" ELSE "decide"]
    /\ UNCHANGED <<browserVars, received, late, modalVars, token, overrun>>

\* Bug: only a callback or escape ends the wait.
PollForever(l) ==
    /\ pc[l] = "poll"
    /\ pc' = [pc EXCEPT ![l] =
          IF received[l] = None /\ ~ cancelled[l] THEN "serve" ELSE "decide"]
    /\ UNCHANGED <<browserVars, received, late, modalVars, token, overrun>>

\* The condition of the while loop.
Poll(l) ==
    /\ pc[l] = "poll"
    /\ pc' = [pc EXCEPT ![l] =
          IF received[l] = None /\ ~ late[l] /\ ~ cancelled[l] THEN "serve" ELSE "decide"]
    /\ UNCHANGED <<browserVars, received, late, modalVars, token, overrun>>

\* handle_request: a second goes by without a connection.
ServeNothing(l) ==
    /\ pc[l] = "serve"
    /\ queue[Port(l)] = <<>>
    /\ pc' = [pc EXCEPT ![l] = "poll"]
    /\ UNCHANGED <<browserVars, received, late, modalVars, token, overrun>>

\* Bug: any callback with a code or an error will do.
AcceptedAny(l, r) == r.kind \in {"code", "error"}

\* The path, the keys and the state of a callback: the state is of one login.
Accepted(l, r) == r.kind \in {"code", "error"} /\ r.login = l

\* handle_request serves one connection, and waits as long as it is silent.
ServeRequest(l) ==
    /\ pc[l] = "serve"
    /\ queue[Port(l)] # <<>>
    /\ LET r == Head(queue[Port(l)])
       IN  /\ queue' = [queue EXCEPT ![Port(l)] = Tail(@)]
           /\ pc' = [pc EXCEPT ![l] = IF r.kind = "silent" THEN "stuck" ELSE "poll"]
           /\ received' = [received EXCEPT ![l] = IF Accepted(l, r) THEN r ELSE @]
    /\ overrun' = [overrun EXCEPT ![l] = IF late[l] \/ cancelled[l] THEN @ + 1 ELSE @]
    /\ UNCHANGED <<server, pages, answered, late, modalVars, token>>

\* The browser closes the silent connection.
HangUp(l) ==
    /\ pc[l] = "stuck"
    /\ pc' = [pc EXCEPT ![l] = "poll"]
    /\ UNCHANGED <<browserVars, received, late, modalVars, token, overrun>>

\* Cancelled, timed out, or refused: raise; a code goes on.
Decide(l) ==
    /\ pc[l] = "decide"
    /\ IF received[l] # None /\ received[l].kind = "code"
         THEN pc' = [pc EXCEPT ![l] = "exchange"] /\ UNCHANGED <<server, queue>>
         ELSE Raise(l)
    /\ UNCHANGED <<pages, answered, received, late, modalVars, token, overrun>>

\* exchange_code: the provider takes a code with the verifier of its login.
Exchange(l) ==
    /\ pc[l] = "exchange"
    /\ received[l].login = l
    /\ token' = [token EXCEPT ![l] = "live"]
    /\ CloseServer(l)
    /\ pc' = [pc EXCEPT ![l] = "returned"]
    /\ UNCHANGED <<pages, answered, received, late, modalVars, overrun>>

\* It may fail before or after the provider has issued a token.
ExchangeFails(l) ==
    /\ pc[l] = "exchange"
    /\ \/ UNCHANGED token
       \/ received[l].login = l /\ token' = [token EXCEPT ![l] = "lost"]
    /\ Raise(l)
    /\ UNCHANGED <<pages, answered, received, late, modalVars, overrun>>

-----------------------------------------------------------------------------
(* The frontends *)

\* Bug: escape closes the modal itself.
EscapeCloses ==
    /\ screen # None /\ cancellable[screen]
    /\ cancelled' = [cancelled EXCEPT ![screen] = TRUE]
    /\ screen' = None
    /\ UNCHANGED <<browserVars, pc, received, late, cancellable, token, overrun>>

\* action_cancel
Escape ==
    /\ screen # None /\ cancellable[screen]
    /\ cancelled' = [cancelled EXCEPT ![screen] = TRUE]
    /\ UNCHANGED <<browserVars, pc, received, late, screen, cancellable, token, overrun>>

\* The modal takes no more keys and is dismissed.
Dismiss(l) ==
    /\ cancellable' = [cancellable EXCEPT ![l] = FALSE]
    /\ screen' = IF screen = l THEN None ELSE screen
    /\ pc' = [pc EXCEPT ![l] = "done"]

\* ConnectModal._close, or the command prints the error.
Close(l) ==
    /\ pc[l] = "raised"
    /\ Dismiss(l)
    /\ UNCHANGED <<browserVars, received, late, cancelled, token, overrun>>

\* _on_succeeded and open_tab_for, or the command: the token is stored.
Store(l) ==
    /\ pc[l] = "returned"
    /\ token' = [token EXCEPT ![l] = "stored"]
    /\ Dismiss(l)
    /\ UNCHANGED <<browserVars, received, late, cancelled, overrun>>

\* Bug: a token that cannot be stored is dropped.
StoreCarelessly(l) ==
    /\ pc[l] = "returned"
    /\ Dismiss(l)
    /\ UNCHANGED <<browserVars, received, late, cancelled, token, overrun>>

\* The store raises CredentialStoreError: the token is to be handed back, under a
\* modal that takes no keys.
StoreFails(l) ==
    /\ pc[l] = "returned"
    /\ pc' = [pc EXCEPT ![l] = "handback"]
    /\ cancellable' = [cancellable EXCEPT ![l] = FALSE]
    /\ UNCHANGED <<browserVars, received, late, screen, cancelled, token, overrun>>

\* revoke_best_effort: what it returns, or that it failed, is not looked at.
HandBack(l) ==
    /\ pc[l] = "handback"
    /\ \E fate \in {"revoked", "unrevoked"} : token' = [token EXCEPT ![l] = fate]
    /\ Dismiss(l)
    /\ UNCHANGED <<browserVars, received, late, cancelled, overrun>>

\* The login's process ends, or is killed.
Die(l) ==
    /\ pc[l] \in UnderWay
    /\ CloseServer(l)
    /\ Dismiss(l)
    /\ token' = [token EXCEPT ![l] = IF @ = "live" THEN "lost" ELSE @]
    /\ UNCHANGED <<pages, answered, received, late, cancelled, overrun>>

-----------------------------------------------------------------------------

LoginStep(l) ==
    \/ Bind(l) \/ Prepare(l) \/ PrepareFails(l)
    \/ Poll(l) \/ ServeNothing(l) \/ ServeRequest(l) \/ Decide(l)
    \/ Exchange(l) \/ ExchangeFails(l)
    \/ Close(l) \/ Store(l) \/ StoreFails(l) \/ HandBack(l)

Next ==
    \/ \E l \in Logins :
          \/ OpenModal(l) \/ RunCommand(l)
          \/ LoginStep(l) \/ DeadlinePasses(l) \/ HangUp(l) \/ Die(l)
          \/ \E kind \in {"code", "error"} : Answer(l, kind)
    \/ \E p \in Ports, kind \in {"stray", "silent"} : Intrude(p, kind)
    \/ Escape

\* Threads run, network calls end, time goes by.  Users and browsers need not
\* do anything, nor close a connection.
Fairness == \A l \in Logins : WF_vars(LoginStep(l)) /\ WF_vars(DeadlinePasses(l))

Spec == Init /\ [][Next]_vars
FairSpec == Spec /\ Fairness

-----------------------------------------------------------------------------
(* Properties *)

\* What a user does on one login's page decides that login and no other: a wait ends
\* by the deadline, by escape or by an answer that was given on its own page, and a
\* code is exchanged, and a token issued, only after its own page was granted; also
\* where pages of earlier logins are answered late at the port they share.
UserDecides ==
    \A l \in Logins :
        /\ pc[l] = "decide" =>
              late[l] \/ cancelled[l] \/ \E answer \in answered : answer.login = l
        /\ pc[l] = "exchange" \/ token[l] # "none" =>
              [login |-> l, kind |-> "code"] \in answered

\* "One deadline for the whole wait rather than per request", and a
\* cancellation loses only to a callback of the same instant: after either, at
\* most the connection of the poll under way is still served.
StopsListening == \A l \in Logins : overrun[l] <= 1

\* However a login ends, its port is free for the next one.
PortIsFreed == \A p \in Ports : server[p] # None => pc[server[p]] \in Listening

\* A login that ends has stored its token or has asked for its revocation, whatever
\* is pressed meanwhile, unless the token's response or the process was lost.  The
\* provider may not grant it, which nobody is told of: such a token is "live and
\* unreachable".
TokenIsKept == \A l \in Logins : token[l] = "live" => pc[l] \in {"returned", "handback"}

\* "Nothing can race the finalize steps": the modal is up as long as its login
\* is under way and no longer, so no second login starts beside one that was
\* cancelled and still runs.
ModalIsUnderWay == \A l \in Modal : screen = l <=> pc[l] \in UnderWay

\* Every login ends, whatever requests keep coming and whether or not anyone
\* answers, unless the browser leaves it with a connection that stays silent.
LoginEnds ==
    \A l \in Logins :
        <>[](pc[l] # "stuck") => (pc[l] = "bind" ~> pc[l] = "done")

=============================================================================
