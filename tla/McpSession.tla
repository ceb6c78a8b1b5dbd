----------------------------- MODULE McpSession -----------------------------
(***************************************************************************)
(* core/mcp.py: the sessions that fetch workers open to one MCP endpoint,  *)
(* which share the protocol version that the first of them negotiated.  A  *)
(* session that finds a version skips the handshake; its first failing     *)
(* call drops that version, makes the handshake and is repeated, once.     *)
(*                                                                         *)
(* The endpoint is deployed anew at any time and then speaks other         *)
(* versions.  It refuses a request whose MCP-Protocol-Version header names *)
(* none of them (docs/mcp-protocol.md: "Linear answers HTTP 400").         *)
(***************************************************************************)
EXTENDS Integers

CONSTANTS
    Sessions,   \* fetches and detail loads, each with a session of its own
    Supported,  \* SUPPORTED_PROTOCOL_VERSIONS
    Others,     \* versions that a server may speak and this build does not
    Asked,      \* MCP_PROTOCOL_VERSION
    None

ASSUME AskedAssumption == Asked \in Supported
ASSUME NoneAssumption == None \notin Supported \cup Others

VARIABLES
    speaks,     \* the versions the endpoint speaks now
    spoken,     \* those it ever spoke
    cache,      \* _negotiated_versions[endpoint], or None
    pc,         \* pc[s]: where session s is
    version,    \* version[s]: the version its client sends
    skipped,    \* skipped[s]: _skipped_handshake
    calling,    \* calling[s]: the handshake under way is part of a call
    handshakes, \* handshakes[s]: how many it has completed
    repeats,    \* repeats[s]: how many of its calls it has sent again
    refused,    \* refused[s]: what ended it was a version refused
    outdated    \* outdated[s]: the endpoint was deployed since its handshake

endpointVars == <<speaks, spoken>>
historyVars == <<handshakes, repeats, refused, outdated>>
vars == <<endpointVars, cache, pc, version, skipped, calling, historyVars>>

Versions == Supported \cup Others
PCs == {"idle", "initialize", "notify", "record", "ready", "call", "drop", "failed"}

TypeOK ==
    /\ speaks \in SUBSET Versions
    /\ spoken \in SUBSET Versions
    /\ cache \in Supported \cup {None}
    /\ pc \in [Sessions -> PCs]
    /\ version \in [Sessions -> Supported]
    /\ skipped \in [Sessions -> BOOLEAN]
    /\ calling \in [Sessions -> BOOLEAN]
    /\ handshakes \in [Sessions -> Nat]
    /\ repeats \in [Sessions -> Nat]
    /\ refused \in [Sessions -> BOOLEAN]
    /\ outdated \in [Sessions -> BOOLEAN]

Init ==
    /\ speaks \in SUBSET Versions
    /\ spoken = speaks
    /\ cache = None
    /\ pc = [s \in Sessions |-> "idle"]
    /\ version = [s \in Sessions |-> Asked]
    /\ skipped = [s \in Sessions |-> FALSE]
    /\ calling = [s \in Sessions |-> FALSE]
    /\ handshakes = [s \in Sessions |-> 0]
    /\ repeats = [s \in Sessions |-> 0]
    /\ refused = [s \in Sessions |-> FALSE]
    /\ outdated = [s \in Sessions |-> FALSE]

-----------------------------------------------------------------------------
(* The endpoint *)

Deploy ==
    /\ speaks' \in SUBSET Versions
    /\ speaks' # speaks
    /\ spoken' = spoken \cup speaks'
    /\ outdated' = [s \in Sessions |-> TRUE]
    /\ UNCHANGED <<cache, pc, version, skipped, calling, handshakes, repeats, refused>>

Accepts(s) == version[s] \in speaks

\* The version an initialize response names: the one asked for if the endpoint
\* speaks it, else any that it does; None when the response is unreadable.
Named == {None} \cup (IF Asked \in speaks THEN {Asked} ELSE speaks)

-----------------------------------------------------------------------------
(* McpSession.__init__ *)

New(s) ==
    /\ pc[s] = "idle"
    /\ skipped' = [skipped EXCEPT ![s] = cache # None]
    /\ version' = [version EXCEPT ![s] = IF cache = None THEN Asked ELSE cache]
    /\ pc' = [pc EXCEPT ![s] = IF cache = None THEN "initialize" ELSE "ready"]
    /\ UNCHANGED <<endpointVars, cache, calling, historyVars>>

\* A request of s raises what ends its session: it is garbage after that.
Fail(s, isRefused) ==
    /\ pc' = [pc EXCEPT ![s] = "failed"]
    /\ refused' = [refused EXCEPT ![s] = isRefused]

\* McpClient.initialize: adopt the version that the endpoint names.
Initialize(s) ==
    /\ pc[s] = "initialize"
    /\ outdated' = [outdated EXCEPT ![s] = FALSE]
    /\ \E named \in Named :
          LET adopted == IF named = None THEN version[s] ELSE named
          IN  IF adopted \in Supported
                THEN /\ version' = [version EXCEPT ![s] = adopted]
                     /\ pc' = [pc EXCEPT ![s] = "notify"]
                     /\ UNCHANGED refused
                ELSE Fail(s, FALSE) /\ UNCHANGED version
    /\ UNCHANGED <<endpointVars, cache, skipped, calling, handshakes, repeats>>

\* ... and say so, in that version, which the endpoint takes.
Notify(s) ==
    /\ pc[s] = "notify"
    /\ Accepts(s)
    /\ pc' = [pc EXCEPT ![s] = "record"]
    /\ handshakes' = [handshakes EXCEPT ![s] = @ + 1]
    /\ UNCHANGED <<endpointVars, cache, version, skipped, calling, repeats, refused, outdated>>

\* The network, the token, or a version in the header that is refused.
HandshakeFails(s) ==
    /\ pc[s] \in {"initialize", "notify"}
    /\ Fail(s, ~ Accepts(s))
    /\ UNCHANGED <<endpointVars, cache, version, skipped, calling, handshakes, repeats, outdated>>

\* The version becomes everyone's; a call that waits for it is sent again.
Record(s) ==
    /\ pc[s] = "record"
    /\ cache' = version[s]
    /\ pc' = [pc EXCEPT ![s] = IF calling[s] THEN "call" ELSE "ready"]
    /\ UNCHANGED <<endpointVars, version, skipped, calling, historyVars>>

-----------------------------------------------------------------------------
(* McpSession.call *)

Call(s) ==
    /\ pc[s] = "ready"
    /\ pc' = [pc EXCEPT ![s] = "call"]
    /\ calling' = [calling EXCEPT ![s] = TRUE]
    /\ UNCHANGED <<endpointVars, cache, version, skipped, historyVars>>

Answered(s) ==
    /\ pc[s] = "call"
    /\ Accepts(s)
    /\ pc' = [pc EXCEPT ![s] = "ready"]
    /\ calling' = [calling EXCEPT ![s] = FALSE]
    /\ UNCHANGED <<endpointVars, cache, version, skipped, historyVars>>

\* Bug: no retry.
CallFailsAtOnce(s) ==
    /\ pc[s] = "call"
    /\ Fail(s, ~ Accepts(s))
    /\ UNCHANGED <<endpointVars, cache, version, skipped, calling, handshakes, repeats, outdated>>

\* Malformed or Unavailable, from the network or from the endpoint, a refused
\* version or an error of the tool: only a skipped handshake is made up for.
CallFails(s) ==
    /\ pc[s] = "call"
    /\ IF skipped[s]
         THEN pc' = [pc EXCEPT ![s] = "drop"] /\ UNCHANGED refused
         ELSE Fail(s, ~ Accepts(s))
    /\ UNCHANGED <<endpointVars, cache, version, skipped, calling, handshakes, repeats, outdated>>

\* AuthExpired, AccessNotAllowed: "a handshake cannot fix a rejected token".
CallUnauthorized(s) ==
    /\ pc[s] = "call"
    /\ Fail(s, FALSE)
    /\ UNCHANGED <<endpointVars, cache, version, skipped, calling, handshakes, repeats, outdated>>

\* Drop everyone's version, whoever recorded it, and start over.
Drop(s) ==
    /\ pc[s] = "drop"
    /\ cache' = None
    /\ skipped' = [skipped EXCEPT ![s] = FALSE]
    /\ repeats' = [repeats EXCEPT ![s] = @ + 1]
    /\ pc' = [pc EXCEPT ![s] = "initialize"]
    /\ UNCHANGED <<endpointVars, version, calling, handshakes, refused, outdated>>

\* The fetch is over and the next one makes a session of its own.
End(s) ==
    /\ pc[s] \in {"ready", "failed"}
    /\ pc' = [pc EXCEPT ![s] = "idle"]
    /\ skipped' = [skipped EXCEPT ![s] = FALSE]
    /\ version' = [version EXCEPT ![s] = Asked]
    /\ calling' = [calling EXCEPT ![s] = FALSE]
    /\ handshakes' = [handshakes EXCEPT ![s] = 0]
    /\ repeats' = [repeats EXCEPT ![s] = 0]
    /\ refused' = [refused EXCEPT ![s] = FALSE]
    /\ outdated' = [outdated EXCEPT ![s] = FALSE]
    /\ UNCHANGED <<endpointVars, cache>>

-----------------------------------------------------------------------------

SessionStep(s) ==
    \/ New(s) \/ Initialize(s) \/ Notify(s) \/ HandshakeFails(s) \/ Record(s)
    \/ Call(s) \/ Answered(s) \/ CallFails(s) \/ CallUnauthorized(s) \/ Drop(s)
    \/ End(s)

Next == Deploy \/ \E s \in Sessions : SessionStep(s)

Spec == Init /\ [][Next]_vars

-----------------------------------------------------------------------------
(* Properties *)

\* "Every later request has to match": the version shared by all sessions is
\* one that the endpoint has spoken, however handshakes of several sessions,
\* unreadable ones among them, cross with each other and with a deployment.
CacheWasSpoken == cache \in spoken \cup {None}

\* "A failure after a skip earns one retry with a fresh handshake": a session
\* that ends over a refused version has given up the one it found, and was
\* refused in the handshake itself or by an endpoint that was deployed since.
RefusalIsNews ==
    \A s \in Sessions :
        pc[s] = "failed" /\ refused[s] =>
            ~ skipped[s] /\ (handshakes[s] = 0 \/ outdated[s])

\* One retry for a whole session of many calls, whatever the other sessions
\* do to the shared version meanwhile.
RetriedOnce == \A s \in Sessions : handshakes[s] <= 1 /\ repeats[s] <= 1

=============================================================================
