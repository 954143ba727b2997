----------------------------- MODULE ProtocolPeer -----------------------------
(***************************************************************************)
(* The client's ProtocolPeer: the handshake and the gate it opens for the  *)
(* requests that need an initialized server.  The server's peer has        *)
(* neither; its side is a plain JsonRpcSession.                            *)
(***************************************************************************)
EXTENDS JsonRpcSession

VARIABLES
    initialized,    \* m_initialized
    posted,         \* handshakes whose future ended well, their continuation due
    greeted         \* history: a handshake was answered since the transport started

gate     == <<initialized, posted, greeted>>
peerVars == <<vars, gate>>

Gated == {"call", "tracked"}

PeerInit ==
    /\ Init
    /\ initialized = FALSE
    /\ posted = {}
    /\ greeted = FALSE

\* Handshakes a step answers.
JustGreeted ==
    {r \in Requests : method[r] = "initialize" /\ fate'[r] = "result" /\ fate[r] = "none"}

BugClosedKeepsGate ==
    /\ posted' = posted \cup JustGreeted
    /\ greeted' = (open'["client"] /\ (greeted \/ JustGreeted # {}))
    /\ UNCHANGED initialized

\* What a step of the sessions does to the peer: closed() shuts the gate, the
\* answer to a handshake posts the continuation that opens it.
GateFollows ==
    /\ initialized' = (initialized /\ open'["client"])
    /\ posted' = posted \cup JustGreeted
    /\ greeted' = (open'["client"] /\ (greeted \/ JustGreeted # {}))

\* handshake: open the transport unless it is open, send "initialize".
Connect ==
    LET o == [open EXCEPT !["client"] = TRUE]
        opens == IF open["client"] THEN 0 ELSE 1
    IN  /\ starts["client"] + opens <= MaxStarts["client"]
        /\ open' = o
        /\ starts' = [starts EXCEPT !["client"] = @ + opens]
        /\ Dispatch("client", o, "initialize")
        /\ UNCHANGED <<incoming, gate>>

\* The continuation of handshake's future, which the event loop runs later.
Continue(r) ==
    /\ r \in posted
    /\ posted' = posted \ {r}
    /\ initialized' = TRUE
    /\ UNCHANGED <<vars, greeted>>

\* request and callToolWithProgress.
Request(m) ==
    /\ initialized
    /\ SendRequest("client", m)
    /\ UNCHANGED gate

\* requestUngated, and the requests of the server.
RequestUngated(p, m) ==
    /\ SendRequest(p, m)
    /\ UNCHANGED gate

PeerNext ==
    \/ Connect
    \/ \E r \in Requests : Continue(r)
    \/ \E m \in Sends["client"] \cap Gated : Request(m)
    \/ \E p \in Sides : \E m \in Sends[p] \ Gated : RequestUngated(p, m)
    \/ Start("server") /\ GateFollows
    \/ \E p \in Sides : Stop(p) /\ GateFollows
    \/ Progress /\ GateFollows

PeerSpec == PeerInit /\ [][PeerNext]_peerVars

FairPeerSpec == PeerSpec /\ Fairness

-----------------------------------------------------------------------------
(* Properties *)

\* The gate is open though this connection's server has not answered the handshake.
Misleading == initialized /\ ~greeted

\* The gate of m_initialized opens for the connection that was greeted; the one way to
\* open it for another is the continuation of an earlier connection, queued when it ended
\* (handshake, closed).
OnlyStaleContinuationsMislead ==
    [][Misleading' => Misleading \/ (~greeted /\ posted' # posted)]_peerVars

=============================================================================
