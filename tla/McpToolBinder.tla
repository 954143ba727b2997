---------------------------- MODULE McpToolBinder ----------------------------
(***************************************************************************)
(* McpToolBinder keeping one server's tools in a registry: an McpServer    *)
(* whose tools change, the McpClient in between, and the binder's chains   *)
(* of connectAndInitialize and tools/list, reconnecting with a timer.      *)
(*                                                                         *)
(* A task is one chain of futures.  Its continuations are callbacks of the *)
(* event loop; those that are due wait in posted, in order.  The queues    *)
(* carry the messages of a connection and are lost with it; how answers    *)
(* find their requests is JsonRpcSession's matter.                         *)
(***************************************************************************)
EXTENDS Naturals, Sequences, FiniteSets

CONSTANTS
    Inits,          \* chains of initializeClient that can exist at once
    Syncs,          \* chains of resyncClient that can exist at once
    MaxVersion,     \* bound: the server's tool list takes the values 1..MaxVersion
    MaxDrops,       \* bound: how often a connection is lost
    MaxTimeouts,    \* bound: how many requests time out
    Relaunches      \* start() works again after the connection was lost

ASSUME BinderAssumption ==
    /\ IsFiniteSet(Inits) /\ IsFiniteSet(Syncs) /\ Inits \cap Syncs = {}
    /\ Inits # {} /\ Syncs # {}
    /\ MaxVersion \in Nat /\ MaxDrops \in Nat /\ MaxTimeouts \in Nat
    /\ Relaunches \in BOOLEAN

Tasks == Inits \cup Syncs

Stages == {"idle", "handshake", "greeted", "ready", "listing", "listed", "failing"}

VARIABLES
    open,           \* Transport::isOpen of the client
    started,        \* the transport was started before (m_process of a stdio one)
    initialized,    \* ProtocolPeer::m_initialized
    serverReady,    \* McpServer::m_initialized
    tools,          \* the server's tool list, as a version of it
    notifying,      \* McpServer::m_toolsNotifyPending
    toServer,       \* messages under way to the server
    toClient,       \* and to the client
    binding,        \* the Binding: "none", or how the client was added
    stopping,       \* McpToolBinder::m_stopping
    pending,        \* Binding::reconnectPending
    timers,         \* single-shot reconnect timers running
    registered,     \* the version whose tools are in the registry, 0 if none
    stage,          \* where each task is
    got,            \* the version in the answer a task works on, else 0
    posted,         \* tasks whose continuation is due
    drops, timeouts,    \* bounds: counted so far
    missed          \* history: a resync failed and none succeeded since

server == <<serverReady, tools, notifying>>
net    == <<open, started, initialized, toServer, toClient>>
binder == <<binding, stopping, pending, timers, registered>>
chains == <<stage, got, posted>>
aux    == <<drops, timeouts, missed>>
vars   == <<server, net, binder, chains, aux>>

Init ==
    /\ open = FALSE /\ started = FALSE /\ initialized = FALSE
    /\ serverReady = FALSE /\ tools = 1 /\ notifying = FALSE
    /\ toServer = << >> /\ toClient = << >>
    /\ binding = "none" /\ stopping = FALSE /\ pending = FALSE /\ timers = 0
    /\ registered = 0
    /\ stage = [t \in Tasks |-> "idle"]
    /\ got = [t \in Tasks |-> 0]
    /\ posted = << >>
    /\ drops = 0 /\ timeouts = 0 /\ missed = FALSE

Bound == binding # "none"
Reconnects(b) == b \in {"server", "client"} /\ ~stopping
Running(S) == {t \in S : stage[t] # "idle"}

-----------------------------------------------------------------------------
(* The server *)

\* notifyToolsChanged, called whenever a tool comes or goes.
ToolsChange ==
    /\ tools < MaxVersion
    /\ tools' = tools + 1
    /\ notifying' = (notifying \/ serverReady)
    /\ UNCHANGED <<serverReady, net, binder, chains, aux>>

\* The zero timer of notifyToolsChanged.
Notify ==
    /\ notifying
    /\ notifying' = FALSE
    /\ toClient' = IF serverReady /\ open THEN Append(toClient, [kind |-> "changed"])
                   ELSE toClient
    /\ UNCHANGED <<serverReady, tools, open, started, initialized, toServer,
                   binder, chains, aux>>

\* The handlers of initialize and tools/list answer at once.
ServerReceives ==
    /\ toServer # << >>
    /\ LET m == Head(toServer)
       IN  /\ serverReady' = (serverReady \/ m.kind = "initialize")
           /\ toClient' = IF m.kind = "void" THEN toClient
                          ELSE Append(toClient, IF m.kind = "initialize"
                            THEN [kind |-> "welcome", task |-> m.task]
                            ELSE [kind |-> "list", task |-> m.task, version |-> tools])
    /\ toServer' = Tail(toServer)
    /\ UNCHANGED <<tools, notifying, open, started, initialized, binder, chains, aux>>

-----------------------------------------------------------------------------
(* The steps of a chain *)

Enters(t, s, v) ==
    /\ stage' = [stage EXCEPT ![t] = s]
    /\ got' = [got EXCEPT ![t] = v]

\* The task's next continuation is posted, behind those of queue.
EntersAndPosts(t, s, v, queue) ==
    /\ Enters(t, s, v)
    /\ posted' = Append(queue, t)

\* scheduleReconnect where reconnectPending is p and n timers run.
Schedule(p, n) ==
    /\ pending' = (p \/ ~stopping)
    /\ timers' = IF p \/ stopping THEN n ELSE n + 1

BugDisconnected(b, n) ==
    IF Reconnects(b)
    THEN registered' = 0 /\ timers' = n + 1 /\ pending' = TRUE
    ELSE timers' = n /\ UNCHANGED <<registered, pending>>

\* The slot on McpClient::disconnected, for a binding b.
Disconnected(b, n) ==
    IF Reconnects(b)
    THEN registered' = 0 /\ Schedule(pending, n)
    ELSE timers' = n /\ UNCHANGED <<registered, pending>>

\* initializeClient: open the transport unless it is open, send initialize.
Initialize(t, b, n) ==
    \/ /\ open \/ ~started \/ Relaunches
       /\ open' = TRUE /\ started' = TRUE
       /\ toServer' = Append(toServer, [kind |-> "initialize", task |-> t])
       /\ Enters(t, "handshake", 0)
       /\ timers' = n
       /\ UNCHANGED <<posted, initialized, toClient, registered, pending>>
    \/ \* start() fails and emits closed().
       /\ ~open /\ (~started \/ Relaunches)
       /\ started' = TRUE
       /\ EntersAndPosts(t, "failing", 0, posted)
       /\ Disconnected(b, n)
       /\ initialized' = FALSE
       /\ UNCHANGED <<open, toServer, toClient>>
    \/ \* StdioClientTransport::start returns while it holds a process, a dead one too.
       /\ ~open /\ started /\ ~Relaunches
       /\ EntersAndPosts(t, "failing", 0, posted)
       /\ timers' = n
       /\ UNCHANGED <<net, registered, pending>>

\* listToolsOf: behind the gate of the peer, on an open transport.
ListTools(t, queue) ==
    IF initialized /\ open
    THEN /\ Enters(t, "listing", 0)
         /\ toServer' = Append(toServer, [kind |-> "list", task |-> t])
         /\ posted' = queue
    ELSE EntersAndPosts(t, "failing", 0, queue) /\ UNCHANGED toServer

Free(S) == {t \in S : stage[t] = "idle"}

\* The tasks that wait for an answer.
Waiting == {t \in Tasks : stage[t] \in {"handshake", "listing"}}

-----------------------------------------------------------------------------
(* The application *)

\* addServer: attach and initialize.
AddServer ==
    /\ binding = "none" /\ ~started
    /\ binding' = "server"
    /\ LET t == CHOOSE x \in Inits : TRUE IN Initialize(t, "server", timers)
    /\ UNCHANGED <<server, stopping, aux>>

\* addClient of a client the application has initialized: attach and resync.
AddClient ==
    /\ binding = "none" /\ ~started
    /\ open' = TRUE /\ started' = TRUE /\ initialized' = TRUE
    /\ serverReady' = TRUE
    /\ \E b \in {"client", "plain"} : binding' = b
    /\ LET t == CHOOSE x \in Syncs : TRUE
       IN  /\ Enters(t, "listing", 0)
           /\ toServer' = Append(toServer, [kind |-> "list", task |-> t])
    /\ UNCHANGED <<tools, notifying, toClient, stopping, pending, timers, registered,
                   posted, aux>>

RemoveClient ==
    /\ Bound
    /\ binding' = "none"
    /\ registered' = 0
    /\ UNCHANGED <<server, net, stopping, pending, timers, chains, aux>>

\* The orders in which they can fail.
Orders(S) == {f \in [1..Cardinality(S) -> S] : {f[k] : k \in DOMAIN f} = S}

\* The transport closes: the session fails what waits for an answer, the gate shuts.
Closes ==
    /\ open' = FALSE /\ initialized' = FALSE
    /\ toServer' = << >> /\ toClient' = << >>
    /\ \E order \in Orders(Waiting) : posted' = posted \o order
    /\ stage' = [t \in Tasks |-> IF t \in Waiting THEN "failing" ELSE stage[t]]

\* The connection is lost; the server lives on or is started anew.
Drop ==
    /\ open
    /\ drops < MaxDrops /\ drops' = drops + 1
    /\ Closes
    /\ Disconnected(binding, timers)
    /\ \E ready \in {FALSE, serverReady} : serverReady' = ready
    /\ UNCHANGED <<tools, notifying, started, binding, stopping, got, timeouts, missed>>

\* McpToolBinder::shutdown: no more reconnects; a client it owns is closed.
Shutdown ==
    /\ ~stopping
    /\ stopping' = TRUE
    /\ IF binding = "server" /\ open THEN Closes
       ELSE UNCHANGED <<open, initialized, toServer, toClient, posted, stage>>
    /\ UNCHANGED <<server, started, binding, pending, timers, registered, got, aux>>

-----------------------------------------------------------------------------
(* The event loop of the client *)

\* The timer of scheduleReconnect.
ReconnectFires ==
    /\ timers > 0
    /\ IF stopping \/ ~Bound
       THEN timers' = timers - 1 /\ UNCHANGED <<net, chains, pending, registered>>
       ELSE /\ Free(Inits) # {}
            /\ LET t == CHOOSE x \in Free(Inits) : TRUE IN Initialize(t, binding, timers - 1)
    /\ UNCHANGED <<server, binding, stopping, aux>>

\* The answer to a pending request ends it; the next continuation is due.
ReceiveAnswer ==
    /\ toClient # << >> /\ Head(toClient).kind # "changed"
    /\ toClient' = Tail(toClient)
    /\ LET m == Head(toClient)
       IN  IF m.kind = "void" THEN UNCHANGED chains
           ELSE IF m.kind = "welcome" THEN EntersAndPosts(m.task, "greeted", 0, posted)
           ELSE EntersAndPosts(m.task, "listed", m.version, posted)
    /\ UNCHANGED <<server, open, started, initialized, toServer, binder, aux>>

BugReceiveChanged ==
    /\ toClient # << >> /\ Head(toClient).kind = "changed"
    /\ toClient' = Tail(toClient)
    /\ IF Bound /\ Running(Tasks) = {}
       THEN LET t == CHOOSE x \in Free(Syncs) : TRUE IN ListTools(t, posted)
       ELSE UNCHANGED <<chains, toServer>>
    /\ UNCHANGED <<server, open, started, initialized, binder, aux>>

\* tools/list_changed: resyncClient of a bound client.
ReceiveChanged ==
    /\ toClient # << >> /\ Head(toClient).kind = "changed"
    /\ toClient' = Tail(toClient)
    /\ IF Bound
       THEN /\ Free(Syncs) # {}
            /\ LET t == CHOOSE x \in Free(Syncs) : TRUE IN ListTools(t, posted)
       ELSE UNCHANGED <<chains, toServer>>
    /\ UNCHANGED <<server, open, started, initialized, binder, aux>>

\* What was sent for a task comes to nothing; what is behind it keeps its place.
Voided(q, t) ==
    [k \in DOMAIN q |-> IF q[k].kind \in {"initialize", "welcome", "list"} /\ q[k].task = t
                        THEN [kind |-> "void"] ELSE q[k]]

\* A request of a chain times out.
Timeout(t) ==
    /\ t \in Waiting
    /\ timeouts < MaxTimeouts /\ timeouts' = timeouts + 1
    /\ EntersAndPosts(t, "failing", 0, posted)
    /\ toServer' = Voided(toServer, t) /\ toClient' = Voided(toClient, t)
    /\ UNCHANGED <<server, open, started, initialized, binder, drops, missed>>

IsNext(t) == posted # << >> /\ Head(posted) = t

\* The continuation of handshake opens the gate.
Greeted(t) ==
    /\ IsNext(t) /\ stage[t] = "greeted"
    /\ initialized' = TRUE
    /\ EntersAndPosts(t, "ready", 0, Tail(posted))
    /\ UNCHANGED <<server, open, started, toServer, toClient, binder, aux>>

\* initializeClient goes on to list the tools.
Ready(t) ==
    /\ IsNext(t) /\ stage[t] = "ready"
    /\ ListTools(t, Tail(posted))
    /\ UNCHANGED <<server, open, started, initialized, toClient, binder, aux>>

\* applyTools, at the end of a chain; a chain of initializeClient clears the flag.
Listed(t) ==
    /\ IsNext(t) /\ stage[t] = "listed"
    /\ Enters(t, "idle", 0)
    /\ posted' = Tail(posted)
    /\ registered' = IF Bound THEN got[t] ELSE registered
    /\ pending' = (pending /\ ~(Bound /\ t \in Inits))
    /\ missed' = (missed /\ ~Bound)
    /\ UNCHANGED <<server, net, binding, stopping, timers, drops, timeouts>>

BugInitFailed(t) ==
    /\ IsNext(t) /\ stage[t] = "failing" /\ t \in Inits
    /\ Enters(t, "idle", 0)
    /\ posted' = Tail(posted)
    /\ IF Reconnects(binding) THEN Schedule(pending, timers)
       ELSE pending' = (pending /\ ~Bound) /\ UNCHANGED timers
    /\ UNCHANGED <<server, net, binding, stopping, registered, aux>>

\* The failure of a chain of initializeClient: clear the flag, schedule the next.
InitFailed(t) ==
    /\ IsNext(t) /\ stage[t] = "failing" /\ t \in Inits
    /\ Enters(t, "idle", 0)
    /\ posted' = Tail(posted)
    /\ IF Reconnects(binding) THEN Schedule(FALSE, timers)
       ELSE pending' = (pending /\ ~Bound) /\ UNCHANGED timers
    /\ UNCHANGED <<server, net, binding, stopping, registered, aux>>

\* The failure of a resync is only logged.
SyncFailed(t) ==
    /\ IsNext(t) /\ stage[t] = "failing" /\ t \in Syncs
    /\ Enters(t, "idle", 0)
    /\ posted' = Tail(posted)
    /\ missed' = TRUE
    /\ UNCHANGED <<server, net, binder, drops, timeouts>>

Continuation ==
    \E t \in Tasks :
        Greeted(t) \/ Ready(t) \/ Listed(t) \/ InitFailed(t) \/ SyncFailed(t)

Next ==
    \/ ToolsChange \/ Notify \/ ServerReceives
    \/ AddServer \/ AddClient \/ RemoveClient \/ Shutdown
    \/ Drop \/ ReconnectFires \/ ReceiveAnswer \/ ReceiveChanged
    \/ \E t \in Tasks : Timeout(t)
    \/ Continuation

Spec == Init /\ [][Next]_vars

\* The event loops run, and a start that can succeed again and again does.
Fairness ==
    /\ WF_vars(Notify) /\ WF_vars(ServerReceives)
    /\ WF_vars(ReceiveAnswer) /\ WF_vars(ReceiveChanged) /\ WF_vars(Continuation)
    /\ WF_vars(ReconnectFires) /\ SF_vars(ReconnectFires /\ open')

FairSpec == Spec /\ Fairness

-----------------------------------------------------------------------------
(* Properties *)

\* Reconnecting does not multiply: the one chain that a disconnect during the first
\* connection starts beside it is the only second one there ever is.
AtMostTwoChains == timers + Cardinality(Running(Inits)) <= 2

\* reconnectPending, which turns scheduleReconnect away, never stays set with no
\* reconnect under way to clear it.
PendingIsHonest == pending /\ Bound /\ ~stopping => timers > 0 \/ Running(Inits) # {}

Quiet ==
    /\ toServer = << >> /\ toClient = << >> /\ posted = << >>
    /\ Running(Tasks) = {} /\ timers = 0 /\ ~notifying

\* When everything under way has arrived, the registry has the server's present
\* tools, unless the last listing failed: no change of the list is lost between its
\* coalesced notification, the initial listing and the resyncs.
QuietIsFresh ==
    Quiet /\ Bound /\ ~stopping /\ open /\ serverReady /\ ~missed => registered = tools

UnderWay == timers > 0 \/ Running(Inits) # {}

\* A loss that is not retried: the answer of tools/list was taken before it, and its
\* continuation registered the tools of the lost server and cleared reconnectPending.
Forgotten == registered # 0 /\ ~open /\ ~UnderWay

\* A reconnect that is under way brings the tools back over an open connection,
\* however often it fails, unless the application takes the server away or a listing
\* that outlived its connection ends the retries.
RetriesSucceed ==
    (Bound /\ ~stopping /\ UnderWay)
        ~> ((registered # 0 /\ open) \/ Forgotten \/ ~Bound \/ stopping)

\* Documented: "tools are re-registered once it comes back" (docs/mcp-bridge.md:16).
ComesBack ==
    (Reconnects(binding) /\ timers > 0) ~> (registered # 0 \/ ~Bound \/ stopping)

=============================================================================
