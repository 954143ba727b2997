------------------------------ MODULE McpServer -------------------------------
(***************************************************************************)
(* McpServer and the feature calls of McpClient over one transport: the    *)
(* tools of a registry and of the server itself, resource and prompt       *)
(* providers asked one by one or all at once, coalesced change             *)
(* notifications, and the requests the server makes of its client          *)
(* (sampling, elicitation, roots).                                         *)
(*                                                                         *)
(* The sessions are abstracted to two ordered wires and to requests that   *)
(* are answered under their own id (JsonRpcSession models them in full).   *)
(* An answer leaves through the event queue of the server's thread, and so *)
(* does a coalesced notification; the other notifications leave at once.   *)
(* An item a provider lists is the pair of its uri and its description.    *)
(***************************************************************************)
EXTENDS Naturals, Sequences, FiniteSets, SequencesExt, Functions, TLC

CONSTANTS
  Names,              \* tool names
  ResourceProviders,
  PromptProviders,
  Uris,               \* what providers hold: resource uris, prompt names
  Full,               \* the providers that hold something when the program starts
  Directories,        \* directories a client may offer as roots
  MaxTurns,           \* bound: what the two hosts do: requests, calls, stops and changes
  MaxChanges,         \* bound: the changes among them
  MaxRequests         \* bound: the client's requests, of the handshake too

None == "none"
Providers == ResourceProviders \cup PromptProviders
Areas == {"resource", "prompt"}
Features == {"sampling", "elicitation", "roots"}
AreaOf(p) == IF p \in ResourceProviders THEN "resource" ELSE "prompt"
With(f, k, v) == [x \in DOMAIN f \cup {k} |-> IF x = k THEN v ELSE f[x]]
ASSUME ServerAssumption ==
  /\ IsFiniteSet(ResourceProviders) /\ IsFiniteSet(PromptProviders)
  /\ "not found" \notin Providers
  /\ ResourceProviders \cap PromptProviders = {} /\ Full \subseteq Providers
  /\ {MaxTurns, MaxChanges, MaxRequests} \subseteq Nat

VARIABLES
  tools,      \* own, dead: the standalone tools and those of them destroyed; reg:
              \* names in the registry; attached: setToolRegistry; off: disabled ones
  prov,       \* registered providers, those alive, what they hold and what is watched
  server,     \* open, ready: m_initialized, caps: m_clientCapabilities, level, and the
              \* posted events: coalesced notifications and finished answers
  ops,        \* the requests the server has taken: id -> what became of them
  calls,      \* the server's own requests: id -> their kind and fate
  client,     \* its peer, features (and those it offered), roots, and of each list what it
              \* has seen and the newest request since it was told of a change
  asked,      \* the client's requests: id -> [ask, fate]
  bridges,    \* the client's answers in the making: call id -> state
  toServer, toClient,
  spent       \* the turns of the hosts, and the epoch: silent changes and stops so far
vars == << tools, prov, server, ops, calls, client, asked, bridges, toServer, toClient, spent >>
toolVars == << tools, prov >>

(****************************** Tools **************************************)
Own(n) == << "own", n >>
Registered(n) == << "registry", n >>
inRegistry(n) == tools.attached /\ n \in tools.reg

\* The tools by name, the registry's over the server's own.
collectTools ==
  LET names == { n \in Names : inRegistry(n) \/ n \in tools.own \ tools.dead }
  IN  [n \in names |-> IF inRegistry(n) THEN Registered(n) ELSE Own(n)]
ToolsListed == { t \in Range(collectTools) : t \notin tools.off }

findTool(n) ==
  IF inRegistry(n) THEN Registered(n)
  ELSE IF n \in tools.own \ tools.dead THEN Own(n) ELSE None

(**************************** Messages *************************************)
Question(id, ask) == [kind |-> "request", id |-> id, ask |-> ask]
AnswerTo(id, value) == [kind |-> "answer", id |-> id, value |-> value]
Note(area) == [kind |-> "note", area |-> area]

Due(area) == [event |-> "notify", area |-> area]
Reply(id) == [event |-> "reply", id |-> id]
Post(s, e) == [s EXCEPT !.posted = Append(@, e)]
\* Both ends must be open: a client that has left its end hears nothing of this.
Heard == server.open /\ client.peer # "off"
Sent(m) == toClient' = IF Heard THEN Append(toClient, m) ELSE toClient
Tell(area) == IF server.ready THEN Sent(Note(area)) ELSE UNCHANGED toClient

(************************* Changes and notifications ***********************)
\* notifyToolsChanged, notifyResourcesChanged: one notification per turn.
BugNotifyLater(area) ==
  server' = IF server.ready /\ { e \in Range(server.posted) : e.event = "notify" } = {}
            THEN Post(server, Due(area)) ELSE server
NotifyLater(area) ==
  server' = IF server.ready /\ Due(area) \notin Range(server.posted) THEN Post(server, Due(area))
            ELSE server

\* The hosts take their turns while a client connects, is connected or has left; what
\* they set up before is the initial state.
Spend(change, silent) ==
  /\ client.peer # "off" \/ server.ready
  /\ spent.turns < MaxTurns /\ spent.changes + change <= MaxChanges
  /\ spent' = [turns |-> spent.turns + 1, changes |-> spent.changes + change,
               epoch |-> spent.epoch + silent]
Turn == Spend(0, 0)
Change == Spend(1, 0)
ChangeSilently == Spend(1, 1)
Elsewhere == UNCHANGED << ops, calls, asked, bridges, toServer, client >>

\* The event loop: the pending flag falls with the event, and the watcher of a
\* finished future sends the answer.
Posted ==
  /\ server.posted # <<>>
  /\ server' = [server EXCEPT !.posted = Tail(@)]
  /\ LET e == Head(server.posted)
     IN  IF e.event = "notify" THEN Tell(e.area) ELSE Sent(AnswerTo(e.id, ops[e.id].value))
  /\ UNCHANGED << toolVars, spent >> /\ Elsewhere

addTool(n) ==
  /\ Change
  /\ tools' = [tools EXCEPT !.own = @ \cup {n}, !.dead = @ \ {n}]
  /\ NotifyLater("tools")
  /\ UNCHANGED << prov, toClient >> /\ Elsewhere
removeTool(n) ==
  /\ n \in tools.own /\ Change
  /\ tools' = [tools EXCEPT !.own = @ \ {n}, !.dead = @ \ {n}]
  /\ NotifyLater("tools")
  /\ UNCHANGED << prov, toClient >> /\ Elsewhere
\* The registry is changed by its owner, who also serves the clients with it.
RegistryChanges(names) ==
  /\ names # tools.reg /\ Change
  /\ tools' = [tools EXCEPT !.reg = names]
  /\ IF tools.attached THEN NotifyLater("tools") ELSE UNCHANGED server
  /\ UNCHANGED << prov, toClient >> /\ Elsewhere
\* What changes the list without a notification: another registry, a tool that
\* is destroyed or switched on or off.
SilentToolChange(new) ==
  /\ new # tools /\ ChangeSilently
  /\ tools' = new
  /\ UNCHANGED << prov, server, toClient >> /\ Elsewhere
setToolRegistry == SilentToolChange([tools EXCEPT !.attached = ~ @])
ToolDestroyed(n) ==
  n \in tools.own /\ SilentToolChange([tools EXCEPT !.dead = @ \cup {n}])
setEnabled(t) ==
  SilentToolChange([tools EXCEPT !.off = IF t \in @ THEN @ \ {t} ELSE @ \cup {t}])

(************************** Resource providers *****************************)
\* StaticResourceProvider: put, remove and clear announce a changed list.
ListChanged(p) ==
  IF p \notin Range(prov.registered[AreaOf(p)]) THEN UNCHANGED << server, toClient >>
  ELSE IF AreaOf(p) = "resource" THEN NotifyLater("resource") /\ UNCHANGED toClient
  ELSE Tell("prompt") /\ UNCHANGED server
put(p, u, description) ==
  /\ p \in prov.alive /\ prov.holds[p][u] # description /\ Change
  /\ prov' = [prov EXCEPT !.holds[p][u] = description]
  /\ ListChanged(p)
  /\ UNCHANGED tools /\ Elsewhere
remove(p, uris) ==
  /\ p \in prov.alive /\ Change
  /\ \E u \in uris : prov.holds[p][u] # None
  /\ prov' = [prov EXCEPT !.holds[p] = [u \in Uris |-> IF u \in uris THEN None ELSE @[u]]]
  /\ ListChanged(p)
  /\ UNCHANGED tools /\ Elsewhere

\* addResourceProvider, addPromptProvider and their opposites say nothing.
Join(p) ==
  /\ p \in prov.alive /\ p \notin Range(prov.registered[AreaOf(p)])
  /\ ChangeSilently
  /\ prov' = [prov EXCEPT !.registered[AreaOf(p)] = Append(@, p)]
  /\ UNCHANGED << tools, server, toClient >> /\ Elsewhere
Leave(p, destroyed) ==
  /\ p \in Range(prov.registered[AreaOf(p)]) \cap prov.alive
  /\ ChangeSilently
  /\ \/ destroyed /\ prov' = [prov EXCEPT !.alive = @ \ {p}]
     \/ /\ ~ destroyed
        /\ \E i \in DOMAIN prov.registered[AreaOf(p)] :
             /\ prov.registered[AreaOf(p)][i] = p
             /\ prov' = [prov EXCEPT !.registered[AreaOf(p)] = RemoveAt(@, i)]
  /\ UNCHANGED << tools, server, toClient >> /\ Elsewhere

\* A provider announces a resource it is subscribed to.
ResourceUpdated(p, u) ==
  /\ u \in prov.watched[p] /\ p \in Range(prov.registered["resource"]) \cap prov.alive
  /\ Change
  /\ Tell("updated")
  /\ UNCHANGED << toolVars, server >> /\ Elsewhere
sendLogMessage ==
  /\ server.ready /\ Change
  /\ Tell("log")
  /\ UNCHANGED << toolVars, server >> /\ Elsewhere

(********************** The requests the server takes **********************)
Items(held) == { << u, held[u] >> : u \in { v \in Uris : held[v] # None } }
OfferOf(p, held) == { << p, x >> : x \in Items(held) }
Offer(holds) == UNION { OfferOf(p, holds[p]) : p \in DOMAIN holds }
Asking(area) == Range(prov.registered[area]) \cap prov.alive

\* offered: what each asked provider held when it was asked; failed and lacking:
\* who answered with an error or without the thing.
Op(ask, queue) ==
  [ask |-> ask, queue |-> queue, at |-> 0, left |-> {}, offered |-> <<>>, tool |-> None,
   failed |-> {}, lacking |-> {}, open |-> TRUE, value |-> None, epoch |-> spent.epoch]
Take(id, op) == ops' = With(ops, id, op) /\ UNCHANGED server
Closed(id, op, value) ==
  ops' = With(ops, id, [op EXCEPT !.open = FALSE, !.left = {}, !.value = value])
Close(id, op, value) == Closed(id, op, value) /\ server' = Post(server, Reply(id))

\* collectListFromProviders and mergeCompletions: all the providers at once.
collectListFromProviders(id, ask) ==
  LET asking == Asking(ask.area)
      op == [Op(ask, <<>>) EXCEPT !.left = asking, !.value = {},
               !.offered = [p \in asking |-> prov.holds[p]]]
  IN  IF asking = {} THEN Close(id, op, {}) ELSE Take(id, op)

\* tryEachAdvance: the next provider of the queue that still lives.
tryEachAdvance(id, op) ==
  LET Dead(first, last) == \A j \in first..last : op.queue[j] \notin prov.alive
  IN  \/ Dead(op.at + 1, Len(op.queue)) /\ Close(id, op, "not found")
      \/ \E j \in op.at + 1..Len(op.queue) :
           LET p == op.queue[j]
           IN  /\ p \in prov.alive /\ Dead(op.at + 1, j - 1)
               /\ Take(id, [op EXCEPT !.at = j, !.left = {p},
                               !.offered = With(@, p, prov.holds[p])])
tryEachProvider(id, ask) ==
  IF prov.registered[ask.area] = <<>> THEN Close(id, Op(ask, <<>>), "not found")
  ELSE tryEachAdvance(id, Op(ask, prov.registered[ask.area]))

toolsCall(id, ask) ==
  IF findTool(ask.arg) = None THEN Close(id, Op(ask, <<>>), "not found")
  ELSE Take(id, [Op(ask, <<>>) EXCEPT !.tool = findTool(ask.arg)])

Watch(u, on) ==
  prov' = [prov EXCEPT !.watched =
             [p \in Providers |-> IF p \notin Asking("resource") THEN @[p]
                                  ELSE IF on THEN @[p] \cup {u} ELSE @[p] \ {u}]]

\* The handlers of McpServer::installHandlers.
HandleRequest(id, ask) ==
  /\ CASE ask.what = "initialize" ->
            /\ server' = [Post(server, Reply(id)) EXCEPT !.ready = TRUE, !.caps = ask.arg]
            /\ Closed(id, Op(ask, <<>>), "done")
       [] ask.what = "level" ->
            /\ server' = [Post(server, Reply(id)) EXCEPT !.level = ask.arg]
            /\ Closed(id, Op(ask, <<>>), "done")
       [] ask.what = "list" /\ ask.area = "tools" -> Close(id, Op(ask, <<>>), ToolsListed)
       [] ask.what = "call" -> toolsCall(id, ask)
       [] ask.what \in {"list", "complete"} /\ ask.area \in Areas ->
            collectListFromProviders(id, ask)
       [] ask.what = "read" -> tryEachProvider(id, ask)
       [] ask.what \in {"subscribe", "unsubscribe"} -> Close(id, Op(ask, <<>>), "done")
  /\ IF ask.what \in {"subscribe", "unsubscribe"}
     THEN Watch(ask.arg, ask.what = "subscribe") ELSE UNCHANGED prov

\* What the server's session receives: a request, the answer to a call, or
\* roots/list_changed, of which the host is told.
ServerReceives ==
  /\ toServer # <<>> /\ server.open
  /\ toServer' = Tail(toServer)
  /\ LET e == Head(toServer) IN
     CASE e.kind = "request" ->
            HandleRequest(e.id, e.ask) /\ UNCHANGED calls
       [] e.kind = "answer" ->
            /\ calls' = IF calls[e.id].fate = "sent" THEN [calls EXCEPT ![e.id].fate = e.value]
                        ELSE calls
            /\ UNCHANGED << server, prov, ops >>
       [] e.kind = "note" -> UNCHANGED << calls, server, prov, ops >>
  /\ UNCHANGED << tools, client, asked, bridges, toClient, spent >>

\* A provider's future is ready; only what it held when asked counts.
BugFanIn(id, p, ok) ==
  LET op == [ops[id] EXCEPT !.value = IF ok THEN @ \cup OfferOf(p, ops[id].offered[p]) ELSE @,
                            !.left = @ \ {p}]
  IN  IF ok /\ op.left = {} THEN Close(id, op, op.value) ELSE Take(id, op)
FanIn(id, p, ok) ==
  LET merged == IF ok THEN [ops[id] EXCEPT !.value = @ \cup OfferOf(p, ops[id].offered[p])]
                ELSE [ops[id] EXCEPT !.failed = @ \cup {p}]
      op == [merged EXCEPT !.left = @ \ {p}]
  IN  IF op.left = {} THEN Close(id, op, op.value) ELSE Take(id, op)
BugFirstOf(id, p, ok) ==
  LET op == ops[id]
  IN  IF ok /\ op.offered[p][op.ask.arg] # None THEN Close(id, op, p)
      ELSE Close(id, [op EXCEPT !.lacking = @ \cup {p}], "not found")
FirstOf(id, p, ok) ==
  LET op == ops[id]
  IN  IF ok /\ op.offered[p][op.ask.arg] # None THEN Close(id, op, p)
      ELSE tryEachAdvance(id, [op EXCEPT !.lacking = @ \cup {p}])
\* Whoever has no such prompt fails; a resource may also be answered empty.
ProviderAnswers(id, p, ok) ==
  /\ p \in ops[id].left
  /\ IF ops[id].ask.what = "read"
     THEN /\ ok /\ p \in PromptProviders => ops[id].offered[p][ops[id].ask.arg] # None
          /\ FirstOf(id, p, ok)
     ELSE FanIn(id, p, ok)
  /\ UNCHANGED << toolVars, calls, client, asked, bridges, toServer, toClient, spent >>

\* A tool's future ends well or not: an error is a result too.
ToolEnds(id, result) ==
  /\ ops[id].tool # None /\ ops[id].open
  /\ Close(id, ops[id], result)
  /\ UNCHANGED << toolVars, calls, client, asked, bridges, toServer, toClient, spent >>

(************************ The server's own requests ************************)
\* createSamplingMessage and createElicitation are refused before anything is
\* sent; the host asks for the roots through the session.  The session counts on an
\* answer even where the client's end is closed.
Invited(kind) == kind = "roots" \/ (server.ready /\ kind \in server.caps)
CallClient(kind) ==
  LET id == Cardinality(DOMAIN calls) + 1
      sent == server.open /\ Invited(kind)
  IN  /\ Turn
      /\ calls' = With(calls, id, [kind |-> kind, fate |-> IF sent THEN "sent" ELSE "refused"])
      /\ IF sent THEN Sent(Question(id, kind)) ELSE UNCHANGED toClient
      /\ UNCHANGED << toolVars, server, ops, client, asked, bridges, toServer >>
CallTimesOut(id) ==
  /\ calls[id].fate = "sent"
  /\ calls' = [calls EXCEPT ![id].fate = "timeout"]
  /\ UNCHANGED << toolVars, server, ops, client, asked, bridges, toServer, toClient, spent >>

(***************************** The client **********************************)
Lists == Areas \cup {"tools"}
Unknown == [from |-> 0, value |-> {}]
Send(e) == toServer' = IF Heard THEN Append(toServer, e) ELSE toServer
ClientOnly == UNCHANGED << toolVars, server, ops, calls, toClient >>

Ask(ask) ==
  LET id == Cardinality(DOMAIN asked) + 1
  IN  /\ asked' = With(asked, id, [ask |-> ask, fate |-> "waiting"])
      /\ toServer' = IF server.open THEN Append(toServer, Question(id, ask)) ELSE toServer
      /\ client' = CASE ask.what = "initialize" -> [client EXCEPT !.peer = "asking", !.offered = ask.arg]
                     [] ask.what = "list" -> [client EXCEPT !.newest[ask.area] = id]
                     [] OTHER -> client
      /\ ClientOnly /\ UNCHANGED bridges
Initialize == [what |-> "initialize", area |-> None, arg |-> client.has]
connectAndInitialize == client.peer = "off" /\ server.open /\ Ask(Initialize) /\ UNCHANGED spent

\* listTools, callTool, listResources and listPrompts, readResource and getPrompt,
\* complete, subscribeResource, unsubscribeResource, setLogLevel.
Asks ==
  [what : {"list"}, area : Lists, arg : {None}]
    \cup [what : {"call"}, area : {None}, arg : Names]
    \cup [what : {"complete"}, area : Areas, arg : {None}]
    \cup [what : {"read"}, area : Areas, arg : Uris]
    \cup [what : {"subscribe", "unsubscribe"}, area : {"resource"}, arg : Uris]
    \cup [what : {"level"}, area : {None}, arg : {"debug"}]
sendInitialized(ask) ==
  /\ client.peer = "ready" /\ Cardinality(DOMAIN asked) < MaxRequests /\ Turn
  /\ Ask(ask)

\* With the answer of initialize the handshake is over (ProtocolPeer has it in full).
TakeAnswer(e) ==
  LET waiting == asked[e.id].fate = "waiting"
      ask == asked[e.id].ask
  IN  /\ asked' = IF waiting THEN [asked EXCEPT ![e.id].fate = "answered"] ELSE asked
      /\ client' = CASE waiting /\ ask.what = "initialize" -> [client EXCEPT !.peer = "ready"]
                     [] waiting /\ ask.what = "list" ->
                          [client EXCEPT !.seen[ask.area] = [from |-> e.id, value |-> e.value]]
                     [] OTHER -> client
      /\ UNCHANGED << bridges, toServer >>

\* tools/list_changed empties m_cachedTools; of the other changes the host is told.
TakeNote(e) ==
  /\ client' = IF e.area \in Lists
               THEN [client EXCEPT !.seen[e.area] = Unknown, !.newest[e.area] = 0] ELSE client
  /\ UNCHANGED << asked, bridges, toServer >>

\* The client's handlers for sampling, elicitation and roots.  A model request
\* may fail inside sendMessage, before the bridge knows its id.
BridgeTo(id, kind, state) ==
  bridges' = With(bridges, id, [kind |-> kind, request |-> state, settled |-> FALSE])
Refuse(id) == Send(AnswerTo(id, "error")) /\ UNCHANGED bridges
TakeCall(e) ==
  /\ CASE e.ask = "roots" -> BridgeTo(e.id, "roots", "running") /\ UNCHANGED toServer
       [] e.ask # "roots" /\ e.ask \notin client.has -> Refuse(e.id)
       [] e.ask = "elicitation" /\ e.ask \in client.has ->
            BridgeTo(e.id, "elicitation", "running") /\ UNCHANGED toServer
       [] e.ask = "sampling" /\ e.ask \in client.has ->
            \/ Refuse(e.id)                              \* the payload builder throws
            \/ BridgeTo(e.id, "sampling", "running") /\ UNCHANGED toServer
            \/ BridgeTo(e.id, "sampling", "failed") /\ UNCHANGED toServer
  /\ UNCHANGED << asked, client >>

ClientReceives ==
  /\ toClient # <<>>
  /\ toClient' = Tail(toClient)
  /\ LET e == Head(toClient)
     IN  CASE e.kind = "answer"  -> TakeAnswer(e)
           [] e.kind = "note"    -> TakeNote(e)
           [] e.kind = "request" -> TakeCall(e)
  /\ UNCHANGED << toolVars, server, ops, calls, spent >>

\* The model request, the host's dialog or the roots provider ends, well or badly;
\* of roots that cannot be listed the server is told there are none.
BridgeEnds(id, outcome) ==
  /\ bridges[id].request = "running"
  /\ bridges' = [bridges EXCEPT ![id].request = outcome, ![id].settled = TRUE]
  /\ Send(AnswerTo(id, IF outcome = "ended" \/ bridges[id].kind = "roots" THEN "result" ELSE "error"))
  /\ ClientOnly /\ UNCHANGED << asked, client, spent >>

\* setSamplingClient, setElicitationProvider.
SetFeature(feature) ==
  /\ Change
  /\ client' = [client EXCEPT !.has = IF feature \in @ THEN @ \ {feature} ELSE @ \cup {feature}]
  /\ ClientOnly /\ UNCHANGED << asked, bridges, toServer >>

\* DirectoryRootsProvider: each operation announces what it changed.
ChangeRoots(roots) ==
  /\ roots # client.roots /\ Change
  /\ client' = [client EXCEPT !.roots = roots]
  /\ IF client.peer = "ready" /\ "roots" \in client.has THEN Send(Note("roots"))
     ELSE UNCHANGED toServer
  /\ ClientOnly /\ UNCHANGED << asked, bridges >>
setPaths(paths)  == ChangeRoots(paths)
addPath(path)    == ChangeRoots(client.roots \cup {path})
removePath(path) == ChangeRoots(client.roots \ {path})

(******************* Stop, start and a client that leaves ******************)
\* The sessions keep their pending requests when the transport closes.
BugLost == UNCHANGED asked
\* abortPending: what was not answered in this connection never is.
Lost == asked' = [id \in DOMAIN asked |->
                   IF asked[id].fate = "waiting" THEN [asked[id] EXCEPT !.fate = "lost"]
                   ELSE asked[id]]
\* McpServer::stop; the client's end of the transport closes with it.
Stop ==
  /\ server.open /\ Spend(0, 1)
  /\ server' = [server EXCEPT !.open = FALSE, !.ready = FALSE]
  /\ calls' = [id \in DOMAIN calls |->
                 IF calls[id].fate = "sent" THEN [calls[id] EXCEPT !.fate = "closed"] ELSE calls[id]]
  /\ client' = [client EXCEPT !.peer = "off"]
  /\ Lost
  /\ toServer' = <<>> /\ toClient' = <<>>
  /\ UNCHANGED << toolVars, ops, bridges >>
Start ==
  /\ ~ server.open
  /\ server' = [server EXCEPT !.open = TRUE]
  /\ UNCHANGED << toolVars, ops, calls, client, asked, bridges, toServer, toClient, spent >>
\* The client's end closes while the server goes on.  No handler of McpServer hears of
\* it: m_initialized and the capabilities stay, and so does what is on the wires (a
\* PipeTransport delivers what was posted).
ClientLeaves ==
  /\ client.peer # "off" /\ server.open /\ Spend(0, 1)
  /\ client' = [client EXCEPT !.peer = "off"]
  /\ Lost
  /\ UNCHANGED << toolVars, server, ops, calls, bridges, toServer, toClient >>

(*********************** The whole system **********************************)
Init ==
  /\ tools = [own |-> {}, dead |-> {}, reg |-> Names, attached |-> TRUE, off |-> {}]
  /\ prov = [registered |-> [a \in Areas |->
                SetToSeq(IF a = "resource" THEN ResourceProviders ELSE PromptProviders)],
             alive |-> Providers,
             holds |-> [p \in Providers |-> [u \in Uris |-> IF p \in Full THEN "old" ELSE None]],
             watched |-> [p \in Providers |-> {}]]
  /\ server = [open |-> TRUE, ready |-> FALSE, caps |-> {}, posted |-> <<>>, level |-> None]
  /\ ops = <<>> /\ calls = <<>> /\ asked = <<>> /\ bridges = <<>>
  /\ client = [peer |-> "off", has |-> Features, offered |-> {}, roots |-> {},
               seen |-> [l \in Lists |-> Unknown], newest |-> [l \in Lists |-> 0]]
  /\ toServer = <<>> /\ toClient = <<>>
  /\ spent = [turns |-> 0, changes |-> 0, epoch |-> 0]

HostChanges ==
  \/ \E n \in Names : addTool(n) \/ removeTool(n) \/ ToolDestroyed(n)
  \/ \E names \in SUBSET Names : RegistryChanges(names)
  \/ setToolRegistry
  \/ \E n \in Names : setEnabled(Own(n)) \/ setEnabled(Registered(n))
  \/ \E p \in Providers, u \in Uris : put(p, u, "new")
  \/ \E p \in Providers, uris \in { {u} : u \in Uris } \cup {Uris} : remove(p, uris)
  \/ \E p \in Providers : Join(p) \/ \E destroyed \in BOOLEAN : Leave(p, destroyed)
  \/ \E p \in ResourceProviders, u \in Uris : ResourceUpdated(p, u)
  \/ sendLogMessage
  \/ \E feature \in Features : SetFeature(feature)
  \/ \E paths \in SUBSET Directories : setPaths(paths)
  \/ \E path \in Directories : addPath(path) \/ removePath(path)

\* What the event loops and the providers bring about by themselves.
Progress ==
  \/ Posted \/ ServerReceives \/ ClientReceives
  \/ \E id \in DOMAIN ops :
       \/ \E p \in Providers, ok \in BOOLEAN : ProviderAnswers(id, p, ok)
       \/ \E result \in {"result", "error"} : ToolEnds(id, result)
  \/ \E id \in DOMAIN bridges, outcome \in {"ended", "failed"} : BridgeEnds(id, outcome)

Next ==
  \/ Progress \/ HostChanges
  \/ connectAndInitialize
  \/ \E ask \in Asks : sendInitialized(ask)
  \/ \E kind \in Features : CallClient(kind)
  \/ \E id \in DOMAIN calls : CallTimesOut(id)
  \/ Stop \/ Start \/ ClientLeaves

Spec == Init /\ [][Next]_vars
FairSpec == Spec /\ WF_vars(Progress)

(***************************** Properties **********************************)
\* What the three lists of the protocol hold at this moment.
Listing(list) ==
  IF list = "tools" THEN ToolsListed
  ELSE Offer([p \in Asking(list) |-> prov.holds[p]])

\* What a client has of a list is the list, once it has answered the last change it
\* was told of by asking again and while no notification is posted or on its way:
\* coalescing (m_toolsNotifyPending, m_resourcesNotifyPending) loses no change.
\* Left aside: providers that failed to answer and the changes nothing announces.
ToldOfChanges ==
  \A list \in Lists :
    LET from == client.seen[list].from
    IN  /\ from # 0 /\ from = client.newest[list]
        /\ ops[from].failed = {} /\ ops[from].epoch = spent.epoch
        /\ Due(list) \notin Range(server.posted) /\ Note(list) \notin Range(toClient)
        => client.seen[list].value = Listing(list)

\* A list holds what every provider that answered holds, each asked once and none
\* forgotten, however their answers interleave; the first provider in order that has
\* a resource or a prompt is the one that answers, and "not found" is said only when
\* nobody alive has it (collectListFromProviders, tryEachAdvance).
AnswersAreWhole ==
  \A id \in DOMAIN ops :
    LET op == ops[id]
        Passed(j) == op.queue[j] \in op.lacking \/ op.queue[j] \notin prov.alive
    IN  ~ op.open =>
        /\ op.ask.what \in {"list", "complete"} /\ op.ask.area \in Areas =>
             op.value = Offer([p \in DOMAIN op.offered \ op.failed |-> op.offered[p]])
        /\ op.ask.what = "read" =>
             IF op.value = "not found" THEN \A j \in DOMAIN op.queue : Passed(j)
             ELSE \E i \in DOMAIN op.queue :
                    /\ op.value = op.queue[i]
                    /\ op.offered[op.queue[i]][op.ask.arg] # None
                    /\ \A j \in 1..i - 1 : Passed(j)

\* A client whose handshake is over is asked for a model or for its user only what it
\* offered in that handshake, whatever an earlier connection left in the server or on
\* the wire (createSamplingMessage, createElicitation, the handler of initialize).
CallsAreInvited ==
  client.peer = "ready" =>
    \A m \in Range(toClient) :
      m.kind = "request" /\ m.ask # "roots" => m.ask \in client.offered

\* Every request of the client is answered in the end, or lost with the connection,
\* however many providers die, fail or answer late.
RequestsAnswered == <>[](\A id \in DOMAIN asked : asked[id].fate # "waiting")
=============================================================================
