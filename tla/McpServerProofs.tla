--------------------------- MODULE McpServerProofs ----------------------------
(***************************************************************************)
(* McpServer and the feature calls of McpClient: a server asks only for    *)
(* what its client offered, its answers are whole, and its clients hear of *)
(* every change that is announced, for any number of tools, providers,     *)
(* requests and changes.                                                   *)
(***************************************************************************)
EXTENDS McpServer, SequenceTheorems, FiniteSetTheorems, TLAPS

(* Sequences of messages of whatever kind *)

IsSeq(q) == \E S : q \in Seq(S)

LEMMA EmptyIsSeq == IsSeq(<< >>) /\ Len(<< >>) = 0
BY EmptySeq DEF IsSeq

LEMMA AppendIsSeq ==
    ASSUME NEW q, IsSeq(q), NEW e
    PROVE  /\ IsSeq(Append(q, e)) /\ Len(q) \in Nat /\ Len(Append(q, e)) = Len(q) + 1
           /\ \A k \in 1..Len(q) : Append(q, e)[k] = q[k]
           /\ Append(q, e)[Len(q) + 1] = e
<1>1. PICK S : q \in Seq(S)
  BY DEF IsSeq
<1> DEFINE T == S \cup {e}
<1>2. q \in Seq(T) /\ e \in T
  BY <1>1, SeqMonotonic
<1> HIDE DEF T
<1> QED
  BY <1>2 DEF IsSeq

LEMMA TailIsSeq ==
    ASSUME NEW q, IsSeq(q), q # << >>
    PROVE  /\ IsSeq(Tail(q)) /\ Len(q) \in Nat \ {0} /\ Len(Tail(q)) = Len(q) - 1
           /\ Head(q) = q[1] /\ \A k \in 1..Len(q) - 1 : Tail(q)[k] = q[k + 1]
<1>1. PICK S : q \in Seq(S)
  BY DEF IsSeq
<1> QED
  BY <1>1 DEF IsSeq

-----------------------------------------------------------------------------
(* The shape of what is on the wires *)

\* What a client and what a server puts on the wire.
FromClient(m) ==
    \/ m.kind \in {"answer", "note"}
    \/ m.kind = "request" /\ (m.ask \in Asks \/ m.ask.what = "initialize")
FromServer(m) ==
    \/ m.kind \in {"answer", "note"}
    \/ m.kind = "request" /\ m.ask \in Features

ShapeIInv ==
    /\ DOMAIN server = {"open", "ready", "caps", "level", "posted"}
    /\ DOMAIN client = {"peer", "has", "offered", "roots", "seen", "newest"}
    /\ IsSeq(toServer) /\ \A k \in 1..Len(toServer) : FromClient(toServer[k])
    /\ IsSeq(toClient) /\ \A k \in 1..Len(toClient) : FromServer(toClient[k])

Longer(p, q, m) == p = q \/ p = Append(q, m)

\* Every element of a longer or a shorter sequence.
LEMMA AppendEach ==
    ASSUME NEW q, IsSeq(q), NEW e, NEW k \in 1..Len(Append(q, e))
    PROVE  (k \in 1..Len(q) /\ Append(q, e)[k] = q[k]) \/ Append(q, e)[k] = e
<1>1. /\ Len(q) \in Nat /\ Len(Append(q, e)) = Len(q) + 1
      /\ \A i \in 1..Len(q) : Append(q, e)[i] = q[i]
      /\ Append(q, e)[Len(q) + 1] = e
  BY AppendIsSeq
<1>2. k \in 1..Len(q) \/ k = Len(q) + 1
  BY <1>1
<1> QED
  BY <1>1, <1>2

LEMMA TailEach ==
    ASSUME NEW q, IsSeq(q), q # << >>, NEW k \in 1..Len(Tail(q))
    PROVE  k + 1 \in 1..Len(q) /\ Tail(q)[k] = q[k + 1] /\ k \in Nat
<1>1. /\ Len(q) \in Nat \ {0} /\ Len(Tail(q)) = Len(q) - 1
      /\ \A i \in 1..Len(q) - 1 : Tail(q)[i] = q[i + 1]
  BY TailIsSeq
<1> QED
  BY <1>1

LEMMA LongerEach ==
    ASSUME NEW q, IsSeq(q), NEW p, NEW m, Longer(p, q, m)
    PROVE  /\ IsSeq(p)
           /\ \A k \in 1..Len(p) : (k \in 1..Len(q) /\ p[k] = q[k]) \/ p[k] = m
<1>1. CASE p = q
  BY <1>1
<1>2. CASE p = Append(q, m)
  <2>1. IsSeq(p)
    BY <1>2, AppendIsSeq
  <2>2. \A k \in 1..Len(Append(q, m)) :
            (k \in 1..Len(q) /\ Append(q, m)[k] = q[k]) \/ Append(q, m)[k] = m
    BY AppendEach
  <2> QED
    BY <1>2, <2>1, <2>2
<1> QED
  BY <1>1, <1>2 DEF Longer

LEMMA HeadIsFirst ==
    ASSUME NEW q, IsSeq(q), q # << >>
    PROVE  1 \in 1..Len(q) /\ Head(q) = q[1] /\ IsSeq(Tail(q))
BY TailIsSeq

\* Nothing is said, or one thing more.
LEMMA Unsaid ==
    /\ UNCHANGED toServer => \E m : FromClient(m) /\ Longer(toServer', toServer, m)
    /\ UNCHANGED toClient => \E m : FromServer(m) /\ Longer(toClient', toClient, m)
<1>1. FromClient(Note("tools")) /\ FromServer(Note("tools"))
  BY DEF Note, FromClient, FromServer
<1> QED
  BY <1>1 DEF Longer

LEMMA Said ==
    /\ \A m : Send(m) => Longer(toServer', toServer, m)
    /\ \A m : Sent(m) => Longer(toClient', toClient, m)
    /\ \A area : Tell(area) => Longer(toClient', toClient, Note(area))
    /\ \A area : FromServer(Note(area)) /\ FromClient(Note(area))
    /\ \A id, value : FromServer(AnswerTo(id, value)) /\ FromClient(AnswerTo(id, value))
BY DEF Send, Sent, Tell, Longer, Note, AnswerTo, FromClient, FromServer

LEMMA StillShaped ==
    ASSUME ShapeIInv, DOMAIN server' = DOMAIN server, DOMAIN client' = DOMAIN client,
           \E m : FromClient(m) /\ Longer(toServer', toServer, m),
           \E m : FromServer(m) /\ Longer(toClient', toClient, m)
    PROVE  ShapeIInv'
<1>1. PICK c : FromClient(c) /\ Longer(toServer', toServer, c)
  OBVIOUS
<1>2. PICK s : FromServer(s) /\ Longer(toClient', toClient, s)
  OBVIOUS
<1>3. IsSeq(toServer') /\ \A k \in 1..Len(toServer') : FromClient(toServer'[k])
  BY <1>1, LongerEach DEF ShapeIInv
<1>4. IsSeq(toClient') /\ \A k \in 1..Len(toClient') : FromServer(toClient'[k])
  BY <1>2, LongerEach DEF ShapeIInv
<1> QED
  BY <1>3, <1>4 DEF ShapeIInv

\* notifyToolsChanged and posting an answer leave the rest of the server alone.
LEMMA PostsOnly ==
    ASSUME ShapeIInv,
           \/ UNCHANGED server
           \/ \E e : server' = Post(server, e)
    PROVE  /\ DOMAIN server' = DOMAIN server
           /\ server'.ready = server.ready /\ server'.caps = server.caps
           /\ server'.open = server.open
BY DEF Post, ShapeIInv

LEMMA NotifyLaterPosts ==
    ASSUME NEW area, NotifyLater(area)
    PROVE  UNCHANGED server \/ \E e : server' = Post(server, e)
BY DEF NotifyLater

\* What the host does to the tools and the providers.
LEMMA ToolsShaped ==
    ASSUME ShapeIInv, NEW area,
           UNCHANGED server \/ NotifyLater(area),
           UNCHANGED toClient \/ Tell(area),
           Elsewhere
    PROVE  ShapeIInv'
<1>1. UNCHANGED <<toServer, client>>
  BY DEF Elsewhere
<1>2. DOMAIN server' = DOMAIN server
  BY NotifyLaterPosts, PostsOnly
<1>3. /\ \E m : FromClient(m) /\ Longer(toServer', toServer, m)
      /\ \E m : FromServer(m) /\ Longer(toClient', toClient, m)
  BY <1>1, Unsaid, Said
<1> QED
  BY <1>1, <1>2, <1>3, StillShaped

LEMMA HostShaped == ShapeIInv /\ HostChanges => ShapeIInv'
<1> SUFFICES ASSUME ShapeIInv, HostChanges PROVE ShapeIInv'
  OBVIOUS
<1>1. CASE \E n \in Names : addTool(n) \/ removeTool(n) \/ ToolDestroyed(n)
  BY <1>1, ToolsShaped DEF addTool, removeTool, ToolDestroyed, SilentToolChange
<1>2. CASE \E names \in SUBSET Names : RegistryChanges(names)
  BY <1>2, ToolsShaped DEF RegistryChanges
<1>3. CASE setToolRegistry \/ \E n \in Names : setEnabled(Own(n)) \/ setEnabled(Registered(n))
  BY <1>3, ToolsShaped DEF setToolRegistry, setEnabled, SilentToolChange
<1>4. ASSUME NEW p, ListChanged(p), Elsewhere PROVE ShapeIInv'
  BY <1>4, ToolsShaped DEF ListChanged
<1>5. CASE \E p \in Providers, u \in Uris : put(p, u, "new")
  BY <1>4, <1>5 DEF put
<1>6. CASE \E p \in Providers, uris \in { {u} : u \in Uris } \cup {Uris} : remove(p, uris)
  BY <1>4, <1>6 DEF remove
<1>7. CASE \E p \in Providers : Join(p) \/ \E destroyed \in BOOLEAN : Leave(p, destroyed)
  BY <1>7, ToolsShaped DEF Join, Leave
<1>8. CASE (\E p \in ResourceProviders, u \in Uris : ResourceUpdated(p, u)) \/ sendLogMessage
  BY <1>8, ToolsShaped DEF ResourceUpdated, sendLogMessage
<1>9. ASSUME NEW feature, SetFeature(feature) PROVE ShapeIInv'
  <2>1. UNCHANGED <<server, toServer, toClient>> /\ DOMAIN client' = DOMAIN client
    BY <1>9 DEF SetFeature, ClientOnly, ShapeIInv
  <2> QED
    BY <2>1, Unsaid, StillShaped
<1>10. ASSUME NEW roots, ChangeRoots(roots) PROVE ShapeIInv'
  <2>1. /\ UNCHANGED <<server, toClient>> /\ DOMAIN client' = DOMAIN client
        /\ UNCHANGED toServer \/ Send(Note("roots"))
    BY <1>10 DEF ChangeRoots, ClientOnly, ShapeIInv
  <2> QED
    BY <2>1, Unsaid, Said, StillShaped
<1>11. CASE \/ \E paths \in SUBSET Directories : setPaths(paths)
            \/ \E path \in Directories : addPath(path) \/ removePath(path)
  BY <1>10, <1>11 DEF setPaths, addPath, removePath
<1> QED
  BY <1>1, <1>2, <1>3, <1>5, <1>6, <1>7, <1>8, <1>9, <1>11 DEF HostChanges

LEMMA PostedShaped == ShapeIInv /\ Posted => ShapeIInv'
<1> SUFFICES ASSUME ShapeIInv, Posted PROVE ShapeIInv'
  OBVIOUS
<1> DEFINE e == Head(server.posted)
<1>1. DOMAIN server' = DOMAIN server /\ UNCHANGED <<toServer, client>>
  BY DEF Posted, Elsewhere, ShapeIInv
<1>2. Tell(e.area) \/ Sent(AnswerTo(e.id, ops[e.id].value))
  BY DEF Posted
<1> HIDE DEF e
<1>3. /\ \E m : FromClient(m) /\ Longer(toServer', toServer, m)
      /\ \E m : FromServer(m) /\ Longer(toClient', toClient, m)
  BY <1>1, <1>2, Unsaid, Said
<1> QED
  BY <1>1, <1>3, StillShaped

\* The providers and tools that end, and the requests that time out.
LEMMA EndsPost ==
    ASSUME \/ \E id, p, ok : ProviderAnswers(id, p, ok)
           \/ \E id, result : ToolEnds(id, result)
           \/ \E id : CallTimesOut(id)
    PROVE  /\ UNCHANGED server \/ \E e : server' = Post(server, e)
           /\ UNCHANGED <<client, asked, toServer, toClient>>
<1>1. UNCHANGED server \/ \E e : server' = Post(server, e)
  <2>1. ASSUME NEW id, NEW op, NEW value, Close(id, op, value) PROVE \E e : server' = Post(server, e)
    BY <2>1 DEF Close
  <2>2. ASSUME NEW id, NEW op, tryEachAdvance(id, op)
        PROVE  UNCHANGED server \/ \E e : server' = Post(server, e)
    BY <2>2, <2>1 DEF tryEachAdvance, Take
  <2>3. ASSUME NEW id, NEW p, NEW ok, FirstOf(id, p, ok) \/ FanIn(id, p, ok)
        PROVE  UNCHANGED server \/ \E e : server' = Post(server, e)
    BY <2>1, <2>2, <2>3 DEF FirstOf, FanIn, Take
  <2> QED
    BY <2>1, <2>3 DEF ProviderAnswers, ToolEnds, CallTimesOut
<1>2. UNCHANGED <<client, asked, toServer, toClient>>
  BY DEF ProviderAnswers, ToolEnds, CallTimesOut
<1> QED
  BY <1>1, <1>2

LEMMA EndsShaped ==
    ASSUME ShapeIInv,
           \/ \E id, p, ok : ProviderAnswers(id, p, ok)
           \/ \E id, result : ToolEnds(id, result)
           \/ \E id : CallTimesOut(id)
    PROVE  ShapeIInv'
BY EndsPost, PostsOnly, Unsaid, StillShaped

LEMMA BridgeShaped ==
    ASSUME ShapeIInv, NEW id, NEW outcome, BridgeEnds(id, outcome)
    PROVE  ShapeIInv'
<1>1. /\ \E v : Send(AnswerTo(id, v))
      /\ UNCHANGED <<server, toClient, client>>
  BY DEF BridgeEnds, ClientOnly
<1> QED
  BY <1>1, Unsaid, Said, StillShaped

\* The requests of a client; the first of them is initialize.
LEMMA AskShaped ==
    ASSUME ShapeIInv, NEW ask, ask \in Asks \/ ask.what = "initialize", Ask(ask)
    PROVE  ShapeIInv'
<1> DEFINE m == Question(Cardinality(DOMAIN asked) + 1, ask)
<1>1. FromClient(m) /\ Longer(toServer', toServer, m)
  BY DEF Ask, FromClient, Question, Longer
<1> HIDE DEF m
<1>2. UNCHANGED <<server, toClient>> /\ DOMAIN client' = DOMAIN client
  BY DEF Ask, ClientOnly, ShapeIInv
<1> QED
  BY <1>1, <1>2, Unsaid, StillShaped

\* No request but initialize changes whether the server is ready and what it knows of its
\* client.
LEMMA HandledKeeps ==
    ASSUME ShapeIInv, NEW id, NEW ask \in Asks, HandleRequest(id, ask)
    PROVE  /\ DOMAIN server' = DOMAIN server
           /\ server'.ready = server.ready /\ server'.caps = server.caps
<1>1. \/ \E x : server' = Post(server, x)
      \/ server' = [Post(server, Reply(id)) EXCEPT !.level = ask.arg]
      \/ UNCHANGED server
  <2>1. ASSUME NEW i, NEW op, NEW value, Close(i, op, value)
        PROVE  \E x : server' = Post(server, x)
    BY <2>1 DEF Close
  <2>2. ASSUME NEW i, NEW op, tryEachAdvance(i, op)
        PROVE  UNCHANGED server \/ \E x : server' = Post(server, x)
    BY <2>1, <2>2 DEF tryEachAdvance, Take
  <2>3. ASSUME NEW i, NEW a, collectListFromProviders(i, a) \/ toolsCall(i, a)
        PROVE  UNCHANGED server \/ \E x : server' = Post(server, x)
    BY <2>1, <2>3 DEF collectListFromProviders, toolsCall, Take
  <2>4. ASSUME NEW i, NEW a, tryEachProvider(i, a)
        PROVE  UNCHANGED server \/ \E x : server' = Post(server, x)
    BY <2>1, <2>2, <2>4 DEF tryEachProvider
  <2>5. \/ ask.what = "level"
        \/ ask.what = "list" /\ ask.area = "tools"
        \/ ask.what = "call"
        \/ ask.what \in {"list", "complete"} /\ ask.area \in Areas
        \/ ask.what = "read"
        \/ ask.what \in {"subscribe", "unsubscribe"}
    BY DEF Asks, Lists
  <2> QED
    BY <2>1, <2>3, <2>4, <2>5 DEF HandleRequest, Areas
<1> QED
  BY <1>1 DEF Post, ShapeIInv

LEMMA ReceivesShaped == ShapeIInv /\ ServerReceives => ShapeIInv'
<1> SUFFICES ASSUME ShapeIInv, ServerReceives PROVE ShapeIInv'
  OBVIOUS
<1> DEFINE e == Head(toServer)
<1>1. /\ toServer # << >> /\ toServer' = Tail(toServer) /\ UNCHANGED <<client, toClient>>
      /\ IsSeq(toServer)
  BY DEF ServerReceives, ShapeIInv
<1>2. 1 \in 1..Len(toServer) /\ e = toServer[1] /\ IsSeq(toServer')
  BY <1>1, HeadIsFirst
<1>3. \A k \in 1..Len(toServer') : FromClient(toServer'[k])
  BY <1>1, TailEach DEF ShapeIInv
<1>4. DOMAIN server' = DOMAIN server
  <2>1. FromClient(e)
    BY <1>2 DEF ShapeIInv
  <2>2. CASE e.kind \in {"answer", "note"}
    BY <2>2 DEF ServerReceives
  <2>3. CASE e.kind = "request" /\ e.ask \in Asks
    <3>1. HandleRequest(e.id, e.ask)
      BY <2>3 DEF ServerReceives
    <3> QED
      BY <2>3, <3>1, HandledKeeps
  <2>4. CASE e.kind = "request" /\ e.ask.what = "initialize"
    <3>1. HandleRequest(e.id, e.ask)
      BY <2>4 DEF ServerReceives
    <3>2. server' = [Post(server, Reply(e.id)) EXCEPT !.ready = TRUE, !.caps = e.ask.arg]
      BY <2>4, <3>1 DEF HandleRequest
    <3> QED
      BY <3>2 DEF Post, ShapeIInv
  <2> QED
    BY <2>1, <2>2, <2>3, <2>4 DEF FromClient
<1> QED
  BY <1>1, <1>2, <1>3, <1>4 DEF ShapeIInv

\* The answer to a call the client refuses at once, and what a notification or an answer
\* does to the client.
LEMMA ClientShaped == ShapeIInv /\ ClientReceives => ShapeIInv'
<1> SUFFICES ASSUME ShapeIInv, ClientReceives PROVE ShapeIInv'
  OBVIOUS
<1> DEFINE e == Head(toClient)
<1>1. /\ toClient # << >> /\ toClient' = Tail(toClient) /\ UNCHANGED server
      /\ IsSeq(toClient)
  BY DEF ClientReceives, ShapeIInv
<1>2. 1 \in 1..Len(toClient) /\ e = toClient[1] /\ IsSeq(toClient')
  BY <1>1, HeadIsFirst
<1>3. \A k \in 1..Len(toClient') : FromServer(toClient'[k])
  BY <1>1, TailEach DEF ShapeIInv
<1>4. \/ e.kind = "answer" /\ TakeAnswer(e)
      \/ e.kind = "note" /\ TakeNote(e)
      \/ e.kind = "request" /\ e.ask \in Features /\ TakeCall(e)
  <2>1. FromServer(e)
    BY <1>2 DEF ShapeIInv
  <2> QED
    BY <2>1 DEF ClientReceives, FromServer
<1>5. ASSUME DOMAIN client' = DOMAIN client,
             \E m : FromClient(m) /\ Longer(toServer', toServer, m)
      PROVE  ShapeIInv'
  <2>1. PICK m : FromClient(m) /\ Longer(toServer', toServer, m)
    BY <1>5
  <2>2. IsSeq(toServer') /\ \A k \in 1..Len(toServer') : FromClient(toServer'[k])
    BY <2>1, LongerEach DEF ShapeIInv
  <2> QED
    BY <1>1, <1>2, <1>3, <1>5, <2>2 DEF ShapeIInv
<1>6. CASE TakeAnswer(e) \/ TakeNote(e)
  <2>1. /\ toServer' = toServer
        /\ \/ client' = [client EXCEPT !.peer = "ready"]
           \/ \E list, x : client' = [client EXCEPT !.seen[list] = x]
           \/ \E list, x, y : client' = [client EXCEPT !.seen[list] = x, !.newest[list] = y]
           \/ client' = client
    BY <1>6 DEF TakeAnswer, TakeNote
  <2>2. DOMAIN client' = DOMAIN client
    BY <2>1 DEF ShapeIInv
  <2> QED
    BY <1>5, <2>1, <2>2, Unsaid
<1>7. CASE e.ask \in Features /\ TakeCall(e)
  <2>1. client' = client /\ (Send(AnswerTo(e.id, "error")) \/ toServer' = toServer)
    BY <1>7 DEF TakeCall, Features, Refuse
  <2> QED
    BY <1>5, <2>1, Said, Unsaid
<1> QED
  BY <1>4, <1>6, <1>7

LEMMA CallShaped ==
    ASSUME ShapeIInv, NEW kind \in Features, CallClient(kind)
    PROVE  ShapeIInv'
<1> DEFINE m == Question(Cardinality(DOMAIN calls) + 1, kind)
<1>1. FromServer(m) /\ Longer(toClient', toClient, m)
  BY DEF CallClient, Sent, FromServer, Question, Longer
<1> HIDE DEF m
<1>2. UNCHANGED <<server, client, toServer>>
  BY DEF CallClient
<1> QED
  BY <1>1, <1>2, Unsaid, StillShaped

LEMMA StopShaped == ShapeIInv /\ (Stop \/ Start \/ ClientLeaves) => ShapeIInv'
<1> SUFFICES ASSUME ShapeIInv, Stop \/ Start \/ ClientLeaves PROVE ShapeIInv'
  OBVIOUS
<1>1. CASE Stop
  <2>1. /\ DOMAIN server' = DOMAIN server /\ DOMAIN client' = DOMAIN client
        /\ toServer' = << >> /\ toClient' = << >>
    BY <1>1 DEF Stop, ShapeIInv
  <2>2. IsSeq(<< >>) /\ 1..Len(<< >>) = {}
    BY EmptyIsSeq
  <2> QED
    BY <2>1, <2>2 DEF ShapeIInv
<1>2. CASE Start \/ ClientLeaves
  <2>1. /\ DOMAIN server' = DOMAIN server /\ DOMAIN client' = DOMAIN client
        /\ UNCHANGED <<toServer, toClient>>
    BY <1>2 DEF Start, ClientLeaves, ShapeIInv
  <2> QED
    BY <2>1, Unsaid, StillShaped
<1> QED
  BY <1>1, <1>2

\* The wires carry what a client and a server may say, in any order.
THEOREM ShapeInvariant == Spec => []ShapeIInv
<1>1. Init => ShapeIInv
  <2> SUFFICES ASSUME Init PROVE ShapeIInv
    OBVIOUS
  <2>1. /\ DOMAIN server = {"open", "ready", "caps", "level", "posted"}
        /\ DOMAIN client = {"peer", "has", "offered", "roots", "seen", "newest"}
        /\ toServer = << >> /\ toClient = << >>
    BY DEF Init
  <2>2. IsSeq(<< >>) /\ 1..Len(<< >>) = {}
    BY EmptyIsSeq
  <2> QED
    BY <2>1, <2>2 DEF ShapeIInv
<1>2. ShapeIInv /\ [Next]_vars => ShapeIInv'
  <2> SUFFICES ASSUME ShapeIInv, [Next]_vars PROVE ShapeIInv'
    OBVIOUS
  <2>1. CASE Progress
    BY <2>1, PostedShaped, ReceivesShaped, ClientShaped, EndsShaped, BridgeShaped DEF Progress
  <2>2. CASE connectAndInitialize \/ \E ask \in Asks : sendInitialized(ask)
    BY <2>2, AskShaped DEF connectAndInitialize, sendInitialized, Initialize
  <2>3. CASE Next /\ ~Progress
    BY <2>2, <2>3, HostShaped, CallShaped, EndsShaped, StopShaped DEF Next
  <2>4. CASE UNCHANGED vars
    BY <2>4 DEF ShapeIInv, vars
  <2> QED
    BY <2>1, <2>3, <2>4
<1> QED
  BY <1>1, <1>2, PTL DEF Spec

-----------------------------------------------------------------------------
(* What is left of an answer in the making *)

OpFields ==
    {"ask", "queue", "at", "left", "offered", "tool", "failed", "lacking", "open", "value",
     "epoch"}
Gathers(ask) == ask.what \in {"list", "complete"} /\ ask.area \in Areas

\* A list or a completion holds what the providers that answered had to offer.
Gathered(op) ==
    /\ op.left \subseteq DOMAIN op.offered \ op.failed
    /\ op.value = Offer([p \in DOMAIN op.offered \ (op.failed \cup op.left) |-> op.offered[p]])

\* A provider that is not there any more or has answered without the thing asked for.
PassedBy(op, alive, j) == op.queue[j] \in op.lacking \/ op.queue[j] \notin alive

\* The one provider being asked has only such before it, and so had the one that answered.
Searching(op, alive) ==
    /\ op.at \in 1..Len(op.queue) /\ op.left = {op.queue[op.at]}
    /\ \A j \in 1..op.at - 1 : PassedBy(op, alive, j)
Searched(op, alive) ==
    IF op.value = "not found" THEN \A j \in 1..Len(op.queue) : PassedBy(op, alive, j)
    ELSE \E i \in 1..Len(op.queue) :
           /\ op.value = op.queue[i]
           /\ op.offered[op.queue[i]][op.ask.arg] # None
           /\ \A j \in 1..i - 1 : PassedBy(op, alive, j)

OpOK(op, alive) ==
    /\ DOMAIN op = OpFields
    /\ op.tool # None => op.ask.what = "call"
    /\ ~op.open => op.left = {}
    /\ Gathers(op.ask) => Gathered(op)
    /\ op.ask.what = "read" =>
          /\ IsSeq(op.queue)
          /\ IF op.open THEN Searching(op, alive) ELSE Searched(op, alive)

ProvidersOK ==
    /\ DOMAIN prov = {"registered", "alive", "holds", "watched"}
    /\ DOMAIN prov.registered = Areas
    /\ \A a \in Areas : IsSeq(prov.registered[a])

AnswersIInv == ProvidersOK /\ \A id \in DOMAIN ops : OpOK(ops[id], prov.alive)

-----------------------------------------------------------------------------
(* The operators of the answers *)

LEMMA SetToSeqIsSeq ==
    ASSUME NEW S, IsFiniteSet(S)
    PROVE  IsSeq(SetToSeq(S))
<1>1. Cardinality(S) \in Nat /\ ExistsBijection(1..Cardinality(S), S)
  BY FS_CardinalityType
<1>2. \E f \in [1..Cardinality(S) -> S] : IsInjective(f)
  BY <1>1 DEF ExistsBijection, Bijection, Injection
<1>3. SetToSeq(S) \in [1..Cardinality(S) -> S]
  BY <1>2 DEF SetToSeq
<1>4. ASSUME NEW n \in Nat, NEW f \in [1..n -> S] PROVE IsSeq(f)
  BY DEF IsSeq
<1> QED
  BY <1>1, <1>3, <1>4

LEMMA RemoveAtIsSeq ==
    ASSUME NEW q, IsSeq(q), NEW i \in DOMAIN q
    PROVE  IsSeq(RemoveAt(q, i))
<1>1. PICK S : q \in Seq(S)
  BY DEF IsSeq
<1>2. i \in 1..Len(q) /\ Len(q) \in Nat
  BY <1>1, LenProperties
<1>3. SubSeq(q, 1, i - 1) \in Seq(S) /\ SubSeq(q, i + 1, Len(q)) \in Seq(S)
  BY <1>1, <1>2, SubSeqProperties
<1> QED
  BY <1>3, ConcatProperties DEF RemoveAt, IsSeq

LEMMA OpIsNew ==
    ASSUME NEW ask, NEW queue
    PROVE  /\ DOMAIN Op(ask, queue) = OpFields
           /\ Op(ask, queue).ask = ask /\ Op(ask, queue).queue = queue
           /\ Op(ask, queue).at = 0 /\ Op(ask, queue).open
           /\ Op(ask, queue).tool = None /\ Op(ask, queue).left = {}
           /\ Op(ask, queue).failed = {} /\ Op(ask, queue).lacking = {}
BY DEF Op, OpFields

\* An operation that is closed, as the answer is posted.
Ended(op, value) == [op EXCEPT !.open = FALSE, !.left = {}, !.value = value]

LEMMA EndedFields ==
    ASSUME NEW op, DOMAIN op = OpFields, NEW value
    PROVE  /\ DOMAIN Ended(op, value) = OpFields
           /\ ~Ended(op, value).open /\ Ended(op, value).left = {}
           /\ Ended(op, value).value = value
           /\ Ended(op, value).ask = op.ask /\ Ended(op, value).queue = op.queue
           /\ Ended(op, value).tool = op.tool /\ Ended(op, value).offered = op.offered
           /\ Ended(op, value).failed = op.failed /\ Ended(op, value).lacking = op.lacking
BY DEF Ended, OpFields

\* What answers no list and finds nothing by itself is closed with any value.
LEMMA EndedPlain ==
    ASSUME NEW op, DOMAIN op = OpFields, op.tool # None => op.ask.what = "call",
           ~Gathers(op.ask), op.ask.what # "read", NEW value, NEW alive
    PROVE  OpOK(Ended(op, value), alive)
<1> DEFINE e == Ended(op, value)
<1>1. /\ DOMAIN e = OpFields /\ ~e.open /\ e.left = {}
      /\ e.ask = op.ask /\ e.tool = op.tool
  BY EndedFields
<1> HIDE DEF e
<1>2. OpOK(e, alive)
  BY <1>1 DEF OpOK
<1> QED
  BY <1>2 DEF e

\* A list no provider has to be asked for is empty; one that waits for all holds nothing yet.
LEMMA GatherStarts ==
    ASSUME NEW ask, Gathers(ask), NEW asking, NEW offered, DOMAIN offered = asking,
           NEW alive, NEW op,
           op = [Op(ask, << >>) EXCEPT !.left = asking, !.value = {}, !.offered = offered]
    PROVE  /\ OpOK(op, alive)
           /\ asking = {} => OpOK(Ended(op, {}), alive)
<1>1. ask.what # "read" /\ ask.what # "call"
  BY DEF Gathers
<1>2. /\ DOMAIN op = OpFields /\ op.ask = ask /\ op.tool = None /\ op.open
      /\ op.left = asking /\ op.failed = {} /\ op.offered = offered /\ op.value = {}
  BY OpIsNew DEF OpFields
<1>3. Offer([p \in {} |-> offered[p]]) = {}
  BY DEF Offer
<1>4. OpOK(op, alive)
  <2>1. DOMAIN op.offered \ (op.failed \cup op.left) = {}
    BY <1>2
  <2>2. Gathered(op)
    BY <1>2, <1>3, <2>1 DEF Gathered
  <2> QED
    BY <1>1, <1>2, <2>2 DEF OpOK
<1>5. ASSUME asking = {} PROVE OpOK(Ended(op, {}), alive)
  <2> DEFINE e == Ended(op, {})
  <2>1. /\ DOMAIN e = OpFields /\ ~e.open /\ e.left = {} /\ e.value = {}
        /\ e.ask = op.ask /\ e.tool = op.tool /\ e.failed = op.failed
        /\ e.offered = op.offered
    <3>1. DOMAIN op = OpFields
      BY <1>2
    <3> QED
      BY <3>1 DEF Ended, OpFields
  <2> HIDE DEF e
  <2>3. DOMAIN e.offered \ (e.failed \cup e.left) = {}
    BY <1>2, <1>5, <2>1
  <2>4. Gathered(e)
    BY <1>2, <1>3, <2>1, <2>3 DEF Gathered
  <2>5. OpOK(e, alive)
    BY <1>1, <1>2, <2>1, <2>4 DEF OpOK
  <2> QED
    BY <2>5 DEF e
<1> QED
  BY <1>4, <1>5

\* Another provider has answered, with what it had or with an error.
LEMMA GatherGoesOn ==
    ASSUME NEW op, NEW alive, OpOK(op, alive), Gathers(op.ask), NEW p \in op.left,
           NEW next,
           \/ /\ next.value = op.value \cup OfferOf(p, op.offered[p]) /\ next.failed = op.failed
           \/ next.value = op.value /\ next.failed = op.failed \cup {p},
           next.left = op.left \ {p}, next.offered = op.offered
    PROVE  Gathered(next)
<1> DEFINE AnsweredIn(f, l) == DOMAIN op.offered \ (f \cup l)
           Of(P) == UNION { OfferOf(q, op.offered[q]) : q \in P }
<1>1. /\ op.left \subseteq DOMAIN op.offered \ op.failed
      /\ op.value = Of(AnsweredIn(op.failed, op.left))
  <2>1. Gathered(op)
    BY DEF OpOK
  <2>2. \A P : Offer([q \in P |-> op.offered[q]]) = Of(P)
    BY DEF Offer
  <2> QED
    BY <2>1, <2>2 DEF Gathered
<1>2. Offer([q \in AnsweredIn(next.failed, next.left) |-> op.offered[q]])
          = Of(AnsweredIn(next.failed, next.left))
  BY DEF Offer
<1>3. next.value = Of(AnsweredIn(next.failed, next.left))
  <2>1. CASE next.value = op.value \cup OfferOf(p, op.offered[p]) /\ next.failed = op.failed
    <3>1. AnsweredIn(next.failed, next.left) = AnsweredIn(op.failed, op.left) \cup {p}
      BY <1>1, <2>1
    <3>2. \A P : Of(P \cup {p}) = Of(P) \cup OfferOf(p, op.offered[p])
      OBVIOUS
    <3> HIDE DEF AnsweredIn, Of
    <3> QED
      BY <1>1, <2>1, <3>1, <3>2
  <2>2. CASE next.value = op.value /\ next.failed = op.failed \cup {p}
    <3>1. AnsweredIn(next.failed, next.left) = AnsweredIn(op.failed, op.left)
      BY <1>1, <2>2
    <3> HIDE DEF AnsweredIn, Of
    <3> QED
      BY <1>1, <2>2, <3>1
  <2> QED
    BY <2>1, <2>2
<1>4. next.left \subseteq DOMAIN next.offered \ next.failed
  BY <1>1
<1> QED
  BY <1>2, <1>3, <1>4 DEF Gathered

\* The next provider that is there is asked, or nobody is left.
LEMMA AdvanceOK ==
    ASSUME NEW op, DOMAIN op = OpFields, op.ask.what = "read", op.open, op.tool = None,
           IsSeq(op.queue), op.at \in 0..Len(op.queue),
           \A j \in 1..op.at : PassedBy(op, prov.alive, j),
           NEW id, tryEachAdvance(id, op)
    PROVE  \E o : OpOK(o, prov.alive) /\ ops' = With(ops, id, o)
<1>1. Len(op.queue) \in Nat
  BY LenProperties DEF IsSeq
<1>2. CASE /\ \A j \in op.at + 1..Len(op.queue) : op.queue[j] \notin prov.alive
           /\ Close(id, op, "not found")
  <2> DEFINE e == Ended(op, "not found")
  <2>1. ops' = With(ops, id, e)
    BY <1>2 DEF Close, Closed, Ended
  <2>2. /\ DOMAIN e = OpFields /\ ~e.open /\ e.left = {} /\ e.value = "not found"
        /\ e.ask = op.ask /\ e.tool = op.tool /\ e.queue = op.queue
        /\ e.lacking = op.lacking
    BY DEF Ended, OpFields
  <2> HIDE DEF e
  <2>3. \A j \in 1..Len(e.queue) : PassedBy(e, prov.alive, j)
    <3>1. \A j \in 1..Len(op.queue) : j \in 1..op.at \/ j \in op.at + 1..Len(op.queue)
      BY <1>1
    <3> QED
      BY <1>2, <2>2, <3>1 DEF PassedBy
  <2>4. Searched(e, prov.alive)
    BY <2>2, <2>3 DEF Searched
  <2>5. OpOK(e, prov.alive)
    BY <2>2, <2>4 DEF OpOK, Gathers
  <2> QED
    BY <2>1, <2>5
<1>3. ASSUME NEW n \in op.at + 1..Len(op.queue),
             \A j \in op.at + 1..n - 1 : op.queue[j] \notin prov.alive,
             NEW offered,
             Take(id, [op EXCEPT !.at = n, !.left = {op.queue[n]}, !.offered = offered])
      PROVE  \E o : OpOK(o, prov.alive) /\ ops' = With(ops, id, o)
  <2> DEFINE o == [op EXCEPT !.at = n, !.left = {op.queue[n]}, !.offered = offered]
  <2>1. ops' = With(ops, id, o)
    BY <1>3 DEF Take
  <2>2. /\ DOMAIN o = OpFields /\ o.open /\ o.left = {op.queue[n]} /\ o.at = n
        /\ o.ask = op.ask /\ o.tool = op.tool /\ o.queue = op.queue
        /\ o.lacking = op.lacking
    BY DEF OpFields
  <2> HIDE DEF o
  <2>3. \A j \in 1..n - 1 : PassedBy(o, prov.alive, j)
    <3>1. \A j \in 1..n - 1 : j \in 1..op.at \/ j \in op.at + 1..n - 1
      BY <1>1
    <3> QED
      BY <1>3, <2>2, <3>1 DEF PassedBy
  <2>4. Searching(o, prov.alive)
    BY <1>1, <2>2, <2>3 DEF Searching
  <2>5. OpOK(o, prov.alive)
    BY <2>2, <2>4 DEF OpOK, Gathers
  <2> QED
    BY <2>1, <2>5
<1> QED
  BY <1>2, <1>3 DEF tryEachAdvance

\* The provider that is asked has answered: with the thing, or without it.
LEMMA FirstOfOK ==
    ASSUME NEW id, NEW p \in Providers, NEW ok, OpOK(ops[id], prov.alive),
           ops[id].ask.what = "read", p \in ops[id].left, FirstOf(id, p, ok)
    PROVE  \E o : OpOK(o, prov.alive) /\ ops' = With(ops, id, o)
<1> DEFINE op == ops[id]
<1>1. /\ DOMAIN op = OpFields /\ op.ask.what = "read" /\ op.open /\ op.tool = None
      /\ IsSeq(op.queue) /\ op.at \in 1..Len(op.queue) /\ p = op.queue[op.at]
      /\ \A j \in 1..op.at - 1 : PassedBy(op, prov.alive, j)
  BY DEF OpOK, Searching
<1>2. Len(op.queue) \in Nat
  BY <1>1, LenProperties DEF IsSeq
<1>3. CASE op.offered[p][op.ask.arg] # None /\ Close(id, op, p)
  <2> DEFINE e == Ended(op, p)
  <2>1. ops' = With(ops, id, e)
    BY <1>3 DEF Close, Closed, Ended
  <2>2. /\ DOMAIN e = OpFields /\ ~e.open /\ e.left = {} /\ e.value = p
        /\ e.ask = op.ask /\ e.tool = op.tool /\ e.queue = op.queue
        /\ e.lacking = op.lacking /\ e.offered = op.offered
    BY <1>1 DEF Ended, OpFields
  <2> HIDE DEF e, op
  <2>3. \A j \in 1..op.at - 1 : PassedBy(e, prov.alive, j)
    BY <1>1, <2>2 DEF PassedBy
  <2>4. Searched(e, prov.alive)
    <3>1. e.value # "not found"
      BY <2>2, ServerAssumption
    <3> QED
      BY <1>1, <1>3, <2>2, <2>3, <3>1 DEF Searched
  <2>5. OpOK(e, prov.alive)
    BY <1>1, <2>2, <2>4 DEF OpOK, Gathers
  <2> QED
    BY <2>1, <2>5
<1>4. CASE tryEachAdvance(id, [op EXCEPT !.lacking = @ \cup {p}])
  <2> DEFINE o == [op EXCEPT !.lacking = @ \cup {p}]
  <2>1. /\ DOMAIN o = OpFields /\ o.open /\ o.at = op.at /\ o.ask = op.ask
        /\ o.tool = op.tool /\ o.queue = op.queue /\ o.lacking = op.lacking \cup {p}
    BY <1>1 DEF OpFields
  <2>2. tryEachAdvance(id, o)
    BY <1>4
  <2> HIDE DEF o, op
  <2>3. \A j \in 1..o.at : PassedBy(o, prov.alive, j)
    <3>1. \A j \in 1..o.at : j \in 1..op.at - 1 \/ j = op.at
      BY <1>1, <1>2, <2>1
    <3> QED
      BY <1>1, <2>1, <3>1 DEF PassedBy
  <2>4. o.at \in 0..Len(o.queue) /\ IsSeq(o.queue) /\ o.ask.what = "read" /\ o.tool = None
    BY <1>1, <1>2, <2>1
  <2> QED
    BY <2>1, <2>2, <2>3, <2>4, AdvanceOK
<1> QED
  BY <1>3, <1>4 DEF FirstOf

\* One of the providers asked for a list has answered.
LEMMA FanInOK ==
    ASSUME NEW id, NEW p, NEW ok, OpOK(ops[id], prov.alive),
           ops[id].ask.what # "read", p \in ops[id].left, FanIn(id, p, ok)
    PROVE  \E o : OpOK(o, prov.alive) /\ ops' = With(ops, id, o)
<1> DEFINE op == ops[id]
           merged == IF ok THEN [op EXCEPT !.value = @ \cup OfferOf(p, op.offered[p])]
                     ELSE [op EXCEPT !.failed = @ \cup {p}]
           next == [merged EXCEPT !.left = @ \ {p}]
<1>1. /\ DOMAIN op = OpFields /\ op.open /\ op.ask.what # "read"
      /\ op.tool # None => op.ask.what = "call"
  BY DEF OpOK
<1>2. /\ DOMAIN next = OpFields /\ next.open /\ next.ask = op.ask /\ next.tool = op.tool
      /\ next.left = op.left \ {p} /\ next.offered = op.offered
      /\ \/ next.value = op.value \cup OfferOf(p, op.offered[p]) /\ next.failed = op.failed
         \/ next.value = op.value /\ next.failed = op.failed \cup {p}
  BY <1>1 DEF OpFields
<1>3. IF next.left = {} THEN Close(id, next, next.value) ELSE Take(id, next)
  BY DEF FanIn
<1>4. OpOK(op, prov.alive) /\ p \in op.left
  OBVIOUS
<1> HIDE DEF next, merged, op
<1>5. Gathers(next.ask) => Gathered(next)
  BY <1>2, <1>4, GatherGoesOn
<1>6. CASE next.left = {}
  <2> DEFINE e == Ended(next, next.value)
  <2>1. ops' = With(ops, id, e)
    BY <1>3, <1>6 DEF Close, Closed, Ended
  <2>2. /\ DOMAIN e = OpFields /\ ~e.open /\ e.left = {} /\ e.value = next.value
        /\ e.ask = next.ask /\ e.tool = next.tool /\ e.failed = next.failed
        /\ e.offered = next.offered
    BY <1>2 DEF Ended, OpFields
  <2> HIDE DEF e
  <2>3. Gathers(e.ask) => Gathered(e)
    BY <1>5, <1>6, <2>2 DEF Gathered
  <2>4. OpOK(e, prov.alive)
    BY <1>1, <1>2, <2>2, <2>3 DEF OpOK
  <2> QED
    BY <2>1, <2>4
<1>7. CASE next.left # {}
  <2>1. OpOK(next, prov.alive)
    BY <1>1, <1>2, <1>5 DEF OpOK
  <2>2. ops' = With(ops, id, next)
    BY <1>3, <1>7 DEF Take
  <2> QED
    BY <2>1, <2>2
<1> QED
  BY <1>6, <1>7

-----------------------------------------------------------------------------
(* Every action keeps the answers whole *)

\* A request is taken or answered, and what is asked of the others stays.
LEMMA OneOpChanges ==
    ASSUME AnswersIInv, NEW id, NEW o, OpOK(o, prov.alive), ops' = With(ops, id, o),
           ProvidersOK', prov'.alive = prov.alive
    PROVE  AnswersIInv'
<1>1. /\ DOMAIN ops' = DOMAIN ops \cup {id} /\ ops'[id] = o
      /\ \A x \in DOMAIN ops : x # id => ops'[x] = ops[x]
  BY DEF With
<1>2. ASSUME NEW x \in DOMAIN ops' PROVE OpOK(ops'[x], prov.alive)
  BY <1>1 DEF AnswersIInv
<1> QED
  BY <1>2 DEF AnswersIInv

\* A provider that goes away is one nobody has to wait for.
LEMMA FewerAlive ==
    ASSUME NEW op, NEW alive, NEW fewer, fewer \subseteq alive, OpOK(op, alive)
    PROVE  OpOK(op, fewer)
<1>1. \A j : PassedBy(op, alive, j) => PassedBy(op, fewer, j)
  BY DEF PassedBy
<1>2. Searching(op, alive) => Searching(op, fewer)
  BY <1>1 DEF Searching
<1>3. Searched(op, alive) => Searched(op, fewer)
  BY <1>1 DEF Searched
<1> QED
  BY <1>2, <1>3 DEF OpOK

LEMMA OpsStay ==
    ASSUME AnswersIInv, UNCHANGED ops, ProvidersOK', prov'.alive \subseteq prov.alive
    PROVE  AnswersIInv'
<1>1. ASSUME NEW id \in DOMAIN ops' PROVE OpOK(ops'[id], prov'.alive)
  <2>1. ops'[id] = ops[id] /\ OpOK(ops[id], prov.alive)
    BY DEF AnswersIInv
  <2> QED
    BY <2>1, FewerAlive
<1> QED
  BY <1>1 DEF AnswersIInv

LEMMA AllStay == AnswersIInv /\ UNCHANGED <<ops, prov>> => AnswersIInv'
<1> SUFFICES ASSUME AnswersIInv, UNCHANGED <<ops, prov>> PROVE AnswersIInv'
  OBVIOUS
<1>1. ProvidersOK'
  BY DEF AnswersIInv, ProvidersOK
<1> QED
  BY <1>1, OpsStay

\* What the host and the libraries do to a provider.
LEMMA ProviderStep ==
    ASSUME AnswersIInv, UNCHANGED ops,
           \/ \E p, x : prov' = [prov EXCEPT !.holds[p] = x]
           \/ \E p \in prov.alive : prov' = [prov EXCEPT !.alive = @ \ {p}]
           \/ \E a \in Areas : \E q : IsSeq(q) /\ prov' = [prov EXCEPT !.registered[a] = q]
    PROVE  AnswersIInv'
<1>1. ProvidersOK' /\ prov'.alive \subseteq prov.alive
  <2>1. ProvidersOK
    BY DEF AnswersIInv
  <2>2. ASSUME NEW p, NEW x, prov' = [prov EXCEPT !.holds[p] = x]
        PROVE  ProvidersOK' /\ prov'.alive \subseteq prov.alive
    <3>1. DOMAIN prov' = DOMAIN prov /\ prov'.registered = prov.registered /\ prov'.alive = prov.alive
      BY <2>1, <2>2 DEF ProvidersOK
    <3> QED
      BY <2>1, <3>1 DEF ProvidersOK
  <2>3. ASSUME NEW p, prov' = [prov EXCEPT !.alive = @ \ {p}]
        PROVE  ProvidersOK' /\ prov'.alive \subseteq prov.alive
    <3>1. /\ DOMAIN prov' = DOMAIN prov /\ prov'.registered = prov.registered
          /\ prov'.alive = prov.alive \ {p}
      BY <2>1, <2>3 DEF ProvidersOK
    <3> QED
      BY <2>1, <3>1 DEF ProvidersOK
  <2>4. ASSUME NEW a \in Areas, NEW q, IsSeq(q), prov' = [prov EXCEPT !.registered[a] = q]
        PROVE  ProvidersOK' /\ prov'.alive \subseteq prov.alive
    <3>1. /\ DOMAIN prov' = DOMAIN prov /\ prov'.alive = prov.alive
          /\ DOMAIN prov'.registered = Areas
          /\ \A b \in Areas : prov'.registered[b] \in {prov.registered[b], q}
      BY <2>1, <2>4 DEF ProvidersOK
    <3>2. \A b \in Areas : IsSeq(prov'.registered[b])
      BY <2>1, <2>4, <3>1 DEF ProvidersOK
    <3> QED
      BY <2>1, <3>1, <3>2 DEF ProvidersOK
  <2> QED
    BY <2>2, <2>3, <2>4
<1> QED
  BY <1>1, OpsStay

LEMMA HostAnswers == AnswersIInv /\ HostChanges => AnswersIInv'
<1> SUFFICES ASSUME AnswersIInv, HostChanges PROVE AnswersIInv'
  OBVIOUS
<1>1. CASE UNCHANGED <<ops, prov>>
  BY <1>1, AllStay
<1>2. ASSUME NEW p, NEW u, put(p, u, "new") PROVE AnswersIInv'
  <2>1. prov' = [prov EXCEPT !.holds[p] = [@ EXCEPT ![u] = "new"]] /\ UNCHANGED ops
    BY <1>2 DEF put, Elsewhere
  <2> QED
    BY <2>1, ProviderStep
<1>3. ASSUME NEW p, NEW uris, remove(p, uris) PROVE AnswersIInv'
  BY <1>3, ProviderStep DEF remove, Elsewhere
<1>4. ASSUME NEW p, Join(p) PROVE AnswersIInv'
  <2>1. AreaOf(p) \in Areas /\ IsSeq(prov.registered[AreaOf(p)])
    BY DEF AreaOf, Areas, AnswersIInv, ProvidersOK
  <2>2. IsSeq(Append(prov.registered[AreaOf(p)], p))
    BY <2>1, AppendIsSeq
  <2>3. /\ prov' = [prov EXCEPT !.registered[AreaOf(p)] = Append(prov.registered[AreaOf(p)], p)]
        /\ UNCHANGED ops
    BY <1>4 DEF Join, Elsewhere
  <2> QED
    BY <2>1, <2>2, <2>3, ProviderStep
<1>5. ASSUME NEW p, NEW destroyed, Leave(p, destroyed) PROVE AnswersIInv'
  <2>1. AreaOf(p) \in Areas /\ IsSeq(prov.registered[AreaOf(p)])
    BY DEF AreaOf, Areas, AnswersIInv, ProvidersOK
  <2>2. UNCHANGED ops /\ p \in prov.alive
    BY <1>5 DEF Leave, Elsewhere
  <2>3. CASE prov' = [prov EXCEPT !.alive = @ \ {p}]
    BY <2>2, <2>3, ProviderStep
  <2>4. ASSUME NEW i \in DOMAIN prov.registered[AreaOf(p)],
               prov' = [prov EXCEPT !.registered[AreaOf(p)] = RemoveAt(@, i)]
        PROVE  AnswersIInv'
    <3>1. IsSeq(RemoveAt(prov.registered[AreaOf(p)], i))
      BY <2>1, RemoveAtIsSeq
    <3>2. prov' = [prov EXCEPT !.registered[AreaOf(p)] = RemoveAt(prov.registered[AreaOf(p)], i)]
      BY <2>4
    <3> QED
      BY <2>1, <2>2, <3>1, <3>2, ProviderStep
  <2> QED
    BY <1>5, <2>3, <2>4 DEF Leave
<1>6. ASSUME NEW n, addTool(n) \/ removeTool(n) \/ ToolDestroyed(n)
      PROVE  UNCHANGED <<ops, prov>>
  BY <1>6 DEF addTool, removeTool, ToolDestroyed, SilentToolChange, Elsewhere
<1>7. ASSUME NEW x, \/ RegistryChanges(x) \/ setToolRegistry \/ setEnabled(x)
                    \/ SetFeature(x) \/ sendLogMessage
      PROVE  UNCHANGED <<ops, prov>>
  BY <1>7 DEF RegistryChanges, setToolRegistry, setEnabled, SetFeature, sendLogMessage,
              SilentToolChange, Elsewhere, ClientOnly, toolVars
<1>8. ASSUME NEW p, NEW u, ResourceUpdated(p, u) PROVE UNCHANGED <<ops, prov>>
  BY <1>8 DEF ResourceUpdated, Elsewhere, toolVars
<1>9. ASSUME NEW x, setPaths(x) \/ addPath(x) \/ removePath(x) PROVE UNCHANGED <<ops, prov>>
  BY <1>9 DEF setPaths, addPath, removePath, ChangeRoots, ClientOnly, toolVars
<1> QED
  BY <1>1, <1>2, <1>3, <1>4, <1>5, <1>6, <1>7, <1>8, <1>9 DEF HostChanges

\* A provider's future or a tool's is ready.
LEMMA EndsAnswer ==
    ASSUME AnswersIInv, NEW id \in DOMAIN ops,
           \/ \E p \in Providers : \E ok : ProviderAnswers(id, p, ok)
           \/ \E result : ToolEnds(id, result)
    PROVE  AnswersIInv'
<1>1. OpOK(ops[id], prov.alive) /\ ProvidersOK
  BY DEF AnswersIInv
<1>2. UNCHANGED prov
  BY DEF ProviderAnswers, ToolEnds, toolVars
<1>3. ProvidersOK' /\ prov'.alive = prov.alive
  BY <1>1, <1>2 DEF ProvidersOK
<1>4. \E o : OpOK(o, prov.alive) /\ ops' = With(ops, id, o)
  <2>1. ASSUME NEW p \in Providers, NEW ok, ProviderAnswers(id, p, ok)
        PROVE  \E o : OpOK(o, prov.alive) /\ ops' = With(ops, id, o)
    BY <1>1, <2>1, FirstOfOK, FanInOK DEF ProviderAnswers
  <2>2. ASSUME NEW result, ToolEnds(id, result)
        PROVE  \E o : OpOK(o, prov.alive) /\ ops' = With(ops, id, o)
    <3>1. ops' = With(ops, id, Ended(ops[id], result))
      BY <2>2 DEF ToolEnds, Close, Closed, Ended
    <3>2. DOMAIN ops[id] = OpFields /\ ops[id].ask.what = "call"
      BY <1>1, <2>2 DEF OpOK, ToolEnds
    <3>3. OpOK(Ended(ops[id], result), prov.alive)
      BY <3>2, EndedPlain DEF Gathers
    <3> QED
      BY <3>1, <3>3
  <2> QED
    BY <2>1, <2>2
<1> QED
  BY <1>3, <1>4, OneOpChanges

\* McpServer::installHandlers: each request is answered at once or taken.
LEMMA HandledOK ==
    ASSUME AnswersIInv, NEW id, NEW ask, ask \in Asks \/ ask.what = "initialize",
           HandleRequest(id, ask)
    PROVE  \E o : OpOK(o, prov.alive) /\ ops' = With(ops, id, o)
<1> DEFINE Good(o) == OpOK(o, prov.alive) /\ ops' = With(ops, id, o)
<1>1. ASSUME NEW value, Closed(id, Op(ask, << >>), value), ~Gathers(ask), ask.what # "read"
      PROVE  \E o : Good(o)
  <2> DEFINE op == Op(ask, << >>)
  <2>1. DOMAIN op = OpFields /\ op.ask = ask /\ op.tool = None
    BY OpIsNew DEF Op, OpFields
  <2>2. ops' = With(ops, id, Ended(op, value))
    BY <1>1 DEF Closed, Ended
  <2> HIDE DEF op
  <2>3. OpOK(Ended(op, value), prov.alive)
    BY <1>1, <2>1, EndedPlain
  <2> QED
    BY <2>2, <2>3
<1>2. CASE ask.what \in {"initialize", "level"}
  <2>1. Closed(id, Op(ask, << >>), "done")
    BY <1>2 DEF HandleRequest
  <2>2. ~Gathers(ask) /\ ask.what # "read"
    BY <1>2 DEF Gathers
  <2> QED
    BY <1>1, <2>1, <2>2
<1>3. CASE ask.what = "list" /\ ask.area = "tools"
  <2>1. Close(id, Op(ask, << >>), ToolsListed)
    BY <1>3 DEF HandleRequest, Areas
  <2>2. ~Gathers(ask) /\ ask.what # "read"
    BY <1>3 DEF Gathers, Areas
  <2> QED
    BY <1>1, <2>1, <2>2 DEF Close
<1>4. CASE ask.what = "call"
  <2>1. toolsCall(id, ask)
    BY <1>4 DEF HandleRequest
  <2>2. ~Gathers(ask) /\ ask.what # "read"
    BY <1>4 DEF Gathers
  <2>3. ASSUME NEW tool, Take(id, [Op(ask, << >>) EXCEPT !.tool = tool])
        PROVE  \E o : Good(o)
    <3> DEFINE o == [Op(ask, << >>) EXCEPT !.tool = tool]
    <3>1. DOMAIN o = OpFields /\ o.ask = ask /\ o.open /\ ops' = With(ops, id, o)
      BY <2>3 DEF Op, OpFields, Take
    <3> HIDE DEF o
    <3>2. OpOK(o, prov.alive)
      BY <1>4, <2>2, <3>1 DEF OpOK
    <3> QED
      BY <3>1, <3>2
  <2> QED
    BY <1>1, <2>1, <2>2, <2>3 DEF toolsCall, Close
<1>5. CASE Gathers(ask)
  <2>1. collectListFromProviders(id, ask)
    BY <1>5 DEF HandleRequest, Gathers, Areas
  <2> DEFINE asking == Asking(ask.area)
             offered == [p \in asking |-> prov.holds[p]]
             op == [Op(ask, << >>) EXCEPT !.left = asking, !.value = {}, !.offered = offered]
  <2>2. IF asking = {} THEN Close(id, op, {}) ELSE Take(id, op)
    <3>1. offered = [p \in asking |-> prov.holds[p]]
      OBVIOUS
    <3> QED
      BY <2>1 DEF collectListFromProviders
  <2>3. DOMAIN offered = asking
    OBVIOUS
  <2> HIDE DEF asking, offered
  <2>4. OpOK(op, prov.alive) /\ (asking = {} => OpOK(Ended(op, {}), prov.alive))
    BY <1>5, <2>3, GatherStarts
  <2> QED
    BY <2>2, <2>4 DEF Close, Closed, Ended, Take
<1>6. CASE ask \in Asks /\ ask.what = "read"
  <2>1. tryEachProvider(id, ask)
    BY <1>6 DEF HandleRequest
  <2>2. IsSeq(prov.registered[ask.area])
    BY <1>6 DEF Asks, AnswersIInv, ProvidersOK
  <2>3. ASSUME NEW queue, IsSeq(queue), tryEachAdvance(id, Op(ask, queue))
        PROVE  \E o : Good(o)
    <3> DEFINE op == Op(ask, queue)
    <3>1. /\ DOMAIN op = OpFields /\ op.ask.what = "read" /\ op.open /\ op.tool = None
          /\ op.queue = queue /\ op.at = 0 /\ tryEachAdvance(id, op)
      BY <1>6, <2>3, OpIsNew
    <3> HIDE DEF op
    <3>2. Len(op.queue) \in Nat /\ IsSeq(op.queue)
      BY <2>3, <3>1, LenProperties DEF IsSeq
    <3>3. op.at \in 0..Len(op.queue) /\ 1..op.at = {}
      BY <3>1, <3>2
    <3> QED
      BY <3>1, <3>2, <3>3, AdvanceOK
  <2>4. ASSUME Close(id, Op(ask, << >>), "not found") PROVE \E o : Good(o)
    <3> DEFINE e == Ended(Op(ask, << >>), "not found")
    <3>1. ops' = With(ops, id, e)
      BY <2>4 DEF Close, Closed, Ended
    <3>2. /\ DOMAIN e = OpFields /\ ~e.open /\ e.left = {} /\ e.value = "not found"
          /\ e.ask = ask /\ e.tool = None /\ e.queue = << >>
      BY DEF Ended, Op, OpFields
    <3> HIDE DEF e
    <3>3. IsSeq(e.queue) /\ 1..Len(e.queue) = {}
      <4>1. IsSeq(<< >>) /\ 1..Len(<< >>) = {}
        BY EmptyIsSeq
      <4> QED
        BY <3>2, <4>1
    <3>4. Searched(e, prov.alive)
      BY <3>2, <3>3 DEF Searched
    <3>5. OpOK(e, prov.alive)
      BY <1>6, <3>2, <3>3, <3>4 DEF OpOK, Gathers
    <3> QED
      BY <3>1, <3>5
  <2> QED
    BY <2>1, <2>2, <2>3, <2>4 DEF tryEachProvider
<1>7. CASE ask.what \in {"subscribe", "unsubscribe"}
  <2>1. Close(id, Op(ask, << >>), "done")
    BY <1>7 DEF HandleRequest
  <2>2. ~Gathers(ask) /\ ask.what # "read"
    BY <1>7 DEF Gathers
  <2> QED
    BY <1>1, <2>1, <2>2 DEF Close
<1>8. ask \in Asks =>
        \/ ask.what \in {"call", "level", "read", "subscribe", "unsubscribe"}
        \/ ask.what = "list" /\ ask.area = "tools"
        \/ Gathers(ask)
  BY DEF Asks, Lists, Gathers, Areas
<1> QED
  BY <1>2, <1>3, <1>4, <1>5, <1>6, <1>7, <1>8

\* Subscriptions change what is watched, and only that.
LEMMA WatchedOnly ==
    ASSUME ProvidersOK, NEW id, NEW ask, HandleRequest(id, ask)
    PROVE  ProvidersOK' /\ prov'.alive = prov.alive
<1>1. UNCHANGED prov \/ \E x : prov' = [prov EXCEPT !.watched = x]
  BY DEF HandleRequest, Watch
<1>2. /\ DOMAIN prov' = DOMAIN prov
      /\ prov'.registered = prov.registered /\ prov'.alive = prov.alive
  BY <1>1 DEF ProvidersOK
<1> QED
  BY <1>2 DEF ProvidersOK

LEMMA ReceivesAnswer == ShapeIInv /\ AnswersIInv /\ ServerReceives => AnswersIInv'
<1> SUFFICES ASSUME ShapeIInv, AnswersIInv, ServerReceives PROVE AnswersIInv'
  OBVIOUS
<1> DEFINE e == Head(toServer)
<1>1. 1 \in 1..Len(toServer) /\ e = toServer[1]
  BY HeadIsFirst DEF ServerReceives, ShapeIInv
<1>2. \/ e.kind \in {"answer", "note"}
      \/ e.kind = "request" /\ (e.ask \in Asks \/ e.ask.what = "initialize")
  BY <1>1 DEF ShapeIInv, FromClient
<1>3. CASE e.kind \in {"answer", "note"}
  <2>1. UNCHANGED <<ops, prov>>
    BY <1>3 DEF ServerReceives
  <2> QED
    BY <2>1, AllStay
<1>4. CASE e.kind = "request" /\ (e.ask \in Asks \/ e.ask.what = "initialize")
  <2>1. HandleRequest(e.id, e.ask)
    BY <1>4 DEF ServerReceives
  <2>2. \E o : OpOK(o, prov.alive) /\ ops' = With(ops, e.id, o)
    BY <1>4, <2>1, HandledOK
  <2>3. ProvidersOK' /\ prov'.alive = prov.alive
    BY <2>1, WatchedOnly DEF AnswersIInv
  <2> QED
    BY <2>2, <2>3, OneOpChanges
<1> QED
  BY <1>2, <1>3, <1>4

\* Which providers have answered, and in which order they are asked, is right for every
\* request that is taken.
THEOREM AnswersInvariant == Spec => []AnswersIInv
<1>1. Init => AnswersIInv
  <2> SUFFICES ASSUME Init PROVE AnswersIInv
    OBVIOUS
  <2>1. IsSeq(SetToSeq(ResourceProviders)) /\ IsSeq(SetToSeq(PromptProviders))
    BY SetToSeqIsSeq, ServerAssumption
  <2>2. /\ DOMAIN prov = {"registered", "alive", "holds", "watched"}
        /\ prov.registered = [a \in Areas |-> SetToSeq(IF a = "resource" THEN ResourceProviders
                                                       ELSE PromptProviders)]
    BY DEF Init
  <2>3. ASSUME NEW a \in Areas PROVE IsSeq(prov.registered[a])
    BY <2>1, <2>2
  <2>4. DOMAIN ops = {}
    BY DEF Init
  <2> QED
    BY <2>2, <2>3, <2>4 DEF AnswersIInv, ProvidersOK
<1>2. ShapeIInv /\ AnswersIInv /\ [Next]_vars => AnswersIInv'
  <2> SUFFICES ASSUME ShapeIInv, AnswersIInv, [Next]_vars PROVE AnswersIInv'
    OBVIOUS
  <2>1. CASE Posted \/ ClientReceives
    <3>1. UNCHANGED <<ops, prov>>
      BY <2>1 DEF Posted, ClientReceives, Elsewhere, toolVars
    <3> QED
      BY <3>1, AllStay
  <2>2. CASE ServerReceives
    BY <2>2, ReceivesAnswer
  <2>3. CASE \E id \in DOMAIN ops :
               \/ \E p \in Providers, ok \in BOOLEAN : ProviderAnswers(id, p, ok)
               \/ \E result \in {"result", "error"} : ToolEnds(id, result)
    BY <2>3, EndsAnswer
  <2>4. CASE HostChanges
    BY <2>4, HostAnswers
  <2>5. CASE \/ \E id \in DOMAIN bridges, outcome \in {"ended", "failed"} : BridgeEnds(id, outcome)
             \/ connectAndInitialize
             \/ \E ask \in Asks : sendInitialized(ask)
             \/ \E kind \in Features : CallClient(kind)
             \/ \E id \in DOMAIN calls : CallTimesOut(id)
             \/ Stop \/ Start \/ ClientLeaves
             \/ UNCHANGED vars
    <3>1. UNCHANGED <<ops, prov>>
      BY <2>5 DEF BridgeEnds, connectAndInitialize, sendInitialized, Ask, CallClient,
                  CallTimesOut, Stop, Start, ClientLeaves, ClientOnly, toolVars, vars
    <3> QED
      BY <3>1, AllStay
  <2> QED
    BY <2>1, <2>2, <2>3, <2>4, <2>5 DEF Next, Progress
<1> QED
  BY <1>1, <1>2, ShapeInvariant, PTL DEF Spec

\* A list holds what every provider that answered holds; a resource or a prompt comes from
\* the first provider in order that has it, and "not found" means that nobody alive has it,
\* for any number of providers and however they answer, fail and go away.
THEOREM EveryAnswerIsWhole == Spec => []AnswersAreWhole
<1>1. AnswersIInv => AnswersAreWhole
  <2> SUFFICES ASSUME AnswersIInv, NEW id \in DOMAIN ops, ~ops[id].open
               PROVE  LET op == ops[id]
                          Passed(j) == op.queue[j] \in op.lacking \/ op.queue[j] \notin prov.alive
                      IN  /\ op.ask.what \in {"list", "complete"} /\ op.ask.area \in Areas =>
                               op.value = Offer([p \in DOMAIN op.offered \ op.failed |-> op.offered[p]])
                          /\ op.ask.what = "read" =>
                               IF op.value = "not found" THEN \A j \in DOMAIN op.queue : Passed(j)
                               ELSE \E i \in DOMAIN op.queue :
                                      /\ op.value = op.queue[i]
                                      /\ op.offered[op.queue[i]][op.ask.arg] # None
                                      /\ \A j \in 1..i - 1 : Passed(j)
    BY DEF AnswersAreWhole
  <2> DEFINE op == ops[id]
  <2>1. OpOK(op, prov.alive) /\ op.left = {}
    BY DEF AnswersIInv, OpOK
  <2>2. Gathers(op.ask) => op.value = Offer([p \in DOMAIN op.offered \ op.failed |-> op.offered[p]])
    <3>1. DOMAIN op.offered \ (op.failed \cup {}) = DOMAIN op.offered \ op.failed
      OBVIOUS
    <3> QED
      BY <2>1, <3>1 DEF OpOK, Gathered
  <2>3. ASSUME op.ask.what = "read"
        PROVE  Searched(op, prov.alive) /\ DOMAIN op.queue = 1..Len(op.queue)
    <3>1. Searched(op, prov.alive) /\ IsSeq(op.queue)
      BY <2>1, <2>3 DEF OpOK
    <3> QED
      BY <3>1, LenProperties DEF IsSeq
  <2> QED
    BY <2>2, <2>3 DEF Gathers, Searched, PassedBy
<1> QED
  BY <1>1, AnswersInvariant, PTL


-----------------------------------------------------------------------------
(* What a client has of a list *)

\* The requests the client has made, those the server has taken among them.
AskedOK ==
    /\ \E n \in Nat : DOMAIN asked = 1..n
    /\ \A id \in DOMAIN asked : DOMAIN asked[id] = {"ask", "fate"}
    /\ DOMAIN spent = {"turns", "changes", "epoch"} /\ spent.epoch \in Nat
    /\ DOMAIN ops \subseteq DOMAIN asked
    /\ \A id \in DOMAIN ops :
          /\ ops[id].ask = asked[id].ask
          /\ ops[id].epoch \in Nat /\ ops[id].epoch <= spent.epoch
          /\ ops[id].ask.what = "list" /\ ops[id].ask.area = "tools" => ~ops[id].open

\* A request on its way is not taken yet, and comes once.
WaitingOK(q, made, taken) ==
    \A k \in 1..Len(q) : q[k].kind = "request" =>
        /\ q[k].id \in DOMAIN made \ taken /\ q[k].ask = made[q[k].id].ask
        /\ \A j \in 1..Len(q) : q[j].kind = "request" /\ q[j].id = q[k].id => j = k

\* An answer on its way, on the event queue or on the wire, is the outcome.
Over(id) == id \in DOMAIN ops /\ ~ops[id].open
PostedOK ==
    /\ IsSeq(server.posted)
    /\ \A k \in 1..Len(server.posted) :
          \/ server.posted[k].event = "notify"
          \/ server.posted[k].event = "reply" /\ Over(server.posted[k].id)
AnswersOK ==
    \A k \in 1..Len(toClient) : toClient[k].kind = "answer" =>
        Over(toClient[k].id) /\ toClient[k].value = ops[toClient[k].id].value

\* Who waits for an answer has not left, and neither has who was answered a list of which
\* it would have to be told.
FatesOK ==
    /\ \A id \in DOMAIN asked :
          /\ asked[id].fate \in {"waiting", "answered", "lost"}
          /\ asked[id].fate = "waiting" => client.peer # "off"
          /\ asked[id].fate = "answered" => id \in DOMAIN ops
    /\ \A id \in DOMAIN ops :
          ops[id].ask.what = "list" /\ ops[id].epoch = spent.epoch /\ asked[id].fate # "lost"
          => client.peer # "off"

\* Who may ask for a list is connected, and the server tells it of changes.
ReadyOK ==
    /\ server.ready => server.open
    /\ client.peer = "ready" => server.ready
    /\ \A k \in 1..Len(toServer) :
          toServer[k].kind = "request" /\ toServer[k].ask.what = "list" => server.ready
    /\ \A id \in DOMAIN ops :
          \/ ops[id].ask.what = "initialize" /\ asked[id].fate = "waiting"
          \/ ops[id].ask.what = "list" /\ ops[id].epoch = spent.epoch
          => server.ready

\* What the client has of a list is what one of its requests was answered.
AsksFor(ask, l) == ask.what = "list" /\ ask.area = l
SeenOK ==
    /\ client.newest \in [Lists -> Nat] /\ DOMAIN client.seen = Lists
    /\ \A l \in Lists :
          /\ client.seen[l].from # 0 =>
                /\ Over(client.seen[l].from)
                /\ AsksFor(ops[client.seen[l].from].ask, l)
                /\ client.seen[l].value = ops[client.seen[l].from].value
                /\ asked[client.seen[l].from].fate = "answered"
          /\ client.newest[l] # 0 =>
                /\ client.newest[l] \in DOMAIN asked
                /\ AsksFor(asked[client.newest[l]].ask, l)

AreasOK ==
    /\ DOMAIN tools = {"own", "dead", "reg", "attached", "off"}
    /\ prov.alive \subseteq Providers /\ DOMAIN prov.holds = Providers
    /\ \A a \in Areas : \A p \in Range(prov.registered[a]) : AreaOf(p) = a

\* What a list is answered with if no provider fails, and whether a change is announced.
Expected(l, op) == IF l = "tools" THEN op.value ELSE Offer(op.offered)
Announced(l) == Due(l) \in Range(server.posted) \/ Note(l) \in Range(toClient)

\* The newest request for a list that was taken is answered with the present list, unless
\* the client will hear that it has changed or has given up the request.
Newest(l) ==
    /\ client.newest[l] \in DOMAIN ops /\ ops[client.newest[l]].epoch = spent.epoch
    /\ asked[client.newest[l]].fate # "lost"
NewestIsFresh ==
    \A l \in Lists :
        Newest(l) => Expected(l, ops[client.newest[l]]) = Listing(l) \/ Announced(l)

WiresOK ==
    /\ AskedOK /\ WaitingOK(toServer, asked, DOMAIN ops) /\ PostedOK /\ AnswersOK
    /\ FatesOK /\ ReadyOK /\ SeenOK /\ AreasOK
ToldIInv == WiresOK /\ NewestIsFresh

(* Sequences again: what a longer or a shorter one holds *)

LEMMA AppendRange ==
    ASSUME NEW q, IsSeq(q), NEW e
    PROVE  \A x : x \in Range(Append(q, e)) <=> x \in Range(q) \/ x = e
<1>1. PICK S : q \in Seq(S)
  BY DEF IsSeq
<1> DEFINE T == S \cup {e}
<1>2. q \in Seq(T) /\ e \in T
  BY <1>1, SeqMonotonic
<1> HIDE DEF T
<1>3. DOMAIN q = 1..Len(q) /\ DOMAIN Append(q, e) = 1..Len(q) + 1 /\ Len(q) \in Nat
  BY <1>2, LenProperties, AppendProperties
<1>4. (\A k \in 1..Len(q) : Append(q, e)[k] = q[k]) /\ Append(q, e)[Len(q) + 1] = e
  BY AppendIsSeq
<1>5. \A k : k \in 1..Len(q) + 1 <=> k \in 1..Len(q) \/ k = Len(q) + 1
  BY <1>3
<1> QED
  BY <1>3, <1>4, <1>5 DEF Range

LEMMA TailRange ==
    ASSUME NEW q, IsSeq(q), q # << >>
    PROVE  \A x : x \in Range(q) <=> x \in Range(Tail(q)) \/ x = Head(q)
<1>1. PICK S : q \in Seq(S)
  BY DEF IsSeq
<1>2. /\ Len(q) \in Nat \ {0} /\ Len(Tail(q)) = Len(q) - 1
      /\ Head(q) = q[1] /\ \A k \in 1..Len(q) - 1 : Tail(q)[k] = q[k + 1]
  BY TailIsSeq
<1>3. DOMAIN q = 1..Len(q) /\ DOMAIN Tail(q) = 1..Len(q) - 1
  BY <1>1, <1>2, LenProperties, HeadTailProperties
<1>4. \A k \in 1..Len(q) : k = 1 \/ (k - 1 \in 1..Len(q) - 1 /\ q[k] = Tail(q)[k - 1])
  <2>1. ASSUME NEW k \in 1..Len(q), k # 1 PROVE k - 1 \in 1..Len(q) - 1 /\ (k - 1) + 1 = k
    BY <1>2, <2>1
  <2> QED
    BY <1>2, <2>1
<1>5. \A k \in 1..Len(q) - 1 : k + 1 \in 1..Len(q)
  BY <1>2
<1>6. 1 \in 1..Len(q)
  BY <1>2
<1>7. ASSUME NEW x \in Range(q) PROVE x \in Range(Tail(q)) \/ x = Head(q)
  <2>1. PICK k \in 1..Len(q) : x = q[k]
    BY <1>3, <1>7 DEF Range
  <2> QED
    BY <1>2, <1>3, <1>4, <2>1 DEF Range
<1>8. ASSUME NEW x \in Range(Tail(q)) PROVE x \in Range(q)
  <2>1. PICK k \in 1..Len(q) - 1 : x = Tail(q)[k]
    BY <1>3, <1>8 DEF Range
  <2>2. k + 1 \in 1..Len(q) /\ x = q[k + 1]
    BY <1>2, <1>5, <2>1
  <2> QED
    BY <1>3, <2>2 DEF Range
<1>9. Head(q) \in Range(q)
  BY <1>2, <1>3, <1>6 DEF Range
<1> QED
  BY <1>7, <1>8, <1>9

LEMMA RangeOf ==
    ASSUME NEW q, IsSeq(q)
    PROVE  \A x : x \in Range(q) <=> \E k \in 1..Len(q) : x = q[k]
<1>1. DOMAIN q = 1..Len(q)
  BY LenProperties DEF IsSeq
<1> QED
  BY <1>1 DEF Range

(* The requests on their way *)

LEMMA WaitingPlain ==
    ASSUME NEW q, IsSeq(q), NEW made, NEW taken, WaitingOK(q, made, taken),
           NEW m, m.kind # "request"
    PROVE  WaitingOK(Append(q, m), made, taken)
<1> DEFINE r == Append(q, m)
<1>1. \A k \in 1..Len(r) : (k \in 1..Len(q) /\ r[k] = q[k]) \/ r[k] = m
  BY AppendEach
<1> HIDE DEF r
<1>2. WaitingOK(r, made, taken)
  BY <1>1 DEF WaitingOK
<1> QED
  BY <1>2 DEF r

LEMMA WaitingTail ==
    ASSUME NEW q, IsSeq(q), q # << >>, NEW made, NEW taken, WaitingOK(q, made, taken)
    PROVE  /\ WaitingOK(Tail(q), made, taken)
           /\ Head(q).kind = "request" => WaitingOK(Tail(q), made, taken \cup {Head(q).id})
<1> DEFINE r == Tail(q)
<1>1. \A k \in 1..Len(r) : k + 1 \in 1..Len(q) /\ r[k] = q[k + 1] /\ k \in Nat
  BY TailEach
<1>2. 1 \in 1..Len(q) /\ Head(q) = q[1]
  BY HeadIsFirst
<1> HIDE DEF r
<1>3. ASSUME NEW k \in 1..Len(r), r[k].kind = "request"
      PROVE  /\ r[k].id \in DOMAIN made \ taken /\ r[k].ask = made[r[k].id].ask
             /\ \A j \in 1..Len(r) : r[j].kind = "request" /\ r[j].id = r[k].id => j = k
             /\ Head(q).kind = "request" => r[k].id # Head(q).id
  <2>1. /\ k + 1 \in 1..Len(q) /\ r[k] = q[k + 1] /\ k \in Nat
        /\ k + 1 # 1
    BY <1>1, <1>3
  <2>2. /\ r[k].id \in DOMAIN made \ taken /\ r[k].ask = made[r[k].id].ask
        /\ \A j \in 1..Len(q) : q[j].kind = "request" /\ q[j].id = r[k].id => j = k + 1
    BY <1>3, <2>1 DEF WaitingOK
  <2>3. ASSUME NEW j \in 1..Len(r), r[j].kind = "request", r[j].id = r[k].id PROVE j = k
    <3>1. j + 1 \in 1..Len(q) /\ r[j] = q[j + 1] /\ j \in Nat
      BY <1>1
    <3>2. j + 1 = k + 1
      BY <2>2, <2>3, <3>1
    <3> QED
      BY <2>1, <3>1, <3>2
  <2>4. Head(q).kind = "request" => r[k].id # Head(q).id
    BY <1>2, <2>1, <2>2
  <2> QED
    BY <2>2, <2>3, <2>4
<1>4. WaitingOK(r, made, taken)
  BY <1>3 DEF WaitingOK
<1>5. Head(q).kind = "request" => WaitingOK(r, made, taken \cup {Head(q).id})
  BY <1>3 DEF WaitingOK
<1> QED
  BY <1>4, <1>5 DEF r

LEMMA WaitingAsked ==
    ASSUME NEW q, IsSeq(q), NEW made, NEW taken, WaitingOK(q, made, taken),
           NEW id, id \notin DOMAIN made, id \notin taken, NEW ask, NEW r, r.ask = ask
    PROVE  WaitingOK(Append(q, Question(id, ask)), With(made, id, r), taken)
<1> DEFINE m == Question(id, ask)
           p == Append(q, m)
           new == With(made, id, r)
<1>1. /\ Len(q) \in Nat /\ Len(p) = Len(q) + 1
      /\ \A k \in 1..Len(q) : p[k] = q[k]
      /\ p[Len(q) + 1] = m
  BY AppendIsSeq
<1>2. /\ DOMAIN new = DOMAIN made \cup {id} /\ new[id].ask = ask
      /\ \A x \in DOMAIN made : new[x] = made[x]
  BY DEF With
<1>3. m.kind = "request" /\ m.id = id /\ m.ask = ask
  BY DEF Question
<1> HIDE DEF m, p, new
<1>4. \A k \in 1..Len(p) : k \in 1..Len(q) \/ k = Len(q) + 1
  BY <1>1
<1>5. \A k \in 1..Len(q) : q[k].kind = "request" => q[k].id \in DOMAIN made \ taken /\ q[k].id # id
  BY DEF WaitingOK
<1>6. ASSUME NEW k \in 1..Len(p), p[k].kind = "request"
      PROVE  /\ p[k].id \in DOMAIN new \ taken /\ p[k].ask = new[p[k].id].ask
             /\ \A j \in 1..Len(p) : p[j].kind = "request" /\ p[j].id = p[k].id => j = k
  <2>1. CASE k \in 1..Len(q)
    <3>1. /\ p[k].id \in DOMAIN made \ taken /\ p[k].ask = made[p[k].id].ask
          /\ \A j \in 1..Len(q) : q[j].kind = "request" /\ q[j].id = p[k].id => j = k
      BY <1>1, <1>6, <2>1 DEF WaitingOK
    <3>2. p[k].id # id
      BY <3>1
    <3> QED
      BY <1>1, <1>2, <1>3, <1>4, <3>1, <3>2
  <2>2. CASE k = Len(q) + 1
    <3>1. \A j \in 1..Len(q) : p[j].kind = "request" => p[j].id # id
      BY <1>1, <1>5
    <3> QED
      BY <1>1, <1>2, <1>3, <1>4, <2>2, <3>1
  <2> QED
    BY <1>4, <2>1, <2>2
<1>7. WaitingOK(p, new, taken)
  BY <1>6 DEF WaitingOK
<1> QED
  BY <1>7 DEF p, m, new

(* Steps that take and answer no request *)

\* What the hosts and the calls of the server do: they may post a notification and send
\* what is no request or answer, and a change of a list is announced or silent.
Unasked(m) == m.kind # "answer" /\ (m.kind = "request" => Invited(m.ask))
Quiet ==
    /\ UNCHANGED <<ops, asked>>
    /\ DOMAIN spent' = DOMAIN spent /\ spent'.epoch \in {spent.epoch, spent.epoch + 1}
    /\ client'.peer = client.peer /\ client'.seen = client.seen
    /\ client'.newest = client.newest /\ client'.offered = client.offered
    /\ server'.ready = server.ready /\ (server.open => server'.open)
    /\ server'.caps = server.caps
    /\ \E l : Longer(server'.posted, server.posted, Due(l))
    /\ \E m : Unasked(m) /\ Longer(toClient', toClient, m)
    /\ \E m : m.kind # "request" /\ Longer(toServer', toServer, m)
    /\ AreasOK'
    /\ spent'.epoch = spent.epoch /\ server.ready /\ client.peer # "off" =>
          \A l \in Lists : Listing(l)' = Listing(l) \/ Announced(l)'

LEMMA QuietTold ==
    ASSUME ShapeIInv, ToldIInv, Quiet
    PROVE  ToldIInv'
<1>1. IsSeq(toServer) /\ IsSeq(toClient) /\ IsSeq(server.posted)
  BY DEF ShapeIInv, ToldIInv, WiresOK, PostedOK
<1>2. PICK d : Longer(server'.posted, server.posted, Due(d))
  BY DEF Quiet
<1>3. PICK m : m.kind # "answer" /\ Longer(toClient', toClient, m)
  BY DEF Quiet, Unasked
<1>4. PICK r : r.kind # "request" /\ Longer(toServer', toServer, r)
  BY DEF Quiet
<1>5. /\ \A k \in 1..Len(server'.posted) :
            \/ k \in 1..Len(server.posted) /\ server'.posted[k] = server.posted[k]
            \/ server'.posted[k] = Due(d)
      /\ \A k \in 1..Len(toClient') :
            (k \in 1..Len(toClient) /\ toClient'[k] = toClient[k]) \/ toClient'[k] = m
      /\ \A k \in 1..Len(toServer') :
            (k \in 1..Len(toServer) /\ toServer'[k] = toServer[k]) \/ toServer'[k] = r
  BY <1>1, <1>2, <1>3, <1>4, AppendEach DEF Longer
<1>6. AskedOK'
  <2>1. spent.epoch \in Nat /\ spent'.epoch \in Nat /\ spent.epoch <= spent'.epoch
    BY DEF ToldIInv, WiresOK, AskedOK, Quiet
  <2>2. \A id \in DOMAIN ops : ops[id].epoch \in Nat /\ ops[id].epoch <= spent'.epoch
    BY <2>1 DEF ToldIInv, WiresOK, AskedOK
  <2>3. UNCHANGED <<ops, asked>> /\ DOMAIN spent' = DOMAIN spent
    BY DEF Quiet
  <2> QED
    BY <2>1, <2>2, <2>3 DEF ToldIInv, WiresOK, AskedOK
<1>7. WaitingOK(toServer, asked, DOMAIN ops)'
  <2>1. WaitingOK(toServer', asked, DOMAIN ops)
    BY <1>1, <1>4, WaitingPlain DEF Longer, ToldIInv, WiresOK
  <2> QED
    BY <2>1 DEF Quiet
<1>8. PostedOK'
  <2>1. IsSeq(server'.posted)
    <3>1. IsSeq(Append(server.posted, Due(d)))
      BY <1>1, AppendIsSeq
    <3> QED
      BY <1>1, <1>2, <3>1 DEF Longer
  <2>2. Due(d).event = "notify"
    BY DEF Due
  <2> QED
    BY <1>5, <2>1, <2>2 DEF ToldIInv, WiresOK, PostedOK, Over, Quiet
<1>9. AnswersOK'
  BY <1>3, <1>5 DEF ToldIInv, WiresOK, AnswersOK, Over, Quiet
<1>10. ReadyOK'
  <2>1. \A id \in DOMAIN ops : ops[id].epoch = spent'.epoch => ops[id].epoch = spent.epoch
    BY DEF ToldIInv, WiresOK, AskedOK, Quiet
  <2> QED
    BY <1>4, <1>5, <2>1 DEF ToldIInv, WiresOK, ReadyOK, Quiet
<1>11. SeenOK' /\ FatesOK' /\ AreasOK'
  <2>1. \A id \in DOMAIN ops : ops[id].epoch = spent'.epoch => ops[id].epoch = spent.epoch
    BY DEF ToldIInv, WiresOK, AskedOK, Quiet
  <2> QED
    BY <2>1 DEF ToldIInv, WiresOK, SeenOK, FatesOK, Over, Quiet
<1>12. \A l \in Lists : Announced(l) => Announced(l)'
  <2>1. \A x \in Range(server.posted) : x \in Range(server'.posted)
    BY <1>1, <1>2, AppendRange DEF Longer
  <2>2. \A x \in Range(toClient) : x \in Range(toClient')
    BY <1>1, <1>3, AppendRange DEF Longer
  <2> QED
    BY <2>1, <2>2 DEF Announced, Due, Note
<1>13. NewestIsFresh'
  <2> SUFFICES ASSUME NEW l \in Lists, client.newest[l] \in DOMAIN ops,
                      ops[client.newest[l]].epoch = spent'.epoch,
                      asked[client.newest[l]].fate # "lost"
               PROVE  Expected(l, ops[client.newest[l]]) = Listing(l)' \/ Announced(l)'
    BY DEF NewestIsFresh, Newest, Quiet, Expected
  <2>1. spent'.epoch = spent.epoch
    BY DEF ToldIInv, WiresOK, AskedOK, Quiet
  <2>2. server.ready /\ client.peer # "off"
    <3>1. client.newest[l] # 0
      BY DEF ToldIInv, WiresOK, AskedOK
    <3>2. ops[client.newest[l]].ask.what = "list"
      BY <3>1 DEF ToldIInv, WiresOK, AskedOK, SeenOK, AsksFor
    <3> QED
      BY <2>1, <3>2 DEF ToldIInv, WiresOK, ReadyOK, FatesOK
  <2>3. Listing(l)' = Listing(l) \/ Announced(l)'
    BY <2>1, <2>2 DEF Quiet
  <2>4. Expected(l, ops[client.newest[l]]) = Listing(l) \/ Announced(l)
    BY <2>1 DEF ToldIInv, NewestIsFresh, Newest
  <2> QED
    BY <1>12, <2>3, <2>4
<1> QED
  BY <1>6, <1>7, <1>8, <1>9, <1>10, <1>11, <1>13 DEF ToldIInv, WiresOK

\* notifyToolsChanged and its like announce a change to a client that is there.
LEMMA NotifyAnnounces ==
    ASSUME ShapeIInv, ToldIInv, NEW l, NotifyLater(l)
    PROVE  /\ server'.ready = server.ready /\ server'.open = server.open
           /\ server'.caps = server.caps
           /\ Longer(server'.posted, server.posted, Due(l))
           /\ server.ready => Due(l) \in Range(server'.posted)
<1>1. DOMAIN server = {"open", "ready", "caps", "level", "posted"} /\ IsSeq(server.posted)
  BY DEF ShapeIInv, ToldIInv, WiresOK, PostedOK
<1> QED
  BY <1>1, AppendRange DEF NotifyLater, Post, Longer

LEMMA TellAnnounces ==
    ASSUME ShapeIInv, ToldIInv, NEW l, Tell(l)
    PROVE  /\ Unasked(Note(l)) /\ Longer(toClient', toClient, Note(l))
           /\ server.ready /\ client.peer # "off" => Note(l) \in Range(toClient')
<1>1. IsSeq(toClient) /\ (server.ready => server.open)
  BY DEF ShapeIInv, ToldIInv, WiresOK, ReadyOK
<1>2. Unasked(Note(l))
  BY DEF Note, Unasked
<1>3. Note(l) \in Range(Append(toClient, Note(l)))
  BY <1>1, AppendRange
<1> QED
  BY <1>1, <1>2, <1>3 DEF Tell, Sent, Heard, Longer

\* A tool list depends on the tools only, the other lists on the providers only.
LEMMA ListingKept ==
    /\ UNCHANGED tools => Listing("tools")' = Listing("tools")
    /\ UNCHANGED prov => \A a \in Areas : Listing(a)' = Listing(a)
    /\ "tools" \notin Areas /\ Lists = Areas \cup {"tools"}
<1>1. "tools" \notin Areas /\ Lists = Areas \cup {"tools"}
  BY DEF Areas, Lists
<1>2. UNCHANGED tools => Listing("tools")' = Listing("tools")
  BY DEF Listing, ToolsListed, collectTools, inRegistry
<1>3. ASSUME UNCHANGED prov, NEW a \in Areas PROVE Listing(a)' = Listing(a)
  BY <1>1, <1>3 DEF Listing, Asking
<1> QED
  BY <1>1, <1>2, <1>3

\* The changes of the tools.
LEMMA ToolsQuiet ==
    ASSUME ShapeIInv, ToldIInv, UNCHANGED <<ops, asked, client, toServer, toClient, prov>>,
           DOMAIN spent' = DOMAIN spent, DOMAIN tools' = DOMAIN tools,
           \/ spent'.epoch = spent.epoch /\ NotifyLater("tools")
           \/ spent'.epoch = spent.epoch + 1 /\ UNCHANGED server
           \/ spent'.epoch = spent.epoch /\ UNCHANGED server /\ ~tools.attached
              /\ \E names : tools' = [tools EXCEPT !.reg = names]
    PROVE  Quiet
<1>1. AreasOK'
  BY DEF ToldIInv, WiresOK, AreasOK
<1>2. /\ \E m : Unasked(m) /\ Longer(toClient', toClient, m)
      /\ \E m : m.kind # "request" /\ Longer(toServer', toServer, m)
  <2>1. Unasked(Note("tools")) /\ Note("tools").kind # "request"
    BY DEF Note, Unasked
  <2> QED
    BY <2>1 DEF Longer
<1>3. /\ server'.ready = server.ready /\ (server.open => server'.open)
      /\ server'.caps = server.caps
      /\ \E l : Longer(server'.posted, server.posted, Due(l))
  BY NotifyAnnounces DEF Longer
<1>4. ASSUME spent'.epoch = spent.epoch, server.ready
      PROVE  \A l \in Lists : Listing(l)' = Listing(l) \/ Announced(l)'
  <2>1. \A l \in Areas : Listing(l)' = Listing(l)
    BY ListingKept
  <2>2. Listing("tools")' = Listing("tools") \/ Announced("tools")'
    <3>1. CASE NotifyLater("tools")
      <4>1. Due("tools") \in Range(server'.posted)
        BY <1>4, <3>1, NotifyAnnounces
      <4> QED
        BY <4>1 DEF Announced, Due, Note
    <3>2. CASE /\ ~tools.attached /\ \E names : tools' = [tools EXCEPT !.reg = names]
      <4>1. /\ ~tools'.attached /\ tools'.own = tools.own /\ tools'.dead = tools.dead
            /\ tools'.off = tools.off
        BY <3>2 DEF ToldIInv, WiresOK, AreasOK
      <4>2. \A n : ~inRegistry(n) /\ ~inRegistry(n)'
        BY <3>2, <4>1 DEF inRegistry
      <4>3. collectTools' = collectTools
        BY <4>1, <4>2 DEF collectTools
      <4> QED
        BY <4>1, <4>3, ListingKept DEF Listing, ToolsListed
    <3> QED
      BY <1>4, <3>1, <3>2 DEF ToldIInv, WiresOK, AskedOK
  <2> QED
    BY <2>1, <2>2, ListingKept
<1>5. spent'.epoch \in {spent.epoch, spent.epoch + 1}
  OBVIOUS
<1> QED
  BY <1>1, <1>2, <1>3, <1>4, <1>5 DEF Quiet

\* The turns of the hosts that change no list.
LEMMA OthersQuiet ==
    ASSUME ShapeIInv, ToldIInv, UNCHANGED <<ops, asked, tools, prov>>,
           DOMAIN spent' = DOMAIN spent, spent'.epoch = spent.epoch,
           client'.peer = client.peer, client'.seen = client.seen,
           client'.newest = client.newest, client'.offered = client.offered,
           server'.ready = server.ready, server.open => server'.open,
           server'.posted = server.posted, server'.caps = server.caps,
           \E m : Unasked(m) /\ Longer(toClient', toClient, m),
           \E m : m.kind # "request" /\ Longer(toServer', toServer, m)
    PROVE  Quiet
<1>1. AreasOK'
  BY DEF ToldIInv, WiresOK, AreasOK
<1>2. \A l \in Lists : Listing(l)' = Listing(l)
  BY ListingKept
<1>3. \E l : Longer(server'.posted, server.posted, Due(l))
  BY DEF Longer
<1> QED
  BY <1>1, <1>2, <1>3 DEF Quiet

\* What is not sent.
LEMMA NothingSent ==
    /\ UNCHANGED toClient => \E m : Unasked(m) /\ Longer(toClient', toClient, m)
    /\ UNCHANGED toServer => \E m : m.kind # "request" /\ Longer(toServer', toServer, m)
<1>1. Unasked(Note("tools")) /\ Note("tools").kind # "request"
  BY DEF Note, Unasked
<1> QED
  BY <1>1 DEF Longer

LEMMA SpentOne ==
    ASSUME ToldIInv, NEW change, NEW silent, Spend(change, silent)
    PROVE  DOMAIN spent' = DOMAIN spent /\ spent'.epoch = spent.epoch + silent
BY DEF Spend, ToldIInv, WiresOK, AskedOK

LEMMA Spent ==
    ASSUME ToldIInv
    PROVE  /\ Turn \/ Change => DOMAIN spent' = DOMAIN spent /\ spent'.epoch = spent.epoch
           /\ ChangeSilently => DOMAIN spent' = DOMAIN spent /\ spent'.epoch = spent.epoch + 1
<1>1. spent.epoch + 0 = spent.epoch
  BY DEF ToldIInv, WiresOK, AskedOK
<1> QED
  BY <1>1, SpentOne DEF Turn, Change, ChangeSilently

\* A change of what a provider holds matters to the list of its area, if it is registered.
LEMMA HoldsQuiet ==
    ASSUME ShapeIInv, ToldIInv, AnswersIInv,
           UNCHANGED <<ops, asked, client, toServer, tools>>,
           DOMAIN spent' = DOMAIN spent, spent'.epoch = spent.epoch,
           NEW p \in prov.alive, NEW h, prov' = [prov EXCEPT !.holds[p] = h], ListChanged(p)
    PROVE  Quiet
<1>1. /\ prov'.registered = prov.registered /\ prov'.alive = prov.alive
      /\ DOMAIN prov'.holds = DOMAIN prov.holds
      /\ \A q \in Providers : q # p => prov'.holds[q] = prov.holds[q]
  BY DEF ToldIInv, WiresOK, AreasOK, AnswersIInv, ProvidersOK
<1>2. AreasOK'
  BY <1>1 DEF ToldIInv, WiresOK, AreasOK
<1>3. \A a \in Areas : Asking(a)' = Asking(a) /\ Asking(a) \subseteq Providers
  BY <1>1 DEF Asking, ToldIInv, WiresOK, AreasOK
<1>4. ASSUME NEW a \in Areas, p \notin Asking(a) PROVE Listing(a)' = Listing(a)
  <2>1. [q \in Asking(a) |-> prov'.holds[q]] = [q \in Asking(a) |-> prov.holds[q]]
    BY <1>1, <1>3, <1>4
  <2> QED
    BY <1>3, <1>4, <2>1, ListingKept DEF Listing
<1>5. Listing("tools")' = Listing("tools")
  BY ListingKept
<1>6. \A a \in Areas : p \in Asking(a) => a = AreaOf(p) /\ p \in Range(prov.registered[AreaOf(p)])
  BY DEF Asking, ToldIInv, WiresOK, AreasOK
<1>7. AreaOf(p) \in Areas
  BY DEF AreaOf, Areas
<1>8. CASE p \notin Range(prov.registered[AreaOf(p)])
  <2>1. UNCHANGED <<server, toClient>>
    BY <1>8 DEF ListChanged
  <2>2. \A l \in Lists : Listing(l)' = Listing(l)
    BY <1>4, <1>5, <1>6, <1>8, ListingKept
  <2>3. \E l : Longer(server'.posted, server.posted, Due(l))
    BY <2>1 DEF Longer
  <2> QED
    BY <1>2, <2>1, <2>2, <2>3, NothingSent DEF Quiet
<1>9. CASE /\ p \in Range(prov.registered[AreaOf(p)]) /\ AreaOf(p) = "resource"
           /\ NotifyLater("resource") /\ UNCHANGED toClient
  <2>1. /\ server'.ready = server.ready /\ server'.open = server.open
        /\ server'.caps = server.caps
        /\ Longer(server'.posted, server.posted, Due("resource"))
        /\ server.ready => Due("resource") \in Range(server'.posted)
    BY <1>9, NotifyAnnounces
  <2>2. ASSUME server.ready, NEW l \in Lists PROVE Listing(l)' = Listing(l) \/ Announced(l)'
    <3>1. server.ready => Announced("resource")'
      BY <2>1 DEF Announced, Due, Note
    <3> QED
      BY <1>4, <1>5, <1>6, <1>9, <2>2, <3>1, ListingKept
  <2>3. \E l : Longer(server'.posted, server.posted, Due(l))
    BY <2>1
  <2>4. \E m : Unasked(m) /\ Longer(toClient', toClient, m)
    BY <1>9, NothingSent
  <2>5. /\ server'.ready = server.ready /\ server'.open = server.open
        /\ server'.caps = server.caps
    BY <2>1
  <2> QED
    BY <1>2, <2>2, <2>3, <2>4, <2>5, NothingSent DEF Quiet
<1>10. CASE /\ p \in Range(prov.registered[AreaOf(p)]) /\ AreaOf(p) # "resource"
            /\ Tell("prompt") /\ UNCHANGED server
  <2>1. /\ Unasked(Note("prompt")) /\ Longer(toClient', toClient, Note("prompt"))
        /\ server.ready /\ client.peer # "off" => Note("prompt") \in Range(toClient')
    BY <1>10, TellAnnounces
  <2>2. ASSUME server.ready, client.peer # "off", NEW l \in Lists PROVE Listing(l)' = Listing(l) \/ Announced(l)'
    <3>1. Announced("prompt")'
      BY <2>1, <2>2 DEF Announced, Due, Note
    <3>2. AreaOf(p) = "prompt"
      BY <1>10 DEF AreaOf
    <3> QED
      BY <1>4, <1>5, <1>6, <2>2, <3>1, <3>2, ListingKept
  <2>3. \E l : Longer(server'.posted, server.posted, Due(l))
    BY <1>10 DEF Longer
  <2>4. \E m : Unasked(m) /\ Longer(toClient', toClient, m)
    BY <2>1
  <2>5. UNCHANGED server
    BY <1>10
  <2> QED
    BY <1>2, <2>2, <2>3, <2>4, <2>5, NothingSent DEF Quiet
<1> QED
  BY <1>8, <1>9, <1>10 DEF ListChanged

\* Providers come and go without a word.
LEMMA SilentQuiet ==
    ASSUME ShapeIInv, ToldIInv, UNCHANGED <<ops, asked, client, server, toServer, toClient>>,
           ChangeSilently, AreasOK'
    PROVE  Quiet
<1>1. DOMAIN spent' = DOMAIN spent /\ spent'.epoch = spent.epoch + 1 /\ spent'.epoch # spent.epoch
  BY Spent DEF ToldIInv, WiresOK, AskedOK
<1>2. \E l : Longer(server'.posted, server.posted, Due(l))
  BY DEF Longer
<1> QED
  BY <1>1, <1>2, NothingSent DEF Quiet

LEMMA RemoveAtRange ==
    ASSUME NEW q, IsSeq(q), NEW i \in DOMAIN q
    PROVE  Range(RemoveAt(q, i)) \subseteq Range(q)
<1>1. PICK S : q \in Seq(S)
  BY DEF IsSeq
<1>2. i \in 1..Len(q) /\ Len(q) \in Nat /\ DOMAIN q = 1..Len(q)
  BY <1>1, LenProperties
<1>3. q \in Seq(Range(q))
  <2>1. q \in [1..Len(q) -> Range(q)]
    BY <1>1, <1>2 DEF Range
  <2> QED
    BY <1>2, <2>1
<1>4. SubSeq(q, 1, i - 1) \in Seq(Range(q)) /\ SubSeq(q, i + 1, Len(q)) \in Seq(Range(q))
  BY <1>2, <1>3, SubSeqProperties
<1> DEFINE r == RemoveAt(q, i)
<1>5. r \in Seq(Range(q))
  BY <1>4, ConcatProperties DEF RemoveAt
<1> HIDE DEF r
<1>6. \A x \in Range(r) : x \in Range(q)
  <2>1. DOMAIN r = 1..Len(r) /\ \A k \in 1..Len(r) : r[k] \in Range(q)
    BY <1>5, LenProperties, ElementOfSeq
  <2>2. Range(r) = {r[k] : k \in DOMAIN r}
    BY DEF Range
  <2> QED
    BY <2>1, <2>2
<1> QED
  BY <1>6 DEF r

LEMMA HostQuiet ==
    ASSUME ShapeIInv, AnswersIInv, ToldIInv, HostChanges
    PROVE  Quiet
<1> USE DEF Elsewhere
<1>1. ASSUME NEW n, addTool(n) \/ removeTool(n) PROVE Quiet
  <2>1. NotifyLater("tools") /\ Change /\ DOMAIN tools' = DOMAIN tools
    BY <1>1 DEF addTool, removeTool
  <2>2. UNCHANGED <<ops, asked, client, toServer, toClient, prov>>
    BY <1>1 DEF addTool, removeTool
  <2> QED
    BY <2>1, <2>2, ToolsQuiet, Spent
<1>2. ASSUME NEW names, RegistryChanges(names) PROVE Quiet
  <2>1. /\ Change /\ DOMAIN tools' = DOMAIN tools
        /\ tools' = [tools EXCEPT !.reg = names]
        /\ IF tools.attached THEN NotifyLater("tools") ELSE UNCHANGED server
        /\ UNCHANGED <<ops, asked, client, toServer, toClient, prov>>
    BY <1>2 DEF RegistryChanges
  <2> QED
    BY <2>1, ToolsQuiet, Spent
<1>3. ASSUME NEW x, setToolRegistry \/ ToolDestroyed(x) \/ setEnabled(x) PROVE Quiet
  <2>1. /\ ChangeSilently /\ DOMAIN tools' = DOMAIN tools
        /\ UNCHANGED <<ops, asked, client, toServer, toClient, prov, server>>
    BY <1>3 DEF setToolRegistry, ToolDestroyed, setEnabled, SilentToolChange
  <2> QED
    BY <2>1, ToolsQuiet, Spent
<1>4. ASSUME NEW p, NEW u, NEW uris, put(p, u, "new") \/ remove(p, uris) PROVE Quiet
  <2>1. /\ Change /\ p \in prov.alive /\ ListChanged(p)
        /\ UNCHANGED <<ops, asked, client, toServer, tools>>
    BY <1>4 DEF put, remove
  <2>2. \E h : prov' = [prov EXCEPT !.holds[p] = h]
    <3>1. CASE put(p, u, "new")
      <4>1. prov' = [prov EXCEPT !.holds[p] = [@ EXCEPT ![u] = "new"]]
        BY <3>1 DEF put
      <4> QED
        BY <4>1
    <3>2. CASE remove(p, uris)
      BY <3>2 DEF remove
    <3> QED
      BY <1>4, <3>1, <3>2
  <2> QED
    BY <2>1, <2>2, HoldsQuiet, Spent
<1>5. ASSUME NEW p \in Providers, Join(p) PROVE Quiet
  <2>1. /\ ChangeSilently /\ UNCHANGED <<ops, asked, client, toServer, toClient, tools, server>>
        /\ prov' = [prov EXCEPT !.registered[AreaOf(p)] = Append(@, p)]
    BY <1>5 DEF Join
  <2>2. AreaOf(p) \in Areas /\ IsSeq(prov.registered[AreaOf(p)])
    BY DEF AreaOf, Areas, AnswersIInv, ProvidersOK
  <2>3. /\ prov'.alive = prov.alive /\ prov'.holds = prov.holds
        /\ \A a \in Areas : prov'.registered[a] = IF a = AreaOf(p) THEN Append(prov.registered[a], p)
                                                  ELSE prov.registered[a]
    BY <2>1 DEF AnswersIInv, ProvidersOK
  <2>4. \A a \in Areas : \A q \in Range(prov'.registered[a]) : AreaOf(q) = a
    BY <2>2, <2>3, AppendRange DEF ToldIInv, WiresOK, AreasOK
  <2>5. AreasOK'
    BY <2>1, <2>3, <2>4 DEF ToldIInv, WiresOK, AreasOK, AreaOf
  <2> QED
    BY <2>1, <2>5, SilentQuiet
<1>6. ASSUME NEW p \in Providers, NEW destroyed, Leave(p, destroyed) PROVE Quiet
  <2>1. ChangeSilently /\ UNCHANGED <<ops, asked, client, toServer, toClient, tools, server>>
    BY <1>6 DEF Leave
  <2>2. AreaOf(p) \in Areas /\ IsSeq(prov.registered[AreaOf(p)])
    BY DEF AreaOf, Areas, AnswersIInv, ProvidersOK
  <2>3. /\ prov'.alive \subseteq prov.alive /\ prov'.holds = prov.holds
        /\ \A a \in Areas : Range(prov'.registered[a]) \subseteq Range(prov.registered[a])
    <3>1. CASE prov' = [prov EXCEPT !.alive = @ \ {p}]
      BY <3>1 DEF AnswersIInv, ProvidersOK
    <3>2. ASSUME NEW i \in DOMAIN prov.registered[AreaOf(p)],
                 prov' = [prov EXCEPT !.registered[AreaOf(p)] = RemoveAt(@, i)]
          PROVE  /\ prov'.alive \subseteq prov.alive /\ prov'.holds = prov.holds
                 /\ \A a \in Areas : Range(prov'.registered[a]) \subseteq Range(prov.registered[a])
      <4>1. /\ prov'.alive = prov.alive /\ prov'.holds = prov.holds
            /\ \A a \in Areas : prov'.registered[a] =
                  IF a = AreaOf(p) THEN RemoveAt(prov.registered[a], i) ELSE prov.registered[a]
        BY <3>2 DEF AnswersIInv, ProvidersOK
      <4>2. Range(RemoveAt(prov.registered[AreaOf(p)], i)) \subseteq Range(prov.registered[AreaOf(p)])
        BY <2>2, RemoveAtRange
      <4> QED
        BY <4>1, <4>2
    <3> QED
      BY <1>6, <3>1, <3>2 DEF Leave
  <2>4. AreasOK'
    BY <2>1, <2>3 DEF ToldIInv, WiresOK, AreasOK, AreaOf
  <2> QED
    BY <2>1, <2>4, SilentQuiet
<1>7. ASSUME NEW p, NEW u, ResourceUpdated(p, u) \/ sendLogMessage PROVE Quiet
  <2>1. \E l : Tell(l)
    BY <1>7 DEF ResourceUpdated, sendLogMessage
  <2>2. Change /\ UNCHANGED <<ops, asked, tools, prov, client, server, toServer>>
    BY <1>7 DEF ResourceUpdated, sendLogMessage, toolVars
  <2> QED
    BY <2>1, <2>2, TellAnnounces, OthersQuiet, Spent, NothingSent
<1>8. ASSUME NEW x, SetFeature(x) PROVE Quiet
  <2>1. /\ Change /\ UNCHANGED <<ops, asked, tools, prov, server, toClient, toServer>>
        /\ client' = [client EXCEPT !.has = client'.has]
    BY <1>8 DEF SetFeature, ClientOnly, toolVars
  <2>2. /\ client'.peer = client.peer /\ client'.seen = client.seen
        /\ client'.newest = client.newest /\ client'.offered = client.offered
    BY <2>1 DEF ShapeIInv
  <2> QED
    BY <2>1, <2>2, OthersQuiet, Spent, NothingSent
<1>9. ASSUME NEW x, setPaths(x) \/ addPath(x) \/ removePath(x) PROVE Quiet
  <2>1. PICK roots : ChangeRoots(roots)
    BY <1>9 DEF setPaths, addPath, removePath
  <2>2. /\ Change /\ UNCHANGED <<ops, asked, tools, prov, server, toClient>>
        /\ client' = [client EXCEPT !.roots = roots]
        /\ Longer(toServer', toServer, Note("roots"))
    BY <2>1 DEF ChangeRoots, ClientOnly, toolVars, Send, Longer
  <2>3. /\ client'.peer = client.peer /\ client'.seen = client.seen
        /\ client'.newest = client.newest /\ client'.offered = client.offered
    BY <2>2 DEF ShapeIInv
  <2>4. Note("roots").kind # "request"
    BY DEF Note
  <2> QED
    BY <2>2, <2>3, <2>4, OthersQuiet, Spent, NothingSent
<1> QED
  BY <1>1, <1>2, <1>3, <1>4, <1>5, <1>6, <1>7, <1>8, <1>9 DEF HostChanges

\* The event loop sends what is posted.
LEMMA PostedTold ==
    ASSUME ShapeIInv, ToldIInv, Posted
    PROVE  ToldIInv'
<1> DEFINE e == Head(server.posted)
<1>1. /\ IsSeq(toClient) /\ IsSeq(server.posted) /\ server.posted # << >>
      /\ DOMAIN server = {"open", "ready", "caps", "level", "posted"}
  BY DEF ShapeIInv, ToldIInv, WiresOK, PostedOK, Posted
<1>2. /\ UNCHANGED <<ops, asked, toServer, client, tools, prov, spent>>
      /\ server'.open = server.open /\ server'.ready = server.ready
      /\ server'.posted = Tail(server.posted)
      /\ IF e.event = "notify" THEN Tell(e.area) ELSE Sent(AnswerTo(e.id, ops[e.id].value))
  BY <1>1 DEF Posted, Elsewhere, toolVars
<1>3. /\ 1 \in 1..Len(server.posted) /\ e = server.posted[1]
      /\ IsSeq(server'.posted)
  BY <1>1, <1>2, HeadIsFirst, TailIsSeq
<1>4. \A k \in 1..Len(server'.posted) :
          k + 1 \in 1..Len(server.posted) /\ server'.posted[k] = server.posted[k + 1]
  BY <1>1, <1>2, TailEach
<1>5. \E m : /\ Longer(toClient', toClient, m)
             /\ m.kind = "answer" => Over(m.id) /\ m.value = ops[m.id].value
  <2>1. CASE e.event = "notify"
    <3>1. Unasked(Note(e.area)) /\ Longer(toClient', toClient, Note(e.area))
      BY <1>2, <2>1, TellAnnounces
    <3> QED
      BY <3>1 DEF Unasked
  <2>2. CASE e.event # "notify"
    <3>1. Over(e.id)
      BY <1>3, <2>2 DEF ToldIInv, WiresOK, PostedOK
    <3> DEFINE m == AnswerTo(e.id, ops[e.id].value)
    <3>2. m.id = e.id /\ m.value = ops[e.id].value
      BY DEF AnswerTo
    <3>3. Longer(toClient', toClient, m)
      BY <1>2, <2>2 DEF Sent, Longer
    <3> HIDE DEF m
    <3> QED
      BY <3>1, <3>2, <3>3
  <2> QED
    BY <2>1, <2>2
<1>6. PICK m : /\ Longer(toClient', toClient, m)
               /\ m.kind = "answer" => Over(m.id) /\ m.value = ops[m.id].value
  BY <1>5
<1>7. /\ AskedOK' /\ WaitingOK(toServer, asked, DOMAIN ops)' /\ FatesOK' /\ SeenOK'
      /\ AreasOK'
  BY <1>2 DEF ToldIInv, WiresOK, AskedOK, FatesOK, SeenOK, AreasOK, Over
<1>8. PostedOK'
  BY <1>2, <1>3, <1>4 DEF ToldIInv, WiresOK, PostedOK, Over
<1>9. AnswersOK'
  <2>1. \A k \in 1..Len(toClient') :
            (k \in 1..Len(toClient) /\ toClient'[k] = toClient[k]) \/ toClient'[k] = m
    BY <1>1, <1>6, AppendEach DEF Longer
  <2> QED
    BY <1>2, <1>6, <2>1 DEF ToldIInv, WiresOK, AnswersOK, Over
<1>10. ReadyOK'
  BY <1>2 DEF ToldIInv, WiresOK, ReadyOK
<1>11. \A l \in Lists : server.ready /\ client.peer # "off" /\ Announced(l) => Announced(l)'
  <2> SUFFICES ASSUME NEW l \in Lists, server.ready, client.peer # "off", Announced(l)
               PROVE  Announced(l)'
    OBVIOUS
  <2>1. \A x \in Range(toClient) : x \in Range(toClient')
    BY <1>1, <1>6, AppendRange DEF Longer
  <2>2. CASE Due(l) = e
    <3>1. e.event = "notify" /\ e.area = l
      BY <2>2 DEF Due
    <3>2. Note(l) \in Range(toClient')
      BY <1>2, <3>1, TellAnnounces
    <3> QED
      BY <3>2 DEF Announced, Note, Due
  <2>3. CASE Due(l) \in Range(server.posted) /\ Due(l) # e
    <3>1. Due(l) \in Range(server'.posted)
      BY <1>1, <1>2, <2>3, TailRange
    <3> QED
      BY <3>1 DEF Announced, Note, Due
  <2>4. CASE Note(l) \in Range(toClient)
    BY <2>1, <2>4 DEF Announced, Note, Due
  <2> QED
    BY <2>2, <2>3, <2>4 DEF Announced
<1>12. NewestIsFresh'
  <2> SUFFICES ASSUME NEW l \in Lists, Newest(l)
               PROVE  Expected(l, ops[client.newest[l]]) = Listing(l)' \/ Announced(l)'
    BY <1>2 DEF NewestIsFresh, Newest, Expected
  <2>1. server.ready /\ client.peer # "off"
    <3>1. client.newest[l] # 0
      BY DEF ToldIInv, WiresOK, AskedOK, Newest
    <3>2. ops[client.newest[l]].ask.what = "list"
      BY <3>1 DEF ToldIInv, WiresOK, AskedOK, SeenOK, AsksFor, Newest
    <3> QED
      BY <3>2 DEF ToldIInv, WiresOK, ReadyOK, FatesOK, Newest
  <2>2. Listing(l)' = Listing(l)
    BY <1>2, ListingKept
  <2> QED
    BY <1>11, <2>1, <2>2 DEF ToldIInv, NewestIsFresh
<1> QED
  BY <1>7, <1>8, <1>9, <1>10, <1>12 DEF ToldIInv, WiresOK

\* The client takes an answer, a notification or a call.
LEMMA ClientTold ==
    ASSUME ShapeIInv, ToldIInv, ClientReceives
    PROVE  ToldIInv'
<1> DEFINE e == Head(toClient)
<1>1. /\ IsSeq(toClient) /\ IsSeq(toServer) /\ toClient # << >>
      /\ DOMAIN client = {"peer", "has", "offered", "roots", "seen", "newest"}
  BY DEF ShapeIInv, ClientReceives
<1>2. UNCHANGED <<ops, server, tools, prov, spent>> /\ toClient' = Tail(toClient)
  BY DEF ClientReceives, toolVars
<1>3. 1 \in 1..Len(toClient) /\ e = toClient[1]
  BY <1>1, HeadIsFirst
<1>4. e.kind \in {"answer", "note", "request"}
  BY <1>3 DEF ShapeIInv, FromServer
<1>5. /\ \A k \in 1..Len(toClient') : k + 1 \in 1..Len(toClient) /\ toClient'[k] = toClient[k + 1]
      /\ \A x : x \in Range(toClient) => x \in Range(toClient') \/ x = e
  BY <1>1, <1>2, TailEach, TailRange
<1>6. PostedOK' /\ AnswersOK' /\ AreasOK'
  BY <1>2, <1>5 DEF ToldIInv, WiresOK, PostedOK, AnswersOK, AreasOK, Over
<1>7. \A l \in Lists : Listing(l)' = Listing(l)
  BY <1>2, ListingKept
<1>8. CASE e.kind = "answer"
  <2>1. TakeAnswer(e)
    BY <1>8 DEF ClientReceives
  <2>2. Over(e.id) /\ e.value = ops[e.id].value
    BY <1>3, <1>8 DEF ToldIInv, WiresOK, AnswersOK
  <2>3. e.id \in DOMAIN asked /\ ops[e.id].ask = asked[e.id].ask /\ UNCHANGED toServer
    BY <2>1, <2>2 DEF ToldIInv, WiresOK, AskedOK, Over, TakeAnswer
  <2>4. /\ DOMAIN asked' = DOMAIN asked
        /\ \A id \in DOMAIN asked :
              /\ asked'[id].ask = asked[id].ask /\ DOMAIN asked'[id] = {"ask", "fate"}
              /\ asked'[id].fate = "waiting" => asked[id].fate = "waiting"
              /\ asked'[id].fate = "lost" <=> asked[id].fate = "lost"
              /\ asked[id].fate = "answered" => asked'[id].fate = "answered"
              /\ asked'[id].fate \in {asked[id].fate, "answered"}
              /\ asked'[id].fate # asked[id].fate => id = e.id
    BY <2>1, <2>3 DEF TakeAnswer, ToldIInv, WiresOK, AskedOK
  <2>5. AskedOK'
    BY <1>2, <2>4 DEF ToldIInv, WiresOK, AskedOK
  <2>6. WaitingOK(toServer, asked, DOMAIN ops)'
    <3>1. WaitingOK(toServer, asked', DOMAIN ops)
      BY <2>4 DEF ToldIInv, WiresOK, WaitingOK
    <3> QED
      BY <1>2, <2>3, <3>1
  <2>7. /\ client'.newest = client.newest
        /\ client'.peer = "ready" =>
              \/ client.peer = "ready"
              \/ asked[e.id].fate = "waiting" /\ asked[e.id].ask.what = "initialize"
        /\ client'.peer \in {client.peer, "ready"}
        /\ \/ client'.seen = client.seen
           \/ /\ asked[e.id].ask.what = "list" /\ asked'[e.id].fate = "answered"
              /\ client'.seen = [client.seen EXCEPT ![asked[e.id].ask.area] =
                                                       [from |-> e.id, value |-> e.value]]
    BY <1>1, <2>1, <2>3 DEF TakeAnswer, ToldIInv, WiresOK, AskedOK
  <2>11. FatesOK'
    <3>1. \A id \in DOMAIN asked : asked'[id].fate = "answered" => id \in DOMAIN ops
      BY <2>2, <2>4 DEF ToldIInv, WiresOK, FatesOK, Over
    <3>2. client.peer # "off" => client'.peer # "off"
      BY <2>7
    <3>3. DOMAIN ops \subseteq DOMAIN asked
      BY DEF ToldIInv, WiresOK, AskedOK
    <3> QED
      BY <1>2, <2>4, <3>1, <3>2, <3>3 DEF ToldIInv, WiresOK, FatesOK
  <2>8. ReadyOK'
    <3>1. client'.peer = "ready" => server.ready
      BY <2>2, <2>3, <2>7 DEF ToldIInv, WiresOK, ReadyOK, Over
    <3> QED
      BY <1>2, <2>3, <2>4, <3>1 DEF ToldIInv, WiresOK, ReadyOK, AskedOK
  <2>9. SeenOK'
    <3>1. DOMAIN client'.seen = Lists
      BY <2>7 DEF ToldIInv, WiresOK, SeenOK
    <3>2. ASSUME NEW l \in Lists
          PROVE  \/ client'.seen[l] = client.seen[l]
                 \/ /\ AsksFor(asked[e.id].ask, l) /\ asked'[e.id].fate = "answered"
                    /\ client'.seen[l] = [from |-> e.id, value |-> e.value]
      BY <2>7 DEF AsksFor, ToldIInv, WiresOK, SeenOK
    <3>3. ASSUME NEW l \in Lists, client'.seen[l].from # 0
          PROVE  /\ Over(client'.seen[l].from)
                 /\ AsksFor(ops[client'.seen[l].from].ask, l)
                 /\ client'.seen[l].value = ops[client'.seen[l].from].value
                 /\ asked'[client'.seen[l].from].fate = "answered"
      <4>1. CASE client'.seen[l] = client.seen[l]
        <5>1. client.seen[l].from \in DOMAIN asked
          BY <3>3, <4>1 DEF ToldIInv, WiresOK, SeenOK, AskedOK, Over
        <5> QED
          BY <2>4, <3>3, <4>1, <5>1 DEF ToldIInv, WiresOK, SeenOK
      <4>2. CASE /\ AsksFor(asked[e.id].ask, l) /\ asked'[e.id].fate = "answered"
                 /\ client'.seen[l] = [from |-> e.id, value |-> e.value]
        <5>1. client'.seen[l].from = e.id /\ client'.seen[l].value = e.value
          BY <4>2
        <5> QED
          BY <2>2, <2>3, <4>2, <5>1
      <4> QED
        BY <3>2, <4>1, <4>2
    <3>4. ASSUME NEW l \in Lists, client.newest[l] # 0
          PROVE  client.newest[l] \in DOMAIN asked /\ AsksFor(asked'[client.newest[l]].ask, l)
      BY <2>4, <3>4 DEF ToldIInv, WiresOK, SeenOK
    <3>5. client.newest \in [Lists -> Nat]
      BY DEF ToldIInv, WiresOK, SeenOK
    <3> QED
      BY <1>2, <2>4, <2>7, <3>1, <3>3, <3>4, <3>5 DEF SeenOK, Over
  <2>10. NewestIsFresh'
    <3>1. \A l \in Lists : Announced(l) => Announced(l)'
      <4>1. \A l : Note(l) # e
        BY <1>8 DEF Note
      <4> QED
        BY <1>2, <1>5, <4>1 DEF Announced, Due, Note
    <3>2. ASSUME NEW l \in Lists, Newest(l)' PROVE Newest(l)
      BY <1>2, <2>4, <2>7, <3>2 DEF Newest, ToldIInv, WiresOK, AskedOK
    <3> QED
      BY <1>2, <1>7, <2>7, <3>1, <3>2 DEF ToldIInv, NewestIsFresh, Expected
  <2> QED
    BY <1>6, <2>5, <2>6, <2>8, <2>9, <2>10, <2>11 DEF ToldIInv, WiresOK
<1>9. CASE e.kind = "note"
  <2>1. TakeNote(e)
    BY <1>9 DEF ClientReceives
  <2>2. UNCHANGED <<asked, toServer>>
    BY <2>1 DEF TakeNote
  <2>3. /\ client'.peer = client.peer
        /\ client'.newest \in [Lists -> Nat] /\ DOMAIN client'.seen = Lists
        /\ \A l \in Lists :
              \/ client'.newest[l] = client.newest[l] /\ client'.seen[l] = client.seen[l]
                 /\ e # Note(l)
              \/ client'.newest[l] = 0 /\ client'.seen[l].from = 0
    <3>1. CASE e.area \in Lists
      <4>1. /\ client'.peer = client.peer
            /\ client'.newest = [client.newest EXCEPT ![e.area] = 0]
            /\ client'.seen = [client.seen EXCEPT ![e.area] = Unknown]
        BY <1>1, <2>1, <3>1 DEF TakeNote
      <4>2. client.newest \in [Lists -> Nat] /\ DOMAIN client.seen = Lists /\ Unknown.from = 0
        BY DEF ToldIInv, WiresOK, SeenOK, Unknown
      <4>3. \A l \in Lists : l # e.area => e # Note(l)
        BY DEF Note
      <4>4. ASSUME NEW l \in Lists, l = e.area
            PROVE  client'.newest[l] = 0 /\ client'.seen[l].from = 0
        BY <4>1, <4>2, <4>4
      <4>5. ASSUME NEW l \in Lists, l # e.area
            PROVE  client'.newest[l] = client.newest[l] /\ client'.seen[l] = client.seen[l]
        BY <4>1, <4>2, <4>5
      <4>6. client'.newest \in [Lists -> Nat] /\ DOMAIN client'.seen = Lists
        <5> DEFINE n == [client.newest EXCEPT ![e.area] = 0]
        <5>1. n \in [Lists -> Nat]
          BY <4>2
        <5>2. DOMAIN client'.seen = Lists
          BY <4>1, <4>2
        <5> HIDE DEF n
        <5>3. client'.newest = n
          BY <4>1 DEF n
        <5> QED
          BY <5>1, <5>2, <5>3
      <4> QED
        BY <4>1, <4>3, <4>4, <4>5, <4>6
    <3>2. CASE e.area \notin Lists
      <4>1. UNCHANGED client /\ \A l \in Lists : e # Note(l)
        BY <2>1, <3>2 DEF TakeNote, Note
      <4> QED
        BY <4>1 DEF ToldIInv, WiresOK, SeenOK
    <3> QED
      BY <3>1, <3>2
  <2>4. AskedOK' /\ WaitingOK(toServer, asked, DOMAIN ops)' /\ ReadyOK' /\ FatesOK'
    BY <1>2, <2>2, <2>3 DEF ToldIInv, WiresOK, AskedOK, ReadyOK, FatesOK
  <2>5. SeenOK'
    BY <1>2, <2>2, <2>3 DEF ToldIInv, WiresOK, SeenOK, Over
  <2>6. NewestIsFresh'
    <3> SUFFICES ASSUME NEW l \in Lists, client'.newest[l] \in DOMAIN ops,
                        ops[client'.newest[l]].epoch = spent.epoch,
                        asked[client'.newest[l]].fate # "lost"
                 PROVE  Expected(l, ops[client'.newest[l]]) = Listing(l) \/ Announced(l)'
      BY <1>2, <1>7, <2>2 DEF NewestIsFresh, Newest, Expected
    <3>1. client'.newest[l] # 0
      BY DEF ToldIInv, WiresOK, AskedOK
    <3>2. client'.newest[l] = client.newest[l] /\ e # Note(l)
      BY <2>3, <3>1
    <3>3. Announced(l) => Announced(l)'
      BY <1>2, <1>5, <3>2 DEF Announced, Due, Note
    <3> QED
      BY <3>2, <3>3 DEF ToldIInv, NewestIsFresh, Newest
  <2> QED
    BY <1>6, <2>4, <2>5, <2>6 DEF ToldIInv, WiresOK
<1>10. CASE e.kind = "request"
  <2>1. UNCHANGED <<asked, client>>
    BY <1>10 DEF ClientReceives, TakeCall
  <2>2. \E m : m.kind # "request" /\ Longer(toServer', toServer, m)
    <3>1. TakeCall(e)
      BY <1>10 DEF ClientReceives
    <3>2. UNCHANGED toServer \/ Refuse(e.id)
      <4>1. e.ask \in Features
        BY <1>3, <1>10 DEF ShapeIInv, FromServer, Features
      <4>2. CASE e.ask = "roots"
        BY <3>1, <4>2 DEF TakeCall
      <4>3. CASE e.ask = "elicitation"
        BY <3>1, <4>3 DEF TakeCall
      <4>4. CASE e.ask = "sampling"
        BY <3>1, <4>4 DEF TakeCall
      <4> QED
        BY <4>1, <4>2, <4>3, <4>4 DEF Features
    <3>3. AnswerTo(e.id, "error").kind # "request"
      BY DEF AnswerTo
    <3>4. Refuse(e.id) => Longer(toServer', toServer, AnswerTo(e.id, "error"))
      BY DEF Refuse, Send, Longer
    <3> QED
      BY <3>2, <3>3, <3>4 DEF Longer
  <2>3. PICK m : m.kind # "request" /\ Longer(toServer', toServer, m)
    BY <2>2
  <2>4. AskedOK' /\ SeenOK' /\ FatesOK'
    BY <1>2, <2>1 DEF ToldIInv, WiresOK, AskedOK, SeenOK, FatesOK, Over
  <2>5. WaitingOK(toServer, asked, DOMAIN ops)'
    <3>1. WaitingOK(toServer, asked, DOMAIN ops)
      BY DEF ToldIInv, WiresOK
    <3>2. WaitingOK(Append(toServer, m), asked, DOMAIN ops)
      BY <1>1, <2>3, <3>1, WaitingPlain
    <3>3. WaitingOK(toServer', asked, DOMAIN ops)
      BY <2>3, <3>1, <3>2 DEF Longer
    <3> QED
      BY <1>2, <2>1, <3>3
  <2>6. ReadyOK'
    <3>1. \A k \in 1..Len(toServer') :
              (k \in 1..Len(toServer) /\ toServer'[k] = toServer[k]) \/ toServer'[k] = m
      BY <1>1, <2>3, AppendEach DEF Longer
    <3> QED
      BY <1>2, <2>1, <2>3, <3>1 DEF ToldIInv, WiresOK, ReadyOK
  <2>7. NewestIsFresh'
    <3>1. \A l \in Lists : Announced(l) => Announced(l)'
      <4>1. \A l : Note(l) # e
        BY <1>10 DEF Note
      <4> QED
        BY <1>2, <1>5, <4>1 DEF Announced, Due, Note
    <3> QED
      BY <1>2, <1>7, <2>1, <3>1 DEF ToldIInv, NewestIsFresh, Newest, Expected
  <2> QED
    BY <1>6, <2>4, <2>5, <2>6, <2>7 DEF ToldIInv, WiresOK
<1> QED
  BY <1>4, <1>8, <1>9, <1>10

\* A request is taken or answered: one operation is new or goes on.
Served(id, o) ==
    /\ server'.open = server.open /\ (server.ready => server'.ready)
    /\ server'.ready => server.open
    /\ \/ server'.posted = server.posted
       \/ ~o.open /\ server'.posted = Append(server.posted, Reply(id))
OneOp(id, o) ==
    /\ UNCHANGED <<asked, client, toClient, spent, tools>>
    /\ prov'.registered = prov.registered /\ prov'.alive = prov.alive
    /\ prov'.holds = prov.holds
    /\ ops' = With(ops, id, o) /\ id \in DOMAIN asked /\ o.ask = asked[id].ask
    /\ o.epoch \in Nat /\ o.epoch <= spent.epoch
    /\ AsksFor(o.ask, "tools") => ~o.open
    /\ Served(id, o)
    /\ IF id \in DOMAIN ops
       THEN /\ ops[id].open /\ o.epoch = ops[id].epoch
            /\ o.ask.what = "list" => o.offered = ops[id].offered
       ELSE /\ o.ask.what = "initialize" => server'.ready
            /\ o.ask.what = "list" =>
                  server.ready /\ Expected(o.ask.area, o) = Listing(o.ask.area)

LEMMA OneOpTold ==
    ASSUME ShapeIInv, ToldIInv, NEW id, NEW o, OneOp(id, o),
           WaitingOK(toServer', asked, DOMAIN ops \cup {id}),
           \A k \in 1..Len(toServer') : \E j \in 1..Len(toServer) : toServer'[k] = toServer[j]
    PROVE  ToldIInv'
<1>1. /\ DOMAIN ops' = DOMAIN ops \cup {id} /\ ops'[id] = o
      /\ \A x \in DOMAIN ops : x # id => ops'[x] = ops[x]
  BY DEF With, OneOp
<1>2. \A x : Over(x) => x # id /\ Over(x)' /\ ops'[x] = ops[x]
  BY <1>1 DEF Over, OneOp
<1>3. AskedOK'
  <2>1. \A x \in DOMAIN ops' :
          /\ ops'[x].ask = asked[x].ask
          /\ ops'[x].epoch \in Nat /\ ops'[x].epoch <= spent.epoch
          /\ ops'[x].ask.what = "list" /\ ops'[x].ask.area = "tools" => ~ops'[x].open
    BY <1>1 DEF ToldIInv, WiresOK, AskedOK, OneOp, AsksFor
  <2>2. DOMAIN ops' \subseteq DOMAIN asked
    BY <1>1 DEF ToldIInv, WiresOK, AskedOK, OneOp
  <2> QED
    BY <2>1, <2>2 DEF ToldIInv, WiresOK, AskedOK, OneOp
<1>4. WaitingOK(toServer, asked, DOMAIN ops)'
  BY <1>1 DEF OneOp
<1>5. PostedOK'
  <2>1. IsSeq(server.posted)
    BY DEF ToldIInv, WiresOK, PostedOK
  <2>2. CASE server'.posted = server.posted
    BY <1>2, <2>2 DEF ToldIInv, WiresOK, PostedOK
  <2>3. CASE ~o.open /\ server'.posted = Append(server.posted, Reply(id))
    <3>1. /\ IsSeq(server'.posted)
          /\ \A k \in 1..Len(server'.posted) :
                \/ k \in 1..Len(server.posted) /\ server'.posted[k] = server.posted[k]
                \/ server'.posted[k] = Reply(id)
      BY <2>1, <2>3, AppendIsSeq, AppendEach
    <3>2. Over(id)' /\ Reply(id).event = "reply" /\ Reply(id).id = id
      BY <1>1, <2>3 DEF Over, Reply
    <3> QED
      BY <1>2, <3>1, <3>2 DEF ToldIInv, WiresOK, PostedOK
  <2> QED
    BY <2>2, <2>3 DEF OneOp, Served
<1>6. AnswersOK'
  BY <1>2 DEF ToldIInv, WiresOK, AnswersOK, OneOp
<1>7. ReadyOK'
  <2>1. \A x \in DOMAIN ops : server.ready => server'.ready
    BY DEF OneOp, Served
  <2>2. ASSUME NEW x \in DOMAIN ops',
               \/ ops'[x].ask.what = "initialize" /\ asked[x].fate = "waiting"
               \/ ops'[x].ask.what = "list" /\ ops'[x].epoch = spent.epoch
        PROVE  server'.ready
    <3>1. CASE x # id
      BY <1>1, <2>2, <3>1 DEF ToldIInv, WiresOK, ReadyOK, OneOp, Served
    <3>2. CASE x = id /\ id \notin DOMAIN ops
      BY <1>1, <2>2, <3>2 DEF OneOp, Served
    <3>3. CASE x = id /\ id \in DOMAIN ops
      <4>1. ops[id].ask = o.ask /\ ops[id].epoch = o.epoch
        BY <3>3 DEF ToldIInv, WiresOK, AskedOK, OneOp
      <4> QED
        BY <1>1, <2>2, <3>3, <4>1 DEF ToldIInv, WiresOK, ReadyOK, OneOp, Served
    <3> QED
      BY <3>1, <3>2, <3>3
  <2>3. ASSUME NEW k \in 1..Len(toServer'), toServer'[k].kind = "request",
               toServer'[k].ask.what = "list"
        PROVE  server'.ready
    BY <2>3 DEF ToldIInv, WiresOK, ReadyOK, OneOp, Served
  <2>4. (server'.ready => server'.open) /\ (client.peer = "ready" => server'.ready)
    BY DEF ToldIInv, WiresOK, ReadyOK, OneOp, Served
  <2> QED
    BY <2>2, <2>3, <2>4 DEF ReadyOK, OneOp
<1>8. SeenOK' /\ FatesOK'
  <2>1. SeenOK'
    BY <1>2 DEF ToldIInv, WiresOK, SeenOK, OneOp
  <2>2. \A x \in DOMAIN asked : asked[x].fate = "answered" => x \in DOMAIN ops'
    BY <1>1 DEF ToldIInv, WiresOK, FatesOK
  <2>3. ASSUME NEW x \in DOMAIN ops', ops'[x].ask.what = "list",
               ops'[x].epoch = spent.epoch, asked[x].fate # "lost"
        PROVE  client.peer # "off"
    <3>1. CASE x \in DOMAIN ops
      <4>1. ops'[x].ask = ops[x].ask /\ ops'[x].epoch = ops[x].epoch
        BY <1>1, <3>1 DEF OneOp, ToldIInv, WiresOK, AskedOK
      <4> QED
        BY <2>3, <3>1, <4>1 DEF ToldIInv, WiresOK, FatesOK
    <3>2. CASE x \notin DOMAIN ops
      BY <1>1, <2>3, <3>2 DEF OneOp, ToldIInv, WiresOK, FatesOK
    <3> QED
      BY <3>1, <3>2
  <2> QED
    BY <2>1, <2>2, <2>3 DEF ToldIInv, WiresOK, FatesOK, OneOp
<1>9. AreasOK'
  BY DEF ToldIInv, WiresOK, AreasOK, OneOp
<1>10. \A l : Listing(l)' = Listing(l)
  <2>1. UNCHANGED tools /\ \A l : Asking(l)' = Asking(l) /\ prov'.holds = prov.holds
    BY DEF OneOp, Asking
  <2> QED
    BY <2>1 DEF Listing, ToolsListed, collectTools, inRegistry
<1>11. \A l : Announced(l) => Announced(l)'
  <2>1. \A x \in Range(server.posted) : x \in Range(server'.posted)
    <3>1. IsSeq(server.posted)
      BY DEF ToldIInv, WiresOK, PostedOK
    <3>2. \A x : x \in Range(server.posted) => x \in Range(Append(server.posted, Reply(id)))
      BY <3>1, AppendRange
    <3> QED
      BY <3>2 DEF OneOp, Served
  <2> QED
    BY <2>1 DEF Announced, Due, Note, OneOp
<1>12. NewestIsFresh'
  <2> SUFFICES ASSUME NEW l \in Lists, client.newest[l] \in DOMAIN ops',
                      ops'[client.newest[l]].epoch = spent.epoch,
                      asked[client.newest[l]].fate # "lost"
               PROVE  Expected(l, ops'[client.newest[l]]) = Listing(l) \/ Announced(l)'
    BY <1>10 DEF NewestIsFresh, Newest, Expected, OneOp
  <2> DEFINE n == client.newest[l]
  <2>1. CASE n # id
    BY <1>1, <1>11, <2>1 DEF ToldIInv, NewestIsFresh, Newest
  <2>2. CASE n = id
    <3>1. n # 0
      BY <1>1 DEF ToldIInv, WiresOK, AskedOK, OneOp
    <3>2. AsksFor(o.ask, l)
      BY <2>2, <3>1 DEF ToldIInv, WiresOK, SeenOK, OneOp
    <3>3. CASE id \notin DOMAIN ops
      BY <1>1, <2>2, <3>2, <3>3 DEF OneOp, AsksFor
    <3>4. CASE id \in DOMAIN ops
      <4>1. /\ ops[id].open /\ o.epoch = ops[id].epoch /\ ops[id].ask = o.ask
            /\ o.offered = ops[id].offered
        BY <3>2, <3>4 DEF ToldIInv, WiresOK, AskedOK, OneOp, AsksFor
      <4>2. l # "tools"
        BY <3>2, <3>4, <4>1 DEF ToldIInv, WiresOK, AskedOK, AsksFor
      <4>3. Expected(l, o) = Expected(l, ops[id])
        BY <4>1, <4>2 DEF Expected
      <4> QED
        BY <1>1, <1>11, <2>2, <3>4, <4>1, <4>3 DEF ToldIInv, NewestIsFresh, Newest
    <3> QED
      BY <3>3, <3>4
  <2> QED
    BY <2>1, <2>2
<1> QED
  BY <1>3, <1>4, <1>5, <1>6, <1>7, <1>8, <1>9, <1>12 DEF ToldIInv, WiresOK

\* A new operation, and one that is closed with an answer, of this epoch.
Made(id, ask, o) ==
    /\ ops' = With(ops, id, o) /\ o.ask = ask /\ o.epoch = spent.epoch
    /\ AsksFor(ask, "tools") => ~o.open
    /\ ask.what = "list" => Expected(ask.area, o) = Listing(ask.area)
    /\ ask.what = "initialize" => server'.ready
    /\ Served(id, o)

LEMMA ClosesOp ==
    ASSUME ShapeIInv, NEW id, NEW op, DOMAIN op = OpFields, NEW value,
           Close(id, op, value)
    PROVE  \E o : /\ ops' = With(ops, id, o) /\ o.ask = op.ask /\ o.epoch = op.epoch
                  /\ o.offered = op.offered /\ o.value = value /\ ~o.open
                  /\ server'.open = server.open /\ server'.ready = server.ready
                  /\ server'.posted = Append(server.posted, Reply(id))
<1>1. ops' = With(ops, id, Ended(op, value))
  BY DEF Close, Closed, Ended
<1>2. /\ server'.open = server.open /\ server'.ready = server.ready
      /\ server'.posted = Append(server.posted, Reply(id))
  BY DEF Close, Post, ShapeIInv
<1> DEFINE o == Ended(op, value)
<1>3. /\ o.ask = op.ask /\ o.epoch = op.epoch
      /\ o.offered = op.offered /\ o.value = value /\ ~o.open
  BY DEF Ended, OpFields
<1>4. ops' = With(ops, id, o)
  BY <1>1
<1> HIDE DEF o
<1> QED
  BY <1>2, <1>3, <1>4

\* The next provider that is asked is asked for something of its own.
LEMMA AdvanceServed ==
    ASSUME ShapeIInv, NEW id, NEW op, DOMAIN op = OpFields, op.ask.what = "read",
           tryEachAdvance(id, op)
    PROVE  \E o : /\ ops' = With(ops, id, o) /\ o.ask = op.ask /\ o.epoch = op.epoch
                  /\ server'.open = server.open /\ server'.ready = server.ready
                  /\ \/ server'.posted = server.posted
                     \/ ~o.open /\ server'.posted = Append(server.posted, Reply(id))
<1>1. ASSUME NEW value, Close(id, op, value)
      PROVE  \E o : /\ ops' = With(ops, id, o) /\ o.ask = op.ask /\ o.epoch = op.epoch
                    /\ server'.open = server.open /\ server'.ready = server.ready
                    /\ ~o.open /\ server'.posted = Append(server.posted, Reply(id))
  BY <1>1, ClosesOp
<1>2. ASSUME NEW n, NEW left, NEW offered,
             Take(id, [op EXCEPT !.at = n, !.left = left, !.offered = offered])
      PROVE  \E o : /\ ops' = With(ops, id, o) /\ o.ask = op.ask /\ o.epoch = op.epoch
                    /\ UNCHANGED server
  <2> DEFINE o == [op EXCEPT !.at = n, !.left = left, !.offered = offered]
  <2>1. ops' = With(ops, id, o) /\ UNCHANGED server
    BY <1>2 DEF Take
  <2>2. o.ask = op.ask /\ o.epoch = op.epoch
    BY DEF OpFields
  <2> QED
    BY <2>1, <2>2
<1> QED
  BY <1>1, <1>2 DEF tryEachAdvance

LEMMA HandledTold ==
    ASSUME ShapeIInv, ToldIInv, AnswersIInv, NEW id, NEW ask,
           ask \in Asks \/ ask.what = "initialize", HandleRequest(id, ask), server.open
    PROVE  \E o : Made(id, ask, o)
<1> DEFINE new == Op(ask, << >>)
<1>1. /\ DOMAIN new = OpFields /\ new.ask = ask /\ new.epoch = spent.epoch
      /\ new.offered = << >>
  BY OpIsNew DEF Op
<1>2. server.ready => server.open
  BY DEF ToldIInv, WiresOK, ReadyOK
<1>3. ASSUME NEW value, Close(id, new, value), ask.what # "initialize",
             ask.what = "list" => ask.area = "tools" /\ value = ToolsListed
      PROVE  \E o : Made(id, ask, o)
  <2> HIDE DEF new
  <2>1. PICK o : /\ ops' = With(ops, id, o) /\ o.ask = new.ask /\ o.epoch = new.epoch
                 /\ o.offered = new.offered /\ o.value = value /\ ~o.open
                 /\ server'.open = server.open /\ server'.ready = server.ready
                 /\ server'.posted = Append(server.posted, Reply(id))
    BY <1>1, <1>3, ClosesOp
  <2>2. Served(id, o)
    BY <1>1, <1>2, <1>3, <2>1 DEF Served
  <2>3. ask.what = "list" => Expected(ask.area, o) = Listing(ask.area)
    BY <1>3, <2>1 DEF Expected, Listing
  <2>4. Made(id, ask, o)
    BY <1>1, <1>3, <2>1, <2>2, <2>3 DEF Made
  <2> QED
    BY <2>4
<1>4. CASE ask.what = "initialize"
  <2> DEFINE o == Ended(new, "done")
  <2>1. /\ server' = [Post(server, Reply(id)) EXCEPT !.ready = TRUE, !.caps = ask.arg]
        /\ Closed(id, new, "done")
    BY <1>4 DEF HandleRequest
  <2>2. ops' = With(ops, id, o)
    BY <2>1 DEF Closed, Ended
  <2> HIDE DEF new
  <2>3. o.ask = ask /\ o.epoch = spent.epoch /\ ~o.open
    BY <1>1 DEF Ended, OpFields
  <2> HIDE DEF o
  <2>4. /\ server'.open = server.open /\ server'.ready
        /\ server'.posted = Append(server.posted, Reply(id))
    BY <2>1 DEF Post, ShapeIInv
  <2>5. Served(id, o)
    BY <2>3, <2>4 DEF Served
  <2>6. Made(id, ask, o)
    BY <1>4, <2>2, <2>3, <2>4, <2>5 DEF Made
  <2> QED
    BY <2>6
<1>5. CASE ask.what = "level"
  <2> DEFINE o == Ended(new, "done")
  <2>1. /\ server' = [Post(server, Reply(id)) EXCEPT !.level = ask.arg]
        /\ Closed(id, new, "done")
    BY <1>5 DEF HandleRequest
  <2>2. ops' = With(ops, id, o)
    BY <2>1 DEF Closed, Ended
  <2> HIDE DEF new
  <2>3. o.ask = ask /\ o.epoch = spent.epoch /\ ~o.open
    BY <1>1 DEF Ended, OpFields
  <2> HIDE DEF o
  <2>4. /\ server'.open = server.open /\ server'.ready = server.ready
        /\ server'.posted = Append(server.posted, Reply(id))
    BY <2>1 DEF Post, ShapeIInv
  <2>5. Served(id, o)
    BY <1>2, <1>5, <2>3, <2>4 DEF Served
  <2>6. Made(id, ask, o)
    BY <1>5, <2>2, <2>3, <2>5 DEF Made
  <2> QED
    BY <2>6
<1>6. CASE ask.what = "list" /\ ask.area = "tools"
  <2>1. Close(id, new, ToolsListed)
    BY <1>6 DEF HandleRequest, Areas
  <2> QED
    BY <1>3, <1>6, <2>1
<1>7. ASSUME ask.what \in {"call", "complete", "read"}, NEW o,
             ops' = With(ops, id, o), o.ask = ask, o.epoch = spent.epoch,
             server'.open = server.open, server'.ready = server.ready,
             \/ server'.posted = server.posted
             \/ ~o.open /\ server'.posted = Append(server.posted, Reply(id))
      PROVE  \E x : Made(id, ask, x)
  <2>1. Served(id, o)
    BY <1>2, <1>7 DEF Served
  <2>2. Made(id, ask, o)
    BY <1>7, <2>1 DEF Made, AsksFor
  <2> QED
    BY <2>2
<1>8. CASE ask.what = "call"
  <2>1. toolsCall(id, ask)
    BY <1>8 DEF HandleRequest
  <2>2. ASSUME NEW tool, Take(id, [new EXCEPT !.tool = tool])
        PROVE  \E o : Made(id, ask, o)
    <3> DEFINE o == [new EXCEPT !.tool = tool]
    <3>1. ops' = With(ops, id, o) /\ UNCHANGED server
      BY <2>2 DEF Take
    <3> HIDE DEF new
    <3>2. o.ask = ask /\ o.epoch = spent.epoch
      BY <1>1 DEF OpFields
    <3> HIDE DEF o
    <3> QED
      BY <1>7, <1>8, <3>1, <3>2
  <2> QED
    BY <1>3, <1>8, <2>1, <2>2 DEF toolsCall
<1>9. CASE Gathers(ask)
  <2>1. collectListFromProviders(id, ask)
    BY <1>9 DEF HandleRequest, Gathers, Areas
  <2> DEFINE asking == Asking(ask.area)
             offered == [p \in asking |-> prov.holds[p]]
             op == [new EXCEPT !.left = asking, !.value = {}, !.offered = offered]
  <2>2. IF asking = {} THEN Close(id, op, {}) ELSE Take(id, op)
    <3>1. offered = [p \in asking |-> prov.holds[p]]
      OBVIOUS
    <3> QED
      BY <2>1 DEF collectListFromProviders
  <2>3. ask.what = "list" => Offer(offered) = Listing(ask.area) /\ ask.area # "tools"
    BY <1>9 DEF Listing, Gathers, Areas
  <2> HIDE DEF offered, asking, new
  <2>4. DOMAIN op = OpFields /\ op.ask = ask /\ op.epoch = spent.epoch /\ op.offered = offered
    BY <1>1 DEF OpFields
  <2> HIDE DEF op
  <2>5. \E o : /\ ops' = With(ops, id, o) /\ o.ask = ask /\ o.epoch = spent.epoch
               /\ o.offered = offered
               /\ server'.open = server.open /\ server'.ready = server.ready
               /\ \/ server'.posted = server.posted
                  \/ ~o.open /\ server'.posted = Append(server.posted, Reply(id))
    <3>1. ASSUME NEW value, Close(id, op, value)
          PROVE  \E o : /\ ops' = With(ops, id, o) /\ o.ask = op.ask /\ o.epoch = op.epoch
                        /\ o.offered = op.offered /\ ~o.open
                        /\ server'.open = server.open /\ server'.ready = server.ready
                        /\ server'.posted = Append(server.posted, Reply(id))
      BY <2>4, <3>1, ClosesOp
    <3>2. CASE Take(id, op)
      BY <2>4, <3>2 DEF Take
    <3> QED
      BY <2>2, <2>4, <3>1, <3>2
  <2>6. PICK o : /\ ops' = With(ops, id, o) /\ o.ask = ask /\ o.epoch = spent.epoch
                 /\ o.offered = offered
                 /\ server'.open = server.open /\ server'.ready = server.ready
                 /\ \/ server'.posted = server.posted
                    \/ ~o.open /\ server'.posted = Append(server.posted, Reply(id))
    BY <2>5
  <2>7. Served(id, o)
    BY <1>2, <1>9, <2>6 DEF Served, Gathers
  <2>8. Made(id, ask, o)
    BY <1>9, <2>3, <2>6, <2>7 DEF Made, AsksFor, Gathers, Areas, Expected
  <2> QED
    BY <2>8
<1>10. CASE ask.what = "read"
  <2>1. tryEachProvider(id, ask)
    BY <1>10 DEF HandleRequest
  <2>2. ASSUME NEW queue, tryEachAdvance(id, Op(ask, queue)) PROVE \E o : Made(id, ask, o)
    <3> DEFINE op == Op(ask, queue)
    <3>1. DOMAIN op = OpFields /\ op.ask = ask /\ op.epoch = spent.epoch
      BY OpIsNew DEF Op
    <3>2. tryEachAdvance(id, op)
      BY <2>2
    <3> HIDE DEF op
    <3>3. PICK o : /\ ops' = With(ops, id, o) /\ o.ask = op.ask /\ o.epoch = op.epoch
                   /\ server'.open = server.open /\ server'.ready = server.ready
                   /\ \/ server'.posted = server.posted
                      \/ ~o.open /\ server'.posted = Append(server.posted, Reply(id))
      BY <1>10, <3>1, <3>2, AdvanceServed
    <3> QED
      BY <1>7, <1>10, <3>1, <3>3
  <2> QED
    BY <1>3, <1>10, <2>1, <2>2 DEF tryEachProvider
<1>11. CASE ask.what \in {"subscribe", "unsubscribe"}
  <2>1. Close(id, new, "done")
    BY <1>11 DEF HandleRequest
  <2> QED
    BY <1>3, <1>11, <2>1
<1>12. ask \in Asks =>
        \/ ask.what \in {"call", "level", "read", "subscribe", "unsubscribe"}
        \/ ask.what = "list" /\ ask.area = "tools"
        \/ Gathers(ask)
  BY DEF Asks, Lists, Gathers, Areas
<1> QED
  BY <1>4, <1>5, <1>6, <1>8, <1>9, <1>10, <1>11, <1>12

\* Subscriptions change only what is watched.
LEMMA ProvidersKept ==
    ASSUME ProvidersOK, NEW id, NEW ask, HandleRequest(id, ask)
    PROVE  /\ prov'.registered = prov.registered /\ prov'.alive = prov.alive
           /\ prov'.holds = prov.holds
<1>1. UNCHANGED prov \/ \E x : prov' = [prov EXCEPT !.watched = x]
  BY DEF HandleRequest, Watch
<1> QED
  BY <1>1 DEF ProvidersOK

LEMMA ServerTold ==
    ASSUME ShapeIInv, AnswersIInv, ToldIInv, ServerReceives
    PROVE  ToldIInv'
<1> DEFINE e == Head(toServer)
<1>1. /\ IsSeq(toServer) /\ toServer # << >> /\ server.open
      /\ toServer' = Tail(toServer)
      /\ UNCHANGED <<tools, client, asked, toClient, spent>>
  BY DEF ShapeIInv, ServerReceives
<1>2. 1 \in 1..Len(toServer) /\ e = toServer[1]
  BY <1>1, HeadIsFirst
<1>3. \A k \in 1..Len(toServer') : \E j \in 1..Len(toServer) : toServer'[k] = toServer[j]
  BY <1>1, TailEach
<1>4. WaitingOK(toServer, asked, DOMAIN ops)
  BY DEF ToldIInv, WiresOK
<1>5. /\ WaitingOK(toServer', asked, DOMAIN ops)
      /\ e.kind = "request" => WaitingOK(toServer', asked, DOMAIN ops \cup {e.id})
  BY <1>1, <1>4, WaitingTail
<1>6. \/ e.kind \in {"answer", "note"}
      \/ e.kind = "request" /\ (e.ask \in Asks \/ e.ask.what = "initialize")
  BY <1>2 DEF ShapeIInv, FromClient
<1>7. CASE e.kind \in {"answer", "note"}
  <2>1. UNCHANGED <<ops, prov, server>>
    BY <1>7 DEF ServerReceives
  <2>2. AskedOK' /\ PostedOK' /\ AnswersOK' /\ SeenOK' /\ FatesOK' /\ AreasOK'
    BY <1>1, <2>1 DEF ToldIInv, WiresOK, AskedOK, PostedOK, AnswersOK, SeenOK, FatesOK, AreasOK,
                      Over
  <2>3. WaitingOK(toServer, asked, DOMAIN ops)'
    BY <1>1, <1>5, <2>1
  <2>4. ReadyOK'
    BY <1>1, <1>3, <2>1 DEF ToldIInv, WiresOK, ReadyOK
  <2>5. NewestIsFresh'
    <3>1. \A l \in Lists : Listing(l)' = Listing(l)
      BY <1>1, <2>1, ListingKept
    <3>2. \A l : Announced(l)' <=> Announced(l)
      BY <1>1, <2>1 DEF Announced
    <3> QED
      BY <1>1, <2>1, <3>1, <3>2 DEF ToldIInv, NewestIsFresh, Newest, Expected
  <2> QED
    BY <2>2, <2>3, <2>4, <2>5 DEF ToldIInv, WiresOK
<1>8. CASE e.kind = "request" /\ (e.ask \in Asks \/ e.ask.what = "initialize")
  <2>1. HandleRequest(e.id, e.ask)
    BY <1>8 DEF ServerReceives
  <2>2. PICK o : Made(e.id, e.ask, o)
    BY <1>1, <1>8, <2>1, HandledTold
  <2>3. /\ prov'.registered = prov.registered /\ prov'.alive = prov.alive
        /\ prov'.holds = prov.holds
    BY <2>1, ProvidersKept DEF AnswersIInv
  <2>4. e.id \in DOMAIN asked \ DOMAIN ops /\ e.ask = asked[e.id].ask
    BY <1>2, <1>4, <1>8 DEF WaitingOK
  <2>5. e.ask.what = "list" => server.ready
    BY <1>2, <1>8 DEF ToldIInv, WiresOK, ReadyOK
  <2>6. spent.epoch \in Nat /\ spent.epoch <= spent.epoch
    BY DEF ToldIInv, WiresOK, AskedOK
  <2>7. OneOp(e.id, o)
    BY <1>1, <2>2, <2>3, <2>4, <2>5, <2>6 DEF OneOp, Made
  <2> QED
    BY <1>3, <1>5, <1>8, <2>7, OneOpTold
<1> QED
  BY <1>6, <1>7, <1>8

\* A provider's future or a tool's is ready.
LEMMA EndedTold ==
    ASSUME ShapeIInv, AnswersIInv, ToldIInv, NEW id \in DOMAIN ops,
           \/ \E p \in Providers : \E ok : ProviderAnswers(id, p, ok)
           \/ \E result : ToolEnds(id, result)
    PROVE  ToldIInv'
<1> DEFINE op == ops[id]
<1>1. UNCHANGED <<tools, prov, client, asked, toServer, toClient, spent>>
  BY DEF ProviderAnswers, ToolEnds, toolVars
<1>2. OpOK(op, prov.alive) /\ DOMAIN op = OpFields
  BY DEF AnswersIInv, OpOK
<1>3. op.open /\ (op.tool # None => op.ask.what = "call")
  BY <1>2 DEF OpOK, ProviderAnswers, ToolEnds
<1>4. \E o : /\ ops' = With(ops, id, o) /\ o.ask = op.ask /\ o.epoch = op.epoch
             /\ o.ask.what = "list" => o.offered = op.offered
             /\ server'.open = server.open /\ server'.ready = server.ready
             /\ \/ server'.posted = server.posted
                \/ ~o.open /\ server'.posted = Append(server.posted, Reply(id))
  <2>1. ASSUME NEW x, DOMAIN x = OpFields, x.ask = op.ask, x.epoch = op.epoch,
               x.offered = op.offered, NEW value, Close(id, x, value)
        PROVE  \E o : /\ ops' = With(ops, id, o) /\ o.ask = op.ask /\ o.epoch = op.epoch
                      /\ o.offered = op.offered /\ ~o.open
                      /\ server'.open = server.open /\ server'.ready = server.ready
                      /\ server'.posted = Append(server.posted, Reply(id))
    <3>1. PICK o : /\ ops' = With(ops, id, o) /\ o.ask = x.ask /\ o.epoch = x.epoch
                   /\ o.offered = x.offered /\ o.value = value /\ ~o.open
                   /\ server'.open = server.open /\ server'.ready = server.ready
                   /\ server'.posted = Append(server.posted, Reply(id))
      BY <2>1, ClosesOp
    <3> HIDE DEF op
    <3> QED
      BY <2>1, <3>1
  <2>2. ASSUME NEW p \in Providers, NEW ok, op.ask.what # "read", FanIn(id, p, ok)
        PROVE  \E o : /\ ops' = With(ops, id, o) /\ o.ask = op.ask /\ o.epoch = op.epoch
                      /\ o.offered = op.offered
                      /\ server'.open = server.open /\ server'.ready = server.ready
                      /\ \/ server'.posted = server.posted
                         \/ ~o.open /\ server'.posted = Append(server.posted, Reply(id))
    <3> DEFINE merged == IF ok THEN [op EXCEPT !.value = @ \cup OfferOf(p, op.offered[p])]
                         ELSE [op EXCEPT !.failed = @ \cup {p}]
               next == [merged EXCEPT !.left = @ \ {p}]
    <3>1. /\ DOMAIN next = OpFields /\ next.ask = op.ask /\ next.epoch = op.epoch
          /\ next.offered = op.offered
      BY <1>2 DEF OpFields
    <3>2. Close(id, next, next.value) \/ Take(id, next)
      BY <2>2 DEF FanIn
    <3> HIDE DEF next, merged, op
    <3>3. CASE Close(id, next, next.value)
      BY <2>1, <3>1, <3>3
    <3>4. CASE Take(id, next)
      <4>1. ops' = With(ops, id, next) /\ UNCHANGED server
        BY <3>4 DEF Take
      <4> QED
        BY <3>1, <4>1
    <3> QED
      BY <3>2, <3>3, <3>4
  <2>3. ASSUME NEW p \in Providers, NEW ok, op.ask.what = "read", FirstOf(id, p, ok)
        PROVE  \E o : /\ ops' = With(ops, id, o) /\ o.ask = op.ask /\ o.epoch = op.epoch
                      /\ server'.open = server.open /\ server'.ready = server.ready
                      /\ \/ server'.posted = server.posted
                         \/ ~o.open /\ server'.posted = Append(server.posted, Reply(id))
    <3> DEFINE x == [op EXCEPT !.lacking = @ \cup {p}]
    <3>1. Close(id, op, p) \/ tryEachAdvance(id, x)
      BY <2>3 DEF FirstOf
    <3>2. DOMAIN x = OpFields /\ x.ask = op.ask /\ x.epoch = op.epoch
      BY <1>2 DEF OpFields
    <3> HIDE DEF x, op
    <3>3. CASE Close(id, op, p)
      BY <1>2, <2>1, <3>3
    <3>4. CASE tryEachAdvance(id, x)
      BY <2>3, <3>2, <3>4, AdvanceServed
    <3> QED
      BY <3>1, <3>3, <3>4
  <2>4. ASSUME NEW result, ToolEnds(id, result)
        PROVE  \E o : /\ ops' = With(ops, id, o) /\ o.ask = op.ask /\ o.epoch = op.epoch
                      /\ o.offered = op.offered /\ ~o.open
                      /\ server'.open = server.open /\ server'.ready = server.ready
                      /\ server'.posted = Append(server.posted, Reply(id))
    <3>1. Close(id, op, result)
      BY <2>4 DEF ToolEnds
    <3> HIDE DEF op
    <3> QED
      BY <1>2, <2>1, <3>1
  <2>5. CASE \E p \in Providers : \E ok : ProviderAnswers(id, p, ok)
    <3>1. PICK p \in Providers : \E ok : ProviderAnswers(id, p, ok)
      BY <2>5
    <3>2. PICK ok : ProviderAnswers(id, p, ok)
      BY <3>1
    <3>3. IF op.ask.what = "read" THEN FirstOf(id, p, ok) ELSE FanIn(id, p, ok)
      BY <3>2 DEF ProviderAnswers
    <3> HIDE DEF op
    <3>4. CASE op.ask.what = "read" /\ FirstOf(id, p, ok)
      BY <2>3, <3>4
    <3>5. CASE op.ask.what # "read" /\ FanIn(id, p, ok)
      BY <2>2, <3>5
    <3> QED
      BY <3>3, <3>4, <3>5
  <2>6. CASE \E result : ToolEnds(id, result)
    <3> HIDE DEF op
    <3> QED
      BY <2>4, <2>6
  <2> QED
    BY <2>5, <2>6
<1>5. PICK o : /\ ops' = With(ops, id, o) /\ o.ask = op.ask /\ o.epoch = op.epoch
               /\ o.ask.what = "list" => o.offered = op.offered
               /\ server'.open = server.open /\ server'.ready = server.ready
               /\ \/ server'.posted = server.posted
                  \/ ~o.open /\ server'.posted = Append(server.posted, Reply(id))
  BY <1>4
<1>6. /\ id \in DOMAIN asked /\ op.ask = asked[id].ask
      /\ op.epoch \in Nat /\ op.epoch <= spent.epoch
      /\ ~AsksFor(op.ask, "tools")
  BY <1>3 DEF ToldIInv, WiresOK, AskedOK, AsksFor
<1>7. server.ready => server.open
  BY DEF ToldIInv, WiresOK, ReadyOK
<1> HIDE DEF op
<1>8. Served(id, o)
  BY <1>5, <1>7 DEF Served
<1>9. OneOp(id, o)
  <2>1. ops[id].open /\ ops[id].epoch = op.epoch /\ ops[id].offered = op.offered
    BY <1>3 DEF op
  <2>2. ~AsksFor(o.ask, "tools")
    BY <1>5, <1>6
  <2> QED
    BY <1>1, <1>5, <1>6, <1>8, <2>1, <2>2 DEF OneOp
<1>10. WaitingOK(toServer', asked, DOMAIN ops \cup {id})
  <2>1. DOMAIN ops \cup {id} = DOMAIN ops
    OBVIOUS
  <2> QED
    BY <1>1, <2>1 DEF ToldIInv, WiresOK
<1> QED
  BY <1>1, <1>9, <1>10, OneOpTold

\* The client asks for something: the request is on its way and has a number of its own.
LEMMA AskTold ==
    ASSUME ShapeIInv, ToldIInv, NEW ask, Ask(ask), server.open, UNCHANGED <<server, ops>>,
           DOMAIN spent' = DOMAIN spent, spent'.epoch = spent.epoch,
           \/ ask.what = "initialize"
           \/ ask \in Asks /\ client.peer = "ready"
    PROVE  ToldIInv'
<1> DEFINE id == Cardinality(DOMAIN asked) + 1
           made == [ask |-> ask, fate |-> "waiting"]
<1>1. /\ UNCHANGED <<tools, prov, toClient>>
      /\ asked' = With(asked, id, made)
      /\ toServer' = Append(toServer, Question(id, ask))
  BY DEF Ask, ClientOnly, toolVars
<1>2. /\ client'.seen = client.seen
      /\ client'.peer # "off"
      /\ client'.peer = "ready" => client.peer = "ready"
      /\ \/ client'.newest = client.newest
         \/ ask.what = "list" /\ client'.newest = [client.newest EXCEPT ![ask.area] = id]
  BY DEF Ask, ShapeIInv
<1>3. PICK n \in Nat : DOMAIN asked = 1..n
  BY DEF ToldIInv, WiresOK, AskedOK
<1>4. id = n + 1
  <2>1. Cardinality(1..n) = n
    BY <1>3, FS_Interval
  <2> QED
    BY <1>3, <2>1
<1>5. /\ DOMAIN ops \subseteq DOMAIN asked
      /\ id \notin DOMAIN asked /\ id \notin DOMAIN ops /\ id \in Nat /\ id # 0
      /\ DOMAIN asked \cup {id} = 1..n + 1 /\ n + 1 \in Nat
  BY <1>3, <1>4 DEF ToldIInv, WiresOK, AskedOK
<1> HIDE DEF id
<1>6. /\ DOMAIN asked' = DOMAIN asked \cup {id} /\ asked'[id] = made
      /\ \A x \in DOMAIN asked : asked'[x] = asked[x]
  BY <1>1, <1>5 DEF With
<1>7. made.ask = ask /\ made.fate = "waiting" /\ DOMAIN made = {"ask", "fate"}
  OBVIOUS
<1> HIDE DEF made
<1>8. AskedOK'
  <2>1. \E k \in Nat : DOMAIN asked' = 1..k
    BY <1>5, <1>6
  <2>2. \A x \in DOMAIN asked' : DOMAIN asked'[x] = {"ask", "fate"}
    BY <1>6, <1>7 DEF ToldIInv, WiresOK, AskedOK
  <2>3. \A x \in DOMAIN ops : asked'[x] = asked[x]
    BY <1>5, <1>6
  <2>4. DOMAIN ops \subseteq DOMAIN asked'
    BY <1>5, <1>6
  <2> QED
    BY <2>1, <2>2, <2>3, <2>4 DEF ToldIInv, WiresOK, AskedOK
<1>9. WaitingOK(toServer, asked, DOMAIN ops)'
  <2>1. WaitingOK(toServer, asked, DOMAIN ops) /\ IsSeq(toServer)
    BY DEF ToldIInv, WiresOK, ShapeIInv
  <2>2. WaitingOK(Append(toServer, Question(id, ask)), With(asked, id, made), DOMAIN ops)
    BY <1>5, <1>7, <2>1, WaitingAsked
  <2> QED
    BY <1>1, <2>2
<1>10. PostedOK' /\ AnswersOK' /\ AreasOK'
  BY <1>1 DEF ToldIInv, WiresOK, PostedOK, AnswersOK, AreasOK, Over
<1>11. ReadyOK'
  <2>1. \A k \in 1..Len(toServer') :
          (k \in 1..Len(toServer) /\ toServer'[k] = toServer[k]) \/ toServer'[k] = Question(id, ask)
    <3>1. IsSeq(toServer)
      BY DEF ShapeIInv
    <3> QED
      BY <1>1, <3>1, AppendEach
  <2>2. Question(id, ask).ask = ask
    BY DEF Question
  <2>3. ask.what = "list" => server.ready
    BY DEF ToldIInv, WiresOK, ReadyOK
  <2>4. \A k \in 1..Len(toServer') :
          toServer'[k].kind = "request" /\ toServer'[k].ask.what = "list" => server.ready
    BY <2>1, <2>2, <2>3 DEF ToldIInv, WiresOK, ReadyOK
  <2>5. \A x \in DOMAIN ops : asked'[x] = asked[x]
    BY <1>5, <1>6
  <2>6. client'.peer = "ready" => server.ready
    BY <1>2 DEF ToldIInv, WiresOK, ReadyOK
  <2> QED
    BY <2>4, <2>5, <2>6 DEF ToldIInv, WiresOK, ReadyOK
<1>12. ASSUME NEW l \in Lists
       PROVE  \/ client'.newest[l] = client.newest[l]
              \/ client'.newest[l] = id /\ AsksFor(ask, l)
  BY <1>2, <1>12 DEF AsksFor, ToldIInv, WiresOK, SeenOK
<1>13. client'.newest \in [Lists -> Nat]
  <2>1. DOMAIN client'.newest = Lists /\ client.newest \in [Lists -> Nat]
    BY <1>2 DEF ToldIInv, WiresOK, SeenOK
  <2>2. \A l \in Lists : client'.newest[l] \in Nat
    BY <1>5, <1>12, <2>1
  <2>3. client'.newest = client.newest \/ client'.newest = [client.newest EXCEPT ![ask.area] = id]
    BY <1>2
  <2>4. client'.newest = [l \in Lists |-> client'.newest[l]]
    BY <2>1, <2>3
  <2> QED
    BY <2>2, <2>4
<1>14. SeenOK'
  <2>1. DOMAIN client'.seen = Lists
    BY <1>2 DEF ToldIInv, WiresOK, SeenOK
  <2>2. ASSUME NEW l \in Lists, client'.newest[l] # 0
        PROVE  client'.newest[l] \in DOMAIN asked' /\ AsksFor(asked'[client'.newest[l]].ask, l)
    <3>1. CASE client'.newest[l] = id /\ AsksFor(ask, l)
      BY <1>6, <1>7, <3>1
    <3>2. CASE client'.newest[l] = client.newest[l]
      BY <1>6, <2>2, <3>2 DEF ToldIInv, WiresOK, SeenOK
    <3> QED
      BY <1>12, <3>1, <3>2
  <2>3. ASSUME NEW l \in Lists, client'.seen[l].from # 0
        PROVE  /\ Over(client'.seen[l].from)
               /\ AsksFor(ops[client'.seen[l].from].ask, l)
               /\ client'.seen[l].value = ops[client'.seen[l].from].value
               /\ asked'[client'.seen[l].from].fate = "answered"
    BY <1>2, <1>5, <1>6, <2>3 DEF ToldIInv, WiresOK, SeenOK, Over
  <2> QED
    BY <1>13, <2>1, <2>2, <2>3 DEF SeenOK, Over
<1>15. NewestIsFresh'
  <2> SUFFICES ASSUME NEW l \in Lists, client'.newest[l] \in DOMAIN ops,
                      ops[client'.newest[l]].epoch = spent.epoch,
                      asked'[client'.newest[l]].fate # "lost"
               PROVE  Expected(l, ops[client'.newest[l]]) = Listing(l)' \/ Announced(l)'
    BY DEF NewestIsFresh, Newest, Expected
  <2>1. client'.newest[l] = client.newest[l]
    BY <1>5, <1>12
  <2>2. Listing(l)' = Listing(l)
    BY <1>1, ListingKept
  <2>3. Announced(l)' = Announced(l)
    BY <1>1 DEF Announced
  <2> QED
    BY <1>5, <1>6, <2>1, <2>2, <2>3 DEF ToldIInv, NewestIsFresh, Newest
<1>16. FatesOK'
  <2>1. ASSUME NEW x \in DOMAIN asked'
        PROVE  /\ asked'[x].fate \in {"waiting", "answered", "lost"}
               /\ asked'[x].fate = "answered" => x \in DOMAIN ops
    BY <1>6, <1>7 DEF ToldIInv, WiresOK, FatesOK
  <2> QED
    BY <1>2, <2>1 DEF FatesOK
<1> QED
  BY <1>8, <1>9, <1>10, <1>11, <1>14, <1>15, <1>16 DEF ToldIInv, WiresOK

\* Whoever goes loses what it waits for, and what was asked before is of an epoch that is
\* over.
LEMMA LostTold ==
    ASSUME ToldIInv, Lost, UNCHANGED ops,
           DOMAIN spent' = DOMAIN spent, spent'.epoch = spent.epoch + 1
    PROVE  /\ AskedOK' /\ FatesOK' /\ DOMAIN asked' = DOMAIN asked
           /\ \A x \in DOMAIN asked : /\ asked'[x].ask = asked[x].ask
                                      /\ asked'[x].fate # "waiting"
                                      /\ asked[x].fate = "answered" => asked'[x].fate = "answered"
           /\ \A x \in DOMAIN ops : ops[x].epoch # spent'.epoch
<1>1. spent.epoch \in Nat /\ spent'.epoch \in Nat /\ DOMAIN ops \subseteq DOMAIN asked
  BY DEF ToldIInv, WiresOK, AskedOK
<1>2. /\ DOMAIN asked' = DOMAIN asked
      /\ \A x \in DOMAIN asked : /\ asked'[x].ask = asked[x].ask
                                 /\ DOMAIN asked'[x] = {"ask", "fate"}
                                 /\ asked'[x].fate # "waiting"
                                 /\ asked'[x].fate \in {asked[x].fate, "lost"}
                                 /\ asked[x].fate = "answered" => asked'[x].fate = "answered"
  <2>1. asked' = [x \in DOMAIN asked |->
                    IF asked[x].fate = "waiting" THEN [asked[x] EXCEPT !.fate = "lost"]
                    ELSE asked[x]]
    BY DEF Lost
  <2>2. \A x \in DOMAIN asked : DOMAIN asked[x] = {"ask", "fate"}
    BY DEF ToldIInv, WiresOK, AskedOK
  <2> QED
    BY <2>1, <2>2
<1>3. \A x \in DOMAIN ops : ops[x].epoch \in Nat /\ ops[x].epoch <= spent.epoch
  BY DEF ToldIInv, WiresOK, AskedOK
<1>4. \A x \in DOMAIN ops : ops[x].epoch # spent'.epoch /\ ops[x].epoch <= spent'.epoch
  BY <1>1, <1>3
<1>5. AskedOK'
  <2>1. \A x \in DOMAIN ops' :
          /\ ops'[x].ask = asked'[x].ask
          /\ ops'[x].epoch \in Nat /\ ops'[x].epoch <= spent'.epoch
          /\ ops'[x].ask.what = "list" /\ ops'[x].ask.area = "tools" => ~ops'[x].open
    BY <1>1, <1>2, <1>4 DEF ToldIInv, WiresOK, AskedOK
  <2>2. \E n \in Nat : DOMAIN asked' = 1..n
    BY <1>2 DEF ToldIInv, WiresOK, AskedOK
  <2>3. DOMAIN spent' = {"turns", "changes", "epoch"}
    BY DEF ToldIInv, WiresOK, AskedOK
  <2> QED
    BY <1>1, <1>2, <2>1, <2>2, <2>3 DEF AskedOK
<1>6. FatesOK'
  BY <1>1, <1>2, <1>4 DEF ToldIInv, WiresOK, FatesOK
<1> QED
  BY <1>2, <1>4, <1>5, <1>6

\* The server stops: what was on its way is gone, and no list is asked for any more.
LEMMA StopTold ==
    ASSUME ShapeIInv, ToldIInv, Stop
    PROVE  ToldIInv'
<1>1. /\ UNCHANGED <<tools, prov, ops>> /\ toServer' = << >> /\ toClient' = << >>
      /\ server'.posted = server.posted /\ server'.open = FALSE /\ server'.ready = FALSE
      /\ client'.peer = "off" /\ client'.seen = client.seen /\ client'.newest = client.newest
  BY DEF Stop, toolVars, ShapeIInv
<1>2. /\ DOMAIN spent' = DOMAIN spent /\ spent'.epoch = spent.epoch + 1
  BY SpentOne DEF Stop
<1>3. DOMAIN ops \subseteq DOMAIN asked
  BY DEF ToldIInv, WiresOK, AskedOK
<1>4. /\ AskedOK' /\ FatesOK' /\ DOMAIN asked' = DOMAIN asked
      /\ \A x \in DOMAIN asked : /\ asked'[x].ask = asked[x].ask
                                 /\ asked'[x].fate # "waiting"
                                 /\ asked[x].fate = "answered" => asked'[x].fate = "answered"
      /\ \A x \in DOMAIN ops : ops[x].epoch # spent'.epoch
  BY <1>1, <1>2, LostTold DEF Stop
<1>5. Len(<< >>) = 0 /\ 1..0 = {}
  BY EmptyIsSeq
<1>6. WaitingOK(toServer, asked, DOMAIN ops)' /\ AnswersOK'
  BY <1>1, <1>5 DEF WaitingOK, AnswersOK
<1>7. PostedOK' /\ AreasOK'
  BY <1>1 DEF ToldIInv, WiresOK, PostedOK, AreasOK, Over
<1>8. ReadyOK'
  BY <1>1, <1>3, <1>4, <1>5 DEF ReadyOK
<1>9. SeenOK'
  BY <1>1, <1>3, <1>4 DEF ToldIInv, WiresOK, SeenOK, Over
<1>10. NewestIsFresh'
  BY <1>1, <1>4 DEF NewestIsFresh, Newest
<1> QED
  BY <1>4, <1>6, <1>7, <1>8, <1>9, <1>10 DEF ToldIInv, WiresOK

\* The client goes and the server stays: what is on the wires stays there.
LEMMA LeavesTold ==
    ASSUME ShapeIInv, ToldIInv, ClientLeaves
    PROVE  ToldIInv'
<1>1. /\ UNCHANGED <<tools, prov, ops, server, toServer, toClient>>
      /\ client'.peer = "off" /\ client'.seen = client.seen /\ client'.newest = client.newest
  BY DEF ClientLeaves, toolVars, ShapeIInv
<1>2. /\ DOMAIN spent' = DOMAIN spent /\ spent'.epoch = spent.epoch + 1
  BY SpentOne DEF ClientLeaves
<1>3. DOMAIN ops \subseteq DOMAIN asked
  BY DEF ToldIInv, WiresOK, AskedOK
<1>4. /\ AskedOK' /\ FatesOK' /\ DOMAIN asked' = DOMAIN asked
      /\ \A x \in DOMAIN asked : /\ asked'[x].ask = asked[x].ask
                                 /\ asked'[x].fate # "waiting"
                                 /\ asked[x].fate = "answered" => asked'[x].fate = "answered"
      /\ \A x \in DOMAIN ops : ops[x].epoch # spent'.epoch
  BY <1>1, <1>2, LostTold DEF ClientLeaves
<1>5. WaitingOK(toServer, asked, DOMAIN ops)'
  <2>1. WaitingOK(toServer, asked', DOMAIN ops)
    BY <1>4 DEF ToldIInv, WiresOK, WaitingOK
  <2> QED
    BY <1>1, <2>1
<1>6. PostedOK' /\ AnswersOK' /\ AreasOK'
  BY <1>1 DEF ToldIInv, WiresOK, PostedOK, AnswersOK, AreasOK, Over
<1>7. ReadyOK'
  BY <1>1, <1>3, <1>4 DEF ToldIInv, WiresOK, ReadyOK
<1>8. SeenOK'
  BY <1>1, <1>3, <1>4 DEF ToldIInv, WiresOK, SeenOK, Over
<1>9. NewestIsFresh'
  BY <1>1, <1>4 DEF NewestIsFresh, Newest
<1> QED
  BY <1>4, <1>5, <1>6, <1>7, <1>8, <1>9 DEF ToldIInv, WiresOK

\* The steps that neither take nor answer nor make a request of the client.
LEMMA RestQuiet ==
    ASSUME ShapeIInv, ToldIInv,
           \/ \E id \in DOMAIN bridges, outcome \in {"ended", "failed"} : BridgeEnds(id, outcome)
           \/ \E kind \in Features : CallClient(kind)
           \/ \E id \in DOMAIN calls : CallTimesOut(id)
           \/ Start
           \/ UNCHANGED vars
    PROVE  Quiet
<1>1. CASE \E id \in DOMAIN bridges, outcome \in {"ended", "failed"} : BridgeEnds(id, outcome)
  <2>1. /\ UNCHANGED <<ops, asked, tools, prov, server, client, toClient, spent>>
        /\ \E v, x : Send(AnswerTo(x, v))
    BY <1>1 DEF BridgeEnds, ClientOnly, toolVars
  <2>2. PICK v, x : Send(AnswerTo(x, v))
    BY <2>1
  <2>3. AnswerTo(x, v).kind # "request" /\ Longer(toServer', toServer, AnswerTo(x, v))
    BY <2>2 DEF Send, Longer, AnswerTo
  <2>4. \E m : m.kind # "request" /\ Longer(toServer', toServer, m)
    BY <2>3
  <2> QED
    BY <2>1, <2>4, OthersQuiet, NothingSent
<1>2. CASE \E kind \in Features : CallClient(kind)
  <2>1. PICK kind : CallClient(kind)
    <3>1. PICK k \in Features : CallClient(k)
      BY <1>2
    <3> QED
      BY <3>1
  <2>2. /\ Turn /\ UNCHANGED <<ops, asked, tools, prov, server, client, toServer>>
        /\ \/ UNCHANGED toClient
           \/ Invited(kind) /\ \E x : Longer(toClient', toClient, Question(x, kind))
    BY <2>1, Said DEF CallClient, toolVars
  <2>3. Invited(kind) => \A x : Unasked(Question(x, kind))
    BY DEF Question, Unasked
  <2>4. \E m : Unasked(m) /\ Longer(toClient', toClient, m)
    BY <2>2, <2>3, NothingSent
  <2> QED
    BY <2>2, <2>4, OthersQuiet, NothingSent, Spent
<1>3. CASE (\E id \in DOMAIN calls : CallTimesOut(id)) \/ UNCHANGED vars
  <2>1. UNCHANGED <<ops, asked, tools, prov, server, client, toServer, toClient, spent>>
    BY <1>3 DEF CallTimesOut, vars, toolVars
  <2> QED
    BY <2>1, OthersQuiet, NothingSent
<1>4. CASE Start
  <2>1. /\ UNCHANGED <<ops, asked, tools, prov, client, toServer, toClient, spent>>
        /\ server'.open /\ server'.ready = server.ready /\ server'.posted = server.posted
        /\ server'.caps = server.caps
    BY <1>4 DEF Start, toolVars, ShapeIInv
  <2> QED
    BY <2>1, OthersQuiet, NothingSent
<1> QED
  BY <1>1, <1>2, <1>3, <1>4

LEMMA SetToSeqRange ==
    ASSUME NEW S, IsFiniteSet(S)
    PROVE  Range(SetToSeq(S)) \subseteq S
<1>1. Cardinality(S) \in Nat /\ ExistsBijection(1..Cardinality(S), S)
  BY FS_CardinalityType
<1>2. \E f \in [1..Cardinality(S) -> S] : IsInjective(f)
  BY <1>1 DEF ExistsBijection, Bijection, Injection
<1>3. SetToSeq(S) \in [1..Cardinality(S) -> S]
  BY <1>2 DEF SetToSeq
<1>4. ASSUME NEW f \in [1..Cardinality(S) -> S] PROVE Range(f) \subseteq S
  BY DEF Range
<1> QED
  BY <1>3, <1>4

\* What a client has of a list, and what is on its way to it, fit what the server has.
THEOREM ToldInvariant == Spec => []ToldIInv
<1>1. Init => ToldIInv
  <2> SUFFICES ASSUME Init PROVE ToldIInv
    OBVIOUS
  <2>1. /\ DOMAIN asked = {} /\ DOMAIN ops = {} /\ toServer = << >> /\ toClient = << >>
        /\ server.posted = << >> /\ ~server.ready /\ client.peer = "off"
        /\ client.seen = [l \in Lists |-> Unknown] /\ client.newest = [l \in Lists |-> 0]
        /\ DOMAIN spent = {"turns", "changes", "epoch"} /\ spent.epoch = 0
        /\ DOMAIN tools = {"own", "dead", "reg", "attached", "off"}
        /\ prov.alive = Providers /\ DOMAIN prov.holds = Providers
        /\ prov.registered = [a \in Areas |-> SetToSeq(IF a = "resource" THEN ResourceProviders
                                                       ELSE PromptProviders)]
    BY DEF Init
  <2>2. IsSeq(<< >>) /\ Len(<< >>) = 0 /\ 1..0 = {}
    BY EmptyIsSeq
  <2>3. AskedOK
    <3>1. DOMAIN asked = 1..0 /\ 0 \in Nat
      BY <2>1, <2>2
    <3> QED
      BY <2>1, <3>1 DEF AskedOK
  <2>4. /\ WaitingOK(toServer, asked, DOMAIN ops) /\ PostedOK /\ AnswersOK /\ ReadyOK
        /\ FatesOK
    BY <2>1, <2>2 DEF WaitingOK, PostedOK, AnswersOK, ReadyOK, FatesOK
  <2>5. SeenOK
    BY <2>1 DEF SeenOK, Unknown
  <2>6. AreasOK
    <3>1. /\ Range(SetToSeq(ResourceProviders)) \subseteq ResourceProviders
          /\ Range(SetToSeq(PromptProviders)) \subseteq PromptProviders
      BY SetToSeqRange, ServerAssumption
    <3>2. ASSUME NEW a \in Areas, NEW p \in Range(prov.registered[a]) PROVE AreaOf(p) = a
      <4>1. CASE a = "resource"
        BY <2>1, <3>1, <3>2, <4>1 DEF AreaOf
      <4>2. CASE a = "prompt"
        <5>1. p \in PromptProviders
          BY <2>1, <3>1, <3>2, <4>2
        <5> QED
          BY <4>2, <5>1, ServerAssumption DEF AreaOf
      <4> QED
        BY <4>1, <4>2 DEF Areas
    <3> QED
      BY <2>1, <3>2 DEF AreasOK
  <2>7. NewestIsFresh
    BY <2>1 DEF NewestIsFresh, Newest
  <2> QED
    BY <2>3, <2>4, <2>5, <2>6, <2>7 DEF ToldIInv, WiresOK
<1>2. ShapeIInv /\ AnswersIInv /\ ToldIInv /\ [Next]_vars => ToldIInv'
  <2> SUFFICES ASSUME ShapeIInv, AnswersIInv, ToldIInv, [Next]_vars PROVE ToldIInv'
    OBVIOUS
  <2>1. CASE Posted
    BY <2>1, PostedTold
  <2>2. CASE ServerReceives
    BY <2>2, ServerTold
  <2>3. CASE ClientReceives
    BY <2>3, ClientTold
  <2>4. CASE \E id \in DOMAIN ops :
               \/ \E p \in Providers, ok \in BOOLEAN : ProviderAnswers(id, p, ok)
               \/ \E result \in {"result", "error"} : ToolEnds(id, result)
    BY <2>4, EndedTold
  <2>5. CASE HostChanges
    BY <2>5, HostQuiet, QuietTold
  <2>6. CASE connectAndInitialize
    <3>1. Ask(Initialize) /\ server.open /\ UNCHANGED <<server, ops, spent>>
      BY <2>6 DEF connectAndInitialize, Ask, ClientOnly
    <3>2. Initialize.what = "initialize"
      BY DEF Initialize
    <3> QED
      BY <3>1, <3>2, AskTold
  <2>7. ASSUME NEW ask \in Asks, sendInitialized(ask) PROVE ToldIInv'
    <3>1. Ask(ask) /\ client.peer = "ready" /\ Turn /\ UNCHANGED <<server, ops>>
      BY <2>7 DEF sendInitialized, Ask, ClientOnly
    <3>2. server.open
      BY <3>1 DEF ToldIInv, WiresOK, ReadyOK
    <3> QED
      BY <3>1, <3>2, AskTold, Spent
  <2>8. CASE \/ \E id \in DOMAIN bridges, outcome \in {"ended", "failed"} : BridgeEnds(id, outcome)
             \/ \E kind \in Features : CallClient(kind)
             \/ \E id \in DOMAIN calls : CallTimesOut(id)
             \/ Start
             \/ UNCHANGED vars
    BY <2>8, RestQuiet, QuietTold
  <2>9. CASE Stop \/ ClientLeaves
    BY <2>9, StopTold, LeavesTold
  <2> QED
    BY <2>1, <2>2, <2>3, <2>4, <2>5, <2>6, <2>7, <2>8, <2>9 DEF Next, Progress
<1> QED
  BY <1>1, <1>2, ShapeInvariant, AnswersInvariant, PTL DEF Spec

\* What a client has of a list is the list, once it has asked again after the last change it
\* was told of and no notification is posted or on its way: coalescing loses no change, for
\* any tools, providers and turns of the hosts.
THEOREM CoalescingLosesNoChange == Spec => []ToldOfChanges
<1>1. AnswersIInv /\ ToldIInv => ToldOfChanges
  <2> SUFFICES ASSUME AnswersIInv, ToldIInv, NEW list \in Lists,
                      client.seen[list].from # 0,
                      client.seen[list].from = client.newest[list],
                      ops[client.seen[list].from].failed = {},
                      ops[client.seen[list].from].epoch = spent.epoch,
                      Due(list) \notin Range(server.posted), Note(list) \notin Range(toClient)
               PROVE  client.seen[list].value = Listing(list)
    BY DEF ToldOfChanges
  <2> DEFINE from == client.seen[list].from
  <2>1. /\ Over(from) /\ AsksFor(ops[from].ask, list)
        /\ client.seen[list].value = ops[from].value
        /\ asked[from].fate = "answered"
    BY DEF ToldIInv, WiresOK, SeenOK
  <2>2. Expected(list, ops[from]) = Listing(list)
    BY <2>1 DEF ToldIInv, NewestIsFresh, Newest, Announced, Over
  <2>3. Expected(list, ops[from]) = ops[from].value
    <3>1. CASE list = "tools"
      BY <3>1 DEF Expected
    <3>2. CASE list # "tools"
      <4>1. OpOK(ops[from], prov.alive) /\ ops[from].left = {}
        BY <2>1 DEF AnswersIInv, OpOK, Over
      <4>2. Gathers(ops[from].ask)
        BY <2>1, <3>2 DEF Gathers, AsksFor, Lists
      <4>3. ops[from].value = Offer([p \in DOMAIN ops[from].offered \ (ops[from].failed \cup {})
                                       |-> ops[from].offered[p]])
        BY <4>1, <4>2 DEF OpOK, Gathered
      <4>4. DOMAIN ops[from].offered \ (ops[from].failed \cup {}) = DOMAIN ops[from].offered
        OBVIOUS
      <4>5. Offer(ops[from].offered)
              = Offer([p \in DOMAIN ops[from].offered |-> ops[from].offered[p]])
        BY DEF Offer
      <4> QED
        BY <3>2, <4>3, <4>4, <4>5 DEF Expected
    <3> QED
      BY <3>1, <3>2
  <2> QED
    BY <2>1, <2>2, <2>3
<1> QED
  BY <1>1, AnswersInvariant, ToldInvariant, PTL

-----------------------------------------------------------------------------
(* What a server may ask of its client *)

\* A handshake that is still waited for, and what may be asked on account of an offer.
Fresh(all, id) == all[id].ask.what = "initialize" /\ all[id].fate = "waiting"
Begins(m) == m.kind = "request" /\ m.ask.what = "initialize"
IsOffered(offered, m) == m.kind = "request" /\ m.ask # "roots" => m.ask \in offered

\* The server has taken the handshake of this connection, and no older one can follow.
Agreed == client.peer = "ready" \/ \E id \in DOMAIN ops : Fresh(asked, id)
Known ==
    /\ server.ready => server.caps = client.offered
    /\ \A k \in 1..Len(toServer) : ~Begins(toServer[k])
OldBeforeNew ==
    \A k \in 1..Len(toServer) : Begins(toServer[k]) /\ Fresh(asked, toServer[k].id) =>
        \A j \in 1..Len(toServer) : j > k => ~Begins(toServer[j])
AskedAsOffered ==
    /\ client.peer = "ready" => \A j \in 1..Len(toClient) : IsOffered(client.offered, toClient[j])
    /\ \A k \in 1..Len(toClient) : toClient[k].kind = "answer" /\ Fresh(asked, toClient[k].id) =>
          \A j \in 1..Len(toClient) : j > k => IsOffered(client.offered, toClient[j])
HandshakeIInv ==
    /\ \A id \in DOMAIN asked : Fresh(asked, id) => asked[id].ask.arg = client.offered
    /\ OldBeforeNew /\ AskedAsOffered
    /\ Agreed => Known

\* What is added to a sequence comes last, and its tail keeps the order.
LEMMA LongerOrder ==
    ASSUME NEW q, IsSeq(q), NEW p, NEW m, Longer(p, q, m), NEW k \in 1..Len(p)
    PROVE  \/ k \in 1..Len(q) /\ p[k] = q[k]
           \/ p[k] = m /\ \A j \in 1..Len(p) : ~(j > k)
<1>1. CASE p = q
  BY <1>1
<1>2. CASE p = Append(q, m)
  <2>1. /\ Len(q) \in Nat /\ Len(p) = Len(q) + 1
        /\ \A i \in 1..Len(q) : p[i] = q[i]
        /\ p[Len(q) + 1] = m
    BY <1>2, AppendIsSeq
  <2>2. CASE k \in 1..Len(q)
    BY <2>1, <2>2
  <2>3. CASE k = Len(q) + 1
    <3>1. \A j \in 1..Len(p) : ~(j > k)
      BY <2>1, <2>3
    <3> QED
      BY <2>1, <2>3, <3>1
  <2> QED
    BY <2>1, <2>2, <2>3
<1> QED
  BY <1>1, <1>2 DEF Longer

LEMMA TailOrder ==
    ASSUME NEW q, IsSeq(q), q # << >>
    PROVE  /\ \A k \in 1..Len(Tail(q)) : k + 1 \in 1..Len(q) /\ Tail(q)[k] = q[k + 1] /\ k + 1 > 1
           /\ \A k, j \in 1..Len(Tail(q)) : j > k => j + 1 > k + 1
<1>1. \A k \in 1..Len(Tail(q)) : k + 1 \in 1..Len(q) /\ Tail(q)[k] = q[k + 1] /\ k \in Nat /\ k >= 1
  BY TailEach
<1> QED
  BY <1>1

\* Which requests are known to those whose number is on a wire.
LEMMA Numbered ==
    ASSUME ToldIInv
    PROVE  /\ DOMAIN ops \subseteq DOMAIN asked
           /\ \A k \in 1..Len(toServer) : toServer[k].kind = "request" =>
                 toServer[k].id \in DOMAIN asked \ DOMAIN ops
                 /\ toServer[k].ask = asked[toServer[k].id].ask
           /\ \A k \in 1..Len(toClient) : toClient[k].kind = "answer" =>
                 toClient[k].id \in DOMAIN ops
           /\ Cardinality(DOMAIN asked) + 1 \notin DOMAIN asked
<1>1. PICK n \in Nat : DOMAIN asked = 1..n
  BY DEF ToldIInv, WiresOK, AskedOK
<1>2. Cardinality(1..n) = n
  BY <1>1, FS_Interval
<1>3. Cardinality(DOMAIN asked) + 1 \notin DOMAIN asked
  BY <1>1, <1>2
<1> QED
  BY <1>3 DEF ToldIInv, WiresOK, AskedOK, WaitingOK, AnswersOK, Over

\* The client says something that begins no handshake.
LEMMA StillOldBeforeNew ==
    ASSUME ShapeIInv, ToldIInv, OldBeforeNew,
           \A id \in DOMAIN asked : Fresh(asked', id) => Fresh(asked, id),
           NEW m, ~Begins(m), Longer(toServer', toServer, m)
    PROVE  /\ OldBeforeNew'
           /\ (\A k \in 1..Len(toServer) : ~Begins(toServer[k])) =>
                 \A k \in 1..Len(toServer') : ~Begins(toServer'[k])
<1>1. IsSeq(toServer)
  BY DEF ShapeIInv
<1>2. \A k \in 1..Len(toServer') :
          \/ k \in 1..Len(toServer) /\ toServer'[k] = toServer[k]
          \/ toServer'[k] = m
  BY <1>1, LongerOrder
<1>3. ASSUME NEW k \in 1..Len(toServer'), Begins(toServer'[k]), Fresh(asked', toServer'[k].id),
             NEW j \in 1..Len(toServer'), j > k
      PROVE  ~Begins(toServer'[j])
  <2>1. k \in 1..Len(toServer) /\ toServer'[k] = toServer[k]
    BY <1>2, <1>3
  <2>2. toServer[k].id \in DOMAIN asked
    BY <1>3, <2>1, Numbered DEF Begins
  <2>3. Fresh(asked, toServer[k].id)
    BY <1>3, <2>1, <2>2
  <2> QED
    BY <1>2, <1>3, <2>1, <2>3 DEF OldBeforeNew
<1>4. OldBeforeNew'
  BY <1>3 DEF OldBeforeNew, Begins
<1> QED
  BY <1>2, <1>4

\* What keeps the handshake: no request of the client becomes or begins one, and the server
\* asks for nothing it is not invited to.
LEMMA StillAgreed ==
    ASSUME ShapeIInv, ToldIInv, HandshakeIInv,
           client'.offered = client.offered, client'.peer = client.peer,
           server'.ready = server.ready, server'.caps = server.caps,
           DOMAIN asked \subseteq DOMAIN asked', DOMAIN ops \subseteq DOMAIN ops',
           \A id \in DOMAIN asked' : Fresh(asked', id) =>
               id \in DOMAIN asked /\ Fresh(asked, id) /\ asked'[id].ask = asked[id].ask,
           \A id \in DOMAIN ops' : id \in DOMAIN asked' /\ (Fresh(asked', id) => id \in DOMAIN ops),
           NEW m, m.kind = "request" => Invited(m.ask), Longer(toClient', toClient, m),
           NEW r, ~Begins(r), Longer(toServer', toServer, r)
    PROVE  HandshakeIInv'
<1>1. IsSeq(toClient)
  BY DEF ShapeIInv
<1>2. Agreed' => Agreed
  BY DEF Agreed
<1>3. /\ OldBeforeNew'
      /\ (\A k \in 1..Len(toServer) : ~Begins(toServer[k])) =>
            \A k \in 1..Len(toServer') : ~Begins(toServer'[k])
  BY StillOldBeforeNew DEF HandshakeIInv
<1>4. Agreed' => Known'
  BY <1>2, <1>3 DEF HandshakeIInv, Known, Begins
<1>5. Agreed => IsOffered(client'.offered, m)
  BY DEF HandshakeIInv, Known, Invited, IsOffered
<1>6. \A x : IsOffered(client'.offered, x) <=> IsOffered(client.offered, x)
  BY DEF IsOffered
<1>7. AskedAsOffered'
  <2>1. ASSUME client'.peer = "ready", NEW j \in 1..Len(toClient')
        PROVE  IsOffered(client'.offered, toClient'[j])
    <3>1. Agreed
      BY <2>1 DEF Agreed
    <3>2. (j \in 1..Len(toClient) /\ toClient'[j] = toClient[j]) \/ toClient'[j] = m
      BY <1>1, LongerOrder
    <3> QED
      BY <1>5, <1>6, <2>1, <3>1, <3>2 DEF HandshakeIInv, AskedAsOffered
  <2>2. ASSUME NEW k \in 1..Len(toClient'), toClient'[k].kind = "answer", Fresh(asked', toClient'[k].id),
               NEW j \in 1..Len(toClient'), j > k
        PROVE  IsOffered(client'.offered, toClient'[j])
    <3>1. k \in 1..Len(toClient) /\ toClient'[k] = toClient[k]
      BY <1>1, <2>2, LongerOrder
    <3>2. toClient[k].id \in DOMAIN ops
      BY <2>2, <3>1, Numbered
    <3>3. Fresh(asked, toClient[k].id) /\ Agreed
      BY <2>2, <3>1, <3>2 DEF Agreed
    <3>4. (j \in 1..Len(toClient) /\ toClient'[j] = toClient[j]) \/ toClient'[j] = m
      BY <1>1, LongerOrder
    <3> QED
      BY <1>5, <1>6, <2>2, <3>1, <3>3, <3>4 DEF HandshakeIInv, AskedAsOffered
  <2> QED
    BY <2>1, <2>2 DEF AskedAsOffered
<1>8. \A id \in DOMAIN asked' : Fresh(asked', id) => asked'[id].ask.arg = client'.offered
  BY DEF HandshakeIInv
<1> QED
  BY <1>3, <1>4, <1>7, <1>8 DEF HandshakeIInv

LEMMA QuietAgreed ==
    ASSUME ShapeIInv, ToldIInv, HandshakeIInv, Quiet
    PROVE  HandshakeIInv'
<1>1. PICK m : Unasked(m) /\ Longer(toClient', toClient, m)
  BY DEF Quiet
<1>2. PICK r : r.kind # "request" /\ Longer(toServer', toServer, r)
  BY DEF Quiet
<1>3. (m.kind = "request" => Invited(m.ask)) /\ ~Begins(r)
  BY <1>1, <1>2 DEF Unasked, Begins
<1>4. /\ client'.offered = client.offered /\ client'.peer = client.peer
      /\ server'.ready = server.ready /\ server'.caps = server.caps
      /\ UNCHANGED <<asked, ops>>
  BY DEF Quiet
<1>5. \A id : Fresh(asked', id) <=> Fresh(asked, id)
  BY <1>4 DEF Fresh
<1> QED
  BY <1>1, <1>2, <1>3, <1>4, <1>5, Numbered, StillAgreed

\* Answers and notifications leave the server, and providers and tools end.
LEMMA ServesAgreed ==
    ASSUME ShapeIInv, ToldIInv, HandshakeIInv, NEW id \in DOMAIN ops,
           \/ \E p \in Providers, ok \in BOOLEAN : ProviderAnswers(id, p, ok)
           \/ \E result \in {"result", "error"} : ToolEnds(id, result)
    PROVE  HandshakeIInv'
<1>1. \E o : ops' = With(ops, id, o)
  <2>1. ASSUME NEW op, NEW value, Close(id, op, value) PROVE \E o : ops' = With(ops, id, o)
    BY <2>1 DEF Close, Closed
  <2>2. ASSUME NEW op, tryEachAdvance(id, op) PROVE \E o : ops' = With(ops, id, o)
    BY <2>1, <2>2 DEF tryEachAdvance, Take
  <2>3. ASSUME NEW p, NEW ok, FirstOf(id, p, ok) \/ FanIn(id, p, ok)
        PROVE  \E o : ops' = With(ops, id, o)
    BY <2>1, <2>2, <2>3 DEF FirstOf, FanIn, Take
  <2> QED
    BY <2>1, <2>3 DEF ProviderAnswers, ToolEnds
<1>2. DOMAIN ops' = DOMAIN ops
  BY <1>1 DEF With
<1>3. /\ UNCHANGED <<client, asked, toServer, toClient>>
      /\ server'.ready = server.ready /\ server'.caps = server.caps
  BY EndsPost, PostsOnly
<1>4. \A x : Fresh(asked', x) <=> Fresh(asked, x)
  BY <1>3 DEF Fresh
<1> DEFINE n == Note("tools")
<1>5. (n.kind = "request" => Invited(n.ask)) /\ ~Begins(n)
  BY DEF Note, Begins
<1>6. Longer(toClient', toClient, n) /\ Longer(toServer', toServer, n)
  BY <1>3 DEF Longer
<1> HIDE DEF n
<1> QED
  BY <1>2, <1>3, <1>4, <1>5, <1>6, Numbered, StillAgreed

LEMMA PostedAgreed ==
    ASSUME ShapeIInv, ToldIInv, HandshakeIInv, Posted
    PROVE  HandshakeIInv'
<1> DEFINE e == Head(server.posted)
<1>1. /\ UNCHANGED <<client, asked, ops, toServer>>
      /\ server'.ready = server.ready /\ server'.caps = server.caps
      /\ Tell(e.area) \/ Sent(AnswerTo(e.id, ops[e.id].value))
  BY DEF Posted, Elsewhere, ShapeIInv
<1>2. \E m : m.kind # "request" /\ Longer(toClient', toClient, m)
  <2>1. \A area : Note(area).kind # "request"
    BY DEF Note
  <2>2. \A i, value : AnswerTo(i, value).kind # "request"
    BY DEF AnswerTo
  <2> HIDE DEF e
  <2> QED
    BY <1>1, <2>1, <2>2, Said
<1>3. PICK m : m.kind # "request" /\ Longer(toClient', toClient, m)
  BY <1>2
<1>4. ~Begins(Note("tools")) /\ Longer(toServer', toServer, Note("tools"))
  BY <1>1 DEF Begins, Note, Longer
<1>5. \A x : Fresh(asked', x) <=> Fresh(asked, x)
  BY <1>1 DEF Fresh
<1> HIDE DEF e
<1> QED
  BY <1>1, <1>3, <1>4, <1>5, Numbered, StillAgreed

\* A client that is connected asks for something else.
LEMMA AskAgreed ==
    ASSUME ShapeIInv, ToldIInv, HandshakeIInv, NEW ask \in Asks, sendInitialized(ask)
    PROVE  HandshakeIInv'
<1> DEFINE id == Cardinality(DOMAIN asked) + 1
           made == [ask |-> ask, fate |-> "waiting"]
           r == Question(id, ask)
<1>1. ask.what # "initialize"
  BY DEF Asks
<1>2. /\ asked' = With(asked, id, made) /\ UNCHANGED <<ops, server, toClient>>
      /\ Longer(toServer', toServer, r)
      /\ client' = client \/ client' = [client EXCEPT !.newest[ask.area] = id]
  BY <1>1 DEF sendInitialized, Ask, ClientOnly, Longer
<1>3. client'.offered = client.offered /\ client'.peer = client.peer
  BY <1>2 DEF ShapeIInv
<1>4. ~Begins(r)
  BY <1>1 DEF Begins, Question
<1>5. id \notin DOMAIN asked /\ id \notin DOMAIN ops /\ DOMAIN ops \subseteq DOMAIN asked
  BY Numbered
<1>6. made.ask = ask
  OBVIOUS
<1> HIDE DEF id, made, r
<1>7. /\ DOMAIN asked' = DOMAIN asked \cup {id} /\ asked'[id].ask = ask
      /\ \A x \in DOMAIN asked : asked'[x] = asked[x]
  BY <1>2, <1>5, <1>6 DEF With
<1>8. /\ ~Fresh(asked', id)
      /\ \A x \in DOMAIN asked : Fresh(asked', x) => Fresh(asked, x)
  BY <1>1, <1>7 DEF Fresh
<1> DEFINE n == Note("tools")
<1>9. (n.kind = "request" => Invited(n.ask)) /\ Longer(toClient', toClient, n)
  BY <1>2 DEF Note, Longer
<1> HIDE DEF n
<1> QED
  BY <1>2, <1>3, <1>4, <1>5, <1>7, <1>8, <1>9, StillAgreed

\* A handshake begins: nobody waits for an older one, and nothing of the new one is on its
\* way back.
LEMMA ConnectAgreed ==
    ASSUME ShapeIInv, ToldIInv, HandshakeIInv, connectAndInitialize
    PROVE  HandshakeIInv'
<1> DEFINE id == Cardinality(DOMAIN asked) + 1
           made == [ask |-> Initialize, fate |-> "waiting"]
           r == Question(id, Initialize)
<1>1. /\ client.peer = "off" /\ asked' = With(asked, id, made)
      /\ UNCHANGED <<ops, server, toClient>>
      /\ Longer(toServer', toServer, r)
      /\ client' = [client EXCEPT !.peer = "asking", !.offered = client.has]
  BY DEF connectAndInitialize, Ask, Initialize, ClientOnly, Longer
<1>2. client'.offered = client.has /\ client'.peer = "asking"
  BY <1>1 DEF ShapeIInv
<1>3. id \notin DOMAIN asked /\ id \notin DOMAIN ops /\ DOMAIN ops \subseteq DOMAIN asked
  BY Numbered
<1>4. made.ask = Initialize /\ Initialize.arg = client.has
  BY DEF Initialize
<1> HIDE DEF id, made, r
<1>5. /\ DOMAIN asked' = DOMAIN asked \cup {id} /\ asked'[id] = made
      /\ \A x \in DOMAIN asked : asked'[x] = asked[x]
  BY <1>1, <1>3 DEF With
<1>6. \A x \in DOMAIN asked : ~Fresh(asked', x)
  BY <1>1, <1>5 DEF Fresh, ToldIInv, WiresOK, FatesOK
<1>7. \A x \in DOMAIN asked' : Fresh(asked', x) => asked'[x].ask.arg = client'.offered
  BY <1>2, <1>4, <1>5, <1>6
<1>8. OldBeforeNew'
  <2>1. ASSUME NEW k \in 1..Len(toServer'), Begins(toServer'[k]), Fresh(asked', toServer'[k].id),
               NEW j \in 1..Len(toServer'), j > k
        PROVE  FALSE
    <3>1. k \in 1..Len(toServer) /\ toServer'[k] = toServer[k]
      BY <1>1, <2>1, LongerOrder DEF ShapeIInv
    <3>2. toServer[k].id \in DOMAIN asked
      BY <2>1, <3>1, Numbered DEF Begins
    <3> QED
      BY <1>6, <2>1, <3>1, <3>2
  <2> QED
    BY <2>1 DEF OldBeforeNew, Begins
<1>9. AskedAsOffered'
  <2>1. \A k \in 1..Len(toClient) : toClient[k].kind = "answer" => ~Fresh(asked', toClient[k].id)
    BY <1>3, <1>6, Numbered
  <2> QED
    BY <1>1, <1>2, <2>1 DEF AskedAsOffered
<1>10. ~Agreed'
  BY <1>1, <1>2, <1>3, <1>6 DEF Agreed
<1> QED
  BY <1>7, <1>8, <1>9, <1>10 DEF HandshakeIInv

\* The server takes what is next on its wire: the last handshake there is the newest.
LEMMA ReceivesAgreed ==
    ASSUME ShapeIInv, AnswersIInv, ToldIInv, HandshakeIInv, ServerReceives
    PROVE  HandshakeIInv'
<1> DEFINE e == Head(toServer)
<1>1. /\ IsSeq(toServer) /\ toServer # << >> /\ server.open
      /\ toServer' = Tail(toServer)
      /\ UNCHANGED <<client, asked, toClient>>
  BY DEF ShapeIInv, ServerReceives
<1>2. 1 \in 1..Len(toServer) /\ e = toServer[1] /\ FromClient(e)
  BY <1>1, HeadIsFirst DEF ShapeIInv
<1>3. /\ \A k \in 1..Len(toServer') :
            k + 1 \in 1..Len(toServer) /\ toServer'[k] = toServer[k + 1] /\ k + 1 > 1
      /\ \A k, j \in 1..Len(toServer') : j > k => j + 1 > k + 1
  BY <1>1, TailOrder
<1>4. \A x : Fresh(asked', x) <=> Fresh(asked, x)
  BY <1>1 DEF Fresh
<1>5. OldBeforeNew'
  <2>1. ASSUME NEW k \in 1..Len(toServer'), Begins(toServer'[k]), Fresh(asked, toServer'[k].id),
               NEW j \in 1..Len(toServer'), j > k
        PROVE  ~Begins(toServer'[j])
    BY <1>3, <2>1 DEF HandshakeIInv, OldBeforeNew
  <2> QED
    BY <1>4, <2>1 DEF OldBeforeNew, Begins
<1>6. AskedAsOffered' /\ \A x \in DOMAIN asked' : Fresh(asked', x) => asked'[x].ask.arg = client'.offered
  BY <1>1, <1>4 DEF HandshakeIInv, AskedAsOffered, IsOffered
<1>7. ASSUME server'.ready = server.ready, server'.caps = server.caps,
             \A x \in DOMAIN ops' : Fresh(asked, x) => x \in DOMAIN ops
      PROVE  Agreed' => Known'
  <2>1. Agreed' => Agreed
    BY <1>1, <1>4, <1>7 DEF Agreed
  <2> QED
    BY <1>1, <1>3, <1>7, <2>1 DEF HandshakeIInv, Known, Begins
<1>8. CASE e.kind \in {"answer", "note"}
  <2>1. UNCHANGED <<ops, server>>
    BY <1>8 DEF ServerReceives
  <2> QED
    BY <1>5, <1>6, <1>7, <2>1 DEF HandshakeIInv
<1>9. CASE e.kind = "request" /\ (e.ask \in Asks \/ e.ask.what = "initialize")
  <2>1. HandleRequest(e.id, e.ask)
    BY <1>9 DEF ServerReceives
  <2>2. PICK o : Made(e.id, e.ask, o)
    BY <1>1, <1>9, <2>1, HandledTold
  <2>3. DOMAIN ops' = DOMAIN ops \cup {e.id}
    BY <2>2 DEF Made, With
  <2>4. e.id \in DOMAIN asked /\ e.ask = asked[e.id].ask
    BY <1>2, <1>9, Numbered
  <2>5. CASE e.ask \in Asks
    <3>1. ~Fresh(asked, e.id)
      BY <2>4, <2>5 DEF Fresh, Asks
    <3>2. server'.ready = server.ready /\ server'.caps = server.caps
      BY <2>1, <2>5, HandledKeeps
    <3> QED
      BY <1>5, <1>6, <1>7, <2>3, <3>1, <3>2 DEF HandshakeIInv
  <2>6. CASE e.ask.what = "initialize"
    <3>1. Begins(e) /\ ~Agreed
      BY <1>2, <1>9, <2>6 DEF Begins, HandshakeIInv, Known
    <3>2. Agreed' => Fresh(asked, e.id)
      BY <1>1, <1>4, <2>3, <3>1 DEF Agreed
    <3>3. server' = [Post(server, Reply(e.id)) EXCEPT !.ready = TRUE, !.caps = e.ask.arg]
      BY <2>1, <2>6 DEF HandleRequest
    <3>4. server'.caps = e.ask.arg
      BY <3>3 DEF Post, ShapeIInv
    <3>5. ASSUME Fresh(asked, e.id) PROVE Known'
      <4>1. server'.caps = client'.offered
        BY <1>1, <2>4, <3>4, <3>5 DEF HandshakeIInv
      <4>2. \A k \in 1..Len(toServer') : ~Begins(toServer'[k])
        BY <1>2, <1>3, <3>1, <3>5 DEF HandshakeIInv, OldBeforeNew
      <4> QED
        BY <4>1, <4>2 DEF Known, Begins
    <3> QED
      BY <1>5, <1>6, <3>2, <3>5 DEF HandshakeIInv
  <2> QED
    BY <1>9, <2>5, <2>6
<1> QED
  BY <1>2, <1>8, <1>9 DEF FromClient

\* The client takes what is next on its wire; with the answer of its handshake everything
\* that was asked for on account of an older one is behind it.
LEMMA ClientAgreed ==
    ASSUME ShapeIInv, ToldIInv, HandshakeIInv, ClientReceives
    PROVE  HandshakeIInv'
<1> DEFINE e == Head(toClient)
<1>1. /\ IsSeq(toClient) /\ toClient # << >> /\ toClient' = Tail(toClient)
      /\ UNCHANGED <<ops, server>>
  BY DEF ShapeIInv, ClientReceives
<1>2. 1 \in 1..Len(toClient) /\ e = toClient[1] /\ FromServer(e)
  BY <1>1, HeadIsFirst DEF ShapeIInv
<1>3. /\ \A k \in 1..Len(toClient') :
            k + 1 \in 1..Len(toClient) /\ toClient'[k] = toClient[k + 1] /\ k + 1 > 1
      /\ \A k, j \in 1..Len(toClient') : j > k => j + 1 > k + 1
  BY <1>1, TailOrder
<1>4. /\ client'.offered = client.offered
      /\ client'.peer = "ready" =>
            client.peer = "ready" \/ (e.kind = "answer" /\ Fresh(asked, e.id))
      /\ DOMAIN asked' = DOMAIN asked
      /\ \A x \in DOMAIN asked : asked'[x].ask = asked[x].ask /\ (Fresh(asked', x) => Fresh(asked, x))
      /\ \E r : ~Begins(r) /\ Longer(toServer', toServer, r)
  <2>1. ~Begins(Note("tools")) /\ ~Begins(AnswerTo(e.id, "error"))
    BY DEF Begins, Note, AnswerTo
  <2>2. CASE e.kind = "answer"
    <3>1. TakeAnswer(e)
      BY <2>2 DEF ClientReceives
    <3>2. e.id \in DOMAIN asked
      BY <1>2, <2>2, Numbered
    <3>3. /\ DOMAIN asked' = DOMAIN asked
          /\ \A x \in DOMAIN asked : /\ asked'[x].ask = asked[x].ask
                                     /\ asked'[x].fate = "waiting" => asked[x].fate = "waiting"
      BY <3>1, <3>2 DEF TakeAnswer, ToldIInv, WiresOK, AskedOK
    <3>4. /\ client'.offered = client.offered
          /\ client'.peer = "ready" => client.peer = "ready" \/ Fresh(asked, e.id)
      BY <3>1 DEF TakeAnswer, ShapeIInv, Fresh
    <3>5. Longer(toServer', toServer, Note("tools"))
      BY <3>1 DEF TakeAnswer, Longer
    <3>6. \A x \in DOMAIN asked : Fresh(asked', x) => Fresh(asked, x)
      BY <3>3 DEF Fresh
    <3> QED
      BY <2>1, <2>2, <3>3, <3>4, <3>5, <3>6
  <2>3. CASE e.kind = "note"
    <3>1. TakeNote(e)
      BY <2>3 DEF ClientReceives
    <3>2. /\ UNCHANGED <<asked, toServer>>
          /\ client'.offered = client.offered /\ client'.peer = client.peer
      BY <3>1 DEF TakeNote, ShapeIInv
    <3>3. Longer(toServer', toServer, Note("tools")) /\ \A x : Fresh(asked', x) <=> Fresh(asked, x)
      BY <3>2 DEF Longer, Fresh
    <3> QED
      BY <2>1, <3>2, <3>3
  <2>4. CASE e.kind = "request" /\ e.ask \in Features
    <3>1. TakeCall(e)
      BY <2>4 DEF ClientReceives
    <3>2. UNCHANGED <<asked, client>> /\ (UNCHANGED toServer \/ Send(AnswerTo(e.id, "error")))
      BY <2>4, <3>1 DEF TakeCall, Features, Refuse
    <3>3. /\ Longer(toServer', toServer, AnswerTo(e.id, "error"))
          /\ \A x : Fresh(asked', x) <=> Fresh(asked, x)
      BY <3>2, Said DEF Longer, Fresh
    <3> QED
      BY <2>1, <3>2, <3>3
  <2> QED
    BY <1>2, <2>2, <2>3, <2>4 DEF FromServer
<1>5. DOMAIN ops \subseteq DOMAIN asked /\ (e.kind = "answer" => e.id \in DOMAIN ops)
  BY <1>2, Numbered
<1>6. Agreed' => Agreed
  BY <1>1, <1>4, <1>5 DEF Agreed
<1>7. /\ OldBeforeNew'
      /\ (\A k \in 1..Len(toServer) : ~Begins(toServer[k])) =>
            \A k \in 1..Len(toServer') : ~Begins(toServer'[k])
  BY <1>4, StillOldBeforeNew DEF HandshakeIInv
<1>8. Agreed' => Known'
  BY <1>1, <1>4, <1>6, <1>7 DEF HandshakeIInv, Known, Begins
<1>9. AskedAsOffered'
  <2>1. \A x : IsOffered(client'.offered, x) <=> IsOffered(client.offered, x)
    BY <1>4 DEF IsOffered
  <2>2. ASSUME client'.peer = "ready", NEW j \in 1..Len(toClient')
        PROVE  IsOffered(client.offered, toClient'[j])
    BY <1>2, <1>3, <1>4, <2>2 DEF HandshakeIInv, AskedAsOffered
  <2>3. ASSUME NEW k \in 1..Len(toClient'), toClient'[k].kind = "answer", Fresh(asked', toClient'[k].id),
               NEW j \in 1..Len(toClient'), j > k
        PROVE  IsOffered(client.offered, toClient'[j])
    <3>1. toClient'[k].id \in DOMAIN asked
      BY <1>3, <1>5, <2>3, Numbered
    <3>2. Fresh(asked, toClient'[k].id)
      BY <1>4, <2>3, <3>1
    <3> QED
      BY <1>3, <2>3, <3>2 DEF HandshakeIInv, AskedAsOffered
  <2> QED
    BY <2>1, <2>2, <2>3 DEF AskedAsOffered
<1>10. \A x \in DOMAIN asked' : Fresh(asked', x) => asked'[x].ask.arg = client'.offered
  BY <1>4 DEF HandshakeIInv
<1> QED
  BY <1>7, <1>8, <1>9, <1>10 DEF HandshakeIInv

\* Whoever goes waits for no handshake any more.
LEMMA GoneAgreed ==
    ASSUME ShapeIInv, ToldIInv, HandshakeIInv, Stop \/ ClientLeaves
    PROVE  HandshakeIInv'
<1>1. /\ client'.peer = "off" /\ Lost /\ UNCHANGED ops
      /\ toServer' = << >> \/ toServer' = toServer
      /\ toClient' = << >> \/ toClient' = toClient
  BY DEF Stop, ClientLeaves, ShapeIInv
<1>2. DOMAIN spent' = DOMAIN spent /\ spent'.epoch = spent.epoch + 1
  BY SpentOne DEF Stop, ClientLeaves
<1>3. DOMAIN asked' = DOMAIN asked /\ \A x \in DOMAIN asked : ~Fresh(asked', x)
  BY <1>1, <1>2, LostTold DEF Fresh
<1>4. 1..Len(<< >>) = {}
  BY EmptyIsSeq
<1>5. OldBeforeNew'
  <2>1. ASSUME NEW k \in 1..Len(toServer'), Begins(toServer'[k]), Fresh(asked', toServer'[k].id)
        PROVE  FALSE
    <3>1. k \in 1..Len(toServer) /\ toServer'[k] = toServer[k]
      BY <1>1, <1>4, <2>1
    <3> QED
      BY <1>3, <2>1, <3>1, Numbered DEF Begins
  <2> QED
    BY <2>1 DEF OldBeforeNew, Begins
<1>6. AskedAsOffered'
  <2>1. ASSUME NEW k \in 1..Len(toClient'), toClient'[k].kind = "answer", Fresh(asked', toClient'[k].id)
        PROVE  FALSE
    <3>1. k \in 1..Len(toClient) /\ toClient'[k] = toClient[k]
      BY <1>1, <1>4, <2>1
    <3> QED
      BY <1>3, <2>1, <3>1, Numbered
  <2> QED
    BY <1>1, <2>1 DEF AskedAsOffered
<1>7. ~Agreed'
  BY <1>1, <1>3, Numbered DEF Agreed
<1> QED
  BY <1>3, <1>5, <1>6, <1>7 DEF HandshakeIInv

\* The server knows what its client offered from the moment it has taken the handshake of
\* this connection, and the client hears of it before anything that was asked for since.
THEOREM HandshakeInvariant == Spec => []HandshakeIInv
<1>1. Init => HandshakeIInv
  <2> SUFFICES ASSUME Init PROVE HandshakeIInv
    OBVIOUS
  <2>1. /\ DOMAIN asked = {} /\ DOMAIN ops = {} /\ client.peer = "off"
        /\ toServer = << >> /\ toClient = << >>
    BY DEF Init
  <2>2. 1..Len(<< >>) = {}
    BY EmptyIsSeq
  <2> QED
    BY <2>1, <2>2 DEF HandshakeIInv, OldBeforeNew, AskedAsOffered, Agreed
<1>2. ShapeIInv /\ AnswersIInv /\ ToldIInv /\ HandshakeIInv /\ [Next]_vars => HandshakeIInv'
  <2> SUFFICES ASSUME ShapeIInv, AnswersIInv, ToldIInv, HandshakeIInv, [Next]_vars
               PROVE  HandshakeIInv'
    OBVIOUS
  <2>1. CASE Posted
    BY <2>1, PostedAgreed
  <2>2. CASE ServerReceives
    BY <2>2, ReceivesAgreed
  <2>3. CASE ClientReceives
    BY <2>3, ClientAgreed
  <2>4. CASE \E id \in DOMAIN ops :
               \/ \E p \in Providers, ok \in BOOLEAN : ProviderAnswers(id, p, ok)
               \/ \E result \in {"result", "error"} : ToolEnds(id, result)
    BY <2>4, ServesAgreed
  <2>5. CASE HostChanges
    BY <2>5, HostQuiet, QuietAgreed
  <2>6. CASE connectAndInitialize
    BY <2>6, ConnectAgreed
  <2>7. ASSUME NEW ask \in Asks, sendInitialized(ask) PROVE HandshakeIInv'
    BY <2>7, AskAgreed
  <2>8. CASE \/ \E id \in DOMAIN bridges, outcome \in {"ended", "failed"} : BridgeEnds(id, outcome)
             \/ \E kind \in Features : CallClient(kind)
             \/ \E id \in DOMAIN calls : CallTimesOut(id)
             \/ Start
             \/ UNCHANGED vars
    BY <2>8, RestQuiet, QuietAgreed
  <2>9. CASE Stop \/ ClientLeaves
    BY <2>9, GoneAgreed
  <2> QED
    BY <2>1, <2>2, <2>3, <2>4, <2>5, <2>6, <2>7, <2>8, <2>9 DEF Next, Progress
<1> QED
  BY <1>1, <1>2, ShapeInvariant, AnswersInvariant, ToldInvariant, PTL DEF Spec

\* A client whose handshake is over is asked for a model or for its user only what it
\* offered in that handshake, through any number of clients that leave and come back, stops
\* and starts, and whatever they have left in the server or on the wires.
THEOREM OnlyTheOfferedIsAsked == Spec => []CallsAreInvited
<1>1. ShapeIInv /\ HandshakeIInv => CallsAreInvited
  <2> SUFFICES ASSUME ShapeIInv, HandshakeIInv, client.peer = "ready", NEW m \in Range(toClient),
                      m.kind = "request", m.ask # "roots"
               PROVE  m.ask \in client.offered
    BY DEF CallsAreInvited
  <2>1. PICK k \in 1..Len(toClient) : m = toClient[k]
    BY RangeOf DEF ShapeIInv
  <2> QED
    BY <2>1 DEF HandshakeIInv, AskedAsOffered, IsOffered
<1> QED
  BY <1>1, ShapeInvariant, HandshakeInvariant, PTL

=============================================================================
