------------------------------ MODULE McpSseHttp ------------------------------
(***************************************************************************)
(* McpSseHttpTransport, the MCP transport of protocol 2024-11-05: one GET  *)
(* whose stream carries the server's messages, read by HttpStream and cut  *)
(* into events by SSEParser, and one POST per message of the client, to an *)
(* address the stream names first.  The host is a JSON-RPC session: its    *)
(* requests wait until a response, sendFailed or closed settles them.      *)
(*                                                                         *)
(* What a handler has still to do is `work': a slot on one of the          *)
(* transport's signals runs between two of its items and may stop, start   *)
(* or send; the event loop runs when it is empty.                          *)
(***************************************************************************)
EXTENDS SseParser, FiniteSets, FiniteSetsExt, TLC

CONSTANTS
  Requests,       \* the host's requests
  Lengthy,        \* the lengths of the lines of events that are too long
  MaxStarts,      \* bound: streams
  MaxNotes,       \* bound: messages the server sends on its own
  MaxTalk         \* bound: these and the host's requests, one that is too long twice
ASSUME HttpAssumption == {MaxStarts, MaxNotes, MaxTalk} \subseteq Nat /\ Lengthy \subseteq Seq(Nat)

\* How a server may end its lines.
LineEnds == { << CR, LF >>, << CR >>, << LF >> }

None == "none"
\* The addresses an endpoint event may name, of the connection's origin or not.
Own == << 0, "own" >>
Foreign == << 0, "foreign" >>

VARIABLES
  t,        \* open, stream (0: null), endpoint (the session a POST goes to), pending
  parser,   \* sseParser
  work,     \* of: the stream whose handler runs; items: what it has still to do
  net,      \* the HttpStream of the newest GET, its flags and the bytes to come
  written,  \* history: the events the server wrote to it, and their lengths
  got,      \* history: the events handled since it was opened
  posts,    \* the POSTs in flight
  req,      \* the host's requests
  server,   \* what the server has accepted and has not answered
  world     \* http alive, and the bounded counters
vars == << t, parser, work, net, written, got, posts, req, server, world >>
hostVars == << posts, req >>

NoWork == [of |-> 0, items |-> <<>>]
NoStream == [head |-> None, fired |-> FALSE, wire |-> <<>>, read |-> 0, over |-> TRUE]

(************************** Requests and closing ***************************)
\* abortPending and onSendFailed of the session.
Closing == req' = [r \in Requests |-> IF req[r] = "waiting" THEN "closed" ELSE req[r]]
Failing(r) == req' = IF req[r] = "waiting" THEN [req EXCEPT ![r] = "failed"] ELSE req

resetSession ==
  /\ parser' = Fresh
  /\ t' = [open |-> FALSE, stream |-> 0, endpoint |-> 0, pending |-> <<>>]

\* stop and onFinished leave the same state; the first also aborts the stream.
CloseStream ==
  /\ resetSession
  /\ net' = [net EXCEPT !.over = TRUE, !.wire = <<>>]
  /\ IF t.open THEN Closing ELSE UNCHANGED req

(****************************** Sending ************************************)
post(r) ==
  IF t.endpoint = 0 THEN t' = [t EXCEPT !.pending = Append(@, r)] /\ UNCHANGED posts
  ELSE UNCHANGED t /\ posts' = posts \cup {[of |-> r, to |-> t.endpoint, taken |-> FALSE]}

Talks(n) == Cardinality({r \in Requests : req[r] # "idle"}) + world.notes + n <= MaxTalk
send(r) ==
  /\ req[r] = "idle" /\ t.open /\ Talks(1)
  /\ req' = [req EXCEPT ![r] = "waiting"]
  /\ post(r)
  /\ UNCHANGED << parser, work, net, written, got, server, world >>

stop ==
  /\ t.open
  /\ CloseStream
  /\ UNCHANGED << work, written, got, posts, server, world >>

\* A transport that is gone or opens no stream is reported and nothing is open.
start(opens) ==
  /\ ~ t.open /\ world.starts < MaxStarts
  /\ world' = [world EXCEPT !.starts = @ + 1]
  /\ IF opens /\ world.http
     THEN /\ t' = [t EXCEPT !.open = TRUE, !.stream = world.starts + 1]
          /\ net' = [NoStream EXCEPT !.over = FALSE]
          /\ written' = <<>> /\ got' = <<>> /\ server' = {}
     ELSE UNCHANGED << t, net, written, got, server >>
  /\ UNCHANGED << parser, work, posts, req >>

(*************************** The stream's handlers *************************)
\* HttpStream: metaDataChanged, readyRead and finished of the reply.  None comes
\* after the terminal one, and a stopped transport hears none.
Listening == work.items = <<>> /\ t.stream # 0 /\ ~ net.over
Run(items) == work' = [of |-> t.stream, items |-> items]
HeadersFirst == IF net.fired THEN <<>> ELSE << [do |-> "headers"] >>
Chunk(k) == IF k = 0 THEN <<>> ELSE << [do |-> "chunk", bytes |-> SubSeq(net.wire, 1, k)] >>
Elsewhere == UNCHANGED << t, parser, written, got, hostVars, server, world >>

MetaDataChanged ==
  /\ Listening /\ net.head # None /\ ~ net.fired
  /\ net' = [net EXCEPT !.fired = TRUE]
  /\ Run(HeadersFirst) /\ Elsewhere

ReadyRead(k) ==
  /\ Listening /\ k \in 1..Len(net.wire)
  /\ net' = [net EXCEPT !.fired = TRUE, !.wire = SubSeq(@, k + 1, Len(@)), !.read = @ + k]
  /\ Run(HeadersFirst \o Chunk(k)) /\ Elsewhere

\* The reply ends: with the server's answer, or with an error of the network, before
\* which the last bytes are read as well.
Finished(broken) ==
  /\ Listening /\ (broken \/ net.head # None)
  /\ LET k == Len(net.wire)
     IN  /\ net' = [net EXCEPT !.over = TRUE, !.wire = <<>>, !.read = @ + k, !.fired = TRUE]
         /\ Run((IF broken /\ k = 0 THEN <<>> ELSE HeadersFirst) \o Chunk(k)
                  \o << [do |-> IF broken THEN "error" ELSE "finish"] >>)
  /\ Elsewhere

(************************** The transport's handlers ***********************)
Current == t.stream = work.of
Then(items) == work' = [work EXCEPT !.items = items \o Tail(@)]
\* The rest of onChunk after a return; what the stream still has to say comes after.
Only(items) == work' = [work EXCEPT !.items = items]

\* onHeaders: a refused stream is reported and then stopped.
BugOnHeaders ==
  /\ Then(<<>>)
  /\ UNCHANGED << t, parser, net, written, got, hostVars, server, world >>
OnHeaders ==
  /\ IF net.head = "ok" THEN Then(<<>>) ELSE Then(<< [do |-> "stop"] >>)
  /\ UNCHANGED << t, parser, net, written, got, hostVars, server, world >>

OnChunk(bytes) ==
  \E parsed \in {append(parser, bytes)} :
    /\ parser' = parsed.parser
    /\ Then([k \in DOMAIN parsed.events |-> [do |-> "event", event |-> parsed.events[k]]])
    /\ UNCHANGED << t, net, written, got, hostVars, server, world >>

\* The endpoint event: of another origin it ends the session, else it is where
\* messages go, beginning with those that wait.
OnEndpoint(e) ==
  /\ got' = Append(got, e)
  /\ IF e.data = << Foreign >> THEN Only(<< [do |-> "stop"] >>) /\ UNCHANGED t
     ELSE /\ t' = [t EXCEPT !.endpoint = t.stream, !.pending = <<>>]
          /\ Then([k \in DOMAIN t.pending |-> [do |-> "post", of |-> t.pending[k]]])
  /\ UNCHANGED << parser, net, written, hostVars, server, world >>

\* A message is given to the session, which settles the request it answers.
OnMessage(e) ==
  /\ got' = Append(got, e)
  /\ LET r == e.data[1][2]
     IN  req' = IF r \in Requests /\ req[r] = "waiting" THEN [req EXCEPT ![r] = "answered"] ELSE req
  /\ Then(<<>>)
  /\ UNCHANGED << t, parser, net, written, posts, server, world >>

OnPost(r) ==
  /\ post(r) /\ Then(<<>>)
  /\ UNCHANGED << parser, net, written, got, req, server, world >>

\* An error is reported first, and the end is handled if the stream still stands.
OnError ==
  /\ Then(<< [do |-> "finish"] >>)
  /\ UNCHANGED << t, parser, net, written, got, hostVars, server, world >>
OnEnd ==
  /\ CloseStream /\ work' = NoWork
  /\ UNCHANGED << written, got, posts, server, world >>

\* stillCurrent: after every signal the handler goes on only for its own stream.
Abandon ==
  /\ work.items # <<>> /\ ~ Current
  /\ work' = NoWork
  /\ UNCHANGED << t, parser, net, written, got, hostVars, server, world >>
Work ==
  /\ work.items # <<>> /\ Current
  /\ LET item == Head(work.items)
     IN  \/ item.do = "headers" /\ OnHeaders
         \/ item.do = "chunk" /\ OnChunk(item.bytes)
         \/ item.do = "event" /\ item.event.type = << "endpoint" >> /\ OnEndpoint(item.event)
         \/ item.do = "event" /\ item.event.type = << "message" >> /\ OnMessage(item.event)
         \/ item.do = "post" /\ OnPost(item.of)
         \/ item.do = "error" /\ OnError
         \/ item.do \in {"stop", "finish"} /\ OnEnd

(****************************** The network ********************************)
\* failPost, after the slots on errorOccurred: whatever session the message was of.
PostEnds(p, ok) ==
  /\ work.items = <<>> /\ p \in posts /\ (ok => p.taken)
  /\ posts' = posts \ {p}
  /\ IF ok THEN UNCHANGED req ELSE Failing(p.of)
  /\ UNCHANGED << t, parser, work, net, written, got, server, world >>

\* The HttpTransport is destroyed with its stream and its replies: the POSTs in
\* flight end without a word, the stream's destruction closes the transport.
HttpDestroyed ==
  /\ work.items = <<>> /\ world.http
  /\ world' = [world EXCEPT !.http = FALSE]
  /\ posts' = {}
  /\ CloseStream
  /\ UNCHANGED << work, written, got, server >>

(****************************** The server *********************************)
\* It takes its steps between the client's handlers, which see none of them before.
ServerOnly == UNCHANGED << t, parser, work, got, req, world >>
Write(type, lines, end) ==
  LET bytes == format(type, lines, end)
  IN  /\ net' = [net EXCEPT !.wire = @ \o bytes]
      /\ written' = Append(written, [type |-> type, lines |-> lines, length |-> Len(bytes)])

AnswersGet(head) ==
  /\ work.items = <<>> /\ ~ net.over /\ net.head = None
  /\ net' = [net EXCEPT !.head = head]
  /\ ServerOnly /\ UNCHANGED << written, posts, server >>
Serving == work.items = <<>> /\ ~ net.over /\ net.head = "ok"
\* The server names its endpoint once.
NamesEndpoint(address) ==
  /\ Serving /\ \A k \in DOMAIN written : written[k].type # "endpoint"
  /\ Write("endpoint", << << address >> >>, world.end)
  /\ ServerOnly /\ UNCHANGED << posts, server >>
Note == << << << world.starts, None >> >> >>
\* Data beyond the limit of the parser, in one line or over several.
Long(lengths) ==
  [l \in DOMAIN lengths |-> [i \in 1..lengths[l] |-> << world.starts, None >>]]
Speaks(lines, cost) ==
  /\ Serving /\ world.notes < MaxNotes /\ Talks(cost)
  /\ world' = [world EXCEPT !.notes = @ + cost]
  /\ Write("message", lines, world.end)
  /\ UNCHANGED << t, parser, work, got, req, posts, server >>
TakesPost(p) ==
  /\ work.items = <<>> /\ p \in posts /\ ~ p.taken
  /\ posts' = (posts \ {p}) \cup {[p EXCEPT !.taken = TRUE]}
  /\ server' = IF p.to = world.starts /\ Serving THEN server \cup {p.of} ELSE server
  /\ ServerOnly /\ UNCHANGED << net, written >>
Answers(r) ==
  /\ Serving /\ r \in server
  /\ server' = server \ {r}
  /\ Write("message", << << << world.starts, r >> >> >>, world.end)
  /\ ServerOnly /\ UNCHANGED posts

(*************************** The whole system ******************************)
Init ==
  /\ t = [open |-> FALSE, stream |-> 0, endpoint |-> 0, pending |-> <<>>]
  /\ parser = Fresh /\ work = NoWork /\ net = NoStream
  /\ written = <<>> /\ got = <<>> /\ posts = {} /\ server = {}
  /\ req = [r \in Requests |-> "idle"]
  /\ \E end \in LineEnds : world = [http |-> TRUE, starts |-> 0, notes |-> 0, end |-> end]

Host ==
  \/ stop \/ \E opens \in BOOLEAN : start(opens)
  \/ \E r \in Requests : send(r)
Reply ==
  \/ MetaDataChanged
  \/ \E k \in 1..Len(net.wire) : ReadyRead(k)
Net == \E p \in posts, ok \in BOOLEAN : PostEnds(p, ok)
Server ==
  \/ \E head \in {"ok", "refused"} : AnswersGet(head)
  \/ \E address \in {Own, Foreign} : NamesEndpoint(address)
  \/ \E p \in posts : TakesPost(p)
  \/ \E r \in server : Answers(r)
Next ==
  \/ Host \/ Work \/ Abandon \/ Reply \/ Net \/ Server
  \/ \E broken \in BOOLEAN : Finished(broken)
  \/ Speaks(Note, 1) \/ \E lengths \in Lengthy : Speaks(Long(lengths), 2)
  \/ HttpDestroyed

Spec == Init /\ [][Next]_vars
FairSpec == Spec /\ WF_vars(Work \/ Abandon \/ Reply \/ Net \/ Server)

(***************************** Properties **********************************)
Joined(lines) == FoldLeft(LAMBDA data, line : data \o << LF >> \o line, Head(lines), Tail(lines))
From(lines, l) == SubSeq(lines, l, Len(lines))
\* Data that outgrows the parser as its lines are added up.
TooMuch(lines) ==
  \E l \in DOMAIN lines :
    Len(lines[l]) + (IF l = 1 THEN 0 ELSE Len(Joined(SubSeq(lines, 1, l - 1)))) > MaxBuffer
EventIn(type, lines) ==
  IF lines = <<>> \/ TooMuch(lines) THEN <<>> ELSE << [type |-> type, data |-> Joined(lines)] >>

\* What may be handled of an event: it, unless it is too long; and where a line is
\* longer than the buffer and may be given up unfinished, what follows that line.
Becomes(w) ==
  {EventIn(<< w.type >>, w.lines)}
    \cup { EventIn(<< "message" >>, From(w.lines, l + 1)) :
             l \in { k \in DOMAIN w.lines : Len(w.lines[k]) >= MaxBuffer } }
Outcomes(ws) ==
  FoldLeft(LAMBDA all, w : { es \o e : es \in all, e \in Becomes(w) }, {<<>>}, ws)
LengthOf(ws) == FoldLeft(LAMBDA n, w : n + w.length, 0, ws)
Whole == { k \in 0..Len(written) : LengthOf(SubSeq(written, 1, k)) <= net.read }

\* However the network cuts the stream and whatever ends the server's lines, what is
\* handled is what the server wrote to this stream, in order, each event once, up to
\* the last one that arrived whole; an event that is too long takes none of its
\* neighbours with it, and comes to nothing or to the lines behind one that outgrew
\* the buffer (SSEParser::append, stillCurrent).
DeliveredAsSent ==
  /\ \E es \in Outcomes(written) : IsPrefix(got, es)
  /\ t.stream # 0 /\ work.items = <<>> =>
       \E es \in Outcomes(SubSeq(written, 1, Max(Whole))) : IsPrefix(es, got)

\* Every request is settled in the end: answered, failed with its POST, or closed
\* with the stream.
RequestsSettle == <>[](\A r \in Requests : req[r] # "waiting")

=============================================================================
