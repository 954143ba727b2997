--------------------------- MODULE StdioTransports ----------------------------
(***************************************************************************)
(* StdioClientTransport, which runs an MCP server as a child process, and  *)
(* McpStdioServerTransport inside the child, whose thread reads standard   *)
(* input and posts what it reads to the transport's event loop.  Between   *)
(* them are two pipes of bytes; messages are lines, cut by LineFramer.     *)
(*                                                                         *)
(* The client's slots run inside its read handler (`handling') and may     *)
(* stop or send.  A connection is one life of the child; its number is     *)
(* the number of the start.                                                *)
(***************************************************************************)
EXTENDS Naturals, Sequences, SequencesExt

CONSTANTS
  MaxStarts,       \* bound: children
  MaxSends,        \* bound: messages each end sends over a connection
  LF               \* the byte that ends a line
\* A message is written compactly: no byte of its text ends a line.
ASSUME StdioAssumption ==
  {MaxStarts, MaxSends} \subseteq Nat /\ LF \notin (1..MaxSends) \X {1, 2}

VARIABLES
  client,     \* process: none, running, dead; stopping: inside stop(); told: closed() emitted
  codecC,     \* stdoutCodec
  handling,   \* the messages of the chunk being handled that are still to be delivered
  child,      \* the child: none, up, gone; and what its transport keeps
  reader,     \* the reader thread: state, codec, messages to post, stop flag
  queue,      \* the child's event loop: what is posted to the transport
  down, up,   \* the pipes to the child and from it: bytes, and whether the writer closed it
  sent,       \* history: the messages each end has sent over this connection
  got,        \* history: the messages each end was given of it
  starts
vars == << client, codecC, handling, child, reader, queue, down, up, sent, got, starts >>
clientVars == << client, codecC, handling >>
serverVars == << child, reader, queue >>

(******************************** Framing **********************************)
\* encode: two bytes stand for the text of a message.
encode(m) == << << m, 1 >>, << m, 2 >>, LF >>
\* One more byte: it ends a line, or it belongs to one.  An empty line is none.
Frame(framer, byte) ==
  IF byte # LF THEN [framer EXCEPT !.buffer = Append(@, byte)]
  ELSE [buffer |-> <<>>, lines |-> IF framer.buffer = <<>> THEN framer.lines
                                   ELSE Append(framer.lines, framer.buffer)]
\* The lines a chunk completes and what is left of the last.
BugAppend(buffer, data) ==
  LET Framed[n \in 0..Len(data)] == IF n = 0 THEN [buffer |-> <<>>, lines |-> <<>>]
                                    ELSE Frame(Framed[n - 1], data[n])
  IN  Framed[Len(data)]
append(buffer, data) ==
  LET Framed[n \in 0..Len(data)] == IF n = 0 THEN [buffer |-> buffer, lines |-> <<>>]
                                    ELSE Frame(Framed[n - 1], data[n])
  IN  Framed[Len(data)]
\* decode drops a line that is not a message.
IsMessage(line) == Len(line) = 2 /\ line[1][1] = line[2][1] /\ line[1][2] = 1 /\ line[2][2] = 2
Decode(messages, line) == IF IsMessage(line) THEN Append(messages, line[1][1]) ELSE messages
Messages(lines) ==
  LET Decoded[n \in 0..Len(lines)] == IF n = 0 THEN <<>> ELSE Decode(Decoded[n - 1], lines[n])
  IN  Decoded[Len(lines)]

NoPipe == [bytes |-> <<>>, closed |-> TRUE]
Pipe == [bytes |-> <<>>, closed |-> FALSE]
NoReader == [state |-> "none", codec |-> <<>>, posting |-> <<>>, stop |-> FALSE]
Taken(pipe, k) == [pipe EXCEPT !.bytes = SubSeq(@, k + 1, Len(@))]

(******************************* The client ********************************)
EventLoop == ~ client.stopping /\ handling = <<>>
Running == client.process = "running"

\* start does nothing while there is a QProcess, also a dead one.
start(runs) ==
  /\ client.process = "none" /\ ~ client.stopping /\ starts < MaxStarts
  /\ starts' = starts + 1
  /\ client' = [process |-> IF runs THEN "running" ELSE "dead", stopping |-> FALSE, told |-> ~ runs]
  /\ child' = [state |-> IF runs THEN "up" ELSE "none", open |-> runs, told |-> FALSE]
  /\ reader' = IF runs THEN [NoReader EXCEPT !.state = "reading"] ELSE NoReader
  /\ queue' = <<>>
  /\ down' = IF runs THEN Pipe ELSE NoPipe
  /\ up' = IF runs THEN Pipe ELSE NoPipe
  /\ sent' = [client |-> <<>>, server |-> <<>>] /\ got' = sent'
  /\ UNCHANGED << codecC, handling >>

\* stop: what the child still says is not heard; its input is closed, and it is waited for.
BugStopBegins ==
  /\ client.process # "none" /\ ~ client.stopping
  /\ client' = [client EXCEPT !.stopping = TRUE]
  /\ UNCHANGED << codecC, handling, serverVars, down, up, sent, got, starts >>
StopBegins ==
  /\ client.process # "none" /\ ~ client.stopping
  /\ client' = [client EXCEPT !.stopping = TRUE]
  /\ down' = [down EXCEPT !.closed = TRUE]
  /\ UNCHANGED << codecC, handling, serverVars, up, sent, got, starts >>
StopEnds ==
  /\ client.stopping /\ child.state # "up"
  /\ client' = [process |-> "none", stopping |-> FALSE, told |-> TRUE]
  /\ codecC' = <<>>
  /\ down' = NoPipe /\ up' = NoPipe
  /\ UNCHANGED << handling, serverVars, sent, got, starts >>
\* The child did not end in time.
Kill ==
  /\ client.stopping /\ child.state = "up"
  /\ child' = [child EXCEPT !.state = "gone"]
  /\ UNCHANGED << clientVars, reader, queue, down, up, sent, got, starts >>

sendC ==
  /\ Running /\ ~ client.stopping /\ child.state = "up" /\ Len(sent.client) < MaxSends
  /\ sent' = [sent EXCEPT !.client = Append(@, Len(@) + 1)]
  /\ down' = [down EXCEPT !.bytes = @ \o encode(Len(sent.client) + 1)]
  /\ UNCHANGED << clientVars, serverVars, up, got, starts >>

onReadyReadStdout(k) ==
  /\ EventLoop /\ Running /\ k \in 1..Len(up.bytes)
  /\ up' = Taken(up, k)
  /\ LET framed == append(codecC, SubSeq(up.bytes, 1, k))
     IN  /\ codecC' = framed.buffer
         /\ LET messages == Messages(framed.lines)
            IN  handling' = [j \in DOMAIN messages |-> [of |-> starts, message |-> messages[j]]]
  /\ UNCHANGED << client, serverVars, down, sent, got, starts >>

\* The loop over the chunk's messages goes on whatever a slot did to the transport.
DeliverC ==
  /\ ~ client.stopping /\ handling # <<>>
  /\ handling' = Tail(handling)
  /\ got' = IF Head(handling).of = starts THEN [got EXCEPT !.client = Append(@, Head(handling).message)]
            ELSE got
  /\ UNCHANGED << client, codecC, serverVars, down, up, sent, starts >>

\* finished() comes when the output is drained.
onProcessFinished ==
  /\ EventLoop /\ Running /\ child.state = "gone" /\ up.bytes = <<>>
  /\ client' = [client EXCEPT !.process = "dead", !.told = TRUE]
  /\ UNCHANGED << codecC, handling, serverVars, down, up, sent, got, starts >>

(****************************** The server *********************************)
Alive == child.state = "up"
\* read: some bytes, or the end of the input.
Read(k) ==
  /\ Alive /\ reader.state = "reading" /\ k \in 1..Len(down.bytes)
  /\ down' = Taken(down, k)
  /\ LET framed == append(reader.codec, SubSeq(down.bytes, 1, k))
     IN  reader' = [reader EXCEPT !.codec = framed.buffer, !.posting = Messages(framed.lines),
                                  !.state = "posting"]
  /\ UNCHANGED << clientVars, child, queue, up, sent, got, starts >>
ReadEnd ==
  /\ Alive /\ reader.state = "reading" /\ down.bytes = <<>> /\ down.closed
  /\ reader' = [reader EXCEPT !.state = "ending"]
  /\ UNCHANGED << clientVars, child, queue, down, up, sent, got, starts >>

\* postToOwner: the transport is told unless it has stopped reading; the flag is looked
\* at after each message and before each read.
Posted(event) == IF reader.stop THEN queue ELSE Append(queue, event)
PostMessage ==
  /\ Alive /\ reader.state = "posting" /\ reader.posting # <<>>
  /\ queue' = Posted([closed |-> FALSE, message |-> Head(reader.posting)])
  /\ reader' = IF reader.stop THEN [reader EXCEPT !.posting = <<>>, !.state = "ending"]
               ELSE [reader EXCEPT !.posting = Tail(@)]
  /\ UNCHANGED << clientVars, child, down, up, sent, got, starts >>
NextRead ==
  /\ Alive /\ reader.state = "posting" /\ reader.posting = <<>>
  /\ reader' = [reader EXCEPT !.state = IF reader.stop THEN "ending" ELSE "reading"]
  /\ UNCHANGED << clientVars, child, queue, down, up, sent, got, starts >>
BugPostClosed ==
  /\ Alive /\ reader.state = "ending"
  /\ child' = [child EXCEPT !.told = TRUE]
  /\ reader' = [reader EXCEPT !.state = "done"]
  /\ UNCHANGED << clientVars, queue, down, up, sent, got, starts >>
PostClosed ==
  /\ Alive /\ reader.state = "ending"
  /\ queue' = Posted([closed |-> TRUE, message |-> 0])
  /\ reader' = [reader EXCEPT !.state = "done"]
  /\ UNCHANGED << clientVars, child, down, up, sent, got, starts >>

\* What was posted is emitted, whatever the transport has become.
Dispatch ==
  /\ Alive /\ queue # <<>> /\ queue' = Tail(queue)
  /\ IF Head(queue).closed THEN child' = [child EXCEPT !.told = TRUE] /\ UNCHANGED got
     ELSE got' = [got EXCEPT !.server = Append(@, Head(queue).message)] /\ UNCHANGED child
  /\ UNCHANGED << clientVars, reader, down, up, sent, starts >>

sendS ==
  /\ Alive /\ child.open /\ Len(sent.server) < MaxSends
  /\ sent' = [sent EXCEPT !.server = Append(@, Len(@) + 1)]
  /\ up' = [up EXCEPT !.bytes = @ \o encode(Len(sent.server) + 1)]
  /\ UNCHANGED << clientVars, serverVars, down, got, starts >>

\* stop leaves the thread behind if it is blocked in a read.
stopS ==
  /\ Alive /\ child.open
  /\ child' = [child EXCEPT !.open = FALSE, !.told = TRUE]
  /\ reader' = [reader EXCEPT !.stop = TRUE]
  /\ UNCHANGED << clientVars, queue, down, up, sent, got, starts >>

\* The program quits once it was told; it may also die.
Quit ==
  /\ Alive /\ child.told
  /\ child' = [child EXCEPT !.state = "gone"]
  /\ UNCHANGED << clientVars, reader, queue, down, up, sent, got, starts >>
Dies ==
  /\ Alive
  /\ child' = [child EXCEPT !.state = "gone"]
  /\ UNCHANGED << clientVars, reader, queue, down, up, sent, got, starts >>

Init ==
  /\ client = [process |-> "none", stopping |-> FALSE, told |-> FALSE]
  /\ codecC = <<>> /\ handling = <<>>
  /\ child = [state |-> "none", open |-> FALSE, told |-> FALSE]
  /\ reader = NoReader /\ queue = <<>>
  /\ down = NoPipe /\ up = NoPipe
  /\ sent = [client |-> <<>>, server |-> <<>>] /\ got = sent /\ starts = 0

ClientReads == (\E k \in 1..Len(up.bytes) : onReadyReadStdout(k)) \/ DeliverC \/ onProcessFinished
ServerReads ==
  \/ \E k \in 1..Len(down.bytes) : Read(k)
  \/ ReadEnd \/ PostMessage \/ NextRead \/ PostClosed \/ Dispatch
Next ==
  \/ \E runs \in BOOLEAN : start(runs)
  \/ StopBegins \/ StopEnds \/ Kill \/ sendC \/ ClientReads
  \/ ServerReads \/ sendS \/ stopS \/ Quit \/ Dies

Spec == Init /\ [][Next]_vars
\* Both event loops and the thread run, and a program that was told quits: a stop need
\* not kill.
FairSpec ==
  Spec /\ WF_vars(ClientReads \/ StopEnds) /\ WF_vars(ServerReads) /\ WF_vars(Quit)

(****************************** Properties *********************************)
\* The client is given what its child wrote, in order, whole and once, however the
\* pipe cuts it and however a slot stops and starts the transport; and when it hears
\* of the child's end it has been given everything (onReadyReadStdout).
ClientHearsAll ==
  /\ IsPrefix(got.client, sent.server)
  /\ client.process = "dead" => got.client = sent.server

\* So is the server, and it is told of the end of its input after everything that was
\* sent to it, also what the client sent just before stop() (run, postToOwner).
ServerHearsAll ==
  /\ IsPrefix(got.server, sent.client)
  /\ child.told /\ child.open => got.server = sent.client

\* Neither end is left with a dead other: a client whose child is gone hears it or has
\* stopped, and a child whose client stops ends without being killed.
EndsAreTold ==
  <>[](/\ client.process = "running" => Alive
       /\ ~ client.stopping /\ (down.closed => ~ Alive))
=============================================================================
