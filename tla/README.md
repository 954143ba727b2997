# A TLA+ model of LLMQore

LLMQore is a Qt/C++ library that talks to language-model providers over HTTP,
runs the tools a model asks for, and speaks the MCP and ACP protocols over
JSON-RPC. This directory holds its formal model: modules translated from the
source, TLC configurations that check them on small instances, and theorems
proved with TLAPS. Paths below are relative to the repository.

## The system

Nearly everything runs on one event loop. A callback (a network signal, a timer,
the continuation of a future, a posted call) runs to its end before the next one
starts, so the unit of interleaving is the callback; what makes the code hard is
the order in which callbacks arrive, how deeply they call back into each other
through signals, and what has been destroyed, closed or replaced in between. The
other threads are the reader of standard input in the MCP stdio server and the
processes the library starts.

| Component | State it keeps | Operations | Talks to |
|---|---|---|---|
| `BaseClient` (`source/core/BaseClient.cpp`) | requests by id (stream, buffers, message, tool rounds), one-shot promises | `ask`, `askOnce`, `cancelRequest`, stream handlers, `handleToolsCompleted`, destructor | transport, message, `ToolsManager`, application (signals) |
| `BaseMessage` and provider messages | blocks, stop reason, `MessageState` | `applyEvent`, `startNewContinuation` | `BaseClient` |
| `ToolsManager`, `ToolRound`, `ToolHandler` (`source/tools`) | a round per request, its queue, active executions, the gate | `beginRound`, `driveRound`, `startExecution`, `finalizePendingTool`, `cleanupRequest` | tools (futures), `BaseClient` (`toolExecutionComplete`) |
| `ToolRegistry` | tools by name | `addTool`, `removeTool` | `McpToolBinder`, application |
| Provider clients (`source/clients`) | endpoint and framing per provider | `processSseEvent`, `processBufferedBody`, payloads | `BaseClient` |
| Network (`source/network`) | a reply, flags for headers, end and abort; a parser's buffer | `send`, `openStream`, `abort`, `append`, `flush` | Qt network |
| `JsonRpcSession`, `ProtocolPeer` (`source/rpc`) | outgoing requests by id, incoming requests in flight and cancelled, the handshake flag | `sendRequest`, `cancelRequest`, message handlers, `abortPending` | transport, MCP and ACP layers |
| RPC transports (`source/rpc`) | open flag, process, line buffer | `start`, `stop`, `send` | the peer |
| `McpClient`, `McpServer` (`source/mcp`) | capabilities, `initialized`, subscriptions, coalesced notifications | handshake, lists, calls, notifications | session, tools, providers |
| `McpToolBinder` | a binding per server, its remote tools, reconnect timers | `addClient`, `resync`, `removeClient`, reconnect | `McpClient`, `ToolRegistry` |
| MCP HTTP transports | session id, streams, resume cursor, backoff, pending sends | `send`, listen stream, `stop` | network |
| MCP server transports | sockets, pending answers by id, queued messages, reader thread | accept, route, answer, time out | `McpServer` |
| `AcpClient`, `TerminalManager` (`source/acp`) | sessions, terminals, waiters | prompts, permissions, terminals | session, processes |
| `mcp-bridge` | the servers it bridges | start-up | MCP |

What makes each correct, in a line: a request ends exactly once and never while
its tools run; a round settles each call once and continues once; a tool-round
limit is exact; what the application hears and what the next turn replays is what
the provider sent; an RPC request is settled once, by its own answer or by the
event that really ended it; nothing sent on one connection is answered on the
next; a handshake precedes every call of its connection; a lost server comes back
with one set of tools; a client that lists after a notification has the present
list; an HTTP answer goes to the request that asked for it; a parser gives the
same events however the bytes were cut; whoever waits for a process is told its
end. `PROJECT.json` lists where each of them could go wrong (`hazards`).

## Modules

| Module | Models |
|---|---|
| `RequestLifecycle` | `BaseClient`, its `ToolsManager`, `ToolRound`, `ToolHandler`, the registry and the message state, for one client |
| `RequestPromise` | what the application may rely on about a request, with no streams, tools or gates |
| `RequestLifecycleProofs` | theorems about `RequestLifecycle` |
| `ProviderMessages` | the five provider messages as operators on a message and an event |
| `MessageAssembly` | extends it with a provider that sends and a client that applies, hands over, replays and records |
| `JsonRpcSession` | two `JsonRpcSession`s over a pair of `PipeTransport`s |
| `AtMostOnceCall` | what the two promise: an at-most-once call, with no ids, queues or connections |
| `ProtocolPeer` | extends `JsonRpcSession` with the client's handshake and its gate |
| `JsonRpcSessionProofs` | theorems about `JsonRpcSession`, the same for `ProtocolPeer`, and its gate |
| `McpToolBinder` | one binding of the binder, with the `McpClient`, the connection and the `McpServer` it works on |
| `McpToolBinderProofs` | theorems about `McpToolBinder` |
| `McpServer` | `McpServer`, its providers and tools, and the feature calls of `McpClient` |
| `McpServerProofs` | theorems about `McpServer` |
| `McpStreamableHttp` | `McpStreamableHttpTransport` against any server of its protocol |
| `McpStreamableHttpProofs` | theorems about `McpStreamableHttp` |
| `McpHttpServerTransport` | `McpHttpServerTransport` between its HTTP clients and the session above it |
| `McpHttpServerTransportProofs` | theorems about `McpHttpServerTransport` |
| `SseParser` | `SSEParser` as operators on a record |
| `McpSseHttp` | extends it with `McpSseHttpTransport`, `HttpStream` and a server |
| `TerminalManager` | the terminals of an ACP host and their processes |
| `AcpClient` | extends it with the host's end of an agent connection |
| `AcpClientProofs` | theorems about `AcpClient` and `TerminalManager` |
| `StdioTransports` | `StdioClientTransport`, the pipes, and `McpStdioServerTransport` with its reader thread |
| `StdioTransportsProofs` | theorems about `StdioTransports` |
| `MC*` | the instances for TLC |

Definitions called `Bug...` are not part of any specification: each is a defect a
property of that module would catch (`mutants` in `PROJECT.json`).

### RequestLifecycle

*State.* `st[r]` is one record per request: `phase` is its membership in
`Impl::requests`; `net` is the history of its HTTP exchanges with `cur` for
`ActiveRequest::stream` (0 for `nullptr`; in buffered mode the outstanding
`send`); `msg` is the message's `MessageState` and its tool calls; `round` is
the `ToolRound` (`calls` is `m_pending`, `sent` the part before `m_next`,
`settled` the part that is `complete`, `status` is `m_closed`); `running` is
`ToolHandler::m_activeExecutions`; `asking` the gate futures not yet answered;
`told` what the application has heard. `tools` is the registry, `provider` the
kind of client and `alive` says whether the client exists. `turn` (the exchange
that wrote the message) and `ran` (the calls executed) are history.

*Actions.* One per callback. The synchronous calls inside a callback are
operators from record to record that nest the way the C++ calls do:
`ToolFinishes` is `onToolExecutionFinished`, which reaches `FinalizeTool`,
`Drive`, `Advance`, `Start`, and, when the round settles, `Continue`
(`handleToolsCompleted`), `OpenExchange` (`startHttpRequest`) or `Fail`.
Inside them `Outside` chooses what is not the library's: whether the
application's slot cancels the request when a tool starts, and whether the
transport returns a stream.

| Code | Action or operator |
|---|---|
| `createRequest`, `postJson`, `trackOneShot` | `Ask` |
| `ensureMessage`, `applyEvent`, `applyEffects` | `TurnStarts`, `TurnEnds`, `TurnEndsAgain`, `ProviderError`, `NativeStop` |
| stream `finished`, `errorOccurred` | `StreamEnds`, `StreamBreaks`, `OldExchangeEnds` |
| buffered `send` continuation | `BufferedReply` |
| `onStreamFinished` | `Drained` (success), `Fail` |
| `executeToolsFromMessage`, `beginRound`, `driveRound`, `advance`, `dispatch` | `BeginRound`, `Drive`, `Advance`, `Walked` |
| gate continuation | `GateAnswers` |
| `onToolExecutionFinished`, `finalizePendingTool` | `ToolFinishes`, `FinalizeTool` |
| `handleToolsCompleted`, `continueRequest` | `Continue` |
| `cancelRequest`, `abortRequest`, `failRequest`, `completeRequest` | `Cancel`, `Fail`, `Complete`, `Released` |
| `~BaseClient` | `Destroy` |
| `addTool`, `removeTool` | `RegistryChanges` |

*Abstractions.* A tool id is its position in the turn. Request ids are UUIDs, so
requests share only the registry and the client. A cancel from another thread is
posted: it is a `Cancel` that comes later. Google's error sniffer fails the
request at the end of the stream; it is a `ProviderError` or a `StreamBreaks`.
`setMaxToolContinuations` is called before the requests.

*Assumptions.* A provider sends no content after the event that ended a turn (a
usage-only chunk is not content), and no turn's end is repeated in the chunk
during which its tools already settled. With `EmptyTurns = TRUE`, as in the runs, a
2xx continuation may also end without one content event.

*Properties.* `OneTerminalSignal`, `RoundAccountsForCalls` (no call of a round is
lost), `LimitIsExact`, `FinalizedByLastExchange` (no superseded stream completes
a request, no round is cut short), `ContinuationAnswersTurn` (a continuation
answers all the model's calls and no other), `CallRunsOnce` (once for each exchange,
and for an earlier turn only at the end of an empty Google continuation), the
refinement `ImplementsPromise`, and the liveness property `RequestsEnd`, which excepts
a request that an empty continuation has `Stalled`; `request_stalled` reaches one. A
request whose client was destroyed is outside `OneTerminalSignal`: nobody is told of it
but the holder of its future (`ImplementsPromise`).

*Fairness* (`FairSpec`). Exchanges end because `QNetworkRequest` is given a
transfer timeout (`BaseClient::prepareNetworkRequest`); a tool's and a gate's
future finish, which is the contract of a tool; the event loop delivers what was
posted. Cancellation, destruction and registry changes are not fair.

### ProviderMessages, MessageAssembly

`RequestLifecycle` knows of a message only whether it calls tools. These two know
what it says. A text, a thought or a JSON document is the sequence of the pieces
it arrived in, and a piece knows the item it belongs to, its place, whether it
is the last, and, for Ollama, what the text looks like to the code that sniffs it
for tool calls (`look`). What could be lost, doubled, reordered or mixed up is
then visible, and no character is.

*State.* `m` is the message object: `blocks`, `state`, `reason`, the blocks
already `notified`, and the index maps of the five classes. `c` is the client's
record: `text` and `offset` (`responseContent`, `roundTextOffset`), what it
announced (`heard`, `told`), the calls it `handed` to the tools, the `payload` of
the continuations, the `conversation` and the usage. `turns` and `reported` are
the truth: what the provider composed and counted. `phase` is the exchange.

| Code | Operator or action |
|---|---|
| `BaseMessage` (blocks, thinking, text, JSON of calls, stop reasons) | the first third of `ProviderMessages`, under the code's names |
| `ClaudeMessage`, `OpenAIMessage`, `OpenAIResponsesMessage`, `GoogleMessage`, `OllamaMessage`: `applyEvent` | `ClaudeEvent`, `OpenAIEvent`, `ResponsesEvent`, `GoogleEvent`, `OllamaEvent` |
| their `applyResponse` | `ClaudeResponse`, `OpenAIResponse`, `ResponsesResponse`, the events of a whole for the others |
| `toProviderFormat`, `mapToolResults` | `ClaudeTurn`, ..., `ClaudeContinuation`, ... |
| `processSseEvent`, `processBufferedBody`, `applyEffects` | `processEvent`, `processBufferedBody`, `applyEffects` |
| the provider's events (external) | `Begin`, `OpenItem`, `OpenWithPiece`, `AddPiece`, `CloseBare`, `Stop`, `Trail`, `Break` |
| `onStreamFinished`, `completeRequest` | `Finished`, `onStreamFinished`, `completeRequest` |
| `handleToolsCompleted`, `buildContinuationPayload` | `Continue` |

*Abstractions.* Images and audio, an empty `reasoning_content`, Ollama's
`/generate`, Gemini's signatures on calls, llama.cpp's native chunk and the
sniffing of JSON errors are left out. Rounds after the first that are empty are
in the model and outside the properties (`RequestLifecycle` is about them).

*Properties.* `TurnIsKept`: what the tools and the conversation are given is the
turn that was sent. `ReplayAnswersEveryCall`: the next request repeats every call
with one result each, and the signed thoughts. `ToldAsSent`: what the application
hears is a prefix of what was sent and in the end all of it, thoughts once, and
the tokens of all rounds. Each says where it makes exceptions (`Sniffed`,
`OneTextPerTurn`); the reasons are under *Behaviours to know*. Safety only: that a
request ends is `RequestLifecycle`'s.

### JsonRpcSession, AtMostOnceCall, ProtocolPeer

*State.* Both sides run the same code, so state is kept per request: `<<p, i>>`
is the request side `p` sent under its id `i`. `pending`, `listening`,
`inFlight` and `cancelled` are `m_pending`, `m_progressHandlers`,
`m_inFlightIncomingIds` and `m_cancelledIncomingIds` of both sides; `running`
are the futures of handlers being watched; `fate` is how a caller's future
ended. `wire` holds the `deliver` calls a `PipeTransport` has posted; they stay
posted when a side stops, and are delivered if it has started again by then.
`answer` is history. Requests of the two sides have the same numbers, and where
the code looks up a number without asking whose it is (`ReceiveCancelled`), the
model does so too.

| Code | Action or operator |
|---|---|
| `sendRequestImpl`, `sendRequest`, `sendCancellableRequest` | `Dispatch`, `SendRequest` |
| timeout timer, `cancelRequest`, `abandonRequest` | `Timeout`, `CancelRequest`, `Abandoned` |
| `onSendFailed` | `SendFailed` |
| `dispatchResponse` | `ReceiveAnswer` |
| `dispatchRequest` and its watcher | `ReceiveRequest` (`Accept`, `Refuse`), `HandlerFinishes` (`Answered`) |
| handlers of `notifications/cancelled` and `notifications/progress` | `ReceiveCancelled`, `ReceiveProgress` |
| `sendProgress` | `SendProgress` |
| `onTransportClosed`, `abortPending`, `PipeTransport::stop` | `Stop` (`StopSettles`) |
| `ProtocolPeer::handshake` and its continuation | `Connect`, `Continue` |
| `request`, `requestUngated` | `Request`, `RequestUngated` |
| the `closed` handler of the peer | `GateFollows` |

`AtMostOnceCall` knows two things about a request: what its caller has been told
and what the callee did. A request executes at most once; the caller is told the
outcome of that execution or a failure, once; the callee stays silent only after
the caller has given up. `ImplementsContract` maps `fate`, `running` and `answer`
to those two.

*Properties.* `PendingUntilSettled`, `ImplementsContract`, `DeliveredIsSettled`
(a delivered request is settled without its timer unless a side closes), and for
the gate `OnlyStaleContinuationsMislead`: the one way to an open gate without an
answered handshake is the continuation of an earlier connection. All four are
checked on the composition, `ProtocolPeer`.

*Fairness.* The event loop delivers what was posted (`Receive`) and handlers
finish. Timers, cancellations, sends and closing are not fair: what
`DeliveredIsSettled` promises must not depend on them.

### McpToolBinder

*State.* A *task* is one chain of futures started by `initializeClient` (a
member of `Inits`) or `resyncClient` (of `Syncs`); `stage` is how far it has
come, `got` the tool list its answer brought, `posted` the tasks whose
continuation is due, in order. `binding`, `pending`, `stopping` are the
`Binding`, its `reconnectPending` and `m_stopping`; `timers` counts the
single-shot timers of `scheduleReconnect`. A tool list is a number that grows
when the server's tools change; `registered` is the one in the registry, 0 for
none. `open`, `started`, `initialized` and the two queues are the connection,
`serverReady` and `notifying` the `m_initialized` and `m_toolsNotifyPending` of
the server.

| Code | Action or operator |
|---|---|
| `addServer`, `addClient`, `removeClient`, `shutdown` | `AddServer`, `AddClient`, `RemoveClient`, `Shutdown` |
| slot on `McpClient::disconnected` | `Disconnected` |
| `initializeClient` and its three continuations | `Initialize`, `Ready`, `Listed`, `InitFailed` |
| `resyncClient` and its continuations | `ReceiveChanged`, `Listed`, `SyncFailed` |
| `scheduleReconnect` and its timer | `Schedule`, `ReconnectFires` |
| `listToolsOf`, behind `ProtocolPeer::request` | `ListTools` |
| `ProtocolPeer`'s continuation and `closed` handler | `Greeted`, `Closes` |
| loss of the connection, failed or repeated `start` | `Drop`, `Initialize` |
| `McpServer::notifyToolsChanged` and its timer, `initialize`, `tools/list` | `ToolsChange`, `Notify`, `ServerReceives` |

*Abstractions.* Answers find their task directly (`JsonRpcSession` is about how),
and what is still under way for a task that timed out becomes void in its place
(`Voided`): its late answer is dropped where it arrives. The several
continuations between two steps of a chain are one posted callback. The backoff's
length is left out because no step reads it. `Relaunches` distinguishes
transports whose `start` works again after a loss from
`StdioClientTransport`, whose `start` returns while it holds a process.

*Properties.* `AtMostTwoChains`: a first connection that drops is handled by both
the slot and the failure of its chain, so two chains can run; there are never
more. `PendingIsHonest`: `reconnectPending` never turns a schedule away with
nothing under way. `QuietIsFresh`: when nothing is under way, the registry has
the server's present tools, unless the last listing failed. `RetriesSucceed`: a
reconnect under way brings the tools back over an open connection, unless it is
`Forgotten`: the connection was lost between the answer to `tools/list` and its
continuation, which registers the lost server's tools and clears the flag that had
turned the retry away.

*Fairness.* The event loop runs its callbacks and timers (weak fairness), and a
start that can succeed again and again does once (strong fairness on
`ReconnectFires` opening the transport). Losses and timeouts are bounded.

### McpServer

*State.* `tools` are the server's own tools, those of the registry, and which are
destroyed or disabled; `prov` the registered providers, those alive, what they
hold and what is watched; `server` is `open`, `m_initialized`, the client's
capabilities and `posted`, the event queue of the server's thread: an answer and a
coalesced notification go through it, in order, other notifications leave at once.
`ops` are the requests it has taken, with the providers each has asked, `calls`
those it makes of the client. `client`, `asked` and `bridges` are the other end.
The sessions between them are two ordered wires.

| Code | Action or operator |
|---|---|
| `addTool`, `removeTool`, `setToolRegistry` and the registry's signals | `addTool`, `removeTool`, `RegistryChanges`, `setToolRegistry`, `ToolDestroyed`, `setEnabled` |
| `notifyToolsChanged`, `notifyResourcesChanged` and their `singleShot(0)` | `NotifyLater`, `Posted` |
| the request handlers | `HandleRequest` in `ServerReceives` |
| `collectListFromProviders`, `tryEachProvider`, `tryEachAdvance` | `collectListFromProviders`, `FanIn`, `tryEachProvider`, `FirstOf`, `ProviderAnswers` |
| `tools/call` and its future | `toolsCall`, `ToolEnds` |
| `addResourceProvider`, `removeResourceProvider`, a provider's destruction and signals | `Join`, `Leave`, `ListChanged`, `ResourceUpdated` |
| `StaticResourceProvider`, `DirectoryRootsProvider` | `put`, `remove`, `ChangeRoots`, `removePath` |
| `createSamplingMessage`, `createElicitation`, `listRoots` | `CallClient`, `CallTimesOut` |
| `McpClient`: handshake, lists, reads, its caches, its answers to the server | `connectAndInitialize`, `Asks`, `TakeAnswer`, `TakeNote`, `TakeCall`, `BridgeEnds` |
| `start`, `stop` | `Start`, `Stop` |
| the client closes its end | `ClientLeaves` |

*Abstractions.* An item is the pair of its uri and its description. A change that
nothing announces counts an `epoch`, and what was asked before it is left aside.
The client runs in the server's process or behind a transport of its own: `Stop` takes
both ends down with what is on the wires, `ClientLeaves` only the client's, and the
server goes on as it was. A client that comes back reads what an earlier one left on
its wire, as the receiver of a `PipeTransport` does. A provider registered twice and
resource templates (listed as resources are) are left out. `findTool` ignores
`isEnabled`, as the code does.

*Properties.* `ToldOfChanges`: coalescing loses no change. `AnswersAreWhole`: a
merged list has all that the providers that answered hold, and the first provider
that has a thing answers for it, however answers, deaths and failures interleave.
`CallsAreInvited`: a client whose handshake is over is asked only for what it offered
in it. Before its handshake is over it may be asked for what its predecessor offered,
for the server keeps `m_initialized` and the capabilities when a client closes.
`RequestsAnswered`: every request ends.

*Fairness.* One weak fairness for `Progress`: the event loops run and what was
asked (a provider, a tool, a model) answers or dies. Changes, stops and new
requests are not fair.

### McpStreamableHttp

*State.* `exchange[m]` is the `Exchange` of each message: its stream, the head of
its reply, the events carried and got, the resume `cursor`, and how often it was
answered and failed. `listen` is the listen stream and what is kept across its
connections (`lastId`, `refused`, `timer`), `chunk` and `backlog` what a handler
still has to deliver; between two of those messages the receiver may call back
into the transport. The server is external: any that follows the protocol,
refuses, breaks connections and forgets sessions.

| Code | Action or operator |
|---|---|
| `start`, `stop`, `abandon` | `Start`, `Stop`, `Abandon` |
| `send` (of `initialize`, of the rest), `post` | `SendInitialize`, `Send`, `Post` |
| `onHeaders`, `onChunk`, `onFinished` (JSON, events, refusal, too early), an error | `Headers`, `Chunk`, `DeliverEvent`, `FinishedBody`, `FinishedEvents`, `FinishedRefused`, `FinishedEarly`, `Error` |
| `canResume`, `scheduleResume`, `resume` | `CanResume`, `ScheduleResume`, `Resume` |
| `openListenStream`, `onListenHeaders`, `onListenChunk`, `onListenEnded`, `scheduleListenRetry` | `OpenListen`, `ListenHeaders`, `ListenChunk`, `ListenEnds`, `ListenRetry` |
| `startNewSession`, an expired session, `deleteSession` | `Gone`, `Supersede`, `DeleteSession` |
| the `HttpTransport`'s destruction | `HttpDestroyed` |
| the server (external) | `Replies`, `ServerSpeaks`, `ServerForgets` |

*Properties.* `OneSignal` (a request is told once), `SessionIsKept` (every session
is the present one, ended or forgotten; the listen stream is up, about to be, or
refused), `InOrderOnce` (server messages across reconnects), `RequestsSettle`.

*Fairness.* The event loop runs as long as an exchange has something due; it may
favour some exchanges. Messages are sent once each, so `<>[]` is the leads-to for
each of them. The lengths of backoffs, header values and error texts are left out.

### McpHttpServerTransport

*State.* A connection carries one message: every reply closes it. `phase`, `post`
and `reply` are per connection; `pending` is `pendingByRequestId`, `queue` the
`queuedServerMessages`, numbered; `handling` are the requests the session still
works on, which outlive their connections. A connection that `endSession` stepped over
is `left`: open, without an entry.

| Code | Action |
|---|---|
| `start`, `stop` | `Start`, `Stop` |
| `send` of an answer, of anything else | `SendAnswer`, `SendOwn` |
| a connection's message, `onDisconnected` | `Arrive`, `Disconnect` |
| `processRequest`: refused, request, notification, DELETE | `Refuse`, `Accept`, `TakeNote`, `EndSession` (`Process`; `endSession`) |
| the gateway timer | `TimeOut` |

*Properties.* `WaitersHaveEntries`, `QueueIsRecent`, `ForeignOnlyIfReused` (an
answer is routed by its id alone, and reaches a stranger only where the id was
reused after the asker's connection, or its entry, was lost), `NobodyWaitsForever`
(but a connection that is `left`).

*Fairness.* The event loop parses what has arrived, and timers fire. Handlers may
never answer.

*Abstractions.* Pipelining and status lines are left out. `EndSession` is one action,
the re-entrant `onDisconnected` of each socket included: which entries `QHash::erase`
moves depends on how the ids hash, so any choice of entries to step over is allowed
that leaves one hung up on for each. The timer of such an entry keeps running and
may end a later request of its id early, as `TimeOut` may at any time.

### SseParser, McpSseHttp

*State.* A byte is CR, LF, a field name with its colon, or another value. `t` is
the transport (`open`, `stream`, `endpoint`, `pending`), `parser` its `SSEParser`;
`work` what the running handler still has to do: a slot on one of the transport's
signals runs between two of its items and may stop, start or send, and the event
loop runs when it is empty. `net` is the `HttpStream` with the bytes to come,
`written` and `got` are history.

| Code | Action or operator |
|---|---|
| `SSEParser::append`, `processLine`, `dispatch` | `append`, `processLine`, `Dispatched`, `EventOf`, `Bounded` |
| `HttpStream`: meta data, `readyRead`, `finished` | `MetaDataChanged`, `ReadyRead`, `Finished` |
| the transport's handlers | `OnHeaders`, `OnChunk`, `OnEndpoint`, `OnMessage`, `OnError`, `OnEnd`, `OnPost` (`Work`) |
| a handler whose stream was replaced (`stillCurrent`) | `Abandon` |
| `start`, `stop`, `send`, `post` and its reply | `start`, `stop`, `send`, `post`, `PostEnds` |
| `HttpTransport`'s destruction | `HttpDestroyed` |

*Abstractions.* A stream uses one kind of line end; event ids, retry times and
`flush` are left out. The server moves only between the handlers, which loses
nothing: the handlers do not see it.

*Properties.* `DeliveredAsSent`: what is handled is what was written, each event
once, up to the last whole one. An event that is too long takes no neighbour with it
and is missing, or, if one of its lines outgrew the buffer before it ended, comes to
the lines behind that one. `Lengthy` gives the lengths of the lines of such events.
`RequestsSettle`.

*Fairness.* The event loop, the network's reports and the server; one weak fairness
for them all suffices, since nothing among them repeats for ever.

### TerminalManager, AcpClient

*State.* `terminals` are the `Terminal` records, `processes` their `QProcess`es,
`waits` the futures of `wait_for_exit`. In `AcpClient`, `tools` is
`m_sessions[sid].tools`, `wire` what is on its way to the client, `posted` the
continuations of its calls, which run after what the wire brought before; `calls`
and `asks` are what the agent has told and asked.

| Code | Action or operator |
|---|---|
| `createTerminal`, `waitForExit`, `killTerminal`, `releaseTerminal`, destructor | the same names, `DestroyManager` |
| `appendOutput`, `readyRead`, `finished` | `appendOutput`, `readyRead`, `onFinished`, `ProcessEnds` |
| `connectAndInitialize`, `newSession`, `loadSession`, `prompt`, its timeout, `shutdown` | `connectAndInitialize`, `OpenSession`, `prompt`, `PromptTimesOut`, `shutdown` |
| their continuations | `ContinueSession`, `ContinuePrompt` |
| `session/update` | `TakeUpdate` (`mergeToolCall`) |
| the agent's requests and their futures | `TakeRequest`, `WaitEnds`, `ProviderAnswers` |
| setters of providers | `setProvider` |
| the agent (external) | `Serves`, `EndsTurn`, `Begins`, `Updates`, `AskFor` |

*Abstractions.* One connection, one session, one prompt at a time; an agent speaks
of a tool call only in the turn it belongs to. A process may exit, crash or be killed;
a prompt may be answered by an error, and its tool calls then stay.

*Properties.* `OutputIsTail` (the output kept is the tail of what was read),
`ExitIsTrue` (who waits is told the command's own end), `ShownIsMeant` (a tool call
is shown with all that was told of it), `AsksEnd` (every request of the agent
ends, but a wait for a command that could not be started, while its terminal is kept).

*Fairness.* The event loop runs, providers answer, turns end, and commands end or
fail to start.

### StdioTransports

*State.* `client` is the `QProcess` (`none`, `running`, `dead`) and whether `stop`
blocks; `codecC` its line buffer; `handling` the messages of the chunk in hand.
`child`, `reader` and `queue` are the server's process, its reader thread and its
event loop; `down` and `up` the pipes, as bytes. A message is two bytes and a line
feed, so a pipe can cut it anywhere; the two differ from the line feed
(`StdioAssumption`), since `encode` writes a message as compact JSON, which holds none.

| Code | Action |
|---|---|
| `start`, `stop` (with `waitForFinished`), `kill`, `send` | `start`, `StopBegins`, `StopEnds`, `Kill`, `sendC` |
| `onReadyReadStdout`, `onProcessFinished` | `onReadyReadStdout`, `DeliverC`, `onProcessFinished` |
| `LineFramer::append`, `NdJsonCodec::decode` | `append` byte by byte (`Frame`), `Messages` line by line (`Decode`) |
| the reader's loop and what it posts | `Read`, `ReadEnd`, `PostMessage`, `NextRead`, `PostClosed` |
| the server's event loop, `send`, `stop` | `Dispatch`, `sendS`, `stopS` |
| a process that quits or crashes (external) | `Quit`, `Dies` |

*Properties.* `ClientHearsAll`, `ServerHearsAll` (each end is given what the other
wrote, in order, whole and once, and its end after everything), `EndsAreTold` (no
end is left with a dead or waiting other). *Fairness:* both event loops and the
thread run, and a program told of the end of its input quits. Killing is not fair.

*Abstractions.* What a crashed child wrote stays readable. The injected-device
mode, standard error, traces, `LineFramer`'s limit and a second start in one server
process are left out. Messages of a chunk whose slot stopped the transport are still
emitted, as in the code; they are not counted as the next connection's.

## Runs

| Run | Shows | States | Bounds |
|---|---|---|---|
| `request` | the properties of `RequestLifecycle` and the refinement | 104208 | one request, three provider kinds, two calls (one gated), two rounds, empty continuations |
| `request_stalled` | *violation*: after a continuation with no content the request waits for nothing | | one round |
| `session` | the sessions, their contract and the gate | 272226 | three requests of the client, one of the server, two starts of each transport |
| `binder` | the properties of `McpToolBinder` | 82912 | two tool lists, two losses, one timeout, two chains of each kind |
| `binder_stdio` | *violation*: a stdio server that died is not launched again | | the same, `Relaunches = FALSE` |
| `http_client` | the properties of `McpStreamableHttp` | 996287 | two initializes, a call, replies of two events, two server messages, two faults |
| `http_server` | the properties of `McpHttpServerTransport` | 994782 | three connections, two ids, two sessions, a queue of two, three messages, two starts |
| `assembly` | the properties of `MessageAssembly` | 799628 | five providers, four items, two pieces each, two rounds, every look |
| `server` | the properties of `McpServer` | 1746694 | one tool name, two resource providers, one prompt provider, three turns of the hosts, two changes, two requests |
| `sse_client` | the properties of `McpSseHttp` | 1891738 | two requests or one and an event too long, two streams, one server message, a buffer of two bytes, three line ends |
| `acp` | the properties of `AcpClient` and `TerminalManager` | 1184266 | three requests of the agent, one terminal, two bytes, limits none and one, three budgets |
| `stdio` | the properties of `StdioTransports` | 168985 | two children, three messages each way |

*Why the bounds are enough.* Requests: two calls are the least for which a queue
holds one back, and one of each (gated, plain) for which the gate and the handler
hold calls at once; two rounds are the least for which a stream can be superseded
twice and a limit be hit after a continuation succeeded; no action reads another
request's record. Assembly: four items are a turn of three and one after it, or
two and two; two pieces are the least that can be split.
Sessions: two starts are the least for which something sent on one connection is
delivered on the next, three requests of the client are two handshakes and a call,
and one of the server shares a number with one of the client's. Binder: two
losses are the least for which a reconnect is itself cut off, two lists the least
for which a stale one differs from a fresh one.
HTTP client: two initializes are the least for which a session replaces another
with a late reply on the way, two events the least for which a reply is broken with
a cursor. HTTP server: three connections are the asker, the stranger with the same
id and one with another; three messages overflow a queue of two. Server:
two resource providers are the least for which a merge and an order matter, two
changes the least for which one falls into the notification of the other, two requests
a handshake and a list, or the handshakes of a client that leaves and returns. SSE: two
streams are the least for which a handler outlives its own, two lines the least for
which something of an oversized event is left behind the line that was given up; `MaxTalk`
lets two requests meet each other or one of them meet such an event. ACP: three requests
are a terminal, a wait and a release. Stdio: three messages are the least for which a
cut leaves whole ones on both sides.
The proved invariants hold for any bounds.

Deadlock is not checked: a system whose requests have ended, whose connection is
closed or whose binding is removed has nothing to do.

## Proofs

`RequestLifecycleProofs` proves, for every set of requests, number of calls,
gated subset and limit, that `TypeOK`, `OneTerminalSignal`,
`FutureFollowsRequest` and `LimitIsExact` are invariants of `Spec`. They assume
`ConstantsAssumption` only.

None of the four is inductive: that a second terminal signal is impossible
depends on `completeRequest` and `failRequest` finding the request gone, and that
depends on the phase following the signals. `IInv` therefore says of every record
which of three regimes it is in: before the request (nothing opened, nothing
told), during it (no signal, the future not settled, one exchange per counted
round), after it (exactly one signal, the future settled accordingly, no round).
Because each action is a composition of record operators, there is one lemma per
operator (`FailIsGood`, `ContinueIsGood`, `DriveIsGood`, ...), one per action,
and `NextKeepsIInv` puts them together; `BecomesKeepsIInv` lifts a record to the
state. `Destroy` has a regime of its own, `Orphaned`.

A second invariant, `SteadyIInv`, is about the rounds: an open round accounts for
each call of its turn once (settled, running, asked about, queued), the turn it
answers is the last exchange's, what ran was sent before, and a gate asks before its
call runs. From it follow `RoundAccountsForCalls`, the action properties
`FinalizedByLastExchange`, `ContinuationAnswersTurn` and `CallRunsOnce`, and the
refinement `ImplementsPromise`: each action is classified by what it does to what the
application is told (`Same`, `Sent`, `Failed`, ...), and each class is a step of
`RequestPromise` or none. None of them assumes anything of `EmptyTurns`. With a turn
that has no content the loop trusts the state of the previous one, and Google's drain
offers the calls of that one again; `CallRunsOnce` therefore counts a call once for each
exchange, and says when it may be of an earlier turn.

`JsonRpcSessionProofs` proves `TypeOK`, `PendingUntilSettled`,
`ClosedMeansNonePending` and `IncomingIdsAreRunning` for every number of requests
and starts and every choice of methods, from `BoundsAssumption`. The argument is
`IInv`: what is on the wire names requests that can exist, ids not yet handed out
are unused everywhere, what is pending has no fate yet and an open transport, and
the callee's books (`running`, `inFlight`, `cancelled`) agree. The first part is
needed because an answer settles whatever its id names, the second because a new
request must not meet an old entry. Each action has a lemma; those about messages
are split by what the wire loses and gains.

`ImplementsContract` needs what the messages say (`ContractIInv`): a request on its
way was sent once and is not yet running, an answer is what the callee really did, a
cancellation is of a caller that has given up. With it each action is a step of
`AtMostOnceCall`. The module carries all of this over to `ProtocolPeer`: the gate only
removes steps, and the one action the peer adds opens the transport and sends in one
go (`ConnectKeeps`). `OnlyStaleContinuationsMislead` needs only that the gate opens
by a continuation.

`McpToolBinderProofs` proves `AtMostTwoChains`, `PendingIsHonest` and
`QuietIsFresh` for any number of chains, lists, losses and timeouts and for both
kinds of transport, from `BinderAssumption`. None is inductive: a disconnect adds a
timer whenever `reconnectPending` is clear, so the bound of two needs
`~pending => timers + chains <= 1`, and the first connection needs that nothing has
been scheduled before it (`ReconnectIInv`). `TrafficIInv` says that every message and
every posted continuation finds its task in the stage that awaits it. `FreshIInv`
then follows a change of the tools to the registry: behind every stale list under way
comes something that lists again, and once nothing is coming the last continuation
posted brings the present list or records a failed one.

`McpHttpServerTransportProofs` proves `TypeOK`, `WaitersHaveEntries`,
`ForeignOnlyIfReused` and `QueueIsRecent` for any number of connections, ids,
sessions, messages and starts and any limit, from `ServerAssumption`. Routing
needs three more facts (`RoutingIInv`): a reply came when its connection ended, a
handler that has answered is no longer owed one, and what is under way has an open
transport. `ClosingRoutes` is the lemma most actions share: closing connections
together with their entries keeps the books. The queue needs that nothing was
flushed that was not sent (`QueueIInv`). The two halves share only the types, so
each action has a lemma for each.

`McpStreamableHttpProofs` proves `OneSignal`, `SessionIsKept` and `InOrderOnce` for
any messages, any length of a reply and any number of server messages and faults,
from `HttpAssumption`. Its `IInv` has a part for each piece of the transport: the life
of an exchange (what it was told when and what it still owns), the chunk under
delivery, whose slots may re-enter the transport, the listen stream and its timer,
one initialize at a time, the session each exchange carries, and how far the server
was heard. A lemma per operation on an exchange (`ReleaseOK`, `DropOK`, ...) carries
the first part through every action.

`McpServerProofs` proves `CallsAreInvited` and `AnswersAreWhole` for any number of
tools, requests, changes, stops, starts and clients that leave and any finite sets of
providers, from `ServerAssumption`. The first needs `HandshakeIInv`: from the moment
the server has read this client's handshake (`Agreed`) it knows what it offered and no
older handshake follows (`Known`, `OldBeforeNew`), and on the wire to the client
nothing asked on an earlier offer comes behind the answer to it (`AskedAsOffered`).
That an earlier connection may have left anything else in the server or on the wires is
what it has to live with. The second needs `AnswersIInv`: of an operation under way,
who was asked, who answered, and that the value is what those who answered hold; or
that everybody before the one being asked has been passed by. A provider that goes
away only adds to those (`FewerAlive`).

It also proves `ToldOfChanges`, from `ToldIInv`. `WiresOK` says that requests on a wire
are not yet taken, that who waits for an answer has not left (`FatesOK`), that each
comes once, that an answer on a wire or posted is the one its request was given, and
that what the client has of a list is such an answer. `NewestIsFresh` says that the
newest request taken for a list is answered with the present list unless a notification is posted or on its way. It is the
strengthening that matters: the property speaks of requests already answered, and must
be known of those still open, whose answer is what the providers are going to give. A
change announced behind such a request posts the notification that excuses it; a step
that changes nothing it depends on keeps it; and a notification that reaches the client
makes it forget the list and its newest request, so that nothing is claimed until it has
asked again.

`StdioTransportsProofs` proves `ClientHearsAll` and `ServerHearsAll` for any number of
children and messages and any cut of the pipes, from `StdioAssumption`. `append` and
`Messages` are recursive functions over a chunk. `FramerRuns` and `DecoderRuns` give
their steps; `Induction`, which is the library's `WFMin` on the order of the numbers
and quantifies over a set instead of an operator, follows them: a chunk that continues
what was read, cut at any byte, yields the messages it completes, whole and in order,
and leaves the first bytes of the next (`ReadOn`). Above that, `ClientIInv` and
`ServerIInv` account for each message of a connection: given to the slots, in the loop
over a chunk or in the queue of the event loop, about to be posted by the thread, in the
codec, or on the pipe. The rest is order. The end of the input is posted only when all
was read and posted; the pipe's writer closes it only when it has stopped sending;
`finished` comes only when the pipe is empty; and a message in hand belongs to the
connection it was read from, which is what a slot that stops and starts the transport
needs.

`AcpClientProofs` proves `OutputIsTail`, `ExitIsTrue` and `ShownIsMeant` for any
number of terminals, bytes, calls and requests and any limits, from
`TerminalAssumption` and `AcpAssumption`. The terminals (`TermIInv`): the output is a
window onto what was read, a terminal is finished with its process, and each waiter
stands at the one terminal its future is on. The tool calls (`CallsIInv`): on the
wire each update fits what precedes it, and nothing is said of a turn behind the
response that ends it.

Checked by TLC only: liveness (`RequestsEnd`, `DeliveredIsSettled`,
`RetriesSucceed`, `RequestsSettle`, `NobodyWaitsForever`, `RequestsAnswered`,
`AsksEnd`, `EndsAreTold`), which is out of the prover's reach; `TurnIsKept`,
`ReplayAnswersEveryCall` and `ToldAsSent` of `MessageAssembly`, which compare folds over
the events of five wire formats with folds over what was sent; and `DeliveredAsSent` of
`McpSseHttp`. The last would follow the parser byte by byte as `StdioTransportsProofs`
follows the framer, but its folds come from a library whose definitions choose an
element of a set at each step, and it holds only of a parser whose limit is above the
length of an ordinary line. The theorems about `TypeOK`,
`FutureFollowsRequest`, `ClosedMeansNonePending` and `IncomingIdsAreRunning` need no
run.

## Findings

Each is a violation run; `PROJECT.json` quotes the text it contradicts.

- `StreamEndDecides` (`request_stalled`): a continuation with no content event leaves
  its request waiting for nothing; `onStreamFinished` trusts the state of the previous
  turn.
- `ComesBack` (`binder_stdio`): a stdio server that exited is never launched again.

## Behaviours to know

What the models do because the code does, and what the properties therefore make
room for. None has a run of its own. First those that differ from what the
repository says, with the operator that makes room for each:

- Google: after a continuation that brought no candidates the end of the stream hands
  over the calls of the message still held, and they run again
  (`GoogleAIClient.cpp:217`); `docs/architecture/messages-and-content.md:138` says the
  message is cleared for the next turn. `CallRunsOnce` allows it at that point only.
- `~BaseClient` ends requests without `requestFailed`
  (`docs/architecture/request-lifecycle.md:106` says it emits it). `OneTerminalSignal`
  asks for `alive`; `RequestPromise` calls such a request dropped.
- A connection lost between the `tools/list` answer and its continuation is not retried,
  and the lost server's tools stay registered (`McpToolBinder.cpp:165`, `:274`;
  `docs/mcp-bridge.md:290` says it is retried). `Forgotten`, in `RetriesSucceed`.
- `endSession` hangs up inside a loop over the table that hanging up erases from, and may
  step over an entry, whose client then waits without a timer
  (`McpHttpServerTransport.cpp:282`; `docs/mcp/architecture/http-transport.md:9` says
  pending requests are dropped with their sockets). The phase `left`.
- Ollama: text that begins like JSON is held back as a possible call and, when it is
  none, becomes a block but no chunk (`OllamaMessage.cpp:110`; `README.md:43` says
  `accumulatedReceived` carries the whole answer). `Unsniffed`, in `ToldAsSent`.
- A client that connects to a server another one has left can be asked, before its own
  handshake, for what the other offered (`McpServer.cpp:553`;
  `docs/mcp/architecture/elicitation.md:16` says such calls are short-circuited).
  `CallsAreInvited` begins at `peer = "ready"`.
- The sampling bridge learns the id of its request only after `sendMessage` returned, so
  an immediate failure never reaches the server, which waits for its timeout
  (`McpClient.cpp:147`, `:156`; `docs/mcp/architecture/sampling.md:13` says a failure
  rejects). The bridge whose request has `failed` in `TakeCall`.
- The SSE parser dispatches the rest of an event when it gave up an unfinished line of it
  (`SSEParser.cpp:46`; `tests/tst_SSEParser.cpp:299` says it is dropped, not dispatched).
  `Outcomes`, in `DeliveredAsSent`.
- A command that cannot be started leaves `wait_for_exit` unanswered until its terminal
  is released (`TerminalManager.cpp:105`; `docs/acp/architecture/client-capabilities.md:95`
  says every provider future resolves). `Unstarted`, in `AsksEnd`.

The others:

- The gate's approval after a cancellation still runs the tool.
- The tools of a round run one after the other (`docs/architecture/tools.md:44`
  says concurrently).
- `notifications/cancelled` of the peer's own request also ends this side's request
  of the same number (`JsonRpcSession.cpp:117`,
  `docs/mcp/mcp_protocol_coverage.md:278`).
- A continuation of an earlier connection may open the gate of the next
  (`OnlyStaleContinuationsMislead` says it is the only way).
- Ollama: a buffered thought before a legacy tool call is cleared before it is told;
  a structured call followed by the text of a legacy one is lost; a blank piece
  before a brace is missing from the block; a thought is told before its signature.
- OpenAI: a usage chunk that follows `finish_reason` is lost when the tools have
  finished before it. Responses: `output_text.done` replaces the text of the whole
  round by the last part (`BaseClient.cpp:607`, `OpenAIResponsesMessage.cpp:133`).
- A turn that was cut off or ended by a limit leaves a call without a result in the
  conversation.
- An answer posted behind a coalesced notification refills `m_cachedTools` with the
  list before the change (`McpClient.cpp:231`), until the client asks again.
- `roots/list` sent before the peer is ready may be stale.
- An oversized response is dropped silently by the SSE parser, and its request waits for
  its own timeout.
- SSE: an event without its closing blank line is lost at the end of the stream; the
  late failure of an old session's POST is reported to the new one; POSTs in flight
  end silently when the `HttpTransport` is destroyed.
- A release of a terminal before its exit answers with neither code nor signal;
  terminals are not released when the session ends; `shutdown` leaves their processes
  running; capabilities offered in the handshake may differ from the providers there
  are later.
- The MCP stdio server stays `open` after the end of its input, and a later `stop`
  emits `closed` again; messages the reader posted are emitted after `stop`.

## Plan

Done: everything in the table of modules. Left, in this order:

1. Proofs: `DeliveredAsSent`, with `append` of `SseParser` as a recursive function; what
   `MessageAssembly` says of one provider at a time.
2. `HttpRequestParser` as a function of the bytes, composed with
   `McpHttpServerTransport` for pipelined requests.
3. The binder over `McpStreamableHttp`, where two listings may be answered in
   reverse.
4. Several bindings that share a registry.

## Not modelled

Data types and their serialisation, payload construction, model lists, logging,
QML bindings, file access, the example programs, `mcp-bridge` (start-up code and
I/O) and `HttpRequestParser`. Of what is modelled: a tool that throws before it
returns its future; a `toolExecutionResult` slot that cancels; a gate future that
fails. Of JSON-RPC: messages that are not requests, answers or the two
notifications the session handles, and destroying a session. Of the binder:
several bindings, a server without the tools capability, a client destroyed under
it. What else each module leaves out is under its *Abstractions*.
