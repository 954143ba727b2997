-------------------------- MODULE MessageAssembly ---------------------------
(***************************************************************************)
(* One request of a provider client, seen from the content that crosses    *)
(* it: the provider composes turns (text, thinking, tool calls) and sends  *)
(* them as its own events; the client folds the events into the message    *)
(* (ProviderMessages), announces chunks and thoughts, hands the calls to   *)
(* the tools, replays the turn with the results in the next round and      *)
(* leaves the whole exchange in the conversation and the usage.            *)
(*                                                                         *)
(* What the provider sent is kept as ground truth (turns, reported); the     *)
(* properties compare it with what the client made of it.                  *)
(***************************************************************************)
EXTENDS ProviderMessages

CONSTANTS
  Providers,   \* which of the provider clients
  Looks,       \* what an Ollama answer may look like
  MaxItems,    \* bound: items over all the turns of a request
  MaxPieces,   \* bound: pieces an item arrives in
  MaxRounds    \* bound: turns of a request

AllProviders == {"claude", "openai", "responses", "google", "ollama"}
AllLooks == {"plain", "blank", "brace", "named", "call", "fence", "fencedCall"}
ASSUME AssemblyAssumption ==
  /\ Providers \subseteq AllProviders
  /\ "plain" \in Looks /\ Looks \subseteq AllLooks
  /\ MaxItems \in Nat /\ MaxPieces \in Nat \ {0} /\ MaxRounds \in Nat \ {0}

VARIABLES
  provider,   \* the provider client of this request
  buffered,   \* RequestMode::Buffered: one body instead of a stream
  replay,     \* ReasoningPersistence::Replay
  phase,      \* of the exchange: "idle", "open", "stopped", "trailed", "ended";
              \* of the request: "done", "failed"
  turns,      \* ground truth: the turns the provider composed
  reported,   \* ground truth: <<round, fact>>, the usage fields it reported and
              \* the rounds it "stopped"
  m,          \* the message object (messageForRequest); NoMessage: none
  c           \* the client's record of the request
vars == << provider, buffered, replay, phase, turns, reported, m, c >>

round == Len(turns)
turn == turns[round]
Item(i) == << round, i >>
Tools(t) == OfKind(t, "tool")

(***************************** The client **********************************)
\* text is responseContent, offset roundTextOffset; heard the chunks emitted
\* this round, told the thinking blocks announced, handed the rounds of calls
\* given to the tools; payload what continuations appended to the request.
NewRequest ==
  [text |-> <<>>, offset |-> 0, heard |-> <<>>, told |-> <<>>, handed |-> <<>>,
   payload |-> <<>>, conversation |-> <<>>, turnUsage |-> <<>>, usage |-> <<>>,
   ready |-> FALSE]

roundText(r) == SubSeq(r.text, r.offset + 1, Len(r.text))
replaceRoundText(r, text) == [r EXCEPT !.text = SubSeq(@, 1, r.offset) \o text]

addChunk(r, chunk) == [r EXCEPT !.text = @ \o chunk, !.heard = @ \o chunk]

applyUsage(r, usage) == [r EXCEPT !.turnUsage = usage @@ @]
Tokens(usage, field) == IF field \in DOMAIN usage THEN usage[field] ELSE 0
finalizeTurn(r) ==
  IF r.turnUsage = <<>> THEN r
  ELSE [r EXCEPT !.turnUsage = <<>>,
          !.usage = [field \in {"prompt", "completion"} |->
                       Tokens(r.usage, field) + Tokens(r.turnUsage, field)]]

\* State of the fold over the events of one delivery.
Delivery(msg, req, failed) == [m |-> msg, c |-> req, failed |-> failed]

executeToolsFromMessage(d) ==
  LET calls == currentToolUseContent(d.m)
  IN  IF d.m.state # "tools" \/ calls = <<>> THEN d
      ELSE [d EXCEPT !.c.handed = Append(@, calls), !.c.ready = TRUE]

applyEffects(d, a) ==
  LET fx == a.fx
      taken == takePendingThinkingNotifications(a.m)
      msg == IF fx.thinkingCompleted THEN taken.m ELSE a.m
      told == IF fx.thinkingCompleted THEN taken.told ELSE <<>>
      texted == IF fx.full # <<>> THEN replaceRoundText(d.c, fx.full)
                ELSE IF fx.fallback # <<>> /\ roundText(d.c) = <<>>
                THEN replaceRoundText(d.c, fx.fallback) ELSE d.c
      used == applyUsage(addChunk([texted EXCEPT !.told = @ \o told], fx.chunk), fx.usage)
      after == Delivery(msg, used, fx.error)
  IN  IF ~ fx.error /\ fx.toolsReady THEN executeToolsFromMessage(after) ELSE after

ensureMessage(msg) ==
  IF msg.state = "absent" THEN EmptyMessage
  ELSE IF msg.state = "tools" THEN startNewContinuation(msg) ELSE msg

applyEvent(msg, e) ==
  CASE provider = "claude" -> ClaudeEvent(msg, e)
    [] provider = "openai" -> OpenAIEvent(msg, e)
    [] provider = "responses" -> ResponsesEvent(msg, e)
    [] provider = "google" -> GoogleEvent(msg, e)
    [] provider = "ollama" -> OllamaEvent(msg, e)

\* Each client's processSseEvent or processJsonLine: which events make or
\* renew the message.
ClaudeEnsures(msg, e) == msg.state = "absent" /\ e.type \in {"message_start", "error"}
BugOpenAIEnsures(msg, e) == TRUE
OpenAIEnsures(msg, e) == msg.state = "absent" \/ e.choices
GoogleEnsures(msg, e) == msg.state = "absent" \/ e.candidates
Ensures(msg, e) ==
  CASE provider = "claude" -> ClaudeEnsures(msg, e)
    [] provider = "openai" -> OpenAIEnsures(msg, e)
    [] provider = "google" -> GoogleEnsures(msg, e)
    [] OTHER -> TRUE

processEvent(d, e) ==
  LET msg == IF Ensures(d.m, e) THEN ensureMessage(d.m) ELSE d.m
  IN  IF d.failed \/ msg.state = "absent" THEN d ELSE applyEffects(d, applyEvent(msg, e))

applyResponse(msg, r) ==
  CASE provider = "claude" -> ClaudeResponse(msg, r)
    [] provider = "openai" -> OpenAIResponse(msg, r)
    [] provider = "responses" -> ResponsesResponse(msg, r)
    [] provider = "google" -> GoogleEvent(msg, r)
    [] provider = "ollama" -> OllamaEvent(msg, r)
processBufferedBody(d, r) == applyEffects(d, applyResponse(ensureMessage(d.m), r))

Here == Delivery(m, c, FALSE)
Outcome(d, next) ==
  /\ m' = IF d.failed THEN NoMessage ELSE d.m
  /\ c' = d.c
  /\ phase' = IF d.failed THEN "failed" ELSE next
Deliver(events, next) == Outcome(FoldLeft(processEvent, Here, events), next)

(******************** The providers' wire (external) ***********************)
Piece(i, n, last, look) == [of |-> Item(i), n |-> n, last |-> last, look |-> look]
SignatureOf(i) == Item(i)
CallId(i) == << round, i, "call" >>
Usage(fields) == [field \in fields |-> round]
BothFields == {"prompt", "completion"}

Chunk == [error |-> FALSE, choices |-> TRUE, reasoning |-> <<>>, text |-> <<>>,
          calls |-> <<>>, reason |-> NoReason, usage |-> <<>>]
Fragment(i, id, arguments) ==
  [index |-> i, id |-> id, of |-> Item(i), arguments |-> arguments]
Candidates == [error |-> FALSE, candidates |-> TRUE, items |-> <<>>, reason |-> NoReason,
               usage |-> <<>>]
Line == [error |-> FALSE, thinking |-> <<>>, content |-> <<>>, calls |-> <<>>,
         signature |-> None, done |-> FALSE, reason |-> NoReason, usage |-> <<>>]

\* What the provider calls the item while it streams: an item without content.
Bare(item) == [item EXCEPT !.parts = <<>>,
                 !.signature = IF item.kind = "redacted" THEN @ ELSE None]

\* The events of an item that begins, of a piece of it, and of its end.
Opening(i, item) ==
  CASE provider = "claude" ->
         << [type |-> "content_block_start", index |-> i, item |-> Bare(item)] >>
    [] provider = "openai" /\ item.kind = "tool" ->
         << [Chunk EXCEPT !.calls = << Fragment(i, Item(i), <<>>) >>] >>
    [] provider = "responses" /\ item.kind = "tool" ->
         << [type |-> "output_item.added", kind |-> "tool", item |-> Item(i),
             call |-> CallId(i)] >>
    [] provider = "responses" /\ item.kind = "think" ->
         << [type |-> "output_item.added", kind |-> "think", item |-> Item(i),
             encrypted |-> None] >>
    [] OTHER -> <<>>

ClaudePieces(i, kind, p) ==
  << [type |-> "content_block_delta", index |-> i,
      kind |-> IF kind = "tool" THEN "input_json" ELSE kind,
      parts |-> << p >>, signature |-> None] >>
OpenAIPieces(i, kind, p) ==
  << CASE kind = "text"  -> [Chunk EXCEPT !.text = << p >>]
       [] kind = "think" -> [Chunk EXCEPT !.reasoning = << p >>]
       [] kind = "tool"  -> [Chunk EXCEPT !.calls = << Fragment(i, None, << p >>) >>] >>
ResponsesPieces(i, kind, p) ==
  CASE kind = "text" -> << [type |-> "output_text.delta", parts |-> << p >>] >>
    [] kind = "tool" -> << [type |-> "function_call_arguments.delta", item |-> Item(i),
                            parts |-> << p >>] >>
    [] kind = "think" -> <<>>          \* summaries come whole, with the item's end
GooglePieces(i, kind, p) ==
  << [Candidates EXCEPT !.items = << [kind |-> kind, of |-> Item(i), parts |-> << p >>] >>] >>
OllamaPieces(i, kind, p) ==
  << CASE kind = "text"  -> [Line EXCEPT !.content = << p >>]
       [] kind = "think" -> [Line EXCEPT !.thinking = << p >>]
       [] kind = "tool"  -> [Line EXCEPT !.calls = << [of |-> Item(i), parts |-> << p >>] >>] >>

Pieces(i, kind, p) ==
  CASE provider = "claude"    -> ClaudePieces(i, kind, p)
    [] provider = "openai"    -> OpenAIPieces(i, kind, p)
    [] provider = "responses" -> ResponsesPieces(i, kind, p)
    [] provider = "google"    -> GooglePieces(i, kind, p)
    [] provider = "ollama"    -> OllamaPieces(i, kind, p)

Closing(i, item) ==
  CASE provider = "claude" ->
         (IF item.kind = "think"
          THEN << [type |-> "content_block_delta", index |-> i, kind |-> "signature",
                   parts |-> <<>>, signature |-> item.signature] >> ELSE <<>>)
           \o << [type |-> "content_block_stop", index |-> i] >>
    [] provider = "responses" /\ item.kind = "text" ->
         << [type |-> "output_text.done", parts |-> item.parts] >>
    [] provider = "responses" /\ item.kind = "tool" ->
         << [type |-> "function_call_arguments.done", item |-> Item(i), parts |-> item.parts],
            [type |-> "output_item.done", kind |-> "tool", item |-> Item(i),
             call |-> CallId(i), parts |-> item.parts] >>
    [] provider = "responses" /\ item.kind = "think" ->
         << [type |-> "output_item.done", kind |-> "think", item |-> Item(i),
             parts |-> item.parts, encrypted |-> item.signature] >>
    [] provider = "google" /\ item.kind = "think" ->
         << [Candidates EXCEPT !.items = << [kind |-> "signature", signature |-> item.signature] >>] >>
    [] OTHER -> <<>>

WireReason(reason) ==
  CASE provider = "claude" ->
         (CASE reason = "tools" -> "tool_use" [] reason = "end" -> "end_turn"
            [] OTHER -> "max_tokens")
    [] provider = "openai" ->
         (CASE reason = "tools" -> "tool_calls" [] reason = "end" -> "stop" [] OTHER -> "length")
    [] provider = "responses" ->
         (CASE reason \in {"tools", "end"} -> "completed" [] reason = "blocked" -> "failed"
            [] OTHER -> "incomplete")
    [] provider = "google" ->
         (CASE reason \in {"tools", "end"} -> "STOP" [] reason = "blocked" -> "SAFETY"
            [] OTHER -> "MAX_TOKENS")
    [] provider = "ollama" -> (IF reason = "limit" THEN "length" ELSE "stop")

Beginning ==
  CASE provider = "claude" -> << [type |-> "message_start", usage |-> Usage({"prompt"})] >>
    [] provider = "openai" -> << Chunk >>
    [] provider = "responses" -> << [type |-> "created"] >>
    [] OTHER -> <<>>

Response(reason, usage) ==
  [empty |-> FALSE, text |-> Joined(OfKind(turn, "text")), status |-> WireReason(reason),
   usage |-> usage]
ThinkingSignature ==
  IF OfKind(turn, "think") = <<>> THEN None ELSE OfKind(turn, "think")[1].signature

\* The end of the turn; Claude closes the blocks a limit cut.
Stopping(reason) ==
  CASE provider = "claude" ->
         Mapped(SetToSeq({ i \in DOMAIN turn : ~ turn[i].done }),
                LAMBDA i : << [type |-> "content_block_stop", index |-> i] >>)
           \o << [type |-> "message_delta", reason |-> WireReason(reason),
                  usage |-> Usage({"completion"})] >>
    [] provider = "openai" -> << [Chunk EXCEPT !.reason = WireReason(reason)] >>
    [] provider = "responses" ->
         << [type |-> WireReason(reason), response |-> Response(reason, Usage(BothFields))] >>
    [] provider = "google" ->
         << [Candidates EXCEPT !.reason = WireReason(reason), !.usage = Usage(BothFields)] >>
    [] provider = "ollama" ->
         << [Line EXCEPT !.done = TRUE, !.reason = WireReason(reason),
                         !.signature = ThinkingSignature, !.usage = Usage(BothFields)] >>

\* What may follow the end: Claude's message_stop, the usage chunk without
\* choices of OpenAI and a last chunk without candidates of Google.
Trailing ==
  CASE provider = "claude" -> << [type |-> "message_stop"] >>
    [] provider = "openai" -> << [Chunk EXCEPT !.choices = FALSE, !.usage = Usage(BothFields)] >>
    [] provider = "google" ->
         << [Candidates EXCEPT !.candidates = FALSE, !.usage = Usage(BothFields)] >>
    [] OTHER -> <<>>

Erroring ==
  CASE provider = "openai" -> << [Chunk EXCEPT !.choices = FALSE, !.error = TRUE] >>
    [] provider = "google" -> << [Candidates EXCEPT !.candidates = FALSE, !.error = TRUE] >>
    [] provider = "ollama" -> << [Line EXCEPT !.error = TRUE] >>
    [] OTHER -> << [type |-> "error"] >>

GoogleParts(item) ==
  << [kind |-> item.kind, of |-> item.of, parts |-> item.parts] >>
    \o (IF item.kind = "think"
        THEN << [kind |-> "signature", signature |-> item.signature] >> ELSE <<>>)

\* The body of a buffered answer.
Body(reason) ==
  CASE provider \in {"claude", "responses"} ->
         [items |-> turn, reason |-> WireReason(reason), usage |-> Usage(BothFields)]
    [] provider = "openai" ->
         [Chunk EXCEPT !.text = Joined(OfKind(turn, "text")),
                       !.reasoning = Joined(OfKind(turn, "think")),
                       !.calls = [k \in DOMAIN Tools(turn) |->
                                    [index |-> k, id |-> Tools(turn)[k].of,
                                     of |-> Tools(turn)[k].of, arguments |-> Tools(turn)[k].parts]],
                       !.reason = WireReason(reason), !.usage = Usage(BothFields)]
    [] provider = "google" ->
         [Candidates EXCEPT !.items = Mapped(turn, GoogleParts),
                            !.reason = WireReason(reason), !.usage = Usage(BothFields)]
    [] provider = "ollama" ->
         [Line EXCEPT !.thinking = Joined(OfKind(turn, "think")),
                      !.content = Joined(OfKind(turn, "text")), !.calls = Tools(turn),
                      !.done = TRUE, !.reason = WireReason(reason),
                      !.signature = ThinkingSignature, !.usage = Usage(BothFields)]

(***************************** Actions *************************************)
Init ==
  /\ provider \in Providers
  /\ buffered \in BOOLEAN
  /\ replay \in IF provider = "responses" THEN BOOLEAN ELSE {FALSE}
  /\ phase = "idle"
  /\ turns = << <<>> >>
  /\ reported = {}
  /\ m = NoMessage
  /\ c = NewRequest

Report(fields) == reported' = reported \cup ({round} \X fields)
Send(events) ==
  IF buffered THEN UNCHANGED << m, c, phase >> ELSE Deliver(events, phase)
Compose(items) == turns' = [turns EXCEPT ![round] = items]
Fixed == UNCHANGED << provider, buffered, replay >>

\* The answer to the request of this round begins.
Begin ==
  /\ phase = "idle"
  /\ IF buffered THEN phase' = "open" /\ UNCHANGED << m, c, reported >>
     ELSE /\ Deliver(Beginning, "open")
          /\ Report(IF provider = "claude" THEN {"prompt"} ELSE {})
  /\ Fixed /\ UNCHANGED turns

Kinds == IF provider = "claude" THEN {"text", "think", "tool", "redacted"}
         ELSE {"text", "think", "tool"}
Streams(kind) == kind \notin {"tool", "redacted"}
WholeCalls == provider \in {"google", "ollama"}

\* Blocks follow each other; only tool calls may be streamed side by side.
\* OpenAI and Ollama have one text and think first; Google has no marks
\* between two texts or two thoughts in a row.
MayOpen(kind) ==
  /\ FoldLeft(LAMBDA n, t : n + Len(t), 0, turns) < MaxItems
  /\ \A i \in DOMAIN turn : turn[i].done \/ (kind = "tool" /\ turn[i].kind = "tool")
  /\ provider \in {"openai", "ollama"} =>
       /\ kind = "think" => turn = <<>>
       /\ kind = "text" => OfKind(turn, "text") = <<>>
  /\ provider = "google" /\ turn # <<>> /\ Streams(kind) => Last(turn).kind # kind

NewItem(i, kind) ==
  [kind |-> kind, of |-> Item(i), call |-> CallId(i), parts |-> <<>>, done |-> FALSE,
   signature |-> IF kind \in {"think", "redacted"} /\ provider # "openai"
                 THEN SignatureOf(i) ELSE None]

MayLook(kind, parts) ==
  IF provider # "ollama" \/ kind # "text" \/ \E k \in DOMAIN parts : parts[k].look # "blank"
  THEN {"plain"} ELSE Looks

\* The item with one more piece of it.
Grown(i, item, last, look) ==
  [item EXCEPT !.parts = Append(@, Piece(i, Len(@) + 1, last, look)), !.done = last]
Growth(i, item, last) ==
  Pieces(i, item.kind, Last(item.parts)) \o (IF last THEN Closing(i, item) ELSE <<>>)

\* A call streamed in fragments, or an item without content, begins.
OpenItem(kind) ==
  LET i == Len(turn) + 1
      item == [NewItem(i, kind) EXCEPT !.done = kind = "redacted"]
  IN  /\ phase = "open" /\ kind \in Kinds /\ ~ Streams(kind) /\ ~ WholeCalls
      /\ MayOpen(kind)
      /\ Compose(Append(turn, item))
      /\ Send(Opening(i, item) \o (IF item.done THEN Closing(i, item) ELSE <<>>))
      /\ Fixed /\ UNCHANGED reported

\* A text or a thought begins with its first piece; Google and Ollama send a
\* call whole.
OpenWithPiece(kind, last, look) ==
  LET i == Len(turn) + 1
      item == Grown(i, NewItem(i, kind), last, look)
  IN  /\ phase = "open" /\ kind \in Kinds /\ (Streams(kind) \/ WholeCalls)
      /\ MayOpen(kind) /\ look \in MayLook(kind, <<>>)
      /\ last \/ (MaxPieces > 1 /\ kind # "tool")
      /\ Compose(Append(turn, item))
      /\ Send(Opening(i, item) \o Growth(i, item, last))
      /\ Fixed /\ UNCHANGED reported

\* One more piece of an open item; the last one closes it.
AddPiece(i, last, look) ==
  LET item == Grown(i, turn[i], last, look)
  IN  /\ phase = "open" /\ ~ turn[i].done
      /\ last \/ Len(item.parts) < MaxPieces
      /\ look \in MayLook(item.kind, turn[i].parts)
      /\ Compose([turn EXCEPT ![i] = item])
      /\ Send(Growth(i, item, last))
      /\ Fixed /\ UNCHANGED reported

\* A call that takes no arguments ends without a piece.
CloseBare(i) ==
  LET item == [turn[i] EXCEPT !.done = TRUE]
  IN  /\ phase = "open" /\ ~ turn[i].done /\ turn[i].parts = <<>>
      /\ Compose([turn EXCEPT ![i] = item])
      /\ Send(Closing(i, item))
      /\ Fixed /\ UNCHANGED reported

MayStop(reason) ==
  /\ turn # <<>>
  /\ buffered => \A i \in DOMAIN turn : turn[i].done
  /\ CASE reason = "tools" -> Tools(turn) # <<>> /\ \A i \in DOMAIN turn : turn[i].done
       [] reason = "end" -> Tools(turn) = <<>> /\ \A i \in DOMAIN turn : turn[i].done
       [] reason = "blocked" -> provider \in {"google", "responses"}
       [] OTHER -> TRUE

\* BaseClient::onStreamFinished without an error, after a delivery d.
Drained(d) ==
  IF provider = "google" /\ d.m.state # "absent" THEN applyEffects(d, GoogleDrained(d.m)) ELSE d
Turn(role, blocks) == << [role |-> role, blocks |-> blocks] >>
completeRequest(d) ==
  LET r == finalizeTurn(d.c)
      last == IF d.m.blocks # <<>> THEN Turn("assistant", d.m.blocks)
              ELSE IF roundText(r) # <<>> THEN Turn("assistant", << TextContent(roundText(r)) >>)
              ELSE <<>>
  IN  /\ c' = [r EXCEPT !.conversation = @ \o last]
      /\ m' = NoMessage
      /\ phase' = "done"
onStreamFinished(d) ==
  LET over == Drained(d)
  IN  IF d.failed \/ over.m.state = "tools" THEN Outcome(over, "ended")
      ELSE completeRequest(over)

\* The provider ends its turn: with calls, complete, at the token limit
\* (perhaps in the middle of an item), or blocked.
Stop(reason) ==
  /\ phase = "open" /\ MayStop(reason)
  /\ IF buffered THEN onStreamFinished(processBufferedBody(Here, Body(reason)))
     ELSE Deliver(Stopping(reason), "stopped")
  /\ Report({"stopped"} \cup IF buffered \/ provider \notin {"claude", "openai"} THEN BothFields
                            ELSE IF provider = "claude" THEN {"completion"} ELSE {})
  /\ Fixed /\ UNCHANGED turns

Trail ==
  /\ phase = "stopped" /\ Trailing # <<>>
  /\ Deliver(Trailing, "trailed")
  /\ Report(IF provider = "claude" THEN {} ELSE BothFields)
  /\ Fixed /\ UNCHANGED turns

\* The provider reports an error instead of going on.
Break ==
  /\ phase = "open" /\ ~ buffered
  /\ Deliver(Erroring, "open")
  /\ Fixed /\ UNCHANGED << turns, reported >>

\* The stream ends, after the turn or in the middle of it.
Finished ==
  /\ ~ buffered
  /\ phase \in {"open", "stopped", "trailed"}
  /\ onStreamFinished(Here)
  /\ Fixed /\ UNCHANGED << turns, reported >>

buildContinuationPayload(results) ==
  CASE provider = "claude" -> ClaudeContinuation(m, results)
    [] provider = "openai" -> OpenAIContinuation(m, results)
    [] provider = "responses" -> ResponsesContinuation(m, results, replay)
    [] provider = "google" -> GoogleContinuation(m, results)
    [] provider = "ollama" -> OllamaContinuation(m, results)

\* The round of tools is over (perhaps before the stream has ended):
\* buildReplayContinuation, continueRequest.
Continue ==
  LET calls == Last(c.handed)
      results == [id \in { calls[k].id : k \in DOMAIN calls } |-> id]
      answered == SelectSeq(currentToolUseContent(m), LAMBDA b : b.id \in DOMAIN results)
      recorded == c.conversation \o (IF m.blocks = <<>> THEN <<>> ELSE Turn("assistant", m.blocks))
                    \o (IF answered = <<>> THEN <<>> ELSE Turn("tool", answered))
      replayed == buildContinuationPayload(results)
  IN  /\ c.ready /\ phase \in {"stopped", "trailed", "ended"} /\ round < MaxRounds
      /\ c' = [finalizeTurn(c) EXCEPT !.payload = @ \o replayed, !.conversation = recorded,
                 !.offset = Len(c.text), !.heard = <<>>, !.ready = FALSE]
      /\ turns' = Append(turns, <<>>)
      /\ phase' = "idle"
      /\ Fixed /\ UNCHANGED << reported, m >>

Next ==
  \/ Begin
  \/ \E kind \in {"tool", "redacted"} : OpenItem(kind)
  \/ \E kind \in {"text", "think", "tool"}, last \in BOOLEAN, look \in Looks :
       OpenWithPiece(kind, last, look)
  \/ \E i \in DOMAIN turn, last \in BOOLEAN, look \in Looks : AddPiece(i, last, look)
  \/ \E i \in DOMAIN turn : CloseBare(i)
  \/ \E reason \in {"tools", "end", "limit", "blocked"} : Stop(reason)
  \/ Trail
  \/ Break
  \/ Finished
  \/ Continue

Spec == Init /\ [][Next]_vars

(**************************** Properties ***********************************)
Answer(t) == Joined(OfKind(t, "text"))
Thoughts(blocks) == SelectSeq(blocks, LAMBDA b : b.kind \in {"think", "redacted"})
PartsOf(blocks) == [k \in DOMAIN blocks |-> blocks[k].parts]
NamesOf(blocks) == [k \in DOMAIN blocks |-> blocks[k].of]
KindsOf(blocks) == [k \in DOMAIN blocks |-> blocks[k].kind]
Stopped(r) == << r, "stopped" >> \in reported

\* An Ollama answer that begins like JSON or a fence is held back until the end.
Sniffed(t) == provider = "ollama" /\ LookOf(Answer(t)) \notin {"plain", "blank"}
LegacyCall(t) == Sniffed(t) /\ Tools(t) = <<>> /\ IsToolCall(Answer(t))

HandsCalls(t) == ~ Sniffed(t) \/ LegacyCall(t)

\* The arguments a call may be seen with: whole, or none at all.
Arguments(item, r) ==
  IF item.done /\ (Stopped(r) \/ provider # "openai") THEN item.parts ELSE <<>>
CallsKept(blocks, t, r) ==
  IF LegacyCall(t) /\ Stopped(r)
  THEN NamesOf(blocks) = << OfKind(t, "text")[1].of >> /\ PartsOf(blocks) = << Answer(t) >>
  ELSE /\ NamesOf(blocks) = NamesOf(Tools(t))
       /\ PartsOf(blocks) = [k \in DOMAIN blocks |-> Arguments(Tools(t)[k], r)]

ThoughtsKept(blocks, t) ==
  /\ PartsOf(blocks) = [k \in DOMAIN Thoughts(t) |->
                          IF provider = "responses" /\ ~ Thoughts(t)[k].done
                          THEN <<>> ELSE Thoughts(t)[k].parts]
  /\ \A k \in DOMAIN blocks : Thoughts(t)[k].done /\ Stopped(round) =>
                               blocks[k].signature = Thoughts(t)[k].signature

TurnKept(blocks, t, r) ==
  /\ ~ Sniffed(t) =>
       /\ Joined(OfKind(blocks, "text")) = Answer(t)
       /\ ThoughtsKept(Thoughts(blocks), t)
       /\ provider \in {"claude", "google"} => KindsOf(blocks) = KindsOf(t)
  /\ Sniffed(t) => \/ Tools(t) # <<>>
                    \/ CallsKept(OfKind(blocks, "tool"), t, r)
  /\ ~ Sniffed(t) => CallsKept(OfKind(blocks, "tool"), t, r)

Assistants == SelectSeq(c.conversation, LAMBDA t : t.role = "assistant")

\* Nothing a provider composed is lost, duplicated, reordered or mixed with
\* another turn between its events and what the tools and the conversation are
\* given: the calls of each round are handed over once, with whole arguments, and
\* each turn of the conversation is the turn sent, with its signed thoughts
\* (applyEvent and recordStopReason of each message class).
TurnIsKept ==
  /\ \A k \in DOMAIN c.handed : k <= round /\ (turns[k] # <<>> /\ HandsCalls(turns[k]) =>
       CallsKept(c.handed[k], turns[k], k))
  /\ m.state = "tools" /\ turn # <<>>
       /\ phase \in (IF provider = "google" THEN {} ELSE {"stopped", "trailed"}) \cup {"ended"}
       => Len(c.handed) = round
  /\ \A k \in DOMAIN Assistants : TurnKept(Assistants[k].blocks, turns[k], k)
  /\ phase = "done" /\ turn # <<>> /\ ~ Sniffed(turn) => Len(Assistants) = round

\* The payload of a continuation replays every call of the turns before it, each
\* with one result in the same order, and their texts and signed thoughts
\* (createToolResultsContent, toProviderFormat).
ReplayAnswersEveryCall ==
  LET keys(type) == LET es == SelectSeq(c.payload, LAMBDA e : e.type = type)
                    IN  [k \in DOMAIN es |-> es[k].key]
      past == SubSeq(turns, 1, round - 1)
      texts == SelectSeq(c.payload, LAMBDA e : e.type = "text")
  IN  /\ keys("tool") = keys("result")
      /\ Len(keys("tool")) = FoldLeft(LAMBDA n, h : n + Len(h), 0, SubSeq(c.handed, 1, round - 1))
      /\ (\A k \in DOMAIN past : ~ Sniffed(past[k])) =>
           /\ Joined(texts) = FoldLeft(LAMBDA t, p : t \o Answer(p), <<>>, past)
           /\ provider = "claude" =>
                keys("think") = LET ts == OfKind(FlattenSeq(past), "think")
                                IN  [k \in DOMAIN ts |-> ts[k].signature]

Unsniffed == \A k \in DOMAIN turns : ~ Sniffed(turns[k])
OneTextPerTurn == \A k \in DOMAIN turns : Len(OfKind(turns[k], "text")) <= 1

\* What the application hears is what the provider sent: the accumulated text
\* at every moment, each thought exactly once and not before it is complete,
\* and at the end the tokens of every round (addChunk, notifyPendingThinkingBlocks,
\* Usage).
ToldAsSent ==
  LET all == FlattenSeq(turns)
      sent == PartsOf(SelectSeq(Thoughts(all), LAMBDA i : i.done \/ provider # "responses"))
  IN  phase # "failed" =>
      /\ Unsniffed /\ (provider = "responses" => OneTextPerTurn)
           /\ (buffered => phase # "open") => c.text = Answer(all)
      /\ Unsniffed => IsPrefix(c.told, sent)
      /\ Unsniffed /\ phase = "done" /\ Stopped(round) => c.told = sent
      /\ phase = "done" => \A field \in BothFields :
           Tokens(c.usage, field) =
             FoldSet(LAMBDA f, n : n + f[1], 0, { f \in reported : f[2] = field })
=============================================================================
