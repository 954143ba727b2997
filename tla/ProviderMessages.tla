-------------------------- MODULE ProviderMessages --------------------------
(***************************************************************************)
(* The provider message objects: how ClaudeMessage, OpenAIMessage,         *)
(* OpenAIResponsesMessage, GoogleMessage and OllamaMessage turn the events *)
(* of a provider into content blocks, and what each event makes the client *)
(* do (MessageEffects).                                                    *)
(*                                                                         *)
(* A text, a thought or a JSON document is the sequence of the PIECES it   *)
(* arrived in: a piece knows the item it belongs to (of), its number (n),  *)
(* whether it ends the item (last) and what the text looks like to the     *)
(* code that sniffs it (look).  The module has no state: each operator     *)
(* maps a message (and an event) to a message and its effects.             *)
(***************************************************************************)
EXTENDS Naturals, Sequences, SequencesExt, FiniteSetsExt, Functions, TLC

None == <<>>          \* no id, key or signature
NoReason == "none"

(*************************** BaseMessage ***********************************)
\* thinkingAt is m_currentThinkingIndex (0: none); at, calls, thoughts and
\* callOf are the providers' index maps, held/added are Ollama's
\* m_accumulatedContent and m_contentAddedToTextBlock, made counts tool ids.
EmptyMessage ==
  [blocks |-> <<>>, state |-> "building", reason |-> NoReason, notified |-> {},
   thinkingAt |-> 0, at |-> <<>>, calls |-> <<>>, thoughts |-> <<>>,
   callOf |-> <<>>, held |-> <<>>, added |-> FALSE, made |-> 0]
NoMessage == [EmptyMessage EXCEPT !.state = "absent"]

Block(kind, id, of, parts, signature) ==
  [kind |-> kind, id |-> id, of |-> of, parts |-> parts, signature |-> signature]
TextContent(parts) == Block("text", None, None, parts, None)
ThinkingContent    == Block("think", None, None, <<>>, None)

addCurrentContent(m, block) == [m EXCEPT !.blocks = Append(@, block)]
FirstOf(m, kind) == SelectInSeq(m.blocks, LAMBDA b : b.kind = kind)
LastOf(m, kind)  == SelectLastInSeq(m.blocks, LAMBDA b : b.kind = kind)
Extended(m, at, parts) == [m EXCEPT !.blocks[at].parts = @ \o parts]
Signed(m, at, signature) == [m EXCEPT !.blocks[at].signature = signature]

OfKind(blocks, kind) == SelectSeq(blocks, LAMBDA b : b.kind = kind)
currentToolUseContent(m) == OfKind(m.blocks, "tool")
Joined(blocks) == FoldLeft(LAMBDA t, b : t \o b.parts, <<>>, blocks)

clearBlocks(m) == [m EXCEPT !.blocks = <<>>, !.notified = {}, !.thinkingAt = 0]
clearDerivedCaches(m) ==
  [m EXCEPT !.at = <<>>, !.calls = <<>>, !.thoughts = <<>>, !.callOf = <<>>,
            !.held = <<>>, !.added = FALSE]
startNewContinuation(m) ==
  [clearBlocks(clearDerivedCaches(m)) EXCEPT !.reason = NoReason, !.state = "building"]

\* The one caller drops the blocks of a kind.
removeBlocksIf(m, kind) ==
  LET kept == { i \in DOMAIN m.blocks : m.blocks[i].kind # kind }
      position(i) == Quantify(kept, LAMBDA j : j <= i)
  IN  [m EXCEPT !.blocks = SelectSeq(@, LAMBDA b : b.kind # kind),
                !.notified = { position(i) : i \in m.notified \cap kept },
                !.thinkingAt = IF @ \in kept THEN position(@) ELSE 0]

\* A thinking block is announced once, when it has text; a redacted one as is.
PendingThinking(m) ==
  { i \in DOMAIN m.blocks \ m.notified :
      \/ m.blocks[i].kind = "think" /\ m.blocks[i].parts # <<>>
      \/ m.blocks[i].kind = "redacted" }
BugTakePending(m) ==
  LET pending == PendingThinking(m)
  IN  [m |-> m, told |-> [k \in 1..Cardinality(pending) |->
                            m.blocks[SetToSortSeq(pending, <)[k]].parts]]
takePendingThinkingNotifications(m) ==
  LET pending == PendingThinking(m)
  IN  [m |-> [m EXCEPT !.notified = @ \cup pending],
       told |-> [k \in 1..Cardinality(pending) |->
                   m.blocks[SetToSortSeq(pending, <)[k]].parts]]

WithThinking(m) ==                      \* ensureThinkingContentIndex
  IF m.thinkingAt # 0 THEN m
  ELSE IF FirstOf(m, "think") # 0
  THEN [m EXCEPT !.thinkingAt = FirstOf(m, "think")]
  ELSE [addCurrentContent(m, ThinkingContent) EXCEPT !.thinkingAt = Len(m.blocks) + 1]
AppendThinking(m, parts) ==
  LET w == WithThinking(m) IN Extended(w, w.thinkingAt, parts)

WithText(m) ==                          \* ensureTextContentIndex
  IF FirstOf(m, "text") # 0 THEN m ELSE addCurrentContent(m, TextContent(<<>>))
appendTextDelta(m, parts) ==
  LET w == WithText(m) IN Extended(w, FirstOf(w, "text"), parts)

\* JSON parses when it is the whole document, from its first to its last
\* piece; anything else yields the empty object.
Whole(json) ==
  /\ json # <<>>
  /\ json[1].n = 1
  /\ json[Len(json)].last
  /\ \A k \in 2..Len(json) : json[k].of = json[1].of /\ json[k].n = k
parseToolArguments(json) == IF Whole(json) THEN json ELSE <<>>

\* ToolCallAccumulator: key -> the block of the call and its arguments so far.
start(m, key, at) == [m EXCEPT !.calls = (key :> [at |-> at, json |-> <<>>]) @@ @]
delta(m, key, fragment) ==
  IF key \in DOMAIN m.calls THEN [m EXCEPT !.calls[key].json = @ \o fragment] ELSE m
completeToolCall(m, key, final) ==
  IF key \notin DOMAIN m.calls THEN m
  ELSE LET json == IF final = <<>> THEN m.calls[key].json ELSE final
           closed == [m EXCEPT !.calls = Restrict(@, DOMAIN @ \ {key})]
       IN  IF json = <<>> THEN closed
           ELSE [closed EXCEPT !.blocks[m.calls[key].at].parts = parseToolArguments(json)]
completeAllToolCalls(m) ==
  FoldSet(LAMBDA key, acc : completeToolCall(acc, key, <<>>), m, DOMAIN m.calls)

StopReasons(tools, complete, final, open, fallback, override) ==
  [tools |-> tools, complete |-> complete, final |-> final, open |-> open,
   fallback |-> fallback, override |-> override]
resolveState(m, reason, map) ==
  IF currentToolUseContent(m) # <<>> /\ (map.override \/ reason \in map.tools)
  THEN "tools"
  ELSE IF reason \in map.complete THEN "complete"
  ELSE IF reason \in map.final THEN "final"
  ELSE IF reason \in map.open THEN "building"
  ELSE map.fallback
recordStopReason(m, reason, map) ==
  [m EXCEPT !.reason = reason, !.state = resolveState(m, reason, map)]

(************************** MessageEffects *********************************)
NoEffects == [chunk |-> <<>>, full |-> <<>>, fallback |-> <<>>, usage |-> <<>>,
              error |-> FALSE, thinkingCompleted |-> FALSE, toolsReady |-> FALSE]
Applied(m, fx) == [m |-> m, fx |-> fx]
Silently(m)    == Applied(m, NoEffects)
Failed(m)      == Applied(m, [NoEffects EXCEPT !.error = TRUE])

(************************* ClaudeMessage ***********************************)
ClaudeStops == StopReasons({"tool_use"}, {}, {"end_turn"}, {}, "complete", FALSE)

beginBlock(m, index, item) ==
  LET position == Len(m.blocks) + 1
      added == [addCurrentContent(m, Block(item.kind,
                   IF item.kind = "tool" THEN item.of ELSE None,
                   IF item.kind = "tool" THEN item.of ELSE None,
                   item.parts, item.signature))
                  EXCEPT !.at = (index :> position) @@ @]
  IN  IF item.kind = "tool" THEN start(added, index, position) ELSE added

ClaudeDelta(m, index, kind, parts, signature) ==
  IF index \notin DOMAIN m.at THEN m
  ELSE LET position == m.at[index] IN
    CASE kind = "input_json" -> delta(m, index, parts)
      [] kind = "signature" ->
           IF m.blocks[position].kind \in {"think", "redacted"}
           THEN Signed(m, position, signature) ELSE m
      [] OTHER ->
           IF m.blocks[position].kind = kind THEN Extended(m, position, parts) ELSE m

ClaudeEvent(m, e) ==
  CASE e.type = "message_start" ->
         Applied(startNewContinuation(m), [NoEffects EXCEPT !.usage = e.usage])
    [] e.type = "content_block_start" -> Silently(beginBlock(m, e.index, e.item))
    [] e.type = "content_block_delta" ->
         Applied(ClaudeDelta(m, e.index, e.kind, e.parts, e.signature),
                 [NoEffects EXCEPT !.chunk = IF e.kind = "text" THEN e.parts ELSE <<>>])
    [] e.type = "content_block_stop" ->
         Applied(completeToolCall(m, e.index, <<>>),
                 [NoEffects EXCEPT !.thinkingCompleted = TRUE])
    [] e.type = "message_delta" ->
         Applied(recordStopReason(m, e.reason, ClaudeStops),
                 [NoEffects EXCEPT !.toolsReady = TRUE, !.usage = e.usage])
    [] e.type = "error" -> Failed(m)
    [] OTHER -> Silently(m)

ClaudeResponse(m, r) ==
  LET place(acc, i) ==
        completeToolCall(beginBlock(acc, i, r.items[i]), i, <<>>)
      placed == FoldLeftDomain(place, startNewContinuation(m), r.items)
  IN  Applied(recordStopReason(placed, r.reason, ClaudeStops),
        [NoEffects EXCEPT
           !.chunk = Joined(OfKind(r.items, "text")), !.usage = r.usage, !.toolsReady = TRUE,
           !.thinkingCompleted = \E i \in DOMAIN r.items : r.items[i].kind \in {"think", "redacted"}])

(************************* OpenAIMessage ***********************************)
OpenAIStops == StopReasons({"tool_calls"}, {}, {"stop"}, {}, "complete", FALSE)

handleToolCallStart(m, key, id, of) ==
  start(addCurrentContent(m, Block("tool", id, of, <<>>, None)), key, Len(m.blocks) + 1)

\* A chunk: one choice with reasoning, text, tool-call fragments and perhaps a
\* finish reason; the usage chunk and an error body have no choice.
OpenAIEvent(m, c) ==
  IF c.error THEN Failed(m)
  ELSE IF ~ c.choices THEN Applied(m, [NoEffects EXCEPT !.usage = c.usage])
  ELSE
  LET thought == IF c.reasoning = <<>> THEN m ELSE AppendThinking(m, c.reasoning)
      said == IF c.text = <<>> THEN thought ELSE appendTextDelta(thought, c.text)
      call(acc, k) ==
        delta(IF k.id = None THEN acc ELSE handleToolCallStart(acc, k.index, k.id, k.of),
              k.index, k.arguments)
      called == FoldLeft(call, said, c.calls)
      finished == c.reason # NoReason
  IN  Applied(IF finished
              THEN recordStopReason(completeAllToolCalls(called), c.reason, OpenAIStops)
              ELSE called,
        [NoEffects EXCEPT !.chunk = c.text, !.usage = c.usage, !.toolsReady = finished,
                          !.thinkingCompleted = finished \/ c.text # <<>>])

\* A buffered body is replayed as one chunk with indexed calls.
OpenAIResponse(m, r) == IF ~ r.choices THEN Failed(m) ELSE OpenAIEvent(m, r)

(********************* OpenAIResponsesMessage ******************************)
ResponsesStops ==
  StopReasons({"completed"}, {"completed"}, {"failed", "cancelled", "incomplete"},
              {"in_progress"}, "building", FALSE)
Placeholder == << [of |-> None, n |-> 1, last |-> TRUE, look |-> "placeholder"] >>

handleReasoningStart(m, item) ==
  [addCurrentContent(m, [ThinkingContent EXCEPT !.id = item])
     EXCEPT !.thoughts = (item :> Len(m.blocks) + 1) @@ @]
WithReasoning(m, item) ==
  IF item \in DOMAIN m.thoughts THEN m ELSE handleReasoningStart(m, item)
handleReasoningEncryptedContent(m, item, encrypted) ==
  IF encrypted = None THEN m
  ELSE LET w == WithReasoning(m, item) IN Signed(w, w.thoughts[item], encrypted)
handleReasoningDelta(m, item, text) ==
  IF text = <<>> THEN m
  ELSE LET w == WithReasoning(m, item) IN Extended(w, w.thoughts[item], text)

applyReasoningItem(m, item, summary, encrypted, placeholder) ==
  LET text == IF summary # <<>> THEN summary ELSE placeholder
  IN  handleReasoningEncryptedContent(handleReasoningDelta(m, item, text), item, encrypted)

accumulatedText(m) == Joined(OfKind(m.blocks, "text"))

applyTerminal(m, r, fallbackStatus) ==
  Applied(recordStopReason(m, IF r.empty THEN fallbackStatus ELSE r.status, ResponsesStops),
    [NoEffects EXCEPT
       !.fallback = IF ~ r.empty /\ accumulatedText(m) = <<>> THEN r.text ELSE <<>>,
       !.usage = IF r.empty THEN <<>> ELSE r.usage,
       !.thinkingCompleted = TRUE, !.toolsReady = TRUE])

ResponsesEvent(m, e) ==
  CASE e.type = "output_text.delta" ->
         IF e.parts = <<>> THEN Silently(m)
         ELSE Applied(appendTextDelta(m, e.parts), [NoEffects EXCEPT !.chunk = e.parts])
    [] e.type = "output_text.done" -> Applied(m, [NoEffects EXCEPT !.full = e.parts])
    [] e.type = "output_item.added" /\ e.kind = "tool" ->
         Silently(handleToolCallStart([m EXCEPT !.callOf = (e.item :> e.call) @@ @],
                                      e.call, e.call, e.item))
    [] e.type = "output_item.added" /\ e.kind = "think" ->
         Silently(handleReasoningEncryptedContent(
                    handleReasoningStart(m, e.item), e.item, e.encrypted))
    [] e.type = "reasoning_content.delta" ->
         Silently(handleReasoningDelta(m, e.item, e.parts))
    [] e.type = "reasoning_content.done" ->
         Applied(m, [NoEffects EXCEPT !.thinkingCompleted = TRUE])
    [] e.type = "function_call_arguments.delta" ->
         Silently(IF e.item \in DOMAIN m.callOf THEN delta(m, m.callOf[e.item], e.parts) ELSE m)
    [] e.type = "function_call_arguments.done" ->
         Silently(IF e.item \in DOMAIN m.callOf
                  THEN completeToolCall(m, m.callOf[e.item], e.parts) ELSE m)
    [] e.type = "output_item.done" /\ e.kind = "tool" ->
         Silently(completeToolCall(m, e.call, e.parts))
    [] e.type = "output_item.done" /\ e.kind = "think" ->
         Applied(applyReasoningItem(m, e.item, e.parts, e.encrypted, Placeholder),
                 [NoEffects EXCEPT !.thinkingCompleted = TRUE])
    [] e.type = "completed"  -> applyTerminal(m, e.response, NoReason)
    [] e.type = "incomplete" -> applyTerminal(m, e.response, "incomplete")
    [] e.type = "failed"     -> Failed(recordStopReason(m, "failed", ResponsesStops))
    [] e.type = "error"      -> Failed(m)
    [] OTHER -> Silently(m)

ResponsesResponse(m, r) ==
  LET place(acc, item) ==
        CASE item.kind = "think" ->
               applyReasoningItem(acc, item.of, item.parts, item.signature, <<>>)
          [] item.kind = "text" -> appendTextDelta(acc, item.parts)
          [] item.kind = "tool" ->
               completeToolCall(
                 handleToolCallStart(acc, item.call, item.call, item.of), item.call, item.parts)
  IN  Applied(recordStopReason(FoldLeft(place, m, r.items), r.reason, ResponsesStops),
        [NoEffects EXCEPT !.chunk = Joined(OfKind(r.items, "text")), !.usage = r.usage,
           !.error = r.reason = "failed", !.thinkingCompleted = TRUE, !.toolsReady = TRUE])

(************************* GoogleMessage ***********************************)
GoogleStops == StopReasons({"STOP", "MAX_TOKENS"}, {}, {}, {}, "complete", FALSE)
GoogleErrors ==
  {"SAFETY", "RECITATION", "MALFORMED_FUNCTION_CALL", "PROHIBITED_CONTENT", "SPII", "OTHER"}

\* handleContentDelta and handleThoughtDelta: extend the last block of the
\* kind, or begin one when another kind stands last.
AppendToLast(m, block, parts) ==
  LET w == IF m.blocks # <<>> /\ Last(m.blocks).kind = block.kind
           THEN m ELSE addCurrentContent(m, block)
  IN  Extended(w, Len(w.blocks), parts)
handleThoughtSignature(m, signature) ==
  LET w == IF LastOf(m, "think") # 0 THEN m ELSE addCurrentContent(m, ThinkingContent)
  IN  Signed(w, LastOf(w, "think"), signature)
GoogleCall(m, of, arguments) ==
  [addCurrentContent(m, Block("tool", << m.made >>, of, parseToolArguments(arguments), None))
     EXCEPT !.made = @ + 1]

GooglePart(a, p) ==
  CASE p.kind = "text" ->
         Applied(AppendToLast(a.m, TextContent(<<>>), p.parts),
                 [a.fx EXCEPT !.chunk = @ \o p.parts, !.thinkingCompleted = TRUE])
    [] p.kind = "think" -> Applied(AppendToLast(a.m, ThinkingContent, p.parts), a.fx)
    [] p.kind = "signature" -> Applied(handleThoughtSignature(a.m, p.signature), a.fx)
    [] p.kind = "tool" ->
         Applied(GoogleCall(a.m, p.of, p.parts), [a.fx EXCEPT !.thinkingCompleted = TRUE])

GoogleEvent(m, c) ==
  IF c.error THEN Failed(m)
  ELSE
  LET read == FoldLeft(GooglePart, Applied(m, [NoEffects EXCEPT !.usage = c.usage]), c.items)
  IN  IF c.reason = NoReason THEN read
      ELSE Applied(recordStopReason(read.m, c.reason, GoogleStops),
                   [read.fx EXCEPT !.error = c.reason \in GoogleErrors])
GoogleDrained(m) ==
  Applied(m, [NoEffects EXCEPT !.thinkingCompleted = TRUE, !.toolsReady = TRUE])

(************************* OllamaMessage ***********************************)
\* What the sniffed content begins with, after white space: a JSON object
\* without or with tool-call fields ("brace", "named"), a complete legacy tool
\* call once it is whole ("call"), a Markdown fence around prose or around a
\* call ("fence", "fencedCall"), or plain text.
OllamaStops == StopReasons({}, {}, {}, {}, "final", TRUE)
Trimmed(content) == SelectSeq(content, LAMBDA p : p.look # "blank")
LookOf(content) == IF Trimmed(content) = <<>> THEN "blank" ELSE Trimmed(content)[1].look
Braced(content) == LookOf(content) \in {"brace", "named", "call"}
IsToolCall(content) == Whole(content) /\ LookOf(content) \in {"call", "fencedCall"}
HasToolFields(content) == LookOf(content) \in {"named", "call"}
isAccumulatingToolCall(m) == ~ m.added /\ Braced(m.held)

OllamaContent(m, content) ==
  LET held == [m EXCEPT !.held = @ \o content]
  IN  IF Braced(held.held) \/ LookOf(held.held) \in {"fence", "fencedCall"} THEN held
      ELSE IF m.added THEN appendTextDelta(held, content)
      ELSE LET w == WithText(held)
           IN  [w EXCEPT !.blocks[FirstOf(w, "text")].parts = held.held, !.added = TRUE]

handleToolCall(m, item) ==
  LET dropped == IF ~ m.added /\ Trimmed(m.held) # <<>> THEN [m EXCEPT !.held = <<>>] ELSE m
  IN  [addCurrentContent(dropped, Block("tool", << m.made >>, item.of, item.parts, None))
         EXCEPT !.made = @ + 1]

\* At the end of the answer the held content becomes a tool call, is dropped
\* as a broken one, or becomes the text after all.
OllamaSettled(m) ==
  IF IsToolCall(m.held)
  THEN [addCurrentContent(clearBlocks(m), Block("tool", << m.made >>, m.held[1].of, m.held, None))
          EXCEPT !.made = @ + 1]
  ELSE IF m.added \/ Trimmed(m.held) = <<>> THEN m
  ELSE IF HasToolFields(m.held)
  THEN [removeBlocksIf(m, "text") EXCEPT !.held = <<>>]
  ELSE LET w == WithText(m)
       IN  [w EXCEPT !.blocks[FirstOf(w, "text")].parts = m.held, !.added = TRUE]

OllamaEvent(m, e) ==
  IF e.error THEN Failed(m)
  ELSE
  LET thought == IF e.thinking = <<>> THEN m ELSE AppendThinking(m, e.thinking)
      said == IF e.content = <<>> THEN thought ELSE OllamaContent(thought, e.content)
      called == FoldLeft(handleToolCall, said, e.calls)
      signed == IF e.signature = None \/ LastOf(called, "think") = 0 THEN called
                ELSE Signed(called, LastOf(called, "think"), e.signature)
  IN  Applied(IF e.done THEN recordStopReason(OllamaSettled(signed), e.reason, OllamaStops)
              ELSE called,
        [NoEffects EXCEPT
           !.chunk = IF isAccumulatingToolCall(said) THEN <<>> ELSE e.content,
           !.thinkingCompleted = e.done \/ e.content # <<>>,
           !.usage = e.usage, !.toolsReady = e.done])

(********************** The continuation payload ***************************)
\* An entry of what the next request replays: a field or item of the
\* assistant message, or the result of a call.
Entry(type, key, parts) == [type |-> type, key |-> key, parts |-> parts]
NonEmpty(type, parts) == IF parts = <<>> THEN <<>> ELSE << Entry(type, None, parts) >>
Mapped(blocks, Op(_)) == FlattenSeq([i \in DOMAIN blocks |-> Op(blocks[i])])

ClaudeTurn(blocks) ==
  Mapped(blocks, LAMBDA b : << Entry(b.kind, IF b.kind = "tool" THEN b.id ELSE b.signature,
                                     b.parts) >>)
\* The chat message's content, reasoning and tool_calls fields.
ChatTurn(blocks, key) ==
  NonEmpty("text", Joined(OfKind(blocks, "text")))
    \o NonEmpty("think", Joined(OfKind(blocks, "think")))
    \o Mapped(OfKind(blocks, "tool"), LAMBDA b : << Entry("tool", b[key], b.parts) >>)

\* The texts become one message, placed where the first of them stood.
ResponsesTurn(blocks, replay) ==
  LET item(b) ==
        CASE b.kind = "tool" -> << Entry("tool", b.id, b.parts) >>
          [] b.kind = "think" /\ replay /\ b.id # None /\ b.signature # None ->
               << Entry("think", b.signature, <<>>) >>
          [] OTHER -> <<>>
      first == SelectInSeq(blocks, LAMBDA b : b.kind = "text")
      before == Mapped(SubSeq(blocks, 1, first - 1), item)
      after == Mapped(SubSeq(blocks, first + 1, Len(blocks)), item)
  IN  IF first = 0 THEN Mapped(blocks, item)
      ELSE before \o NonEmpty("text", Joined(OfKind(blocks, "text"))) \o after

\* A thought carries its signature in a part of its own.
GoogleTurn(blocks) ==
  Mapped(blocks, LAMBDA b :
    CASE b.kind = "text" -> << Entry("text", None, b.parts) >>
      [] b.kind = "tool" -> << Entry("tool", b.of, b.parts) >>
      [] b.kind = "think" ->
           << Entry("think", None, b.parts) >>
             \o IF b.signature = None THEN <<>> ELSE << Entry("signature", b.signature, <<>>) >>)

OpenAITurn(blocks) == ChatTurn(blocks, "id")
OllamaTurn(blocks) == ChatTurn(blocks, "of")

\* One result per call that has one, in the order of the calls.
mapToolResults(m, results, key) ==
  Mapped(SelectSeq(currentToolUseContent(m), LAMBDA b : b.id \in DOMAIN results),
         LAMBDA b : << Entry("result", b[key], results[b.id]) >>)
createToolResultsContent(m, results) == mapToolResults(m, results, "id")
createToolResultMessages(m, results) == mapToolResults(m, results, "id")
BugToolResultItems(m, results) == mapToolResults(m, results, "of")
createToolResultItems(m, results) == mapToolResults(m, results, "id")
\* Google answers by the function's name, Ollama by place.
createToolResultParts(m, results) == mapToolResults(m, results, "of")
OllamaResultMessages(m, results) == mapToolResults(m, results, "of")

ClaudeContinuation(m, results) == ClaudeTurn(m.blocks) \o createToolResultsContent(m, results)
OpenAIContinuation(m, results) == OpenAITurn(m.blocks) \o createToolResultMessages(m, results)
ResponsesContinuation(m, results, replay) ==
  ResponsesTurn(m.blocks, replay) \o createToolResultItems(m, results)
GoogleContinuation(m, results) == GoogleTurn(m.blocks) \o createToolResultParts(m, results)
OllamaContinuation(m, results) == OllamaTurn(m.blocks) \o OllamaResultMessages(m, results)
=============================================================================
