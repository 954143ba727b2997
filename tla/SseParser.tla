------------------------------ MODULE SseParser -------------------------------
(***************************************************************************)
(* SSEParser, the incremental parser of server-sent events that the HTTP   *)
(* transports and the provider clients share, as a record and the operators*)
(* that take it to the next.  A byte is CR, LF, the name of a field with   *)
(* its colon, or any other value; the value of a field is the rest of its  *)
(* line.  Event ids and retry times are left to McpStreamableHttp.         *)
(***************************************************************************)
EXTENDS Naturals, Sequences, SequencesExt

CONSTANTS
  MaxBuffer,              \* m_maxBufferBytes
  CR, LF,                 \* the bytes that end a line
  EventField, DataField   \* the field names that matter
ASSUME BufferAssumption == MaxBuffer \in Nat \ {0}

Fresh == [buffer |-> <<>>, type |-> <<>>, data |-> <<>>, skip |-> FALSE, dropping |-> FALSE]

\* The flag of an event that was too long outlives it.
BugDispatched(p) == [p EXCEPT !.type = <<>>, !.data = <<>>]
\* dispatch: a blank line ends the event; one without data, or with too much, is none.
Dispatched(p) == [p EXCEPT !.type = <<>>, !.data = <<>>, !.dropping = FALSE]
EventOf(p) ==
  IF p.dropping \/ p.data = <<>> THEN <<>>
  ELSE << [type |-> IF p.type = <<>> THEN << "message" >> ELSE p.type, data |-> p.data] >>

Grown(p, value) == IF p.data = <<>> THEN value ELSE p.data \o << LF >> \o value
WithData(p, value) ==
  IF p.dropping THEN p
  ELSE IF Len(p.data) + Len(value) > MaxBuffer THEN [p EXCEPT !.data = <<>>, !.dropping = TRUE]
  ELSE [p EXCEPT !.data = Grown(p, value)]

\* A line is a field, a comment or unknown.
processLine(p, line) ==
  CASE line = <<>> -> Dispatched(p)
    [] line # <<>> /\ Head(line) = EventField -> [p EXCEPT !.type = Tail(line)]
    [] line # <<>> /\ Head(line) = DataField -> WithData(p, Tail(line))
    [] OTHER -> p

\* Both CR and LF end a line, and CR LF ends one: also when the chunk ends between.
WithByte(run, byte) ==
  LET p == run.parser
  IN  CASE byte = LF /\ p.skip -> [run EXCEPT !.parser.skip = FALSE]
        [] byte \notin {CR, LF} ->
             [run EXCEPT !.parser.skip = FALSE, !.parser.buffer = Append(@, byte)]
        [] OTHER ->
             [parser |-> [processLine(p, p.buffer) EXCEPT !.buffer = <<>>, !.skip = byte = CR],
              events |-> IF p.buffer = <<>> THEN run.events \o EventOf(p) ELSE run.events]

\* An unfinished line beyond the limit is given up, and the event with it.
Bounded(p) ==
  IF Len(p.buffer) > MaxBuffer THEN [p EXCEPT !.buffer = <<>>, !.type = <<>>, !.data = <<>>] ELSE p

\* append: the events a chunk completes and the parser it leaves.  What came of the bytes
\* before is bound to a value: TLC evaluates an argument each time it is used.
Scanned(p, chunk) ==
  FoldLeft(LAMBDA run, byte : CHOOSE next \in { WithByte(r, byte) : r \in {run} } : TRUE,
           [parser |-> p, events |-> <<>>], chunk)
append(p, chunk) ==
  LET run == Scanned(p, chunk)
  IN  [run EXCEPT !.parser = Bounded(@)]

\* format, with any of the three line ends a server may choose.
format(type, lines, end) ==
  (IF type = "message" THEN <<>> ELSE << EventField, type >> \o end)
    \o FlattenSeq([k \in DOMAIN lines |-> << DataField >> \o lines[k] \o end]) \o end
=============================================================================
