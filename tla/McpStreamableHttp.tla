--------------------------- MODULE McpStreamableHttp ---------------------------
(***************************************************************************)
(* McpStreamableHttpTransport: every message is an exchange of its own (a  *)
(* POST whose reply is a JSON body or an event stream), a dropped event    *)
(* stream is resumed behind its last event, and a stream of server         *)
(* messages is kept open beside them.                                      *)
(*                                                                         *)
(* The server is not this repository's: it is any that follows the         *)
(* protocol, refuses, breaks connections and forgets sessions.  The reply  *)
(* stream of a request has LastEvent events, the last one its answer.      *)
(* While a handler emits the messages of a chunk the receiver may call     *)
(* back into the transport; nothing else happens in between.               *)
(***************************************************************************)
EXTENDS Naturals, Sequences, FiniteSets

CONSTANTS
    Initializes,    \* initialize requests, each sent at most once
    Calls,          \* other requests
    Notes,          \* notifications and answers to the server
    LastEvent,      \* events of a reply stream, the answer the last one
    MaxServerLog,   \* bound: messages the server sends on its own
    MaxFaults       \* bound: refusals, broken connections and streams not opened

ASSUME HttpAssumption ==
    /\ IsFiniteSet(Initializes) /\ IsFiniteSet(Calls) /\ IsFiniteSet(Notes)
    /\ Initializes \cap Calls = {} /\ (Initializes \cup Calls) \cap Notes = {}
    /\ LastEvent \in Nat \ {0} /\ MaxServerLog \in Nat /\ MaxFaults \in Nat

Requests == Initializes \cup Calls
Messages == Requests \cup Notes

\* What the head of a reply says: an event stream, a JSON body, 202; a refusal that
\* may pass (isTransientRefusal), 404 for a session the server forgot, any other one.
Refusals == {"busy", "gone", "refused"}
Heads    == {"none", "events", "json", "accepted"} \cup Refusals

VARIABLES
    http,       \* the HttpTransport still exists
    open,       \* Impl::open
    session,    \* Impl::sessionId, 0 when empty
    exchange,   \* the Exchange of each message
    chunk,      \* what onChunk still has to deliver of a chunk
    listen,     \* the listen stream and what is kept across its connections
    backlog,    \* Impl::listenBacklog
    ids,        \* the server gives its events ids
    sessions,   \* the server grants sessions
    log,        \* messages the server sent on its own so far
    granted,    \* sessions the server granted: 1..granted
    forgotten,  \* those it forgot
    deleted,    \* those the client ended with DELETE
    faults,     \* bound: counted so far
    seen        \* history: the last server message delivered

server == <<ids, sessions, log, granted, forgotten>>
vars   == <<http, open, session, exchange, chunk, listen, backlog, server, deleted,
            faults, seen>>

NoExchange == [sent |-> FALSE, live |-> FALSE, stream |-> "none", head |-> "none",
               carried |-> 0, got |-> 0, cursor |-> 0, answered |-> FALSE,
               resuming |-> FALSE, timer |-> FALSE,
               answers |-> 0, failures |-> 0, dropped |-> FALSE]

NoListen == [stream |-> "none", carried |-> 0, at |-> 0, lastId |-> 0,
             accepted |-> FALSE, refused |-> FALSE, resumed |-> FALSE, heard |-> FALSE,
             up |-> FALSE, timer |-> FALSE, wanted |-> FALSE]

NoChunk == << >>

Init ==
    /\ http = TRUE /\ open = FALSE /\ session = 0
    /\ exchange = [m \in Messages |-> NoExchange]
    /\ chunk = NoChunk /\ listen = NoListen /\ backlog = << >>
    /\ ids \in BOOLEAN /\ sessions \in BOOLEAN /\ log = 0 /\ granted = 0 /\ forgotten = {} /\ deleted = {}
    /\ faults = 0 /\ seen = 0

Delivering == chunk # NoChunk \/ backlog # << >>

Fault == faults < MaxFaults /\ faults' = faults + 1

-----------------------------------------------------------------------------
(* One exchange *)

\* The Exchange and its stream and timer are gone; what was told of it remains.
Release(e) == [NoExchange EXCEPT !.sent = TRUE, !.answers = e.answers,
                                 !.failures = e.failures, !.dropped = e.dropped]
Drop(e) == [Release(e) EXCEPT !.dropped = TRUE]

BugFailed(m, e) ==
    IF m \in Requests THEN [Release(e) EXCEPT !.failures = @ + 1] ELSE Release(e)

\* release and fail: sendFailed for a request not answered yet.
Failed(m, e) ==
    IF m \in Requests /\ ~e.answered
    THEN [Release(e) EXCEPT !.failures = @ + 1] ELSE Release(e)

DropAll(x) == [m \in Messages |-> IF x[m].live THEN Drop(x[m]) ELSE x[m]]

BugSupersede(x) == [m \in Messages |-> IF x[m].live THEN Release(x[m]) ELSE x[m]]

\* startNewSession: what was under way fails as superseded.
Supersede(x) == [m \in Messages |-> IF x[m].live THEN Failed(m, x[m]) ELSE x[m]]

CanResume(m, e) == e.live /\ ~e.answered /\ e.cursor # 0 /\ m \in Requests

ScheduleResume(e) == [e EXCEPT !.stream = "none", !.timer = TRUE]

-----------------------------------------------------------------------------
(* The listen stream *)

\* The listen stream is gone; the fields that the next one sets anew are cleared.
Closed(l) == [l EXCEPT !.stream = "none", !.carried = 0, !.at = 0, !.up = FALSE,
                       !.resumed = FALSE, !.heard = FALSE]

RetryListen(l) == [l EXCEPT !.timer = open /\ http /\ ~l.refused]

\* openListenStream; the HTTP transport may open no stream.
OpenListen(l) ==
    IF ~open \/ ~http \/ l.stream # "none" \/ l.refused
    THEN listen' = l /\ UNCHANGED faults
    ELSE LET k == [l EXCEPT !.resumed = l.lastId # 0]
         IN  \/ /\ listen' = [k EXCEPT !.stream = "opening", !.carried = session]
                /\ UNCHANGED faults
             \/ Fault /\ listen' = RetryListen(k)

\* receive, for the answer to m: behind that to initialize the client listens, if
\* the result names a protocol version.
Received(m) ==
    \/ m \in Initializes /\ OpenListen([listen EXCEPT !.wanted = TRUE])
    \/ UNCHANGED <<listen, faults>>

-----------------------------------------------------------------------------
(* The user of the transport *)

\* deleteSession: nothing to end before a session was granted.
DeleteSession(s) == deleted' = IF http /\ s # 0 THEN deleted \cup {s} ELSE deleted

\* stop, where the exchanges are x and the session is s.
Stops(x, s) ==
    /\ open' = FALSE
    /\ DeleteSession(s)
    /\ session' = 0
    /\ exchange' = DropAll(x)
    /\ listen' = NoListen
    /\ backlog' = << >>

Start ==
    /\ ~open
    /\ open' = TRUE
    /\ UNCHANGED <<http, session, exchange, chunk, listen, backlog, server, deleted,
                   faults, seen>>

Stop ==
    /\ open
    /\ Stops(exchange, session)
    /\ UNCHANGED <<http, chunk, server, faults, seen>>

\* post, where the exchanges are x and the session is s: the exchange begins, or the
\* HTTP transport is gone or opens no stream.
Post(m, x, s) ==
    \/ /\ http
       /\ exchange' = [x EXCEPT ![m].sent = TRUE, ![m].live = TRUE,
                                ![m].stream = "opening", ![m].carried = s]
       /\ UNCHANGED faults
    \/ /\ IF http THEN Fault ELSE UNCHANGED faults
       /\ exchange' = [x EXCEPT ![m] = Failed(m, [@ EXCEPT !.sent = TRUE])]

BugSendInitialize(m) ==
    /\ open /\ m \in Initializes /\ ~exchange[m].sent
    /\ Post(m, Supersede(exchange), 0)
    /\ session' = 0
    /\ listen' = NoListen
    /\ backlog' = << >>
    /\ UNCHANGED <<http, open, chunk, deleted, server, seen>>

SendInitialize(m) ==
    /\ open /\ m \in Initializes /\ ~exchange[m].sent
    /\ IF http
       THEN /\ Post(m, Supersede(exchange), 0)
            /\ DeleteSession(session)
            /\ session' = 0
            /\ listen' = NoListen
            /\ backlog' = << >>
       ELSE /\ Post(m, exchange, 0)
            /\ UNCHANGED <<deleted, session, listen, backlog>>
    /\ UNCHANGED <<http, open, chunk, server, seen>>

Send(m) ==
    /\ open /\ m \in Calls \cup Notes /\ ~exchange[m].sent
    /\ Post(m, exchange, session)
    /\ UNCHANGED <<http, open, session, chunk, listen, backlog, server, deleted, seen>>

Abandon(m) ==
    /\ m \in Requests /\ exchange[m].live
    /\ exchange' = [exchange EXCEPT ![m] = Drop(@)]
    /\ UNCHANGED <<http, open, session, chunk, listen, backlog, server, deleted,
                   faults, seen>>

-----------------------------------------------------------------------------
(* What becomes of an exchange *)

\* The heads a server may give the reply to m in exchange e.
Replies(m, e) ==
    IF e.carried \in forgotten THEN {"gone"}
    ELSE {"busy", "refused"} \cup
         IF e.resuming THEN {"events"}
         ELSE IF m \in Notes THEN {"events", "accepted"} ELSE {"events", "json", "accepted"}

\* onHeaders: a session id in the head becomes the transport's.
Headers(m) ==
    /\ exchange[m].stream = "opening" /\ ~Delivering
    /\ \E h \in Replies(m, exchange[m]) :
        /\ IF h \in {"busy", "refused"} THEN Fault ELSE UNCHANGED faults
        /\ exchange' = [exchange EXCEPT ![m].stream = "open", ![m].head = h]
        /\ IF m \in Initializes /\ h \in {"events", "json"} /\ ~exchange[m].resuming /\ sessions
           THEN granted' = granted + 1 /\ session' = granted + 1
           ELSE /\ session' = IF exchange[m].carried # 0 THEN exchange[m].carried
                              ELSE session
                /\ UNCHANGED granted
    /\ UNCHANGED <<http, open, chunk, listen, backlog, ids, sessions, log, forgotten, deleted, seen>>

\* onChunk of an event stream: its events up to the n-th have come.
Chunk(m) ==
    LET e == exchange[m]
    IN  /\ e.stream = "open" /\ e.head = "events" /\ ~Delivering
        /\ \E n \in e.got + 1 .. LastEvent :
            /\ exchange' = [exchange EXCEPT ![m].got = n, ![m].cursor = IF ids THEN n ELSE 0]
            /\ chunk' = [i \in 1 .. n - e.got |-> <<m, e.got + i>>]
        /\ UNCHANGED <<http, open, session, listen, backlog, server, deleted, faults, seen>>

\* One turn of onChunk's loop; behind it a resumed exchange that is answered is dropped.
DeliverEvent ==
    /\ chunk # NoChunk
    /\ LET m == Head(chunk)[1]
           e == exchange[m]
       IN  IF ~e.live
           THEN chunk' = NoChunk /\ UNCHANGED <<exchange, listen, faults>>
           ELSE LET last == Head(chunk)[2] = LastEvent /\ m \in Requests
                    f    == IF last THEN [e EXCEPT !.answered = TRUE, !.answers = @ + 1]
                                    ELSE e
                IN  /\ chunk' = Tail(chunk)
                    /\ exchange' = [exchange EXCEPT ![m] =
                                    IF Len(chunk) = 1 /\ f.resuming /\ f.answered
                                    THEN Release(f) ELSE f]
                    /\ IF last THEN Received(m) ELSE UNCHANGED <<listen, faults>>
    /\ UNCHANGED <<http, open, session, backlog, server, deleted, seen>>

\* onFinished of an event stream that may be resumed, or of a refused resumption.
FinishedEarly(m) ==
    /\ exchange[m].stream = "open" /\ ~Delivering
    /\ \/ exchange[m].head = "events"
       \/ exchange[m].resuming /\ exchange[m].head = "busy"
    /\ CanResume(m, exchange[m])
    /\ IF exchange[m].head = "events" THEN Fault ELSE UNCHANGED faults
    /\ exchange' = [exchange EXCEPT ![m] = ScheduleResume(@)]
    /\ UNCHANGED <<http, open, session, chunk, listen, backlog, server, deleted, seen>>

\* onFinished of an event stream that ends here.
FinishedEvents(m) ==
    /\ exchange[m].stream = "open" /\ exchange[m].head = "events" /\ ~Delivering
    /\ ~CanResume(m, exchange[m])
    /\ IF m \in Notes \/ exchange[m].answered THEN UNCHANGED faults ELSE Fault
    /\ exchange' = [exchange EXCEPT ![m] = Failed(m, @)]
    /\ UNCHANGED <<http, open, session, chunk, listen, backlog, server, deleted, seen>>

\* onFinished with a body: it answers m, or it is empty, no JSON or of another type.
FinishedBody(m) ==
    /\ exchange[m].stream = "open" /\ exchange[m].head \in {"json", "accepted"} /\ ~Delivering
    /\ \/ /\ exchange[m].head = "json" /\ m \in Requests
          /\ exchange' = [exchange EXCEPT ![m] =
                            [Release(exchange[m]) EXCEPT !.answers = @ + 1]]
          /\ Received(m)
       \/ /\ exchange' = [exchange EXCEPT ![m] = Failed(m, @)]
          /\ UNCHANGED <<listen, faults>>
    /\ UNCHANGED <<http, open, session, chunk, backlog, server, deleted, seen>>

\* A 404 says the session is gone: it is forgotten, not deleted, and the transport stops.
Gone(x) ==
    IF session # 0
    THEN Stops(x, 0)
    ELSE exchange' = x /\ UNCHANGED <<open, session, listen, backlog, deleted>>

\* onFinished of a refusal: a JSON-RPC error in its body answers the request.
FinishedRefused(m) ==
    LET e == exchange[m]
    IN  /\ e.stream = "open" /\ e.head \in Refusals /\ ~Delivering
        /\ ~(e.resuming /\ e.head = "busy" /\ CanResume(m, e))
        /\ \E told \in IF m \in Requests
                       THEN {[Release(e) EXCEPT !.answers = @ + 1],
                             [Release(e) EXCEPT !.failures = @ + 1]}
                       ELSE {Release(e)} :
            LET x == [exchange EXCEPT ![m] = told]
            IN  IF e.head = "gone" THEN Gone(x)
                ELSE exchange' = x /\ UNCHANGED <<open, session, listen, backlog, deleted>>
        /\ UNCHANGED <<http, chunk, server, faults, seen>>

\* errorOccurred: the connection broke, before or behind the head, or timed out.
Error(m) ==
    /\ exchange[m].stream # "none" /\ ~Delivering
    /\ Fault
    /\ exchange' = [exchange EXCEPT ![m] =
                        IF CanResume(m, @) THEN ScheduleResume(@) ELSE Failed(m, @)]
    /\ UNCHANGED <<http, open, session, chunk, listen, backlog, server, deleted, seen>>

\* The resume timer: resume asks for what is behind the cursor.
Resume(m) ==
    /\ exchange[m].timer /\ ~Delivering
    /\ \/ /\ http
          /\ exchange' = [exchange EXCEPT ![m].timer = FALSE, ![m].stream = "opening",
                            ![m].head = "none", ![m].resuming = TRUE,
                            ![m].carried = session, ![m].got = exchange[m].cursor]
          /\ UNCHANGED faults
       \/ /\ IF http THEN Fault ELSE UNCHANGED faults
          /\ exchange' = [exchange EXCEPT ![m] = Failed(m, @)]
    /\ UNCHANGED <<http, open, session, chunk, listen, backlog, server, deleted, seen>>

-----------------------------------------------------------------------------
(* What becomes of the listen stream *)

\* onListenHeaders: anything but an event stream ends the attempt.
ListenHeaders ==
    /\ listen.stream = "opening" /\ ~Delivering
    /\ LET off == Closed(listen)
       IN  \/ \* An event stream; a new one begins at the server's next message.
              /\ listen.carried \notin forgotten
              /\ listen' = [listen EXCEPT !.stream = "open", !.accepted = TRUE, !.up = TRUE,
                                !.at = IF listen.lastId # 0 THEN listen.lastId ELSE log]
              /\ UNCHANGED <<open, session, exchange, backlog, deleted, faults>>
           \/ \* 404
              /\ listen.carried \in forgotten
              /\ IF listen.accepted /\ session # 0
                 THEN Stops(exchange, 0)
                 ELSE /\ listen' = [off EXCEPT !.refused = TRUE]
                      /\ UNCHANGED <<open, session, exchange, backlog, deleted>>
              /\ UNCHANGED faults
           \/ \* 400: the server does not know the event; a transient refusal; any other.
              /\ Fault
              /\ \/ /\ listen.lastId # 0
                    /\ listen' = RetryListen([off EXCEPT !.lastId = 0])
                 \/ listen' = RetryListen(off)
                 \/ listen' = [off EXCEPT !.refused = TRUE]
              /\ UNCHANGED <<open, session, exchange, backlog, deleted>>
    /\ UNCHANGED <<http, chunk, server, seen>>

BugListenChunk ==
    /\ listen.stream = "open" /\ ~Delivering
    /\ \E n \in listen.at + 1 .. log :
        /\ listen' = [listen EXCEPT !.at = n, !.heard = TRUE,
                        !.lastId = IF ids /\ ~listen.resumed THEN n ELSE @]
        /\ backlog' = [i \in 1 .. n - listen.at |-> listen.at + i]
    /\ UNCHANGED <<http, open, session, exchange, chunk, server, deleted, faults, seen>>

\* onListenChunk: server messages up to the n-th have come.
ListenChunk ==
    /\ listen.stream = "open" /\ ~Delivering
    /\ \E n \in listen.at + 1 .. log :
        /\ listen' = [listen EXCEPT !.at = n, !.heard = TRUE, !.lastId = IF ids THEN n ELSE 0]
        /\ backlog' = [i \in 1 .. n - listen.at |-> listen.at + i]
    /\ UNCHANGED <<http, open, session, exchange, chunk, server, deleted, faults, seen>>

\* One turn of onListenChunk's loop.
DeliverServerMessage ==
    /\ backlog # << >>
    /\ backlog' = Tail(backlog)
    /\ seen' = Head(backlog)
    /\ UNCHANGED <<http, open, session, exchange, chunk, listen, server, deleted, faults>>

\* onListenEnded: a resumed stream that ends at once with nothing in it makes the
\* client give up its last event.
ListenLost(l, brief) ==
    [Closed(l) EXCEPT !.lastId = IF l.up /\ brief /\ l.resumed /\ ~l.heard THEN 0 ELSE @]

ListenEnds ==
    /\ listen.stream # "none" /\ ~Delivering
    /\ Fault
    /\ \E brief \in BOOLEAN : listen' = RetryListen(ListenLost(listen, brief))
    /\ UNCHANGED <<http, open, session, exchange, chunk, backlog, server, deleted, seen>>

\* The retry timer.
ListenRetry ==
    /\ listen.timer /\ ~Delivering
    /\ OpenListen([listen EXCEPT !.timer = FALSE])
    /\ UNCHANGED <<http, open, session, exchange, chunk, backlog, server, deleted, seen>>

\* The HttpTransport is destroyed, and its streams with it.
HttpDestroyed ==
    /\ http /\ ~Delivering
    /\ Fault
    /\ http' = FALSE
    /\ exchange' = [m \in Messages |-> IF exchange[m].stream # "none"
                                       THEN Failed(m, exchange[m]) ELSE exchange[m]]
    /\ \E brief \in BOOLEAN :
        listen' = [ListenLost(listen, brief) EXCEPT !.timer = FALSE]
    /\ UNCHANGED <<open, session, chunk, backlog, server, deleted, seen>>

-----------------------------------------------------------------------------
(* The server *)

\* To a client it accepted a listen stream of, whether or not the stream still is.
ServerSpeaks ==
    /\ log < MaxServerLog /\ listen.accepted /\ ~Delivering
    /\ log' = log + 1
    /\ UNCHANGED <<http, open, session, exchange, chunk, listen, backlog, ids, sessions, granted,
                   forgotten, deleted, faults, seen>>

ServerForgets ==
    /\ ~Delivering
    /\ Fault
    /\ \E s \in (1 .. granted) \ forgotten : forgotten' = forgotten \cup {s}
    /\ UNCHANGED <<http, open, session, exchange, chunk, listen, backlog, ids, sessions, log,
                   granted, deleted, seen>>

-----------------------------------------------------------------------------

\* What goes on by itself: replies come or time out, and timers fire.
Goes(m) ==
    \/ Headers(m) \/ Chunk(m) \/ FinishedEarly(m) \/ FinishedEvents(m)
    \/ FinishedBody(m) \/ FinishedRefused(m) \/ Resume(m)

Delivers == DeliverEvent \/ DeliverServerMessage

Next ==
    \/ Start \/ Stop
    \/ \E m \in Messages : SendInitialize(m) \/ Send(m) \/ Abandon(m)
    \/ \E m \in Messages : Goes(m) \/ Error(m)
    \/ Delivers
    \/ ListenHeaders \/ ListenChunk \/ ListenEnds \/ ListenRetry
    \/ HttpDestroyed
    \/ ServerSpeaks \/ ServerForgets

Spec == Init /\ [][Next]_vars

\* The event loop runs as long as anything is due; it may favour some exchanges.
FairSpec == Spec /\ WF_vars(Delivers \/ \E m \in Messages : Goes(m))

-----------------------------------------------------------------------------
(* Properties *)

\* A request is told to its session once: as its answer or as sendFailed, and not at
\* all once stop() or abandon() dropped it, whatever breaks, is refused or resumed.
OneSignal ==
    \A m \in Requests :
        /\ exchange[m].answers + exchange[m].failures <= 1
        /\ exchange[m].dropped => exchange[m].failures = 0

\* From the answer to initialize on the client listens, is about to, or was refused:
\* no way a listen stream ends leaves it neither open nor with a retry scheduled.
ListensOrRetries ==
    listen.wanted /\ open /\ http /\ ~listen.refused
    => (listen.timer # (listen.stream # "none"))

\* A session the client was granted is the present one, was ended with DELETE, or is one
\* the server had forgotten; the client neither drops one nor goes on in one it ended.
SessionsAccounted ==
    /\ \A s \in 1 .. granted : http => s = session \/ s \in deleted \/ s \in forgotten
    /\ session \notin deleted

\* Whatever breaks, expires or is replaced, the client keeps track of its session and of
\* the stream it hears the server on (openListenStream, send of initialize, stop).
SessionIsKept == ListensOrRetries /\ SessionsAccounted

\* Server messages are delivered in their order and none twice, across reconnects of the
\* listen stream, stops and new sessions: the next one is newer than any delivered.
InOrderOnce == backlog # << >> => Head(backlog) > seen

Told(m) == exchange[m].answers + exchange[m].failures > 0 \/ exchange[m].dropped

\* Every request that was sent is told or dropped in the end (a message is sent once and
\* a finite number of them, so this is leads-to for each).
RequestsSettle == <>[](\A m \in Requests : exchange[m].sent => Told(m))
=============================================================================
