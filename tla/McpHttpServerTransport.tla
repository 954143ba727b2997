------------------------ MODULE McpHttpServerTransport ------------------------
(***************************************************************************)
(* McpHttpServerTransport between its HTTP clients and the JSON-RPC session *)
(* above it.  A request waits on its connection until the session answers  *)
(* its id, 504 or the end of the session; what the server sends on its own *)
(* is queued and goes out with the next reply.                             *)
(*                                                                         *)
(* A connection carries one message: every reply closes it, and clients    *)
(* do not pipeline.  Handlers of requests outlive their connections.       *)
(***************************************************************************)
EXTENDS Naturals, Sequences, FiniteSets

CONSTANTS
    Conns,          \* connections clients may make
    Ids,            \* JSON-RPC ids; every client counts its own from one
    None,           \* no connection
    Cap,            \* HttpServerConfig::maxQueuedServerMessages, where it limits
    MaxSent,        \* bound: messages the server sends on its own
    MaxSessions,    \* bound: sessions
    MaxStarts       \* bound: how often the transport is started

ASSUME ServerAssumption ==
    /\ None \notin Conns /\ Ids # {} /\ Cap \in Nat \ {0}
    /\ MaxSent \in Nat /\ MaxSessions \in Nat /\ MaxStarts \in Nat

VARIABLES
    open,       \* Impl::open
    session,    \* Impl::sessionId; the ended ones are 1 .. session - 1
    phase,      \* of a connection: "new", "sent" (under way), "waiting", "closed", or
                \* "left": still open, its entry dropped without hanging up
    post,       \* what the client posted on it
    pending,    \* Impl::pendingByRequestId: the connection that waits for an id
    queue,      \* Impl::queuedServerMessages
    handling,   \* connections whose request the session still works on
    reply,      \* history: whose answer a connection got, if one
    sent,       \* messages sent by the server so far
    flushed,    \* history: the last one that went out with a reply
    starts      \* bound: counted so far

conns == <<phase, post, reply>>
vars  == <<open, session, conns, pending, queue, handling, sent, flushed, starts>>

Phases == {"new", "sent", "waiting", "left", "closed"}
Open   == {"sent", "waiting", "left"}

Kinds == {"request", "note", "delete", "malformed"}
Posts == [kind : Kinds, id : Ids, carried : Nat]

NoPost == [kind |-> "none", id |-> CHOOSE i \in Ids : TRUE, carried |-> 0]

Init ==
    /\ open = FALSE /\ session = 1
    /\ phase = [c \in Conns |-> "new"] /\ post = [c \in Conns |-> NoPost]
    /\ reply = [c \in Conns |-> None]
    /\ pending = [i \in Ids |-> None]
    /\ queue = << >> /\ handling = {} /\ sent = 0 /\ flushed = 0 /\ starts = 0

\* A message that waits in the queue is lost at a limit, the oldest first.
Within(q) == IF Len(q) > Cap THEN SubSeq(q, Len(q) - Cap + 1, Len(q)) ELSE q

-----------------------------------------------------------------------------
(* The owner of the transport, and the session above it *)

Start ==
    /\ ~open /\ starts < MaxStarts
    /\ open' = TRUE /\ starts' = starts + 1
    /\ UNCHANGED <<session, conns, pending, queue, handling, sent, flushed>>

\* stop: every connection is aborted.
Stop ==
    /\ open
    /\ open' = FALSE
    /\ phase' = [c \in Conns |-> IF phase[c] \in Open THEN "closed" ELSE phase[c]]
    /\ pending' = [i \in Ids |-> None]
    /\ queue' = << >>
    /\ UNCHANGED <<session, post, reply, handling, sent, flushed, starts>>

\* A reply written to a connection takes the queue along and closes it.
Flushes == queue' = << >> /\ flushed' = IF queue = << >> THEN flushed ELSE queue[Len(queue)]

\* send of the answer to the request of c: it goes to whichever connection waits for
\* its id now, or nowhere.
SendAnswer(c) ==
    LET d == pending[post[c].id]
    IN  /\ c \in handling
        /\ handling' = handling \ {c}
        /\ IF open /\ d # None
           THEN /\ pending' = [pending EXCEPT ![post[c].id] = None]
                /\ phase' = [phase EXCEPT ![d] = "closed"]
                /\ reply' = [reply EXCEPT ![d] = c]
                /\ Flushes
           ELSE UNCHANGED <<pending, phase, reply, queue, flushed>>
        /\ UNCHANGED <<open, session, post, sent, starts>>

BugSendOwn ==
    /\ open /\ sent < MaxSent
    /\ sent' = sent + 1
    /\ queue' = IF Len(queue) = Cap THEN <<sent + 1>> \o Tail(queue) ELSE Append(queue, sent + 1)
    /\ UNCHANGED <<open, session, conns, pending, handling, flushed, starts>>

\* send of a notification or a request of the server's own.
SendOwn ==
    /\ open /\ sent < MaxSent
    /\ sent' = sent + 1
    /\ queue' = Within(Append(queue, sent + 1))
    /\ UNCHANGED <<open, session, conns, pending, handling, flushed, starts>>

-----------------------------------------------------------------------------
(* The clients *)

\* A client posts a message, with no session id or one it was given.
Arrive(c) ==
    /\ open /\ phase[c] = "new"
    /\ \E k \in Kinds, i \in Ids, s \in 0 .. session :
        /\ k = "delete" => s < MaxSessions
        /\ k # "request" => i = NoPost.id      \* only a request has an id that is read
        /\ k = "malformed" => s = 0
        /\ post' = [post EXCEPT ![c] = [kind |-> k, id |-> i, carried |-> s]]
    /\ phase' = [phase EXCEPT ![c] = "sent"]
    /\ UNCHANGED <<open, session, reply, pending, queue, handling, sent, flushed, starts>>

BugDisconnect(c) ==
    /\ phase[c] \in Open
    /\ phase' = [phase EXCEPT ![c] = "closed"]
    /\ UNCHANGED <<open, session, post, reply, pending, queue, handling, sent, flushed, starts>>

\* onDisconnected: the client hung up.
Disconnect(c) ==
    /\ phase[c] \in Open
    /\ phase' = [phase EXCEPT ![c] = "closed"]
    /\ pending' = [i \in Ids |-> IF pending[i] = c THEN None ELSE pending[i]]
    /\ UNCHANGED <<open, session, post, reply, queue, handling, sent, flushed, starts>>

-----------------------------------------------------------------------------
(* processRequest *)

InSession(c) == post[c].carried \in {0, session}

Duplicate(c) == post[c].kind = "request" /\ pending[post[c].id] # None

\* A status of 400, 404, 413 or 431: the connection closes and nothing else happens.
Refuse(c) ==
    /\ phase[c] = "sent"
    /\ \/ ~InSession(c) \/ post[c].kind = "malformed" \/ Duplicate(c)
       \/ post[c].kind = "delete" /\ post[c].carried = 0
    /\ phase' = [phase EXCEPT ![c] = "closed"]
    /\ UNCHANGED <<open, session, post, reply, pending, queue, handling, sent, flushed, starts>>

BugAccept(c) ==
    /\ phase[c] = "sent" /\ InSession(c) /\ post[c].kind = "request"
    /\ phase' = [phase EXCEPT ![c] = "waiting"]
    /\ pending' = [pending EXCEPT ![post[c].id] = c]
    /\ handling' = handling \cup {c}
    /\ UNCHANGED <<open, session, post, reply, queue, sent, flushed, starts>>

\* A request: it waits, with a timer, and its handler starts.
Accept(c) ==
    /\ phase[c] = "sent" /\ InSession(c) /\ post[c].kind = "request" /\ ~Duplicate(c)
    /\ phase' = [phase EXCEPT ![c] = "waiting"]
    /\ pending' = [pending EXCEPT ![post[c].id] = c]
    /\ handling' = handling \cup {c}
    /\ UNCHANGED <<open, session, post, reply, queue, sent, flushed, starts>>

\* A notification or an answer of the client: 202, or the queue as events.
TakeNote(c) ==
    /\ phase[c] = "sent" /\ InSession(c) /\ post[c].kind = "note"
    /\ phase' = [phase EXCEPT ![c] = "closed"]
    /\ Flushes
    /\ UNCHANGED <<open, session, post, reply, pending, handling, sent, starts>>

BugEndSession(c) ==
    /\ phase[c] = "sent" /\ InSession(c) /\ post[c].kind = "delete" /\ post[c].carried # 0
    /\ session' = session + 1
    /\ phase' = [phase EXCEPT ![c] = "closed"]
    /\ pending' = [i \in Ids |-> None]
    /\ queue' = << >>
    /\ UNCHANGED <<open, post, reply, handling, sent, flushed, starts>>

Waiters == {d \in Conns : \E i \in Ids : pending[i] = d}

\* DELETE: endSession hangs up on those who wait and begins a session.  Hanging up runs
\* onDisconnected, which erases the entry the loop stands on; the hash may move a later
\* entry into its place, and the loop steps over that one: it is cleared with its socket
\* left open.  Each one hung up on can hide one other.
EndSession(c) ==
    /\ phase[c] = "sent" /\ InSession(c) /\ post[c].kind = "delete" /\ post[c].carried # 0
    /\ session' = session + 1
    /\ \E hidden \in SUBSET Waiters :
        /\ 2 * Cardinality(hidden) <= Cardinality(Waiters)
        /\ phase' = [d \in Conns |-> IF d \in hidden THEN "left"
                                     ELSE IF d = c \/ d \in Waiters THEN "closed" ELSE phase[d]]
    /\ pending' = [i \in Ids |-> None]
    /\ queue' = << >>
    /\ UNCHANGED <<open, post, reply, handling, sent, flushed, starts>>

Process(c) == Refuse(c) \/ Accept(c) \/ TakeNote(c) \/ EndSession(c)

\* The timer of an entry: 504.
TimeOut(i) ==
    /\ pending[i] # None
    /\ phase' = [phase EXCEPT ![pending[i]] = "closed"]
    /\ pending' = [pending EXCEPT ![i] = None]
    /\ UNCHANGED <<open, session, post, reply, queue, handling, sent, flushed, starts>>

-----------------------------------------------------------------------------

Next ==
    \/ Start \/ Stop \/ SendOwn
    \/ \E c \in Conns : Arrive(c) \/ Disconnect(c) \/ Process(c) \/ SendAnswer(c)
    \/ \E i \in Ids : TimeOut(i)

Spec == Init /\ [][Next]_vars

\* The event loop parses what arrives, and timers fire; handlers may never answer.
FairSpec ==
    /\ Spec
    /\ \A c \in Conns : WF_vars(Process(c))
    /\ \A i \in Ids : WF_vars(TimeOut(i))

-----------------------------------------------------------------------------
(* Properties *)

\* The shape of the state: the queue holds messages that were sent, and connections and
\* ids refer to each other's kinds.
TypeOK ==
    /\ open \in BOOLEAN /\ session \in Nat \ {0} /\ starts \in Nat
    /\ phase \in [Conns -> Phases]
    /\ post \in [Conns -> Posts \cup {NoPost}]
    /\ pending \in [Ids -> Conns \cup {None}]
    /\ queue \in Seq(Nat) /\ sent \in Nat /\ flushed \in Nat
    /\ handling \subseteq Conns
    /\ reply \in [Conns -> Conns \cup {None}]

\* pendingByRequestId and the sockets agree: a connection waits exactly while the entry
\* of its own id names it, so every one that waits has a timer and no entry names a
\* connection that is gone, after every end of a request, a session or the transport.
\* Only the end of a session can leave a connection open without an entry.
WaitersHaveEntries ==
    /\ \A c \in Conns : phase[c] = "waiting" => open /\ pending[post[c].id] = c
    /\ \A i \in Ids : pending[i] # None =>
            phase[pending[i]] = "waiting" /\ post[pending[i]].id = i

\* What the server sends goes out once, in order, and never more than Cap of it waits;
\* at the limit the oldest is lost.
QueueIsRecent ==
    /\ Len(queue) <= Cap
    /\ \A k \in 1 .. Len(queue) :
        /\ flushed < queue[k] /\ queue[k] <= sent
        /\ k < Len(queue) => queue[k + 1] = queue[k] + 1
    /\ queue # << >> => queue[Len(queue)] = sent

\* The transport routes an answer by its id alone.  A client gets the answer to someone
\* else's request only where that request had the same id and lost its own connection, or
\* its entry, unanswered while its handler ran on.
ForeignOnlyIfReused ==
    \A c \in Conns :
        LET asker == reply[c]
        IN  asker \notin {None, c} =>
                /\ post[asker].id = post[c].id
                /\ phase[asker] \in {"closed", "left"} /\ reply[asker] # asker

\* A message that reached the server is answered, refused, or its connection closed,
\* even if its handler never answers (a connection carries one message, so this is
\* leads-to for each).  Excepted is one the end of its session left open, if that session
\* ended with another request waiting.
NobodyWaitsForever == <>[](\A c \in Conns : phase[c] \in {"new", "closed", "left"})
=============================================================================
