\* One request of each kind of provider, one of its two tools behind the execution
\* gate, two rounds of tools, continuations that may bring no content event; exchanges,
\* tools and gates finish.
CONSTANTS
    Requests = {r1}
    NumCalls = 2
    Gated = {2}
    MaxRounds = 2
    EmptyTurns = TRUE
SPECIFICATION FairSpec
INVARIANTS
    OneTerminalSignal
    RoundAccountsForCalls
    LimitIsExact
PROPERTIES
    FinalizedByLastExchange
    ContinuationAnswersTurn
    CallRunsOnce
    ImplementsPromise
    RequestsEnd
CHECK_DEADLOCK FALSE
