\* Three requests of the client, the handshakes among them, and one of the server; each
\* transport is started twice.
CONSTANTS
    MaxCalls  <- MCMaxCalls
    MaxStarts <- MCMaxStarts
    Sends     <- MCSends
SPECIFICATION FairPeerSpec
INVARIANTS
    PendingUntilSettled
PROPERTIES
    OnlyStaleContinuationsMislead
    ImplementsContract
    DeliveredIsSettled
CHECK_DEADLOCK FALSE
