\* Two initializes, so that one session replaces another, and a call; replies of two
\* events, two server messages, two faults.
CONSTANTS
    Initializes = {i1, i2}
    Calls = {c1}
    Notes = {}
    LastEvent = 2
    MaxServerLog = 2
    MaxFaults = 2
SPECIFICATION FairSpec
INVARIANTS
    OneSignal
    SessionIsKept
    InOrderOnce
PROPERTIES
    RequestsSettle
CHECK_DEADLOCK FALSE
