\* Three connections with two ids between them, two sessions, a queue of two for three
\* messages, and one restart.
CONSTANTS
    Conns = {c1, c2, c3}
    Ids = {1, 2}
    None = None
    Cap = 2
    MaxSent = 3
    MaxSessions = 2
    MaxStarts = 2
SPECIFICATION FairSpec
INVARIANTS
    WaitersHaveEntries
    QueueIsRecent
    ForeignOnlyIfReused
PROPERTIES
    NobodyWaitsForever
CHECK_DEADLOCK FALSE
