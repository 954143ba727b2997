\* A tool list with two versions, two lost connections, one timeout; every start may
\* fail.
CONSTANTS
    Inits = {i1, i2}
    Syncs = {s1, s2}
    MaxVersion = 2
    MaxDrops = 2
    MaxTimeouts = 1
    Relaunches = TRUE
SPECIFICATION FairSpec
INVARIANTS
    AtMostTwoChains
    PendingIsHonest
    QuietIsFresh
PROPERTIES
    RetriesSucceed
CHECK_DEADLOCK FALSE
