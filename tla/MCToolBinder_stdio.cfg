\* A stdio transport, whose start() does nothing while it holds a process.
CONSTANTS
    Inits = {i1, i2}
    Syncs = {s1, s2}
    MaxVersion = 2
    MaxDrops = 2
    MaxTimeouts = 1
    Relaunches = FALSE
SPECIFICATION FairSpec
PROPERTY ComesBack
CHECK_DEADLOCK FALSE
