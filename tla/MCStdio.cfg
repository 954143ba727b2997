\* Two children, and three messages in each direction over each connection.
CONSTANTS
    MaxStarts = 2
    MaxSends = 3
    LF = LF
SPECIFICATION FairSpec
INVARIANTS
    ClientHearsAll
    ServerHearsAll
PROPERTIES
    EndsAreTold
CHECK_DEADLOCK FALSE
