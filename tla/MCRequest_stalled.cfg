\* A continuation answered with 2xx and no content event.
CONSTANTS
    Requests = {r1}
    NumCalls = 2
    Gated = {2}
    MaxRounds = 1
    EmptyTurns = TRUE
SPECIFICATION Spec
INVARIANTS
    StreamEndDecides
CHECK_DEADLOCK FALSE
