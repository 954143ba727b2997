\* Three requests of the agent, one terminal, one tool call and two prompts.
CONSTANTS
    Asks = {1, 2, 3}
    Limits = {0, 1}
    MaxTerminals = 1
    MaxBytes = 2
    ToolCalls = {c1}
    Budgets <- MCBudgets
SPECIFICATION AcpFairSpec
INVARIANTS
    OutputIsTail
    ExitIsTrue
    ShownIsMeant
PROPERTIES
    AsksEnd
CHECK_DEADLOCK FALSE
