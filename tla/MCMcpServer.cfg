\* One tool name, two resource providers and a prompt provider with one thing each.
CONSTANTS
    Names = {"a"}
    ResourceProviders = {"r1", "r2"}
    PromptProviders = {"g"}
    Uris = {"u"}
    Full = {"r1", "g"}
    Directories = {"d"}
    MaxTurns = 3
    MaxChanges = 2
    MaxRequests = 2
SPECIFICATION FairSpec
INVARIANTS
    ToldOfChanges
    AnswersAreWhole
    CallsAreInvited
PROPERTIES
    RequestsAnswered
CHECK_DEADLOCK FALSE
