\* Two requests, two streams and one message of the server's own, possibly too long.
CONSTANTS
    Requests = {r1, r2}
    Lengthy <- LengthyEvents
    MaxStarts = 2
    MaxNotes = 1
    MaxTalk = 3
    MaxBuffer = 2
    CR = CR
    LF = LF
    EventField = EventField
    DataField = DataField
SPECIFICATION FairSpec
INVARIANTS
    DeliveredAsSent
PROPERTIES
    RequestsSettle
CHECK_DEADLOCK FALSE
