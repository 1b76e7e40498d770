SPECIFICATION SignSpec
CONSTANTS
    MaxRequests = 2
    MaxEvents = 2
    Payloads = {2}
    TtfbBase = 1
    TtfbPerMb = 1
    TtfbMax = 2
    Stall = 1
    KillGrace = 2
    KillMax = 4
    MaxTurns = 2
    MaxLines = 2
PROPERTY KilledAfterGrace
PROPERTY ExpiryIsAnnounced
PROPERTY DeadRequestsStaySilent
PROPERTY RequestsEnd
CHECK_DEADLOCK FALSE
