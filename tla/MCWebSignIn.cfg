SPECIFICATION FairSpec
CONSTANTS
    d1 = d1  d2 = d2
    None = None
    Devices = {d1, d2}
    MaxAttempts = 2
    MaxSends = 1
    MaxCodes = 2
    MaxSessions = 2
    MaxTokens = 3
    MaxFaults = 1
CHECK_DEADLOCK FALSE
INVARIANTS GuessesBounded SendsBounded
PROPERTIES  LockFrees
