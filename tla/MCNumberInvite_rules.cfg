SPECIFICATION FairSpec
CONSTANTS
    c1 = c1  c2 = c2
    Companies = {c1, c2}
    Kinds = {"driver", "factory", "company", "broker"}
    MaxCompanies = 1
    Expiry = 1
    Serial = TRUE
    MaxRequests = 3
    MaxFaults = 1
    MaxTime = 3
CHECK_DEADLOCK FALSE
INVARIANTS OneWaiting InForceTied
PROPERTIES CameInKept InviteEnds
