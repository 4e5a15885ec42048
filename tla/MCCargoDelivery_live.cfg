CONSTANTS
    n1 = n1  c1 = c1
    Notices = {n1}
    M = 1
    Bots = {1}
    Consumers = {c1}
    Setups <- Together
    Answers = {"sent", "temporary"}
    Window = 2
    MaxAttempts = 2
    MaxTries = 2
    NoNotice = NoNotice
    Faults = {"crash", "publish", "database", "redis"}
    MaxFaults = 1
    AnnounceBy = 1
    MaxTime = 5
SPECIFICATION FairSpec
INVARIANTS
    AttemptsBounded
PROPERTIES NoticeSettles
