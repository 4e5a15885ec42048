CONSTANTS
    n1 = n1  n2 = n2  c1 = c1  c2 = c2
    Notices = {n1, n2}
    M = 2
    Bots = {1}
    Consumers = {c1, c2}
    Setups <- Apart
    Answers = {"sent", "temporary", "permanent", "limited", "unlinked"}
    Window = 2
    MaxAttempts = 2
    MaxTries = 2
    NoNotice = NoNotice
    Faults = {}
    MaxFaults = 0
    AnnounceBy = 2
    MaxTime = 4
SYMMETRY NoticeConsumerSymmetry
SPECIFICATION Spec
INVARIANTS
    
    NotSwallowed
    NothingForgotten
