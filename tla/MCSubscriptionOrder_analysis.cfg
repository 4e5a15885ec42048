CONSTANTS
    o1 = o1  a1 = a1  c1 = c1
    Orders = {o1}
    Admins = {a1}
    Worker = Worker
    Codes = {c1}
    NoCode = NoCode
    MaxAttempts = 2
    Fresh = 0
    Stale = 1
    Duration = 2
    Tiers = {1}
    BonusDays = 1
    Careful = FALSE
    MaxFaults = 2
    FaultsBy = 2
    SubmitBy = 1
    MaxTime = 4
SPECIFICATION FairSpec
INVARIANTS
    
    AttemptsBounded
PROPERTIES
    ReceiptSettles
