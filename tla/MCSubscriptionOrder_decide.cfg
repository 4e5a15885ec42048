CONSTANTS
    o1 = o1  o2 = o2  a1 = a1  c1 = c1
    Orders = {o1, o2}
    Admins = {a1}
    Worker = Worker
    Codes = {c1}
    NoCode = NoCode
    MaxAttempts = 1
    Fresh = 0
    Stale = 0
    Duration = 2
    Tiers = {1, 2}
    BonusDays = 1
    Careful = TRUE
    MaxFaults = 1
    FaultsBy = 0
    SubmitBy = 1
    MaxTime = 2
SYMMETRY OrderSymmetry
SPECIFICATION Spec
INVARIANTS
    PaidDaysApart
    BonusesApart
PROPERTIES
    DecidedOnce
