CONSTANTS
    h1 = h1  h2 = h2  o1 = o1  o2 = o2  None = None
    driver = driver  company = company  planD = planD  planC = planC
    Handlers = {h1, h2}
    Types = {driver, company}
    Plans = {planD, planC}
    PlanType <- TypeOfPlan
    RoleType = driver
    Orders = {o1, o2}
    PaymentTimeout = 3
    SessionTtl = 4
    LockTtl = 2
    Prompt = TRUE
    MaxUpdates = 4
    MaxCrashes = 1
    MaxTime = 5
SYMMETRY HandlerOrderSymmetry
SPECIFICATION Spec
INVARIANTS
    OneOpenOrder
    
PROPERTIES
    MenuKeepsPurchase
