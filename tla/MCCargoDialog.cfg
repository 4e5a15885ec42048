CONSTANTS
    h1 = h1  h2 = h2  n1 = n1  l1 = l1  l2 = l2  d1 = d1  d2 = d2  None = None
    Handlers = {h1, h2}
    Suggestions = {n1}
    Known <- Partly
    Listings = {l1, l2}
    Candidates <- Asked
    Drivers = {d1, d2}
    Menus <- Turns
    MaxUpdates = 6
    MaxFaults = 1
SYMMETRY HandlerSymmetry
SPECIFICATION Spec
CHECK_DEADLOCK FALSE
INVARIANTS
    LoadsComplete
    
    PublishedOnce
    
