CONSTANTS
    d1 = d1  d2 = d2  s1 = s1  s2 = s2  f1 = f1
    Drivers = {d1, d2}
    Brokers = {d1}
    Sessions = {s1, s2}
    Fares = {f1}
    NoDriver = NoDriver
    NoFare = NoFare
    Ops = {"request", "cancel", "accept", "reject", "offer", "respond", "report", "deliver", "cancelTrip", "rejectReport", "setTaken", "setOpen"}
    OfferTTL = 2
    ReminderDelay = 1
    Credits = 2
    MaxTime = 7
    RaceTime = 5
    MaxCrashes = 1
SYMMETRY SessionSymmetry
SPECIFICATION Spec
INVARIANTS
    TypeOK
    OneTripPerLoad
    CreditsAccounted
    NoTripWithoutConsent
    DeliveredHasFare
    TripClosesLoad
PROPERTIES
    
    DeliveredIsFinal
    RefusalStands
