CONSTANTS
    d1 = d1  d2 = d2  s1 = s1  s2 = s2  f1 = f1
    Drivers = {d1, d2}
    Brokers = {}
    Sessions = {s1, s2}
    Fares = {f1}
    NoDriver = NoDriver
    NoFare = NoFare
    Ops = {"request", "accept", "offer", "respond", "deliver", "setTaken"}
    OfferTTL = 1
    ReminderDelay = 1
    Credits = 0
    MaxTime = 4
    RaceTime = 4
    MaxCrashes = 0
SPECIFICATION FairSpec
PROPERTIES
    LateOfferEnds
    
