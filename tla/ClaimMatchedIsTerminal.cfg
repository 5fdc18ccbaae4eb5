\* A request and its retry.
CONSTANTS
    t1 = t1  t2 = t2  n1 = n1  n2 = n2
    r1 = r1  r2 = r2  s1 = s1  s2 = s2
    Trips = {t1}
    Drivers = {d1, d2}
    Nodes = {n1}
    Requests = {r1, r2}
    Sweeps = {}
    TripOf <- SharedTripOf
    NodeOf <- SharedNodeOf
    Owner <- SharedOwner
    MaxRounds = 2
    MaxSeen = 1
    MaxReplies = 1
    MaxFaults = 0
    DriversExpire = FALSE
    SlowRedis = FALSE
    NoTrip = NoTrip  NoDriver = NoDriver  NoRun = NoRun
SPECIFICATION Spec
PROPERTIES MatchedIsTerminal
CHECK_DEADLOCK FALSE
