\* A request is cancelled or its node crashes; another node's sweep recovers the
\* trip. A search may list the driver three times.
CONSTANTS
    t1 = t1  t2 = t2  n1 = n1  n2 = n2
    r1 = r1  r2 = r2  s1 = s1  s2 = s2
    Trips = {t1}
    Drivers = {d1}
    Nodes = {n1, n2}
    Requests = {r1}
    Sweeps = {s1}
    TripOf <- SharedTripOf
    NodeOf <- SharedNodeOf
    Owner <- SharedOwner
    MaxRounds = 2
    MaxSeen = 3
    MaxReplies = 1
    MaxFaults = 1
    DriversExpire = FALSE
    SlowRedis = FALSE
    NoTrip = NoTrip  NoDriver = NoDriver  NoRun = NoRun
SPECIFICATION FairSpec
INVARIANTS TypeOK
PROPERTIES IndexedTripEnds
CHECK_DEADLOCK FALSE
