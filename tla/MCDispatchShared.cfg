\* A request, its retry and the sweeps of another node work on one trip, over a slow
\* Redis. The driver may expire and one run be cancelled, or its node crash.
CONSTANTS
    t1 = t1  t2 = t2  n1 = n1  n2 = n2
    r1 = r1  r2 = r2  s1 = s1  s2 = s2
    Trips = {t1}
    Drivers = {d1}
    Nodes = {n1, n2}
    Requests = {r1, r2}
    Sweeps = {s1}
    TripOf <- SharedTripOf
    NodeOf <- SharedNodeOf
    Owner <- SharedOwner
    MaxRounds = 1
    MaxSeen = 1
    MaxReplies = 0
    MaxFaults = 1
    DriversExpire = TRUE
    SlowRedis = TRUE
    NoTrip = NoTrip  NoDriver = NoDriver  NoRun = NoRun
SPECIFICATION Spec
INVARIANTS DriverAccounted WaiterAwaits
CHECK_DEADLOCK FALSE
