\* Two trips, each dispatched by its own request, compete for two drivers.
\* The requests may all be answered: the system stops.
CONSTANTS
    t1 = t1  t2 = t2  n1 = n1  n2 = n2
    r1 = r1  r2 = r2  s1 = s1  s2 = s2
    Trips = {t1, t2}
    Drivers = {d1, d2}
    Nodes = {n1}
    Requests = {r1, r2}
    Sweeps = {}
    TripOf <- SoloTripOf
    NodeOf <- SoloNodeOf
    Owner <- SoloOwner
    MaxRounds = 2
    MaxSeen = 1
    MaxReplies = 1
    MaxFaults = 0
    DriversExpire = FALSE
    SlowRedis = FALSE
    NoTrip = NoTrip  NoDriver = NoDriver  NoRun = NoRun
SPECIFICATION Spec
INVARIANTS MatchAgreesWithOffer PendingHasRound PointerHasRound EnRouteHasTrip IndexFollowsTrips
PROPERTIES LifecycleSpec
SYMMETRY DriverSymmetry
CHECK_DEADLOCK FALSE
