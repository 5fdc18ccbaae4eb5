CONSTANTS
    Clients = {c1, c2}
    MaxEvents = 3
    MaxFaults = 1
SPECIFICATION FairSpec
INVARIANTS TypeOK FeedIsContiguous ClosedWhenRemoved
PROPERTIES GoneClientLeaves FeedGoesOn
CHECK_DEADLOCK FALSE
