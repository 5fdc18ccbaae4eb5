\* Three nodes, one of which crashes, stops or is suspected. The request may be
\* answered and the cluster at rest: the system stops.
CONSTANTS
    n1 = n1  n2 = n2  n3 = n3
    Nodes = {n1, n2, n3}
    Requests = {q1}
    NoCell = NoCell
    MaxChurn = 1
    Replicas <- TwoReplicas
    Positions <- SevenPositions
    Keys <- TwoKeys
    Hashes <- SomeHashes
SPECIFICATION FairSpec
INVARIANTS TypeOK RingFollowsView
PROPERTIES OnlyItsCellsMove NeverBack RequestEnds
CHECK_DEADLOCK FALSE
