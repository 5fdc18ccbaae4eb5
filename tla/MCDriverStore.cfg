\* A search over two of three cells, while two drivers ping, move, lapse and are
\* claimed.
CONSTANTS
    near = near  far = far  out = out
    Drivers = {d1, d2}
    Cells = {near, far, out}
    Searches = {s1}
    Writers = {w1}
    MinCandidates = 2
    MaxK = 1
    Dist <- NearFarDist
    NoCell = NoCell  NoDriver = NoDriver
SPECIFICATION Spec
INVARIANTS TypeOK IndexedOnce SearchFindsSteady
SYMMETRY Symmetric
