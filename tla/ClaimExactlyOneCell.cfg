\* One driver, which may lapse.
CONSTANTS
    near = near  far = far  out = out
    Drivers = {d1}
    Cells = {near, far, out}
    Searches = {s1}
    Writers = {w1}
    MinCandidates = 2
    MaxK = 1
    Dist <- NearFarDist
    NoCell = NoCell  NoDriver = NoDriver
SPECIFICATION Spec
INVARIANTS ExactlyOneCell
