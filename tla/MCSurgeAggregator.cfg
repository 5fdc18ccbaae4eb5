\* One cell: cells meet in the writer's MaxLag only.
CONSTANTS
    Trips = {t1}
    Drivers = {d1}
    Cells = {c1}
    Window = 3
    SurgeTTL = 3
    WriteEvery = 1
    MaxLag = 1
    MaxPings = 2
    MaxFaults = 1
SPECIFICATION Spec
INVARIANTS TypeOK CountsLastEvents EndedTripForgotten SurgeIsRecent PressureIsPriced
