\* As DefaultConfig: the last delay slept and the lag are all of the grace, and
\* the ceiling is never slept.  Three rounds of 3 s for four candidates.
CONSTANTS
    OfferWindow = 3
    MaxRounds = 3
    BaseBackoff = 1
    MaxBackoff = 3
    Grace = 3
    SweepEvery = 2
    MaxLag = 1
    MaxCandidates = 4
    MaxOthers = 1
    MaxStops = 2
    MaxAborts = 1
    Backoffs <- ScaledBackoffs
SPECIFICATION FairSpec
INVARIANTS TypeOK RecordOutlivesRound RecoveredInTime
PROPERTIES TripEnds
