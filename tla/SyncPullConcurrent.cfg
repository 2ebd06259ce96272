\* Two handlers commit fresh stamps out of order: an empty pull misses a row.
CONSTANTS
    Procs = {p1, p2}
    ParentUids <- MCParentUids
    ChildUids <- MCChildUids
    Ms <- MCMs
    Seeds <- MCSeeds
    BadParents <- MCBadParents
    MaxBatchLen = 2
    FreshTimestamps = TRUE
    None = None
    NoRow = NoRow
    PullLimit = 1
    MaxPulls = 4
SPECIFICATION PullSpec
PROPERTY NoMissedUpdate
