\* One pushing handler at a time, fresh client clocks, note and comment
\* batches, and a device paging one row at a time.
CONSTANTS
    Procs = {p1}
    ParentUids <- MCParentUids
    ChildUids <- MCChildUids
    Ms <- MCMs
    Seeds <- MCSeeds
    BadParents <- MCBadParents
    MaxBatchLen = 2
    FreshTimestamps = TRUE
    None = None
    NoRow = NoRow
    PullLimit = 1
    MaxPulls = 6
SPECIFICATION PullSpec
PROPERTY NoMissedUpdate
