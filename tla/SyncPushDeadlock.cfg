\* Two batches lock the same two comments in opposite orders.
CONSTANTS
    Procs = {p1, p2}
    ParentUids <- MCParentUids
    ChildUids <- MCChildUids
    Ms <- MCMs
    Seeds <- MCSeeds
    BadParents <- MCBadParents
    MaxBatchLen = 2
    FreshTimestamps = FALSE
    None = None
    NoRow = NoRow
SPECIFICATION Spec
PROPERTY ItemErrorsAreRecoverable
SYMMETRY MCSymmetry
