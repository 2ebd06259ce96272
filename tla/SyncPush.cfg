\* Concurrent push batches: LWW refinement and acks under row locks.
CONSTANTS
    Procs = {p1, p2}
    ParentUids <- MCParentUids
    ChildUids <- MCChildUids
    Ms <- MCMs
    Seeds <- MCSeeds
    BadParents <- MCBadParents
    MaxBatchLen = 2
    FreshTimestamps = FALSE
    None = None
    NoRow = NoRow
SPECIFICATION Spec
INVARIANT TypeOK
PROPERTY LwwRefinement
PROPERTY AckMatchesCommitted
SYMMETRY MCSymmetry
