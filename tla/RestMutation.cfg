\* Two REST mutations of one category, clock up to 3.
CONSTANTS
    Muts = {m1, m2}
    Devs = {d1}
    SyncMs <- MCSyncMs
    Seeds <- MCSeeds
    MaxMs = 3
    MaxInt = 2
    Expected <- MCExpected
    ForceMs <- MCForceMs
    None = None
    NoRow = NoRow
SPECIFICATION Spec
INVARIANT TypeOK
PROPERTY LwwRefinement
