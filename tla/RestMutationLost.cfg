\* Two REST mutations with the same expected_version and no device:
\* every write to the row is a mutation that checked the version first.
CONSTANTS
    Muts = {m1, m2}
    Devs = {}
    SyncMs <- MCSyncMs
    Seeds <- MCSeeds
    MaxMs = 3
    MaxInt = 3
    Expected <- MCExpected
    ForceMs <- MCForceMs
    None = None
    NoRow = NoRow
SPECIFICATION Spec
PROPERTY NoLostUpdate
