\* A BeginSession that read the epoch before a wipe stores its session after it.
CONSTANTS
    Users = {a}
    Reqs = {r1, r2}
    SessionIds = {s1, s2}
    TTL = 2
    MaxEpoch = 3
    None = None
SPECIFICATION Spec
INVARIANT NoStaleSession
