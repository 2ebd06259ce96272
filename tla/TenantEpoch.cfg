\* BeginSession, EndSession and WipeAccount racing for one owner.
CONSTANTS
    Users = {a}
    Reqs = {r1, r2}
    SessionIds = {s1, s2}
    TTL = 2
    MaxEpoch = 3
    None = None
SPECIFICATION Spec
INVARIANT TypeOK
INVARIANT WipedSessionsGone
PROPERTY StaleSessionsExpire
