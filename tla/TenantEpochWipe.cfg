\* The wipe transaction and a table outside its list.
CONSTANTS
    Users = {a}
    Reqs = {r1, r2}
    SessionIds = {s1, s2}
    TTL = 2
    MaxEpoch = 3
    None = None
SPECIFICATION Spec
PROPERTY WipeRemovesAllRows
