\* Two goroutines share one SessionManager across one wipe.
\* The 1-minute refresh buffer rounds to 0 and the 23-hour cache lives 3
\* ticks (only the order of expiry against calls matters).
CONSTANTS
    Gors = {g1, g2}
    MaxRetries = 3
    CacheTTL = 3
    RefreshBuffer = 0
    MaxEpoch = 2
    MaxSessions = 3
    None = None
SPECIFICATION FairSpec
INVARIANT TypeOK
INVARIANT RetryCarriesNewEpoch
PROPERTY CallsReturn
