\* A client pages through every quiescent table of three rows.
\* The loop stops once a page is empty: the client has caught up.
CONSTANTS
    Uids <- MCUids
    Ms <- MCMs
    Limits <- MCLimits
    NoRow = NoRow
SPECIFICATION Spec
CHECK_DEADLOCK FALSE
INVARIANT TypeOK
INVARIANT CompleteAndExact
