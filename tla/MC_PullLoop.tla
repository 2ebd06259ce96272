---------------------------- MODULE MC_PullLoop ----------------------------
EXTENDS PullLoop

\* Three uids, two timestamps: ties on updated_at_ms break on uid.
MCUids == {1, 2, 3}
MCMs == {1, 2}
\* Requested page sizes: unset (0, the default 500), sizes that split the
\* table into three or two pages, and one above the 1000 cap.
MCLimits == {0, 1, 2, 1001}
=============================================================================
