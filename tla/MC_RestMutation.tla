-------------------------- MODULE MC_RestMutation --------------------------
EXTENDS RestMutation

\* Callers expect the first version (the one a new row gets).
MCExpected == {1}
\* A forced timestamp of 2 can land at, above or below the stored one.
MCForceMs == {2}
\* Device clocks ahead of the server's and level with it.
MCSyncMs == {2, 3}
\* A payload without a sync.version, and one carrying version 2.
MCSeeds == {0, 2}
=============================================================================
