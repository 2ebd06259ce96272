---------------------------- MODULE MC_SyncPull ----------------------------
EXTENDS SyncPull

\* Two notes, so one table can take commits out of order, and one comment
\* whose parent check can fail or pass.
MCParentUids == {1, 2}
MCChildUids == {3}
\* Three timestamps: with fresh stamps every write takes a new, larger one.
MCMs == {1, 2, 3}
MCSeeds == {0}
\* Comments may also carry a parent_type other than note or task.
MCBadParents == {None}
=============================================================================
