---------------------------- MODULE MC_SyncPush ----------------------------
(* Model-checking instance of SyncPush: two handlers, one note and two    *)
(* comment uids under it.                                                  *)
EXTENDS SyncPush, TLC

\* One note, whose pushes create and tombstone the parent of the comments.
MCParentUids == {1}
\* Two comment uids so that two batches can lock them in opposite orders,
\* and each live comment goes through the parent check.
MCChildUids == {3, 4}
\* Two timestamps: one update that wins and one duplicate/older push.
MCMs == {1, 2}
\* Clients send version 0 (new rows).
\* Every comment names a note (the bad parent_type path is checked with
\* MC_SyncPull, whose smaller instance affords it).
MCBadParents == {}
MCSeeds == {0}
\* The handlers are interchangeable goroutines.
MCSymmetry == Permutations(Procs)
=============================================================================
