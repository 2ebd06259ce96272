------------------------- MODULE MC_SyncPushChild --------------------------
(* SyncPush with one note and one comment: the parent check.              *)
EXTENDS SyncPush

\* One note that a batch may create, update or tombstone.
MCParentUids == {1}
\* One comment whose parent_uid must name the note.
MCChildUids == {3}
\* Two timestamps, so a tombstone can overtake a live note.
MCMs == {1, 2}
\* Clients send version 0.
MCSeeds == {0}
\* Comments may also carry a parent_type other than note or task.
MCBadParents == {None}
=============================================================================
