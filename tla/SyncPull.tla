------------------------------ MODULE SyncPull ------------------------------
(***************************************************************************)
(* A second device pulls while push batches commit (SyncPush).  Notes and  *)
(* comments are separate tables with separate pull handlers (PullNotes,    *)
(* PullComments), and the device keeps one cursor per kind.  Each pull is  *)
(* one statement, so one snapshot of the committed rows of its table,      *)
(* paged by Pagination; the device applies the page to its replica and     *)
(* keeps the next cursor (or its old one when the page is empty and no     *)
(* next_cursor comes back).                                                *)
(***************************************************************************)
EXTENDS SyncPush

CONSTANTS PullLimit,  \* page size the device asks for
          MaxPulls    \* bound on the number of pull requests

VARIABLES cursor,   \* the device's stored cursor per kind
          replica,  \* the device's copy: Uids -> [ms, del] or NoRow
          pulls     \* pull requests made so far

P == INSTANCE Pagination

pullVars == <<cursor, replica, pulls>>
allVars == <<vars, pullVars>>

\* The uids of each table the device pulls.
KindUids == [note |-> ParentUids, comment |-> ChildUids]

Kinds == DOMAIN KindUids

\* The rows a pull of kind k scans: WHERE owner_id = $1 on its own table.
Table(k) == [u \in KindUids[k] |-> rows[u]]

\* What the device should hold of a committed table.
Mirror(tbl) == [u \in DOMAIN tbl |-> IF tbl[u] = NoRow THEN NoRow
                                     ELSE [ms |-> tbl[u].ms, del |-> tbl[u].del]]

PullInit ==
    /\ Init
    /\ cursor = [k \in Kinds |-> P!StartCursor]
    /\ replica = [u \in Uids |-> NoRow]
    /\ pulls = 0

\* One pull request of kind k: a page of its committed rows after the
\* kind's cursor.  Upserts and deletes (tombstones) both carry the row's
\* state to the device.
PullKind(k) ==
    LET pg == P!Page(Table(k), cursor[k], PullLimit)
    IN /\ pulls < MaxPulls
       /\ replica' = [u \in Uids |-> IF u \in pg THEN Mirror(Table(k))[u] ELSE replica[u]]
       /\ cursor' = [cursor EXCEPT ![k] = P!NextCursor(Table(k), @, PullLimit)]
       /\ pulls' = pulls + 1
       /\ UNCHANGED vars

PullNotes == PullKind("note")

PullComments == PullKind("comment")

PushStep == Next /\ UNCHANGED pullVars

PullNext == PushStep \/ PullNotes \/ PullComments

PullSpec == PullInit /\ [][PullNext]_allVars

(* Spec 5: pages are stable because a new write carries an ms at least    *)
(* "now" - so a device whose pull of a kind comes back empty has caught up *)
(* on that table: its replica of it equals the committed rows.  Checked    *)
(* with clients that always stamp a write newer than every earlier one.   *)
NoMissedUpdate ==
    [][\A k \in Kinds :
         (PullKind(k) /\ P!Page(Table(k), cursor[k], PullLimit) = {})
         => [u \in KindUids[k] |-> replica[u]] = Mirror(Table(k))]_allVars
=============================================================================
