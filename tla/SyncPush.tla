------------------------------ MODULE SyncPush ------------------------------
(***************************************************************************)
(* Concurrent push batches against one owner's entity tables.              *)
(*                                                                         *)
(* Each handler goroutine (PushChats, PushNotes, PushTaskLists, gRPC Push) *)
(* opens one transaction, runs the per-item service function for every    *)
(* item in order (PushCommentItem, PushChatMessageItem, ...) and commits.  *)
(*   The database is PostgreSQL at READ COMMITTED:                 *)
(*   - a statement sees committed rows plus the transaction's own writes;  *)
(*   - INSERT .. ON CONFLICT DO UPDATE locks the conflicting row (even     *)
(*     when its WHERE is false) and the lock is held until the end of the  *)
(*     transaction; a second writer of the key waits, then re-evaluates    *)
(*     against the newest committed row;                                   *)
(*   - the parent check SELECT EXISTS(..) takes no lock;                   *)
(*   - a wait-for cycle is broken by the deadlock detector, which fails    *)
(*     the statement of one waiter; after any failed statement the         *)
(*     transaction is aborted, every later statement fails and COMMIT      *)
(*     rolls back and returns an error.                                    *)
(*                                                                         *)
(* Keys are uids of two tables: ParentUids (note, task) and ChildUids      *)
(* (comment, whose parent_uid must name a live note or task; the chat /    *)
(* chat_message pair runs the same code without the parent_type check).    *)
(* A batch holds items of one table; the model draws each item when the   *)
(* loop reaches it, which is equivalent to decoding the whole body first   *)
(* because nothing reads an item before its turn.                          *)
(***************************************************************************)
EXTENDS Naturals, Sequences, FiniteSets

CONSTANTS Procs,        \* concurrent request handlers (goroutines)
          ParentUids,   \* uids of the parent tables (note, task)
          ChildUids,    \* uids of the child table (comment)
          Ms,           \* updated_at_ms values a client may send
          Seeds,        \* sync.version values a client may send
          BadParents,   \* {None} when clients may send a bad parent_type, else {}
          MaxBatchLen,  \* bound on the number of items in one push body
          FreshTimestamps, \* TRUE: every new item carries a newer ms than any row written so far
          None,         \* model value: no lock holder / no pending write / no parent
          NoRow         \* model value: no row for the key

ASSUME ParentUids \cap ChildUids = {}
ASSUME Ms \subseteq Nat /\ Seeds \subseteq Nat
ASSUME MaxBatchLen \in Nat \ {0}
ASSUME FreshTimestamps \in BOOLEAN
ASSUME BadParents \subseteq {None}

Uids == ParentUids \cup ChildUids
IsChild(u) == u \in ChildUids

\* Largest version a row can reach: the seed, then one bump per newer ms.
MaxVer == (IF Seeds = {} THEN 1 ELSE CHOOSE s \in Seeds : \A t \in Seeds : s >= t) + Cardinality(Ms)

Row == [ms : Ms, del : BOOLEAN, ver : 1..MaxVer, parent : ParentUids \cup {None}]

(* The sync header ExtractCommon / ExtractComment lift out of a payload.   *)
(* A comment names its parent by parent_type and parent_uid; None stands   *)
(* for a parent_type other than "note" or "task".                          *)
Item == [uid : ParentUids, ms : Ms, del : BOOLEAN, seed : Seeds, parent : {None}]
        \cup
        [uid : ChildUids, ms : Ms, del : BOOLEAN, seed : Seeds, parent : ParentUids \cup BadParents]

\* PushCommentItem's first check: parent_type must be "note" or "task".
ValidParentType(it) == it.parent # None

\* Ack of one item: ok with the server's (version, ms), or an error kind.
Ack == [uid : Uids, ok : {TRUE}, ver : 1..MaxVer, ms : Ms]
       \cup [uid : Uids, ok : {FALSE}, err : {"parent_type", "parent", "sql"}]

VARIABLES rows,     \* committed rows: Uids -> Row \cup {NoRow}
          lock,     \* row locks: Uids -> Procs \cup {None}
          pc,       \* handler phase: "idle", "loop", "check", "write"
          cur,      \* the item the handler is working on
          pending,  \* uncommitted writes of the handler's transaction
          aborted,  \* the transaction has had a failed statement
          acks,     \* acks appended so far for the current batch
          status    \* HTTP outcome of the last batch: "none", "ok", "fail"

vars == <<rows, lock, pc, cur, pending, aborted, acks, status>>

NoPending == [u \in Uids |-> None]

\* What a statement of p's transaction reads: committed rows plus own writes.
View(p) == [u \in Uids |-> IF pending[p][u] # None THEN pending[p][u] ELSE rows[u]]

Live(r) == r # NoRow /\ ~r.del

\* Plausible bugs of the upsert, for mutation runs: the new row takes the
\* client's sync.version without GREATEST(v, 1), or the WHERE uses >=.
UpsertSeedAsIs(old, it) ==
    IF old = NoRow
    THEN [ms |-> it.ms, del |-> it.del, ver |-> it.seed, parent |-> it.parent]
    ELSE IF it.ms > old.ms
         THEN [ms |-> it.ms, del |-> it.del, ver |-> old.ver + 1, parent |-> it.parent]
         ELSE old

UpsertGeq(old, it) ==
    IF old = NoRow
    THEN [ms |-> it.ms, del |-> it.del,
          ver |-> IF it.seed > 1 THEN it.seed ELSE 1, parent |-> it.parent]
    ELSE IF it.ms >= old.ms
         THEN [ms |-> it.ms, del |-> it.del, ver |-> old.ver + 1, parent |-> it.parent]
         ELSE old

(***************************************************************************)
(* The LWW upsert of one item against the row it finds (the INSERT .. ON   *)
(* CONFLICT DO UPDATE .. WHERE EXCLUDED.updated_at_ms > stored statement,   *)
(* followed by the read-back of version and updated_at_ms).                *)
(***************************************************************************)
Upsert(old, it) ==
    IF old = NoRow
    THEN [ms |-> it.ms, del |-> it.del,
          ver |-> IF it.seed > 1 THEN it.seed ELSE 1, parent |-> it.parent]
    ELSE IF it.ms > old.ms
         THEN [ms |-> it.ms, del |-> it.del, ver |-> old.ver + 1, parent |-> it.parent]
         ELSE old

OkAck(u, r) == [uid |-> u, ok |-> TRUE, ver |-> r.ver, ms |-> r.ms]
ErrAck(u, e) == [uid |-> u, ok |-> FALSE, err |-> e]

\* Every ms written or being written, for the FreshTimestamps discipline.
WrittenMs == {rows[u].ms : u \in {v \in Uids : rows[v] # NoRow}}
             \cup UNION {{pending[q][u].ms : u \in {v \in Uids : pending[q][v] # None}} : q \in Procs}

Fresh(it) == ~FreshTimestamps \/ \A m \in WrittenMs : it.ms > m

-----------------------------------------------------------------------------
Init ==
    /\ rows = [u \in Uids |-> NoRow]
    /\ lock = [u \in Uids |-> None]
    /\ pc = [p \in Procs |-> "idle"]
    /\ cur = [p \in Procs |-> None]
    /\ pending = [p \in Procs |-> NoPending]
    /\ aborted = [p \in Procs |-> FALSE]
    /\ acks = [p \in Procs |-> <<>>]
    /\ status = [p \in Procs |-> "none"]

\* Body decoded, s.DB.Begin succeeded: a fresh transaction.
BeginPush(p) ==
    /\ pc[p] = "idle"
    /\ pc' = [pc EXCEPT ![p] = "loop"]
    /\ status' = [status EXCEPT ![p] = "none"]
    /\ UNCHANGED <<rows, lock, cur, pending, aborted, acks>>

\* s.DB.Begin failed: 500 "transaction error", nothing written.
BeginFail(p) ==
    /\ pc[p] = "idle"
    /\ status' = [status EXCEPT ![p] = "fail"]
    /\ UNCHANGED <<rows, lock, pc, cur, pending, aborted, acks>>

(***************************************************************************)
(* The loop takes the next item.  A comment with a bad parent_type is      *)
(* acked with an error before any SQL.  Otherwise, in an aborted           *)
(* transaction the first SQL statement of the item fails, so the item is  *)
(* acked with an error at once; in a healthy one a live child goes to the  *)
(* parent check and everything else straight to the upsert.               *)
(***************************************************************************)
NextItem(p) ==
    /\ pc[p] = "loop"
    /\ Len(acks[p]) < MaxBatchLen
    /\ \E it \in Item :
         /\ \A i \in 1..Len(acks[p]) : IsChild(acks[p][i].uid) = IsChild(it.uid)
         /\ Fresh(it)
         /\ CASE IsChild(it.uid) /\ ~ValidParentType(it) ->
                   /\ acks' = [acks EXCEPT ![p] = Append(@, ErrAck(it.uid, "parent_type"))]
                   /\ UNCHANGED <<pc, cur>>
              [] aborted[p] ->
                   /\ acks' = [acks EXCEPT ![p] = Append(@, ErrAck(it.uid, "sql"))]
                   /\ UNCHANGED <<pc, cur>>
              [] OTHER ->
                   /\ cur' = [cur EXCEPT ![p] = it]
                   /\ pc' = [pc EXCEPT ![p] = IF IsChild(it.uid) /\ ~it.del THEN "check" ELSE "write"]
                   /\ UNCHANGED acks
    /\ UNCHANGED <<rows, lock, pending, aborted, status>>

\* SELECT EXISTS(.. note|task .. deleted_at_ms IS NULL): no lock, committed data.
ValidateParent(p) ==
    /\ pc[p] = "check"
    /\ IF Live(View(p)[cur[p].parent])
       THEN /\ pc' = [pc EXCEPT ![p] = "write"]
            /\ UNCHANGED acks
       ELSE /\ pc' = [pc EXCEPT ![p] = "loop"]
            /\ acks' = [acks EXCEPT ![p] = Append(@, ErrAck(cur[p].uid, "parent"))]
    /\ UNCHANGED <<rows, lock, cur, pending, aborted, status>>

\* Plausible bug: the ack echoes the client's own ms and the row's version
\* from the statement's snapshot instead of the read-back under the lock.
WriteItemEchoAck(p) ==
    LET u == cur[p].uid
        new == Upsert(View(p)[u], cur[p])
    IN /\ pc[p] = "write"
       /\ lock[u] \in {None, p}
       /\ lock' = [lock EXCEPT ![u] = p]
       /\ pending' = [pending EXCEPT ![p][u] = new]
       /\ acks' = [acks EXCEPT ![p] = Append(@, [uid |-> u, ok |-> TRUE, ver |-> new.ver, ms |-> cur[p].ms])]
       /\ pc' = [pc EXCEPT ![p] = "loop"]
       /\ UNCHANGED <<rows, cur, aborted, status>>

\* The upsert runs once no other transaction holds the row; it locks it.
WriteItem(p) ==
    LET u == cur[p].uid
        new == Upsert(View(p)[u], cur[p])
    IN /\ pc[p] = "write"
       /\ lock[u] \in {None, p}
       /\ lock' = [lock EXCEPT ![u] = p]
       /\ pending' = [pending EXCEPT ![p][u] = new]
       /\ acks' = [acks EXCEPT ![p] = Append(@, OkAck(u, new))]
       /\ pc' = [pc EXCEPT ![p] = "loop"]
       /\ UNCHANGED <<rows, cur, aborted, status>>

WaitsFor(p, q) == pc[p] = "write" /\ lock[cur[p].uid] = q /\ q # p

ReleaseLocks(p) == [u \in Uids |-> IF lock[u] = p THEN None ELSE lock[u]]

\* The deadlock detector fails p's upsert: error ack, transaction aborted.
\* PostgreSQL aborts the transaction at the error, so its row locks and
\* writes go at once; the handler keeps looping until its Commit.
DeadlockAbort(p) ==
    /\ \E q \in Procs : WaitsFor(p, q) /\ \E r \in Procs : WaitsFor(q, r) /\ r = p
    /\ aborted' = [aborted EXCEPT ![p] = TRUE]
    /\ acks' = [acks EXCEPT ![p] = Append(@, ErrAck(cur[p].uid, "sql"))]
    /\ pc' = [pc EXCEPT ![p] = "loop"]
    /\ lock' = ReleaseLocks(p)
    /\ pending' = [pending EXCEPT ![p] = NoPending]
    /\ UNCHANGED <<rows, cur, status>>

\* The transaction ends (committed or rolled back): locks and writes go,
\* and the handler returns to wait for its next request.
EndTx(p) ==
    /\ lock' = ReleaseLocks(p)
    /\ pending' = [pending EXCEPT ![p] = NoPending]
    /\ pc' = [pc EXCEPT ![p] = "idle"]
    /\ cur' = [cur EXCEPT ![p] = None]
    /\ aborted' = [aborted EXCEPT ![p] = FALSE]
    /\ acks' = [acks EXCEPT ![p] = <<>>]

\* tx.Commit: publishes the writes and answers 200 with the acks; on an
\* aborted transaction PostgreSQL rolls back, Commit errors and the
\* handler answers 500 "commit failed".
Commit(p) ==
    /\ pc[p] = "loop"
    /\ rows' = IF aborted[p] THEN rows ELSE View(p)
    /\ status' = [status EXCEPT ![p] = IF aborted[p] THEN "fail" ELSE "ok"]
    /\ EndTx(p)

\* tx.Commit fails on a healthy transaction (connection lost): 500, rolled back.
CommitFail(p) ==
    /\ pc[p] = "loop"
    /\ ~aborted[p]
    /\ status' = [status EXCEPT ![p] = "fail"]
    /\ UNCHANGED rows
    /\ EndTx(p)

Next ==
    \E p \in Procs :
        \/ BeginPush(p)
        \/ BeginFail(p)
        \/ NextItem(p)
        \/ ValidateParent(p)
        \/ WriteItem(p)
        \/ DeadlockAbort(p)
        \/ Commit(p)
        \/ CommitFail(p)

Spec == Init /\ [][Next]_vars

-----------------------------------------------------------------------------
TypeOK ==
    /\ rows \in [Uids -> Row \cup {NoRow}]
    /\ lock \in [Uids -> Procs \cup {None}]
    /\ pc \in [Procs -> {"idle", "loop", "check", "write"}]
    /\ cur \in [Procs -> Item \cup {None}]
    /\ pending \in [Procs -> [Uids -> Row \cup {None}]]
    /\ aborted \in [Procs -> BOOLEAN]
    /\ acks \in [Procs -> Seq(Ack)]
    /\ status \in [Procs -> {"none", "ok", "fail"}]

\* The committed tables, seen through the abstract store's eyes.
StoreView == [u \in Uids |-> IF rows[u] = NoRow THEN NoRow
                             ELSE [ms |-> rows[u].ms, del |-> rows[u].del, ver |-> rows[u].ver]]

Lww == INSTANCE LwwStore WITH Keys <- Uids, store <- StoreView

(* Interleaved transactions implement the LWW store: no commit of any      *)
(* batch, in any interleaving with others, moves a row to an older or      *)
(* equal updated_at_ms, and version rises exactly when the row moves       *)
(* (idempotent duplicate pushes, the strict > of the upsert's WHERE).      *)
LwwRefinement == Lww!Spec

CommitsOk(p) == status[p] = "none" /\ status'[p] = "ok"

IsLastAckFor(p, i) == \A j \in (i + 1)..Len(acks[p]) : acks[p][j].uid # acks[p][i].uid

(* Spec 8.9: when a batch commits, the server-authoritative (version, ms)  *)
(* it acks for each uid is exactly the row left committed for that uid,    *)
(* however its upserts interleaved with other batches on the same rows     *)
(* (read-back happens under the row lock held until commit).               *)
AckMatchesCommitted ==
    [][\A p \in Procs :
         CommitsOk(p) =>
            \A i \in 1..Len(acks[p]) :
               (acks[p][i].ok /\ IsLastAckFor(p, i)) =>
                  /\ rows'[acks[p][i].uid] # NoRow
                  /\ rows'[acks[p][i].uid].ver = acks[p][i].ver
                  /\ rows'[acks[p][i].uid].ms = acks[p][i].ms]_vars

(* Spec 4.G / 7: item-level failures are recoverable - when a batch ends  *)
(* in which some item was acked ok and another item's SQL failed, the     *)
(* batch still commits (the handler keeps looping after an error ack, but *)
(* a failed statement aborts the whole PostgreSQL transaction).           *)
ItemErrorsAreRecoverable ==
    [][\A p \in Procs :
         (/\ pc[p] = "loop" /\ pc'[p] = "idle"
          /\ \E i \in 1..Len(acks[p]) : acks[p][i].ok
          /\ \E i \in 1..Len(acks[p]) : ~acks[p][i].ok /\ acks[p][i].err = "sql")
         => status'[p] = "ok"]_vars

(* Spec 3 invariant 4 / 4.D: a live child row is written only while its   *)
(* parent row exists and is live - at the moment the write becomes         *)
(* visible, i.e. when its batch commits.                                   *)
ChildCommitSeesLiveParent ==
    [][\A p \in Procs :
         CommitsOk(p) =>
            \A u \in ChildUids :
               (pending[p][u] # None /\ pending[p][u] # rows[u] /\ ~pending[p][u].del)
                  => Live(rows'[pending[p][u].parent])]_vars
=============================================================================
