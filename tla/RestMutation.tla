---------------------------- MODULE RestMutation ----------------------------
(***************************************************************************)
(* ApplyTaskListCategoryMutation: REST create/update of one task list      *)
(* category with optional optimistic concurrency, run by several handlers  *)
(* on the same uid.  One transaction per mutation:                         *)
(*   probe   plain SELECT (updated_at_ms, version): no row lock;           *)
(*   check   EnforceVersion: stored version must equal ExpectedVersion;    *)
(*   stamp   ForceTimestampMs, else NowMs for a new row, else              *)
(*           EnsureMonotonicTimestamp(stored ms);                          *)
(*   push    PushTaskListCategoryItem: the LWW upsert (locks the row until *)
(*           commit, re-evaluated against the newest committed row) and    *)
(*           its read-back of the version;                                 *)
(*   patch   jsonb_set of payload.sync.version to the acked version (its   *)
(*           content is not modelled: the row lock held since the upsert   *)
(*           keeps every other writer out until commit);                  *)
(*   commit.                                                               *)
(* Any failed statement or commit rolls the transaction back.              *)
(*                                                                         *)
(* Devices push the same category through PushTaskListCategories at the   *)
(* same time: one transaction over the batch's items (one item here; the   *)
(* multi-item batch is SyncPush), each PushTaskListCategoryItem storing    *)
(* the client's payload verbatim, then commit.                             *)
(***************************************************************************)
EXTENDS Naturals

CONSTANTS Muts,        \* concurrent mutation handlers
          Devs,        \* concurrent PushTaskListCategories handlers
          SyncMs,      \* updated_at_ms values devices send
          Seeds,       \* sync.version values in device payloads
          MaxMs,       \* bound on NowMs and on every timestamp written
          Expected,    \* ExpectedVersion values callers send
          ForceMs,     \* ForceTimestampMs values callers send
          MaxInt,      \* largest value of the INT version column
          None, NoRow

\* Stored row: ms, deleted, version.
Row == [ms : 1..MaxMs, del : BOOLEAN, ver : 1..MaxInt]

Opts == [enforce : BOOLEAN, expected : Expected, force : ForceMs \cup {None}, del : BOOLEAN]

Actors == Muts \cup Devs

\* A device's item: its updated_at_ms, deleted_at_ms set or not, and the
\* sync.version its payload carries.
Item == [ms : SyncMs, del : BOOLEAN, seed : Seeds]

VARIABLES row,     \* the committed row, or NoRow
          lock,    \* holder of the row lock, or None
          now,     \* the server clock (NowMs)
          pc,      \* "idle", "probe", "push", "patch", "commit"
          opts,    \* MutationOpts of the request
          item,    \* a device's pushed item
          ts,      \* the timestamp the mutation writes
          base,    \* version of the row the upsert applied to (0: none)
          pending, \* the row as the transaction has written it
          ack,     \* version the push acked
          result   \* outcome of the last mutation: "none", "ok", "mismatch", "error"

vars == <<row, lock, now, pc, opts, item, ts, base, pending, ack, result>>

Greatest(a, b) == IF a > b THEN a ELSE b

\* syncx.EnsureMonotonicTimestamp: max(now, stored + 1).
EnsureMonotonicTimestamp(storedMs) == IF now > storedMs THEN now ELSE storedMs + 1

\* Plausible bugs of the upsert: the seed version stored as is (no
\* GREATEST(v, 1)), or the WHERE compares with >=.
UpsertSeedZero(old, t, d, v) ==
    IF old = NoRow THEN [ms |-> t, del |-> d, ver |-> v]
    ELSE IF t > old.ms THEN [ms |-> t, del |-> d, ver |-> old.ver + 1]
    ELSE old

UpsertGeq(old, t, d, v) ==
    IF old = NoRow THEN [ms |-> t, del |-> d, ver |-> Greatest(v, 1)]
    ELSE IF t >= old.ms THEN [ms |-> t, del |-> d, ver |-> old.ver + 1]
    ELSE old

\* The LWW upsert of PushTaskListCategoryItem: the payload (whose
\* sync.version is v) is stored verbatim; a new row gets GREATEST(v, 1).
Upsert(old, t, d, v) ==
    IF old = NoRow THEN [ms |-> t, del |-> d, ver |-> Greatest(v, 1)]
    ELSE IF t > old.ms THEN [ms |-> t, del |-> d, ver |-> old.ver + 1]
    ELSE old

Init ==
    /\ row = NoRow
    /\ lock = None
    /\ now = 1
    /\ pc = [m \in Actors |-> "idle"]
    /\ opts = [m \in Actors |-> None]
    /\ item = [m \in Actors |-> None]
    /\ ts = [m \in Actors |-> 0]
    /\ base = [m \in Actors |-> 0]
    /\ pending = [m \in Actors |-> None]
    /\ ack = [m \in Actors |-> 0]
    /\ result = [m \in Actors |-> "none"]

\* The handler returns; the request's state goes with it.
Finish(m, res) ==
    /\ pc' = [pc EXCEPT ![m] = "idle"]
    /\ result' = [result EXCEPT ![m] = res]
    /\ opts' = [opts EXCEPT ![m] = None]
    /\ item' = [item EXCEPT ![m] = None]
    /\ ts' = [ts EXCEPT ![m] = 0]
    /\ base' = [base EXCEPT ![m] = 0]
    /\ ack' = [ack EXCEPT ![m] = 0]

\* The transaction ends (deferred Rollback or Commit): lock and writes go.
EndTx(m, res) ==
    /\ lock' = IF lock = m THEN None ELSE lock
    /\ pending' = [pending EXCEPT ![m] = None]
    /\ Finish(m, res)

\* s.DB.Begin: a request with its options.
Begin(m) ==
    /\ pc[m] = "idle"
    /\ \E o \in Opts : opts' = [opts EXCEPT ![m] = o]
    /\ pc' = [pc EXCEPT ![m] = "probe"]
    /\ result' = [result EXCEPT ![m] = "none"]
    /\ UNCHANGED <<row, lock, now, item, ts, base, pending, ack>>

\* The probe SELECT, the version check and the choice of timestamp.
Probe(m) ==
    LET o == opts[m]
        t == IF o.force # None THEN o.force
             ELSE IF row = NoRow THEN now
             ELSE EnsureMonotonicTimestamp(row.ms)
    IN /\ pc[m] = "probe"
       /\ IF row # NoRow /\ o.enforce /\ row.ver # o.expected
          THEN Finish(m, "mismatch")
          ELSE /\ t <= MaxMs
               /\ ts' = [ts EXCEPT ![m] = t]
               /\ pc' = [pc EXCEPT ![m] = "push"]
               /\ UNCHANGED <<result, opts, item, base, ack>>
       /\ UNCHANGED <<row, lock, now, pending>>

(* The upsert once the row lock is free, and the read-back of its        *)
(* version.  A version beyond the INT column (version + 1, or the seed)    *)
(* raises "integer out of range": the statement fails, the handler returns *)
(* the error and the deferred Rollback ends the transaction.              *)
Push(m) ==
    LET new == Upsert(row, ts[m], opts[m].del, 0)
    IN /\ pc[m] = "push"
       /\ lock = None
       /\ \/ /\ new.ver <= MaxInt
             /\ lock' = m
             /\ pending' = [pending EXCEPT ![m] = new]
             /\ ack' = [ack EXCEPT ![m] = new.ver]
             /\ base' = [base EXCEPT ![m] = IF row = NoRow THEN 0 ELSE row.ver]
             /\ pc' = [pc EXCEPT ![m] = "patch"]
             /\ UNCHANGED <<opts, item, ts, result>>
          \/ /\ new.ver > MaxInt
             /\ EndTx(m, "error")
       /\ UNCHANGED <<row, now>>

\* UPDATE .. SET payload_json = jsonb_set(.., '{sync,version}', ack.Version)
Patch(m) ==
    /\ pc[m] = "patch"
    /\ pc' = [pc EXCEPT ![m] = "commit"]
    /\ UNCHANGED <<row, lock, now, opts, item, ts, base, pending, ack, result>>

\* tx.Commit succeeds: the RESTItem with the acked version is returned.
Commit(m) ==
    /\ pc[m] = "commit"
    /\ row' = pending[m]
    /\ EndTx(m, "ok")
    /\ UNCHANGED now

(* PushTaskListCategories: the body decodes and s.DB.Begin succeeds (a    *)
(* failure there answers 400/500 having touched nothing); the device's     *)
(* item comes with its own updated_at_ms, deleted flag and sync.version.   *)
SyncBegin(d) ==
    /\ pc[d] = "idle"
    /\ \E it \in Item : /\ item' = [item EXCEPT ![d] = it]
                        /\ ts' = [ts EXCEPT ![d] = it.ms]
    /\ pc' = [pc EXCEPT ![d] = "upsert"]
    /\ result' = [result EXCEPT ![d] = "none"]
    /\ UNCHANGED <<row, lock, now, opts, base, pending, ack>>

(* PushTaskListCategoryItem inside the batch: the upsert once the row lock *)
(* is free, storing the device's payload as sent, and the read-back of     *)
(* version for the ack.  An item that fails ExtractCommon, or a failed     *)
(* statement, ends in Abort (the failed statement aborts the batch); a     *)
(* version beyond the INT column fails the statement at once.             *)
SyncWrite(d) ==
    LET new == Upsert(row, ts[d], item[d].del, item[d].seed)
    IN /\ pc[d] = "upsert"
       /\ lock = None
       /\ \/ /\ new.ver <= MaxInt
             /\ lock' = d
             /\ pending' = [pending EXCEPT ![d] = new]
             /\ ack' = [ack EXCEPT ![d] = new.ver]
             /\ pc' = [pc EXCEPT ![d] = "commit"]
             /\ UNCHANGED <<opts, item, ts, base, result>>
          \/ /\ new.ver > MaxInt
             /\ EndTx(d, "error")
       /\ UNCHANGED <<row, now>>

\* A statement or the commit fails (or the request is cancelled): rollback.
Abort(m) ==
    /\ pc[m] \in {"probe", "push", "patch", "upsert", "commit"}
    /\ EndTx(m, "error")
    /\ UNCHANGED <<row, now>>

\* The clock moves on.
Tick ==
    /\ now < MaxMs
    /\ now' = now + 1
    /\ UNCHANGED <<row, lock, pc, opts, item, ts, base, pending, ack, result>>

Next ==
    \/ \E m \in Muts : Begin(m) \/ Probe(m) \/ Push(m) \/ Patch(m)
    \/ \E d \in Devs : SyncBegin(d) \/ SyncWrite(d)
    \/ \E m \in Actors : Commit(m) \/ Abort(m)
    \/ Tick

Spec == Init /\ [][Next]_vars

-----------------------------------------------------------------------------
TypeOK ==
    /\ row \in Row \cup {NoRow}
    /\ lock \in Actors \cup {None}
    /\ now \in 1..MaxMs
    /\ pc \in [Actors -> {"idle", "probe", "push", "patch", "upsert", "commit"}]
    /\ opts \in [Actors -> Opts \cup {None}]
    /\ item \in [Actors -> Item \cup {None}]
    /\ ts \in [Actors -> 0..MaxMs]
    /\ base \in [Actors -> Nat]
    /\ pending \in [Actors -> Row \cup {None}]
    /\ ack \in [Actors -> Nat]
    /\ result \in [Actors -> {"none", "ok", "mismatch", "error"}]

StoreView == [k \in {"category"} |-> IF row = NoRow THEN NoRow
                                      ELSE [ms |-> row.ms, del |-> row.del, ver |-> row.ver]]

Lww == INSTANCE LwwStore WITH Keys <- {"category"}, Ms <- 1..MaxMs, store <- StoreView

(* REST mutations racing each other keep the category row an LWW register: *)
(* no committed mutation moves it to an older or equal updated_at_ms, and  *)
(* its version rises exactly when it moves, forced timestamps included.    *)
LwwRefinement == Lww!Spec

OkCommit(m) == result[m] # "ok" /\ result'[m] = "ok"

(* Spec 4.I optimistic concurrency: a mutation sent with expected_version  *)
(* that succeeds by updating an existing row updated that very version -   *)
(* no other writer's update committed between its version check and its   *)
(* upsert.                                                                 *)
Overwrote(m) == base[m] # 0 /\ ack[m] # base[m]

NoLostUpdate ==
    [][\A m \in Muts : (OkCommit(m) /\ opts[m].enforce /\ Overwrote(m))
                         => base[m] = opts[m].expected]_vars
=============================================================================
