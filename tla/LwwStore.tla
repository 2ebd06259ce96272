------------------------------ MODULE LwwStore ------------------------------
(***************************************************************************)
(* What the entity store promises its callers (spec 4.C, invariants 1-3):  *)
(* a row, once stored, only ever moves to a strictly newer updated_at_ms,  *)
(* and its server version rises exactly when it does.  A commit may move   *)
(* several rows at once (one push batch is one transaction), so a step     *)
(* relates every key's old row to its new one.  Rows are never removed     *)
(* here: removal is the tenant wipe, modelled in TenantEpoch.              *)
(***************************************************************************)
EXTENDS Naturals

CONSTANTS Keys,   \* (owner_id, uid) keys of one entity table
          Ms,     \* the updated_at_ms values clients may send
          NoRow   \* model value: the key has no row

VARIABLE store    \* Keys -> [ms, del, ver] or NoRow

Rec == [ms : Ms, del : BOOLEAN, ver : Nat \ {0}]

Init == store = [k \in Keys |-> NoRow]

\* A row may appear with any version >= 1, or move forward under LWW.
LwwMove(old, new) ==
    IF old = NoRow
    THEN new \in Rec
    ELSE /\ new \in Rec
         /\ new.ms > old.ms
         /\ new.ver > old.ver

Next == \A k \in Keys : store'[k] = store[k] \/ LwwMove(store[k], store'[k])

Spec == Init /\ [][Next]_store
=============================================================================
