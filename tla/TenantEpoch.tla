---------------------------- MODULE TenantEpoch ----------------------------
(***************************************************************************)
(* The tenant epoch controller and the in-memory session registry.         *)
(*                                                                         *)
(* owner_state holds one epoch per owner, created lazily by BeginSession   *)
(* (epoch 1) or by WipeAccount (epoch 2) and bumped by every wipe.         *)
(* BeginSession reads the epoch in one statement and then stamps a new     *)
(* session with it (session.Store.CreateSession); WipeAccount commits the  *)
(* epoch bump and the row deletes in one transaction and only afterwards   *)
(* calls DeleteUserSessions.  Handlers of different requests interleave    *)
(* between those steps.                                                    *)
(*                                                                         *)
(* Time: the store only ever compares now with ExpiresAt (After), so a     *)
(* session keeps the minutes it has left; -1 stands for "expired".         *)
(***************************************************************************)
EXTENDS Integers, FiniteSets

CONSTANTS Users,      \* owners
          Reqs,       \* concurrent request handlers
          SessionIds, \* session ids the registry may hold at once
          TTL,        \* session lifetime in ticks (30 minutes)
          MaxEpoch,   \* bound on the epoch (number of wipes)
          None        \* model value

ASSUME TTL \in Nat \ {0} /\ MaxEpoch \in Nat \ {0}

\* The tables the wipe transaction deletes from, in its order.
WipeTableList == <<"chat_message", "comment", "chat", "task", "note">>
WipedTables == {WipeTableList[i] : i \in 1..5}

(* born is a history field, not a field of session.Session: the owner's  *)
(* epoch in owner_state when the registry stored the session.              *)
Session == [user : Users, epoch : 1..MaxEpoch, left : -1..TTL, born : 1..MaxEpoch]

VARIABLES ownerEpoch, \* owner_state.epoch, 0 = no row yet
          data,       \* tables in which the owner has rows
          sessions,   \* the registry map: SessionIds -> Session or None
          pc,         \* handler step: "idle", "begin" (epoch read), "wiped" (committed)
          user,       \* the owner the handler works for
          epoch       \* the epoch the handler read or wrote

vars == <<ownerEpoch, data, sessions, pc, user, epoch>>

Expired(s) == s.left < 0

\* Plausible bug: GetSession returns any session it finds, never checking
\* time.Now().After(ExpiresAt).
UsableNoExpiry(id) == sessions[id] # None

\* GetSession: the session exists and now is not After its ExpiresAt.
Usable(id) == sessions[id] # None /\ ~Expired(sessions[id])

\* GetSyncState: the stored epoch, or 1 when no owner_state row exists.
StateEpoch(u) == IF ownerEpoch[u] = 0 THEN 1 ELSE ownerEpoch[u]

Init ==
    /\ ownerEpoch = [u \in Users |-> 0]
    /\ data = [u \in Users |-> {}]
    /\ sessions = [id \in SessionIds |-> None]
    /\ pc = [r \in Reqs |-> "idle"]
    /\ user = [r \in Reqs |-> None]
    /\ epoch = [r \in Reqs |-> 0]

\* Plausible bug: the epoch is read by a bare SELECT that yields 0 for a
\* missing owner_state row, without the lazy INSERT of epoch 1.
BeginLoadEpochNoInsert(r, u) ==
    /\ pc[r] = "idle"
    /\ epoch' = [epoch EXCEPT ![r] = ownerEpoch[u]]
    /\ user' = [user EXCEPT ![r] = u]
    /\ pc' = [pc EXCEPT ![r] = "begin"]
    /\ UNCHANGED <<ownerEpoch, data, sessions>>

(* BeginSession, first statement: INSERT .. ON CONFLICT DO NOTHING          *)
(* RETURNING epoch, and on ErrNoRows the fallback SELECT epoch.            *)
BeginLoadEpoch(r, u) ==
    /\ pc[r] = "idle"
    /\ ownerEpoch' = [ownerEpoch EXCEPT ![u] = IF @ = 0 THEN 1 ELSE @]
    /\ epoch' = [epoch EXCEPT ![r] = ownerEpoch'[u]]
    /\ user' = [user EXCEPT ![r] = u]
    /\ pc' = [pc EXCEPT ![r] = "begin"]
    /\ UNCHANGED <<data, sessions>>

(* CreateSession(userID, epoch) under the store's lock: the new session    *)
(* with the full TTL, then cleanupExpiredLocked drops every expired one.   *)
(* Inserting before or after the cleanup leaves the same map, since the    *)
(* new session is not expired; its id is any slot the cleanup leaves free. *)
CreateSession(r) ==
    LET kept == [id \in SessionIds |->
                   IF sessions[id] # None /\ Expired(sessions[id]) THEN None ELSE sessions[id]]
    IN /\ pc[r] = "begin"
       /\ \E id \in SessionIds :
            /\ kept[id] = None
            /\ sessions' = [kept EXCEPT ![id] = [user |-> user[r], epoch |-> epoch[r],
                                                 left |-> TTL, born |-> ownerEpoch[user[r]]]]
       /\ pc' = [pc EXCEPT ![r] = "idle"]
       /\ UNCHANGED <<ownerEpoch, data, user, epoch>>

(* EndSession: GetSession must find the session unexpired and owned by    *)
(* the caller, then DeleteSession removes it (404 / 403 otherwise).        *)
EndSession(r, u) ==
    /\ pc[r] = "idle"
    /\ \E id \in SessionIds :
         /\ Usable(id)
         /\ sessions[id].user = u
         /\ sessions' = [sessions EXCEPT ![id] = None]
    /\ UNCHANGED <<ownerEpoch, data, pc, user, epoch>>

(* WipeAccount transaction, committed: the epoch upsert (2 for a new row,  *)
(* epoch + 1 otherwise) and a DELETE on every table of the list.           *)
WipeCommit(r, u) ==
    /\ pc[r] = "idle"
    /\ StateEpoch(u) < MaxEpoch
    /\ ownerEpoch' = [ownerEpoch EXCEPT ![u] = IF @ = 0 THEN 2 ELSE @ + 1]
    /\ data' = [data EXCEPT ![u] = @ \ WipedTables]
    /\ epoch' = [epoch EXCEPT ![r] = ownerEpoch'[u]]
    /\ user' = [user EXCEPT ![r] = u]
    /\ pc' = [pc EXCEPT ![r] = "wiped"]
    /\ UNCHANGED sessions

(* After the commit, outside the transaction: DeleteUserSessions.          *)
WipeInvalidate(r) ==
    /\ pc[r] = "wiped"
    /\ sessions' = [id \in SessionIds |->
                      IF sessions[id] # None /\ sessions[id].user = user[r]
                      THEN None ELSE sessions[id]]
    /\ pc' = [pc EXCEPT ![r] = "idle"]
    /\ UNCHANGED <<ownerEpoch, data, user, epoch>>

(* A REST push handler of the owner: one transaction over the batch's     *)
(* items, then COMMIT.  A batch that fails to decode, to begin or to       *)
(* commit leaves no rows; a committed one leaves the owner rows (live or   *)
(* tombstones) in the handler's table.  No step looks at owner_state or    *)
(* at the X-Sync-Epoch header, so a push is never refused for its epoch.   *)
CommitBatch(u, t) ==
    /\ data' = [data EXCEPT ![u] = @ \cup {t}]
    /\ UNCHANGED <<ownerEpoch, sessions, pc, user, epoch>>

PushNotes(u) == CommitBatch(u, "note")

PushTaskLists(u) == CommitBatch(u, "task_list")

PushTaskListCategories(u) == CommitBatch(u, "task_list_category")

(* The gRPC Push of the task, comment, chat and chat message services:    *)
(* the same Begin, per-item service call and Commit, under the gRPC        *)
(* build only, and with no look at the epoch either.                       *)
TaskServerPush(u) == CommitBatch(u, "task")

CommentServerPush(u) == CommitBatch(u, "comment")

ChatServerPush(u) == CommitBatch(u, "chat")

ChatMessageServerPush(u) == CommitBatch(u, "chat_message")

\* The tables those handlers write.
Tables == {"note", "task_list", "task_list_category", "task", "comment", "chat", "chat_message"}

\* Plausible bug: the registry outlives the process (a shared store such as
\* the planned Redis one), while the handlers in flight are lost.
RestartKeepsSessions ==
    /\ pc' = [r \in Reqs |-> "idle"]
    /\ user' = [r \in Reqs |-> None]
    /\ epoch' = [r \in Reqs |-> 0]
    /\ UNCHANGED <<ownerEpoch, data, sessions>>

(* The process stops (a crash, or a shutdown whose 30 s drain runs out)   *)
(* and starts again.  The package-level globalStore is created empty, and  *)
(* the handlers in flight are gone with their goroutines, a WipeAccount    *)
(* between its commit and DeleteUserSessions included.  What PostgreSQL    *)
(* committed (owner_state, rows) stays; an open transaction rolls back,    *)
(* and the model never shows one half done.                                *)
Restart ==
    /\ sessions' = [id \in SessionIds |-> None]
    /\ pc' = [r \in Reqs |-> "idle"]
    /\ user' = [r \in Reqs |-> None]
    /\ epoch' = [r \in Reqs |-> 0]
    /\ UNCHANGED <<ownerEpoch, data>>

(* A clock tick: every session has one tick less before it expires.        *)
Tick ==
    /\ \E id \in SessionIds : sessions[id] # None /\ ~Expired(sessions[id])
    /\ sessions' = [id \in SessionIds |->
                      IF sessions[id] = None \/ Expired(sessions[id]) THEN sessions[id]
                      ELSE [sessions[id] EXCEPT !.left = @ - 1]]
    /\ UNCHANGED <<ownerEpoch, data, pc, user, epoch>>

Next ==
    \/ \E r \in Reqs, u \in Users :
         BeginLoadEpoch(r, u) \/ EndSession(r, u) \/ WipeCommit(r, u)
    \/ \E r \in Reqs : CreateSession(r) \/ WipeInvalidate(r)
    \/ \E u \in Users : PushNotes(u) \/ PushTaskLists(u) \/ PushTaskListCategories(u)
    \/ \E u \in Users : TaskServerPush(u) \/ CommentServerPush(u)
                       \/ ChatServerPush(u) \/ ChatMessageServerPush(u)
    \/ Tick
    \/ Restart

Spec == Init /\ [][Next]_vars /\ WF_vars(Tick)

-----------------------------------------------------------------------------
TypeOK ==
    /\ ownerEpoch \in [Users -> 0..MaxEpoch]
    /\ data \in [Users -> SUBSET Tables]
    /\ sessions \in [SessionIds -> Session \cup {None}]
    /\ pc \in [Reqs -> {"idle", "begin", "wiped"}]
    /\ user \in [Reqs -> Users \cup {None}]
    /\ epoch \in [Reqs -> 0..MaxEpoch]

\* The session was stamped with an epoch its owner has since left behind.
Stale(id) == sessions[id].epoch < ownerEpoch[sessions[id].user]

WipeInFlight(u) == \E r \in Reqs : pc[r] = "wiped" /\ user[r] = u

(* Spec 7(c): once a wipe has finished (DeleteUserSessions ran), no        *)
(* usable session of the owner carries an epoch older than owner_state -   *)
(* whatever BeginSession requests were running across the wipe.            *)
NoStaleSession ==
    \A id \in SessionIds :
        (Usable(id) /\ ~WipeInFlight(sessions[id].user)) => ~Stale(id)

(* Spec 7(c), for the sessions the wipe was meant to end: once           *)
(* WipeAccount has finished, or the process that ran it has restarted, no *)
(* usable session of the owner was stored before the owner's latest epoch  *)
(* bump.  Across a restart this holds only because the registry lives in   *)
(* process memory: the DeleteUserSessions that a crash skips after the     *)
(* commit is made up for by the empty store the new process starts with.   *)
WipedSessionsGone ==
    \A id \in SessionIds :
        LET u == sessions[id].user
        IN  (Usable(id) /\ ~WipeInFlight(u)) => sessions[id].born = ownerEpoch[u]

(* Spec 7(b): the wipe transaction leaves the owner no rows in any entity  *)
(* table (epoch bump and deletes commit together).                         *)
WipeRemovesAllRows ==
    [][\A u \in Users : StateEpoch(u)' > StateEpoch(u) => data'[u] = {}]_vars

(* Whatever slipped past DeleteUserSessions, a session stamped with an     *)
(* old epoch stops being usable: GetSession refuses it once its 30 minutes *)
(* have run out, and no store operation extends a session's lifetime.      *)
StaleSessionsExpire ==
    \A id \in SessionIds : (Usable(id) /\ Stale(id)) ~> ~Usable(id)
=============================================================================
