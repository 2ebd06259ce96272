----------------------------- MODULE Pagination -----------------------------
(***************************************************************************)
(* Keyset pagination of the pull handlers (PullChatMessages, PullChats,    *)
(* PullNotes, ...), as pure operators over a table Uids -> row.            *)
(*                                                                         *)
(*   SELECT .. WHERE owner_id = $1 AND (updated_at_ms, uid) > ($2, $3)     *)
(*   ORDER BY updated_at_ms, uid LIMIT $4                                  *)
(*                                                                         *)
(* and the next cursor is the (updated_at_ms, uid) of the last row         *)
(* scanned, present only when the page is not empty.  A row is any record *)
(* with an ms field; uids are naturals (uuid.Nil is 0).                    *)
(***************************************************************************)
EXTENDS Naturals, FiniteSets

CONSTANT NoRow   \* model value: no row for the uid

\* Row-value comparison (a1, a2) < (b1, b2) of PostgreSQL.
KeyLess(a, b) == a[1] < b[1] \/ (a[1] = b[1] /\ a[2] < b[2])

Key(tbl, u) == <<tbl[u].ms, u>>

\* The cursor a client starts from: DecodeCursor failed or no cursor given.
StartCursor == <<0, 0>>

\* Plausible bug: the WHERE compares updated_at_ms only (updated_at_ms >
\* $2), dropping the uid tie-break of the row-value comparison.
AfterMsOnly(tbl, cursor) == {u \in DOMAIN tbl : tbl[u] # NoRow /\ cursor[1] < tbl[u].ms}

\* Rows the WHERE clause admits.
After(tbl, cursor) == {u \in DOMAIN tbl : tbl[u] # NoRow /\ KeyLess(cursor, Key(tbl, u))}

\* ORDER BY .. LIMIT: the admitted rows with fewer than limit rows before them.
Page(tbl, cursor, limit) ==
    LET cand == After(tbl, cursor)
    IN {u \in cand : Cardinality({v \in cand : KeyLess(Key(tbl, v), Key(tbl, u))}) < limit}

\* Plausible bug: the next cursor is the newest row after the cursor,
\* not the last row of the page (e.g. MAX(updated_at_ms) of the table).
NextCursorToEnd(tbl, cursor, limit) ==
    LET cand == After(tbl, cursor)
    IN IF Page(tbl, cursor, limit) = {} THEN cursor
       ELSE Key(tbl, CHOOSE u \in cand : \A v \in cand : ~KeyLess(Key(tbl, u), Key(tbl, v)))

\* lastMs, lastUID of the scan loop; EncodeCursor of them if the page is not
\* empty, otherwise no next cursor (the client keeps the one it sent).
NextCursor(tbl, cursor, limit) ==
    LET pg == Page(tbl, cursor, limit)
    IN IF pg = {} THEN cursor
       ELSE Key(tbl, CHOOSE u \in pg : \A v \in pg : ~KeyLess(Key(tbl, u), Key(tbl, v)))

\* Plausible bug: the default for an unset (zero) limit is missing.
NormalizeLimitNoDefault(l) == IF l > 1000 THEN 1000 ELSE l

\* gRPC Pull: limit <= 0 becomes 500, above 1000 becomes 1000.
NormalizeLimit(l) == IF l <= 0 THEN 500 ELSE IF l > 1000 THEN 1000 ELSE l
=============================================================================
