------------------------------ MODULE PullLoop ------------------------------
(***************************************************************************)
(* A client following next cursors through one table that nobody writes   *)
(* meanwhile: each step is one pull request (PullChatMessages and the      *)
(* other pull handlers), from StartCursor until a page comes back empty.   *)
(* The page size is the gRPC Pull's: the requested limit normalised.      *)
(***************************************************************************)
EXTENDS Naturals, FiniteSets, Pagination

CONSTANTS Uids,     \* uids of the table
          Ms,       \* updated_at_ms values of its rows
          Limits    \* page sizes a client may ask for (req.Limit)

VARIABLES tbl,       \* the table being paged (fixed)
          limit,     \* the page size the handler uses
          cursor,    \* the cursor the client sends next
          got,       \* uids received so far
          delivered, \* rows received so far, counting repeats
          done       \* the last page was empty

vars == <<tbl, limit, cursor, got, delivered, done>>

Row == [ms : Ms]

Init ==
    /\ tbl \in [Uids -> Row \cup {NoRow}]
    /\ limit \in {NormalizeLimit(l) : l \in Limits}
    /\ cursor = StartCursor
    /\ got = {}
    /\ delivered = 0
    /\ done = FALSE

\* One pull: the page, its rows applied, the next cursor stored.
Pull ==
    LET pg == Page(tbl, cursor, limit)
    IN /\ ~done
       /\ got' = got \cup pg
       /\ delivered' = delivered + Cardinality(pg)
       /\ cursor' = NextCursor(tbl, cursor, limit)
       /\ done' = (pg = {})
       /\ UNCHANGED <<tbl, limit>>

Next == Pull

Spec == Init /\ [][Next]_vars

TypeOK ==
    /\ tbl \in [Uids -> Row \cup {NoRow}]
    /\ limit \in 1..1000
    /\ got \subseteq Uids
    /\ delivered \in Nat
    /\ done \in BOOLEAN

Stored == {u \in Uids : tbl[u] # NoRow}

(* Keyset pagination is exact on a quiescent table: once a pull comes      *)
(* back empty the client holds every row, and no row came in two pages,    *)
(* however many rows share an updated_at_ms and whatever the page size.    *)
CompleteAndExact == done => got = Stored /\ delivered = Cardinality(Stored)
=============================================================================
