# TLA+ models of the toolbridge sync API

These modules model the concurrent parts of the toolbridge sync server and of its MCP client:

- the push handlers and their per-item LWW upserts under PostgreSQL READ COMMITTED;
- keyset pagination of the pull handlers;
- the REST mutation path with optimistic concurrency;
- the tenant epoch and the in-memory session registry;
- the MCP client's session cache and retry loop.

TLC checks the models. Each module is translated from the Go code under `src/`, and `PROJECT.json` maps every definition to the lines it models.

## The system and how its parts interact

- **Push.** A device pushes a batch of items. PushChats, PushNotes, PushTaskLists and the gRPC `Server.Push` each do three things:
  - open one transaction;
  - run a per-item service function (`PushChatMessageItem`, `PushTaskListCategoryItem`, ...) for every item;
  - commit.

  Each item is an `INSERT .. ON CONFLICT DO UPDATE .. WHERE EXCLUDED.updated_at_ms > stored`, followed by a read-back of the version and updated_at_ms for the ack.

  Comments (and chat messages) first check that their parent is live, using a `SELECT EXISTS` that takes no lock. A comment with a parent_type other than note or task is acked with an error before any SQL.
- **Pull.** A device pulls pages: `(updated_at_ms, uid) > cursor ORDER BY .. LIMIT n`. The next cursor is the key of the last row of the page. Each kind has its own pull handler (`PullNotes`, `PullComments`, ...) and the device keeps one cursor per kind. These pulls run while push batches commit.
- **REST mutations.** `ApplyTaskListCategoryMutation` does six things:
  1. probes the row with a plain SELECT;
  2. checks `ExpectedVersion`;
  3. picks a timestamp;
  4. runs the same LWW upsert;
  5. patches `payload.sync.version` with `jsonb_set`;
  6. commits.
- **Tenant epoch.** `owner_state` holds one epoch per owner.
  - `BeginSession` reads or creates the epoch and stamps a new in-memory session with it.
  - `WipeAccount` bumps the epoch and deletes the owner's rows in one transaction, then calls `DeleteUserSessions`.
  - Sessions expire after 30 minutes.
  - The registry lives in process memory (`session.globalStore`); a restart starts with an empty one, while `owner_state` and the rows stay in PostgreSQL.
  - `BeginSession`, `EndSession` and `WipeAccount` are the gRPC server's (`internal/grpcapi/server.go`) and the HTTP handlers in `comments_service.go`. The gRPC server is started only in builds with the `grpc` tag (`cmd/server/grpc_noop.go`).
- **MCP client.** `HTTPClient.doWithRetry` works as follows:
  - each attempt gets a token and calls `SessionManager.EnsureSession`;
  - EnsureSession takes a read-locked fast path, then `createSession` under the write lock with a double check;
  - the attempt sends with the session's id and epoch;
  - a 401 retries after invalidating the token;
  - a 409 `epoch_mismatch` retries after `InvalidateSession`;
  - a 429 retries after a backoff that a cancellation can cut short;
  - all three share one `retryCount`, bounded by `MaxRetries`.

## Modules

| Module | Models | State | Actions |
|---|---|---|---|
| `LwwStore` | the abstract promise of a synced table: per key an LWW register whose ms and version only rise together | `store` | `LwwMove` per key |
| `SyncPush` | push handlers and per-item services (part_001 PushChats, `PushCommentItem`; `PushChatMessageItem` is the same code without the parent_type check) | `rows`, `lock`, `pc`, `cur`, `pending`, `aborted`, `acks`, `status` | `BeginPush`, `BeginFail`, `NextItem`, `ValidateParent`, `WriteItem`, `DeadlockAbort`, `Commit`, `CommitFail` |
| `Pagination` | operators of the keyset query and cursor (PullChatMessages, gRPC Pull limit) | - | `After`, `Page`, `NextCursor`, `NormalizeLimit` |
| `PullLoop` | a client following cursors through a quiescent table (gRPC Pull) | `tbl`, `limit`, `cursor`, `got`, `delivered`, `done` | `Pull` |
| `SyncPull` | `SyncPush` plus a device pulling notes and comments, each with its own cursor, while batches commit (PullNotes, PullComments) | the above plus `cursor` (per kind), `replica`, `pulls` | `PushStep`, `PullNotes`, `PullComments` |
| `RestMutation` | ApplyTaskListCategoryMutation with concurrent callers, and devices pushing the same category (PushTaskListCategories) | `row`, `lock`, `now`, `pc`, `opts`, `item`, `ts`, `base`, `pending`, `ack`, `result` | `Begin`, `Probe`, `Push`, `Patch`, `SyncBegin`, `SyncWrite`, `Commit`, `Abort`, `Tick` |
| `TenantEpoch` | owner_state, BeginSession, EndSession, WipeAccount, session.Store, the REST and gRPC push handlers that write owner rows, and process restarts | `ownerEpoch`, `data`, `sessions`, `pc`, `user`, `epoch` | `BeginLoadEpoch`, `CreateSession`, `EndSession`, `WipeCommit`, `WipeInvalidate`, `PushNotes`, `PushTaskLists`, `PushTaskListCategories`, `TaskServerPush`, `CommentServerPush`, `ChatServerPush`, `ChatMessageServerPush`, `Tick`, `Restart` |
| `ClientSession` | HTTPClient.Do/doWithRetry and SessionManager | `serverEpoch`, `created`, `cache`, `pc`, `retry`, `hdr`, `resp`, `seen` | `Do`, `Attempt`, `CreateSession`, `Send`, `Handle`, `Wipe`, `Tick` |

### Database semantics

The database semantics are modelled directly because every push property depends on them:

- a statement sees committed rows plus its own transaction's writes (`View`);
- an upsert locks its row until the transaction ends, and a second writer waits (`lock`);
- the deadlock detector fails the statement of one waiter in a cycle;
- a failed statement aborts the transaction, so every later statement fails and COMMIT rolls back (`aborted`).

### Abstraction

- Payloads, JSON, logging and error wording are left out.
- Items carry only what the properties tell apart: uid, ms, deleted flag, client version seed and parent uid.
- Time is an integer clock. Session lifetimes are kept as "ticks left".
- A client request carries only the session id and epoch of its headers, not the cached expiry.
- A session record carries one field the code does not have: `born`, the owner's epoch when the registry stored it. It is a history field, read only by `WipedSessionsGone`.
- The `version` column is `INT NOT NULL` (the migration in `cmd/server/main.go`). `RestMutation` keeps that width as `MaxInt`: an upsert that would store a larger version fails with "integer out of range", and `Push` or `SyncWrite` ends the transaction with an error in the same step.
- The `jsonb_set` patch of `payload.sync.version` is a step that may fail (`Patch`, then `Abort`), but its content is not kept: the row lock taken by the upsert keeps every other writer out until commit, so no interleaving can separate the patch from the upsert.
- A failed statement (a deadlock victim's upsert) releases its transaction's row locks at once, as PostgreSQL aborts the transaction at the error; the handler still loops to its `Commit`.

### Refinement

`SyncPush` and `RestMutation` each instantiate `LwwStore` with a refinement mapping (`StoreView`), and check `Lww!Spec` as the property `LwwRefinement`.

## Runs

| Run | Expect | What it shows |
|---|---|---|
| `sync_push` | pass | Two interleaved batches on one note and two comments refine `LwwStore` and ack exactly the committed (version, ms), including parent checks, waits and deadlock aborts. 3.1M states up to handler symmetry, about two and a half minutes. |
| `sync_push_deadlock` | violation | A deadlock abort makes a batch that had acked items ok answer 500: the whole transaction is lost. |
| `sync_push_parent` | violation | A comment commits after a concurrent batch tombstoned its note: the parent check takes no lock. |
| `sync_pull_serial` | pass | With one pushing handler and client clocks that always advance, an empty pull of a kind means the device has caught up on that table. Comments with a bad parent_type are among the items. |
| `sync_pull_concurrent` | violation | With two pushing handlers, a note commits behind the device's notes cursor and is never pulled. |
| `pull_loop` | pass | For every table of three rows over two timestamps and every requested limit (0, 1, 2, 1001), following cursors returns each row exactly once. |
| `tenant_epoch` | pass | Across wipes, racing BeginSession and EndSession requests, push handlers and process restarts, no session stored before the owner's latest wipe is usable once that wipe has finished or its process has restarted (`WipedSessionsGone`). A crash between the wipe's commit and `DeleteUserSessions` is harmless only because the registry is in memory. Under weak fairness of the clock, a session stamped with an old epoch stops being usable. |
| `tenant_epoch_stale` | violation | A BeginSession that read the epoch before a wipe creates a session at the old epoch after `DeleteUserSessions`. |
| `tenant_epoch_wipe` | violation | A wipe leaves the owner's `task_list` (and `task_list_category`) rows, written by PushTaskLists, because its table list omits them. |
| `client_session` | pass | Two goroutines share a SessionManager across a wipe. An epoch-mismatch retry always carries a session of the new epoch. Every call returns (`CallsReturn`), however the server keeps answering 401, 409 or 429. |
| `rest_mutation` | pass | Concurrent mutations and a device's push of the same category keep the row an LWW register. When a seed or the bumps reach the INT limit, every later write that would move the row fails with an error, and the property still holds. |
| `rest_mutation_lost` | violation | Mutation m1, with `expected_version` 1, probes while m2 holds the row lock with its uncommitted update: the plain SELECT reads version 1 and the check passes. m2 commits version 2, and m1's upsert then updates version 2 to 3 and reports success. Only mutations write in this run, so every writer checked the version first. |

Each violation run is a finding in `PROJECT.json`. It compares what the code does with what the spec, or a code comment, says.

Each property of a passing run has a mutant: a plausible bug of the mapped definition under which TLC reports the property violated. Examples:

- the upsert with `>=`;
- the seed without `GREATEST(v, 1)`;
- the cursor compared on ms only;
- the give-up test off by one;
- the recursive retry without `retryCount+1`;
- a session registry that survives a restart (a shared store like the planned Redis one);

## Bounds and why they are enough

- **Push.** The bounds are two handlers, one note and two comments, with symmetry over the handlers. Two timestamps and batches of two items are enough for:
  - the two-lock cycle of a deadlock;
  - equal and newer timestamps (duplicate pushes);
  - one handler waiting on the other's lock.

  The parent-check race uses a smaller instance, `MC_SyncPushChild`: one note and one comment.
  Comments with a bad parent_type (`BadParents = {None}`) are drawn in the two smaller instances only; in `sync_push` they would double the state space, and they touch no row or lock.
- **Pull.** Two notes and one comment: the out-of-order commit needs two rows of one table. The serial run uses three timestamps, so every write can take a fresh, larger one. It uses page size 1, so every page boundary is exercised, and allows six pulls, enough to page both tables more than once. The concurrent run reaches its counterexample within four pulls.
- **Pull loop.** Three rows over two timestamps force ties of ms across page boundaries.
- **Tenant epoch.** Two requests, two session slots, a TTL of two ticks and up to three epochs are enough for one BeginSession to straddle a wipe while another request ends or begins a session, and for a restart to fall between a wipe's commit and its `DeleteUserSessions`. The REST push handlers write `note` (wiped) and `task_list`, `task_list_category` (omitted from the wipe list); the gRPC ones write `task`, `comment`, `chat` and `chat_message`. The run has about 520k states and takes about a minute and a half.
- **Client.**
  - The one-minute refresh buffer rounds to 0 and the 23-hour cache lives three ticks: only the order of its expiry against the calls matters. The server's 30-minute session store is not kept, since no server path reads `X-Sync-Session`.
  - `MaxRetries` is the code's 3.
  - Two epochs and up to three session POSTs allow a wipe, an invalidation and recreation by two goroutines.
- **REST mutation.** The clock runs up to 3. Callers expect version 1, and a forced timestamp of 2 can land below, at or above the stored one. One device pushes with timestamps 2 or 3 (level with or ahead of the server clock) and a payload sync.version of 0 or 2. `MaxInt = 2` stands for the INT limit: with timestamps up to 3, a row seeded at 2, or bumped twice, reaches it while later writes still try to move it.

## Fairness

- `TenantEpoch` states `WF_vars(Tick)`: wall-clock time always advances, and nothing else is assumed to happen. `Restart` gets no fairness: a crash may happen or not.
- `ClientSession.FairSpec` makes each goroutine's steps after `Do` weakly fair (`CallStep(g)`). Each is local work or an HTTP exchange bounded by the `http.Client`'s 30-second `Timeout`, and the 429 wait ends by its timer or by cancellation. `createSession` runs its POST under the manager's write lock, so a slow POST stalls every goroutine, even on the fast path. `CallsReturn` therefore rests on that POST's timeout, and on the token provider's `GetToken` returning. `Do`, wipes and the clock get no fairness: nothing obliges a caller to start a call.
- The other models check safety only, since the code obliges no handler to be scheduled.

## Not modelled

- Authentication: the JWT, tenant-header and trust-proxy checks are pure validation, and only their tests are in the repository.
- The legacy `httpapi/sessions.go` store. It is the revision before the shared-store refactor. It and the epoch-aware handlers at the end of `comments_service.go` both declare package `httpapi`'s `sessionStore`, `BeginSession`, `EndSession` and `GetSession`, so the two cannot be built together. The gRPC migration guide says `sessions.go` was changed to use `session.Store`, so the models follow that revision.
- The Helm chart, the apps wrapper and the scripts.
- The statements inside `WipeAccount`'s transaction. `TenantEpoch` takes the transaction as one step; at READ COMMITTED a push that commits a new row after a DELETE took its snapshot leaves that row behind. The property this would break, `WipeRemovesAllRows`, is already violated by the wipe's table list.
- The spec's retry bound. Spec 4.H allows at most 3 attempts per call and one retry of a 401, while `MaxRetries = 3` with a `>=` test allows 4 attempts and three 401 retries. `ClientSession` models the code's count, and no run checks the spec's.
- `cloneRequest` and `parseRetryAfter`.
- The gRPC Pull's `continue` on a `structpb.NewStruct` failure. Its maps are decoded from `jsonb` by `encoding/json`, so they hold only strings (valid UTF-8), float64, bools, nil, slices and maps, and the conversion cannot fail. The branch is unreachable, so it is not a hazard.
- Epoch enforcement:
  - the server has none, because `SessionMiddleware` only copies the header and the gRPC epoch interceptor is commented out;
  - `ClientSession` therefore takes the 409 `epoch_mismatch` from the spec.

  That answer and `EnsureMonotonicTimestamp` are the spec-modelled definitions.
