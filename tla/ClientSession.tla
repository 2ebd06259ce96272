--------------------------- MODULE ClientSession ---------------------------
(***************************************************************************)
(* The MCP client's transport: HTTPClient.Do / doWithRetry in several      *)
(* goroutines sharing one SessionManager, against the sync server.         *)
(*                                                                         *)
(* Per attempt a goroutine gets a token, calls EnsureSession (read-locked  *)
(* fast path, then createSession under the write lock with a double        *)
(* check), sends the request with the session's id and epoch, and handles  *)
(* the status: 401 invalidates the token and retries, 409 epoch_mismatch   *)
(* invalidates the cached session and retries, 429 backs off and retries,  *)
(* all while retryCount < MaxRetries; anything else is returned.           *)
(*                                                                         *)
(* Every access to the cache holds sm.mu, so each cache access is one      *)
(* step; createSession holds the write lock across its POST, so the POST   *)
(* and the cache update are one step too.  Time is kept as ticks left     *)
(* until cacheExpiry.                                                      *)
(***************************************************************************)
EXTENDS Integers

CONSTANTS Gors,          \* goroutines issuing logical calls
          MaxRetries,    \* the client's MaxRetries
          CacheTTL,      \* SessionCacheTTL in ticks
          RefreshBuffer, \* SessionRefreshBuffer in ticks
          MaxEpoch,      \* bound on wipes
          MaxSessions,   \* bound on sessions the server creates
          None

\* Answers the server may give to a request whose epoch is current.
Statuses == {"ok", "401", "409", "429"}

VARIABLES serverEpoch, \* owner_state.epoch
          created,     \* sessions created so far
          cache,       \* sm.cachedSession with its cacheExpiry: [id, epoch, left] or None
          pc,          \* "idle", "attempt", "create", "send", "handle"
          retry,       \* retryCount of the call
          hdr,         \* X-Sync-Session and X-Sync-Epoch of the attempt: [id, epoch]
          resp,        \* the status of the last response
          seen         \* server epoch carried by the last epoch_mismatch, 0 if none

vars == <<serverEpoch, created, cache, pc, retry, hdr, resp, seen>>

SessionIds == 1..MaxSessions

\* time.Now().Add(SessionRefreshBuffer).Before(expiry)
CacheValid == cache # None /\ cache.left > RefreshBuffer

\* The session id and epoch that doWithRetry sets as request headers.
Headers(s) == [id |-> s.id, epoch |-> s.epoch]

Init ==
    /\ serverEpoch = 1
    /\ created = 0
    /\ cache = None
    /\ pc = [g \in Gors |-> "idle"]
    /\ retry = [g \in Gors |-> 0]
    /\ hdr = [g \in Gors |-> None]
    /\ resp = [g \in Gors |-> "none"]
    /\ seen = [g \in Gors |-> 0]

\* The call returns (response or error); its per-call state goes with it.
Return(g) ==
    /\ pc' = [pc EXCEPT ![g] = "idle"]
    /\ hdr' = [hdr EXCEPT ![g] = None]
    /\ retry' = [retry EXCEPT ![g] = 0]
    /\ resp' = [resp EXCEPT ![g] = "none"]
    /\ seen' = [seen EXCEPT ![g] = 0]

CallVars == <<retry, resp, seen>>

\* Do: a new logical call with retryCount 0.
Do(g) ==
    /\ pc[g] = "idle"
    /\ pc' = [pc EXCEPT ![g] = "attempt"]
    /\ UNCHANGED <<serverEpoch, created, cache, hdr, CallVars>>

(* doWithRetry up to EnsureSession's fast path: GetToken may fail (the     *)
(* call returns an error); a valid cached session is used, otherwise the   *)
(* goroutine goes on to createSession.                                     *)
Attempt(g) ==
    /\ pc[g] = "attempt"
    /\ \/ Return(g)
       \/ /\ CacheValid
          /\ hdr' = [hdr EXCEPT ![g] = Headers(cache)]
          /\ pc' = [pc EXCEPT ![g] = "send"]
          /\ UNCHANGED CallVars
       \/ /\ ~CacheValid
          /\ pc' = [pc EXCEPT ![g] = "create"]
          /\ UNCHANGED <<hdr, CallVars>>
    /\ UNCHANGED <<serverEpoch, created, cache>>

(* createSession under the write lock: the double check returns a session  *)
(* another goroutine cached meanwhile; otherwise POST /v1/sync/sessions,   *)
(* which either fails (error returned) or creates a server session at the  *)
(* current epoch that is cached with expiry CreatedAt + SessionCacheTTL.   *)
CreateSession(g) ==
    /\ pc[g] = "create"
    /\ \/ /\ CacheValid
          /\ hdr' = [hdr EXCEPT ![g] = Headers(cache)]
          /\ pc' = [pc EXCEPT ![g] = "send"]
          /\ UNCHANGED <<created, cache, CallVars>>
       \/ /\ ~CacheValid
          /\ Return(g)
          /\ UNCHANGED <<created, cache>>
       \/ /\ ~CacheValid
          /\ created < MaxSessions
          /\ LET s == [id |-> created + 1, epoch |-> serverEpoch, left |-> CacheTTL]
             IN /\ created' = created + 1
                /\ cache' = s
                /\ hdr' = [hdr EXCEPT ![g] = Headers(s)]
          /\ pc' = [pc EXCEPT ![g] = "send"]
          /\ UNCHANGED CallVars
    /\ UNCHANGED serverEpoch

(* httpClient.Do: a transport error returns at once; otherwise the server  *)
(* answers.  With a stale X-Sync-Epoch it answers 409 epoch_mismatch with  *)
(* its epoch (spec 4.F Enforce); otherwise any of Statuses.                *)
Send(g) ==
    /\ pc[g] = "send"
    /\ \/ Return(g)
       \/ /\ hdr[g].epoch # serverEpoch
          /\ resp' = [resp EXCEPT ![g] = "epoch"]
          /\ seen' = [seen EXCEPT ![g] = serverEpoch]
          /\ pc' = [pc EXCEPT ![g] = "handle"]
          /\ UNCHANGED <<hdr, retry>>
       \/ /\ hdr[g].epoch = serverEpoch
          /\ \E st \in Statuses : resp' = [resp EXCEPT ![g] = st]
          /\ pc' = [pc EXCEPT ![g] = "handle"]
          /\ UNCHANGED <<hdr, retry, seen>>
    /\ UNCHANGED <<serverEpoch, created, cache>>

\* Plausible bug: the recursive call passes retryCount, not retryCount+1.
RetryNoIncrement(g) ==
    /\ retry' = retry
    /\ pc' = [pc EXCEPT ![g] = "attempt"]
    /\ hdr' = [hdr EXCEPT ![g] = None]
    /\ UNCHANGED <<resp, seen>>

Retry(g) ==
    /\ retry' = [retry EXCEPT ![g] = @ + 1]
    /\ pc' = [pc EXCEPT ![g] = "attempt"]
    /\ hdr' = [hdr EXCEPT ![g] = None]
    /\ UNCHANGED <<resp, seen>>

\* SessionManager.InvalidateSession: the cached session and its expiry go.
InvalidateSession == cache' = None

\* Plausible bugs of the status switch: the give-up test is off by one
\* (retryCount > MaxRetries), or the epoch_mismatch handler retries
\* without InvalidateSession.
HandleOffByOne(g) ==
    /\ pc[g] = "handle"
    /\ \/ /\ resp[g] \in {"ok", "409"}
          /\ Return(g) /\ UNCHANGED cache
       \/ /\ resp[g] \in {"401", "epoch", "429"}
          /\ retry[g] > MaxRetries
          /\ Return(g) /\ UNCHANGED cache
       \/ /\ resp[g] \in {"401", "epoch", "429"}
          /\ retry[g] <= MaxRetries
          /\ Retry(g)
          /\ cache' = IF resp[g] = "epoch" THEN None ELSE cache
    /\ UNCHANGED <<serverEpoch, created>>

HandleKeepsSession(g) ==
    /\ pc[g] = "handle"
    /\ \/ /\ resp[g] \in {"ok", "409"}
          /\ Return(g)
       \/ /\ resp[g] \in {"401", "epoch", "429"}
          /\ retry[g] >= MaxRetries
          /\ Return(g)
       \/ /\ resp[g] \in {"401", "epoch", "429"}
          /\ retry[g] < MaxRetries
          /\ Retry(g)
    /\ UNCHANGED <<serverEpoch, created, cache>>

(* The status switch of doWithRetry with handleUnauthorized,               *)
(* handleConflict / handleEpochMismatch and handleRateLimit: each gives up *)
(* once retryCount >= MaxRetries; a 429 wait may end by cancellation.      *)
Handle(g) ==
    /\ pc[g] = "handle"
    /\ \/ /\ resp[g] \in {"ok", "409"}
          /\ Return(g) /\ UNCHANGED cache
       \/ /\ resp[g] \in {"401", "epoch", "429"}
          /\ retry[g] >= MaxRetries
          /\ Return(g) /\ UNCHANGED cache
       \/ /\ resp[g] = "401"
          /\ retry[g] < MaxRetries
          /\ Retry(g) /\ UNCHANGED cache
       \/ /\ resp[g] = "epoch"
          /\ retry[g] < MaxRetries
          /\ InvalidateSession
          /\ Retry(g)
       \/ /\ resp[g] = "429"
          /\ retry[g] < MaxRetries
          /\ \/ Retry(g)
             \/ Return(g)
          /\ UNCHANGED cache
    /\ UNCHANGED <<serverEpoch, created>>

(* WipeAccount on the server: the epoch moves on (its DeleteUserSessions   *)
(* is TenantEpoch's; no client path here reads the server store).        *)
Wipe ==
    /\ serverEpoch < MaxEpoch
    /\ serverEpoch' = serverEpoch + 1
    /\ UNCHANGED <<created, cache, pc, hdr, CallVars>>

Left(n) == IF n < 0 THEN n ELSE n - 1

(* A clock tick: the cached session's expiry draws nearer.               *)
Tick ==
    /\ cache # None /\ cache.left >= 0
    /\ cache' = IF cache = None THEN None ELSE [cache EXCEPT !.left = Left(@)]
    /\ UNCHANGED <<serverEpoch, created, pc, hdr, CallVars>>

Next ==
    \/ \E g \in Gors : Do(g) \/ Attempt(g) \/ CreateSession(g) \/ Send(g) \/ Handle(g)
    \/ Wipe
    \/ Tick

Spec == Init /\ [][Next]_vars

(* Every step of a call after Do is the goroutine's own work or an HTTP    *)
(* exchange bounded by the http.Client's 30-second Timeout (the POST of    *)
(* createSession and the request of doWithRetry alike), so each is weakly  *)
(* fair.  Do is not: nothing obliges a caller to start a call, and the     *)
(* clock and wipes are free to stop.  At most one of the four is enabled   *)
(* for a goroutine (by its pc), so fairness of their disjunction is        *)
(* fairness of each.                                                       *)
CallStep(g) == Attempt(g) \/ CreateSession(g) \/ Send(g) \/ Handle(g)

FairSpec == Spec /\ \A g \in Gors : WF_vars(CallStep(g))

-----------------------------------------------------------------------------
Cached == [id : SessionIds, epoch : 1..MaxEpoch, left : -1..CacheTTL]

TypeOK ==
    /\ serverEpoch \in 1..MaxEpoch
    /\ created \in 0..MaxSessions
    /\ cache \in Cached \cup {None}
    /\ pc \in [Gors -> {"idle", "attempt", "create", "send", "handle"}]
    /\ retry \in [Gors -> 0..MaxRetries]
    /\ hdr \in [Gors -> [id : SessionIds, epoch : 1..MaxEpoch] \cup {None}]
    /\ resp \in [Gors -> Statuses \cup {"none", "epoch"}]
    /\ seen \in [Gors -> 0..MaxEpoch]

(* Spec 4.H, 409 epoch_mismatch: after the server reports a new epoch, the *)
(* call's next attempt carries a session of at least that epoch, even when *)
(* other goroutines create, cache and invalidate sessions in between.      *)
RetryCarriesNewEpoch ==
    \A g \in Gors : pc[g] = "send" => hdr[g].epoch >= seen[g]

(* Every logical call returns: a response or an error, whatever the other  *)
(* goroutine, the wipes and the clock do.  The 401, epoch_mismatch and 429 *)
(* handlers recurse into doWithRetry, and only the shared retryCount,      *)
(* raised on every recursion and tested against MaxRetries, ends it.       *)
CallsReturn == \A g \in Gors : pc[g] # "idle" ~> pc[g] = "idle"
=============================================================================
