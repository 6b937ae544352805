---------------------------- MODULE RateLimiter ----------------------------
(***************************************************************************)
(* The rate limiter of the authentication endpoints: RateLimitMiddleware   *)
(* asks is_rate_limited for every request on a protected route, and the    *)
(* limiter keeps its hits in the table rate_limit_hits or, without a       *)
(* database, in one deque per key.  Both are to grant at most Limit        *)
(* requests per key and window.                                            *)
(*                                                                         *)
(* The deque is read and written without an await.  The table is read in   *)
(* one step and written in a later one (READ COMMITTED), and the time a    *)
(* hit gets was taken before the first.  A key is a route: one client      *)
(* stands for all.  Time is in ticks.                                      *)
(***************************************************************************)
EXTENDS Integers, FiniteSets

CONSTANTS
    Routes,    \* the routes requested
    Ids,       \* hits that can be granted (bounds the grants)
    Requests,  \* request slots: how many requests run at the same time
    Limit,     \* hits per window
    Window,    \* window_seconds, in ticks
    Retention, \* older_than_hours of the cleanup, in ticks
    MaxTime,   \* bound on the clock
    None       \* no hit, no request

ASSUME Finite == IsFiniteSet(Ids) /\ IsFiniteSet(Requests)
ASSUME Bounds == /\ Limit \in Nat \ {0} /\ Window \in Nat /\ MaxTime \in Nat
                 /\ Retention \in Nat /\ Retention >= Window

Time == 0 .. MaxTime

Hit == [ key : Routes, at : Time ]

(***************************************************************************)
(* A request: the time it began, the stale rows its open transaction has   *)
(* deleted, and whether no other request on its key has overlapped it      *)
(* (a ghost).                                                              *)
(***************************************************************************)
Request == [ stage : {"count", "record", "refused"}, key : Routes, at : Time,
             purged : SUBSET Ids, alone : BOOLEAN ]

ASSUME NoneIsNothing == None \notin Hit \cup Request

VARIABLES
    backend,  \* what create_rate_limiter chose: "postgres" or "memory"
    granted,  \* every hit ever granted (a ghost)
    hits,     \* those still in the table or the deques
    now,      \* utc_now()
    req       \* the request in each slot, None when the slot is free

vars == <<backend, granted, hits, now, req>>

TypeOK ==
    /\ backend \in {"postgres", "memory"}
    /\ granted \in [Ids -> Hit \cup {None}]
    /\ hits \subseteq Ids
    /\ now \in Time
    /\ req \in [Requests -> Request \cup {None}]

-----------------------------------------------------------------------------
\* RateLimitMiddleware._is_protected_path, the prefix left out.
protected_routes == { "/debug-token", "/sync", "/invite", "/invites/accept",
                      "/token/refresh", "/cookie/store-refresh", "/tenants/{id}/invite" }

GrantedTo(key) == {i \in Ids : granted[i] # None /\ granted[i].key = key}

InWindow(ids, time) == {i \in ids : granted[i].at >= time - Window}

\* Mutant: the hits of every key count.
CountedOfAllKeys(key, time) == InWindow(hits, time)

\* The hits is_rate_limited counts for a request that began at that time.
Counted(key, time) == InWindow(hits \cap GrantedTo(key), time)

\* Mutant: one more.
AtLimitExceeded(key, time) == Cardinality(Counted(key, time)) > Limit

AtLimit(key, time) == Cardinality(Counted(key, time)) >= Limit

At(r, stage) == req[r] # None /\ req[r].stage = stage

Init ==
    /\ backend \in {"postgres", "memory"}
    /\ granted = [i \in Ids |-> None]
    /\ hits = {}
    /\ now = 0
    /\ req = [r \in Requests |-> None]

-----------------------------------------------------------------------------
End(r) ==
    /\ req' = [req EXCEPT ![r] = None]
    /\ UNCHANGED <<backend, granted, hits, now>>

NewRequest(stage, key) ==
    [ stage |-> stage, key |-> key, at |-> now, purged |-> {},
      alone |-> \A s \in Requests : req[s] # None => req[s].key # key ]

\* A request on another route passes the middleware untouched.
Start(r, key) ==
    /\ backend = "postgres" /\ req[r] = None
    /\ key \in protected_routes
    /\ req' = [s \in Requests |->
                 IF s = r THEN NewRequest("count", key)
                 ELSE IF req[s] # None /\ req[s].key = key THEN [req[s] EXCEPT !.alone = FALSE]
                 ELSE req[s]]
    /\ UNCHANGED <<backend, granted, hits, now>>

\* The DELETE of the rows older than the window, whatever their key, and the
\* count.  At the limit the session closes and the DELETE rolls back.
Count(r) ==
    /\ At(r, "count")
    /\ req' = [req EXCEPT ![r] =
                 IF AtLimit(req[r].key, req[r].at)
                 THEN [@ EXCEPT !.stage = "refused"]
                 ELSE [@ EXCEPT !.stage = "record",
                                !.purged = hits \ InWindow(hits, req[r].at)]]
    /\ UNCHANGED <<backend, granted, hits, now>>

\* Mutant: the hit is dated to the start of the window.
RecordAtWindowStart(r) ==
    /\ At(r, "record")
    /\ \E i \in {i \in Ids : granted[i] = None} :
        /\ granted' = [granted EXCEPT ![i] = [key |-> req[r].key, at |-> req[r].at - Window]]
        /\ hits' = (hits \ req[r].purged) \cup {i}
    /\ req' = [req EXCEPT ![r] = None]
    /\ UNCHANGED <<backend, now>>

\* The INSERT and the commit: the request passes.
Record(r) ==
    /\ At(r, "record")
    /\ \E i \in {i \in Ids : granted[i] = None} :
        /\ granted' = [granted EXCEPT ![i] = [key |-> req[r].key, at |-> req[r].at]]
        /\ hits' = (hits \ req[r].purged) \cup {i}
    /\ req' = [req EXCEPT ![r] = None]
    /\ UNCHANGED <<backend, now>>

\* The answer 429 goes out.
Refuse(r) == At(r, "refused") /\ End(r)

\* The database fails, and the request passes without a hit; or the process dies.
FailOpen(r) == (At(r, "count") \/ At(r, "record")) /\ End(r)

\* InMemoryRateLimiter: the deque is in the order of time, so popping its head
\* while stale leaves what counts.
MemoryCheck(r, key) ==
    /\ backend = "memory" /\ req[r] = None
    /\ key \in protected_routes
    /\ LET left == hits \ (GrantedTo(key) \ Counted(key, now))
       IN  IF AtLimit(key, now)
           THEN /\ hits' = left
                /\ req' = [req EXCEPT ![r] = NewRequest("refused", key)]
                /\ UNCHANGED granted
           ELSE /\ \E i \in {i \in Ids : granted[i] = None} :
                     /\ granted' = [granted EXCEPT ![i] = [key |-> key, at |-> now]]
                     /\ hits' = left \cup {i}
                /\ UNCHANGED req
    /\ UNCHANGED <<backend, now>>

\* Mutant: the retention is lost on the way.
CleanupAll ==
    /\ backend = "postgres"
    /\ hits' = {i \in hits : granted[i].at >= now}
    /\ UNCHANGED <<backend, granted, now, req>>

\* purge_old_rate_limit_hits, and the commit of its caller.
Cleanup ==
    /\ backend = "postgres"
    /\ hits' = {i \in hits : granted[i].at >= now - Retention}
    /\ UNCHANGED <<backend, granted, now, req>>

Tick ==
    /\ now < MaxTime /\ now' = now + 1
    /\ UNCHANGED <<backend, granted, hits, req>>

Next ==
    \/ Tick \/ Cleanup
    \/ \E r \in Requests :
        \/ \E key \in Routes : Start(r, key) \/ MemoryCheck(r, key)
        \/ Count(r) \/ Record(r) \/ Refuse(r) \/ FailOpen(r)

Spec == Init /\ [][Next]_vars
-----------------------------------------------------------------------------
(* Properties *)

\* Per key and window no more than Limit requests are granted from the deque.
\* From the table it may be one more for each further request that runs at the
\* same time: all count before any of them inserts.
ExcessBoundedByOverlap ==
    \A key \in Routes :
        Cardinality(InWindow(GrantedTo(key), now))
            <= IF backend = "memory" THEN Limit ELSE Limit + Cardinality(Requests) - 1

\* A request that overlapped no other on its key is granted only below the
\* limit: the purges of other keys' requests and the cleanup, running on other
\* clocks, never take a hit that still counts.
GrantedAloneBelowLimit ==
    [][\A r \in Requests :
          At(r, "record") /\ req[r].alone /\ granted' # granted /\ req'[r] = None
             => Cardinality(InWindow(GrantedTo(req[r].key), now)) < Limit]_vars

\* Nobody is refused before Limit requests on the key have been granted in the
\* window: a refused request is no hit, nor is one that was granted and rolled
\* back.
RefusedOnlyAtLimit ==
    \A r \in Requests :
        At(r, "refused") => Cardinality(InWindow(GrantedTo(req[r].key), req[r].at)) >= Limit
=============================================================================
