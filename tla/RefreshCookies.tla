--------------------------- MODULE RefreshCookies ---------------------------
(***************************************************************************)
(* The refresh_tokens table and the browsers' cookies that name its rows:  *)
(* storing a refresh token at login, exchanging it at Cognito and rotating *)
(* the row, clearing it at logout, the purges of expired rows.             *)
(*                                                                         *)
(* A browser has one cookie jar for all its tabs, so several requests may  *)
(* carry the same cookie; their replies arrive in any order or not at all. *)
(* A handler reads and writes in steps.  A DELETE of several rows takes    *)
(* their locks one by one, in any order, and keeps those it has while it   *)
(* waits for the next; rows its transaction has deleted stay visible to    *)
(* others, and locked, until it commits.  A row is its key and deadline,   *)
(* and the token in it is opaque.  Time is in ticks.                       *)
(***************************************************************************)
EXTENDS Naturals, FiniteSets

CONSTANTS
    Browsers,   \* cookie jars
    Keys,       \* values token_urlsafe can draw (bounds logins and rotations)
    Requests,   \* request slots: how many requests run at the same time
    MaxAge,     \* COOKIE_MAX_AGE, in ticks
    MaxTime,    \* bound on the clock
    None        \* no cookie, no request

ASSUME Ages == MaxAge \in Nat \ {0} /\ MaxTime \in Nat
ASSUME NoneIsNoKey == None \notin Keys

VARIABLES
    stored,      \* keys of the rows in refresh_tokens
    expires_at,  \* the deadline of every key ever stored, 0 for the others
    now,         \* _utc_now()
    cookie,      \* per browser the refresh cookie, None when there is none
    csrf,        \* whether the browser has the CSRF cookie
    wide,        \* whether AUTH_COOKIE_PATH covers /cookie as well as /token
    req,         \* the request in each slot, None when the slot is free
    spent,       \* whether Cognito has replaced the token of the browser's cookie
    lost         \* whether a request with that cookie took effect and failed

db == <<stored, expires_at>>
jars == <<cookie, csrf, wide>>
vars == <<db, now, jars, req, spent, lost>>

Time == 0 .. MaxTime
Deadlines == 0 .. MaxTime + MaxAge

(***************************************************************************)
(* A request in flight, or a run of the cleanup: the browser, the key its  *)
(* cookie carried, the key it has stored itself and that key's deadline,   *)
(* the rows its open transaction has deleted, and those its DELETE has yet *)
(* to lock.  A stage names the step that comes next.                       *)
(***************************************************************************)
Ops == {"store", "refresh", "clear", "cleanup"}

StagesOf(op) ==
    CASE op = "store"   -> {"store", "insert", "reply"}
      [] op = "refresh" -> {"load", "select", "cognito", "store", "insert", "delete", "reply"}
      [] op = "clear"   -> {"delete", "reply"}
      [] op = "cleanup" -> {"commit"}

Stages == {"load", "select", "cognito", "store", "insert", "delete", "reply", "commit"}

Request ==
    [ op : Ops, stage : Stages, browser : Browsers \cup {None},
      key : Keys \cup {None}, new : Keys \cup {None}, due : Deadlines,
      todo : SUBSET Keys, locked : SUBSET Keys ]

ASSUME NoneIsNoRequest == None \notin Request

TypeOK ==
    /\ stored \subseteq Keys
    /\ expires_at \in [Keys -> Deadlines]
    /\ now \in Time
    /\ cookie \in [Browsers -> Keys \cup {None}]
    /\ csrf \in [Browsers -> BOOLEAN]
    /\ wide \in BOOLEAN
    /\ req \in [Requests -> Request \cup {None}]
    /\ spent \in [Browsers -> BOOLEAN]
    /\ lost \in [Browsers -> BOOLEAN]
    /\ \A r \in Requests : req[r] # None => req[r].stage \in StagesOf(req[r].op)

-----------------------------------------------------------------------------
Expired == {k \in stored : expires_at[k] <= now}

Fresh == {k \in Keys : expires_at[k] = 0}

\* The mark on a request's browser, if its cookie is still the one that came.
Mark(marks, q) ==
    [b \in Browsers |-> marks[b] \/ (q.browser = b /\ q.key # None /\ cookie[b] = q.key)]

Active == {r \in Requests : req[r] # None}

\* Rows another transaction has deleted and not committed: a DELETE waits.
LockedByOthers(r) == UNION {req[s].locked : s \in Active \ {r}}

At(r, ops, stage) == req[r] # None /\ req[r].op \in ops /\ req[r].stage = stage

Init ==
    /\ stored = {}
    /\ expires_at = [k \in Keys |-> 0]
    /\ now = 0
    /\ cookie = [b \in Browsers |-> None]
    /\ csrf = [b \in Browsers |-> FALSE]
    /\ wide \in BOOLEAN
    /\ req = [r \in Requests |-> None]
    /\ spent = [b \in Browsers |-> FALSE]
    /\ lost = [b \in Browsers |-> FALSE]

-----------------------------------------------------------------------------
(* What the browser sends, and the clean-up a platform admin asks for *)

Begin(r, op, stage, b, key, todo) ==
    /\ req[r] = None
    /\ req' = [req EXCEPT ![r] =
                 [op |-> op, stage |-> stage, browser |-> b, key |-> key,
                  new |-> None, due |-> 0, todo |-> todo, locked |-> {}]]
    /\ UNCHANGED <<db, now, jars, spent, lost>>

\* After a login; whatever cookie the browser already has plays no part.
StartStore(r, b) == Begin(r, "store", "store", b, None, {})

\* Without the cookie or the CSRF pair the endpoint answers 401 or 403.
StartRefresh(r, b) ==
    /\ csrf[b] /\ cookie[b] # None
    /\ Begin(r, "refresh", "load", b, cookie[b], {})

\* The cookie only goes to paths below its own: by default /token, and then
\* /cookie/clear-refresh sees none and revoke_refresh_token returns at once.
StartClear(r, b) ==
    LET key == IF wide THEN cookie[b] ELSE None
    IN  Begin(r, "clear", IF key = None THEN "reply" ELSE "delete", b, key, {})

\* The cleanup, whose comparison is strict.
purge_expired_refresh_tokens(r) ==
    Begin(r, "cleanup", "commit", None, None, {k \in stored : expires_at[k] < now})

-----------------------------------------------------------------------------
(* What the server does *)

\* The handler answers without a Set-Cookie, or its process dies: what it has
\* not committed rolls back.
End(r) ==
    /\ req' = [req EXCEPT ![r] = None]
    /\ UNCHANGED <<db, now, jars, spent, lost>>

\* Cognito has spent the token of the key the request came with.
PastCognito(q) == q.op = "refresh" /\ q.stage \in {"store", "insert", "delete"}

\* At any point an error or a crash, a statement that PostgreSQL cancels.
Abort(r) ==
    /\ req[r] # None /\ req[r].stage # "reply"
    /\ req' = [req EXCEPT ![r] = None]
    /\ lost' = IF PastCognito(req[r]) THEN Mark(lost, req[r]) ELSE lost
    /\ UNCHANGED <<db, now, jars, spent>>

\* _purge_expired_tokens, at the start of get_refresh_token and, once the new
\* deadline is computed, of store_refresh_token: one DELETE, which does not see
\* the rows its own transaction has deleted before.
PurgeExpired(r) ==
    /\ \/ At(r, {"refresh"}, "load")
       \/ At(r, {"store", "refresh"}, "store")
    /\ LET me == req[r]
       IN  req' = [req EXCEPT ![r] =
              [me EXCEPT !.todo  = Expired \ me.locked,
                         !.due   = IF me.stage = "load" THEN 0 ELSE now + MaxAge,
                         !.stage = IF me.stage = "load" THEN "select" ELSE "insert"]]
    /\ UNCHANGED <<db, now, jars, spent, lost>>

\* A DELETE locks its next row, and waits while another one holds it; if that
\* one commits, the row is gone and there is nothing to lock.
LockRow(r) ==
    /\ req[r] # None
    /\ \E k \in req[r].todo \ LockedByOthers(r) :
          LET me == req[r]
          IN  req' = [req EXCEPT ![r] =
                 [me EXCEPT !.todo   = me.todo \ {k},
                            !.locked = me.locked \cup ({k} \cap stored)]]
    /\ UNCHANGED <<db, now, jars, spent, lost>>

\* The rest of get_refresh_token: the row, or a 401.  Nobody commits the purge.
LoadToken(r) ==
    /\ At(r, {"refresh"}, "select") /\ req[r].todo = {}
    /\ \/ /\ req[r].key \in stored \ req[r].locked
          /\ req' = [req EXCEPT ![r].stage = "cognito"]
          /\ UNCHANGED <<db, now, jars, spent, lost>>
       \/ /\ req[r].key \notin stored \ req[r].locked
          /\ End(r)

\* A new refresh token, which replaces the one that was sent; the answer may be
\* lost, and a timeout then ends the request.
Exchanged(r) ==
    /\ \/ /\ req' = [req EXCEPT ![r].stage = "store"]
          /\ UNCHANGED lost
       \/ /\ req' = [req EXCEPT ![r] = None]
          /\ lost' = Mark(lost, req[r])
    /\ spent' = Mark(spent, req[r])
    /\ UNCHANGED <<db, now, jars>>

\* Mutants: a refused exchange takes the row with it; or is tried again.
CallCognitoOrDelete(r) ==
    /\ At(r, {"refresh"}, "cognito")
    /\ \/ Exchanged(r)
       \/ /\ req' = [req EXCEPT ![r] = None]
          /\ stored' = stored \ {req[r].key}
          /\ UNCHANGED <<expires_at, now, jars, spent, lost>>

CallCognitoAgain(r) ==
    /\ At(r, {"refresh"}, "cognito")
    /\ \/ Exchanged(r)
       \/ /\ req' = [req EXCEPT ![r].stage = "load"]
          /\ UNCHANGED <<db, now, jars, spent, lost>>

\* call_cognito_refresh_async: an exchange; or access tokens alone, an error or
\* a timeout, and the request ends with its row as it was.  A token already
\* replaced may still be accepted.
CallCognito(r) ==
    /\ At(r, {"refresh"}, "cognito")
    /\ Exchanged(r) \/ End(r)

\* Mutant: a login goes on to delete, as a rotation does.
StoreTokenThenDelete(r) ==
    /\ At(r, {"store", "refresh"}, "insert") /\ req[r].todo = {}
    /\ \E k \in Fresh :
        /\ stored' = (stored \ req[r].locked) \cup {k}
        /\ expires_at' = [expires_at EXCEPT ![k] = req[r].due]
        /\ req' = [req EXCEPT ![r] =
                     [@ EXCEPT !.stage = "delete", !.new = k, !.due = 0, !.locked = {}]]
    /\ UNCHANGED <<now, jars, spent, lost>>

\* The rest of store_refresh_token: insert and commit, the purge included.
StoreToken(r) ==
    /\ At(r, {"store", "refresh"}, "insert") /\ req[r].todo = {}
    /\ \E k \in Fresh :
        /\ stored' = (stored \ req[r].locked) \cup {k}
        /\ expires_at' = [expires_at EXCEPT ![k] = req[r].due]
        /\ req' = [req EXCEPT ![r] =
                     [@ EXCEPT !.stage = IF req[r].op = "store" THEN "reply" ELSE "delete",
                               !.new = k, !.due = 0, !.locked = {}]]
    /\ UNCHANGED <<now, jars, spent, lost>>

\* Mutant: only revoke_refresh_token deletes, a rotation keeps the old row.
DeleteRevokedOnly(r) ==
    /\ At(r, {"refresh", "clear"}, "delete")
    /\ req[r].key \notin LockedByOthers(r)
    /\ stored' = IF req[r].op = "clear" THEN stored \ {req[r].key} ELSE stored
    /\ req' = [req EXCEPT ![r].stage = "reply"]
    /\ UNCHANGED <<expires_at, now, jars, spent, lost>>

\* The second half of rotate_refresh_token, and revoke_refresh_token: the row
\* of the key the request carried goes, in a commit of its own.
DeleteToken(r) ==
    /\ At(r, {"refresh", "clear"}, "delete")
    /\ req[r].key \notin LockedByOthers(r)
    /\ stored' = stored \ {req[r].key}
    /\ req' = [req EXCEPT ![r].stage = "reply"]
    /\ UNCHANGED <<expires_at, now, jars, spent, lost>>

\* trigger_cleanup commits what run_cleanup has deleted.
CommitCleanup(r) ==
    /\ At(r, {"cleanup"}, "commit") /\ req[r].todo = {}
    /\ stored' = stored \ req[r].locked
    /\ req' = [req EXCEPT ![r] = None]
    /\ UNCHANGED <<expires_at, now, jars, spent, lost>>

-----------------------------------------------------------------------------
(* What comes back *)

\* The reply sets or expires the cookies of its browser, whatever they are by
\* now; only a login sets the CSRF cookie, only a logout expires it.  Nobody
\* has used a new key before.
Deliver(r) ==
    /\ At(r, {"store", "refresh", "clear"}, "reply")
    /\ cookie' = [cookie EXCEPT ![req[r].browser] = req[r].new]
    /\ spent' = [spent EXCEPT ![req[r].browser] = FALSE]
    /\ lost' = [lost EXCEPT ![req[r].browser] = FALSE]
    /\ csrf' = [csrf EXCEPT ![req[r].browser] =
                  CASE req[r].op = "store"   -> TRUE
                    [] req[r].op = "clear"   -> FALSE
                    [] req[r].op = "refresh" -> @]
    /\ req' = [req EXCEPT ![r] = None]
    /\ UNCHANGED <<db, now, wide>>

\* The connection drops after the last commit.
LoseReply(r) ==
    /\ At(r, {"store", "refresh", "clear"}, "reply")
    /\ req' = [req EXCEPT ![r] = None]
    /\ lost' = Mark(lost, req[r])
    /\ UNCHANGED <<db, now, jars, spent>>

Tick ==
    /\ now < MaxTime
    /\ now' = now + 1
    /\ UNCHANGED <<db, jars, req, spent, lost>>

-----------------------------------------------------------------------------
Begins(r) ==
    \/ \E b \in Browsers : StartStore(r, b) \/ StartRefresh(r, b) \/ StartClear(r, b)
    \/ purge_expired_refresh_tokens(r)

Serve(r) ==
    \/ PurgeExpired(r) \/ LockRow(r) \/ LoadToken(r) \/ CallCognito(r)
    \/ StoreToken(r) \/ DeleteToken(r) \/ CommitCleanup(r)

Answer(r) == Deliver(r) \/ LoseReply(r)

Next ==
    \/ \E r \in Requests : Begins(r) \/ Serve(r) \/ Answer(r) \/ Abort(r)
    \/ Tick

Spec == Init /\ [][Next]_vars

(***************************************************************************)
(* PostgreSQL cancels a statement of a deadlock: of transactions each of   *)
(* which waits for rows that only others among them hold.  A row's waiters *)
(* queue up, so one that can go on again and again does go on (SF).        *)
(***************************************************************************)
Deadlocked(r) ==
    \E S \in SUBSET Active :
        /\ r \in S
        /\ \A s \in S : /\ req[s].todo # {}
                        /\ \A k \in req[s].todo : \E h \in S \ {s} : k \in req[h].locked

BreakDeadlock == \E r \in Requests : Deadlocked(r) /\ Abort(r)

FairSpec ==
    /\ Spec
    /\ \A r \in Requests : SF_vars(Serve(r)) /\ WF_vars(Answer(r))
    /\ WF_vars(BreakDeadlock)
-----------------------------------------------------------------------------
(* Properties *)

\* A refresh that fails before Cognito has replaced its token costs nothing.
\* Its cookie names a row with a token that still counts, unless its time is
\* over, or a request of that browser that came with it has taken effect, at
\* Cognito or in the store, and has yet to reply or failed to.
LoginSurvivesRotation ==
    \A b \in Browsers : cookie[b] # None /\ (cookie[b] \notin stored \/ spent[b]) =>
        \/ expires_at[cookie[b]] <= now
        \/ lost[b]
        \/ \E r \in Active :
              /\ req[r].browser = b /\ req[r].key = cookie[b]
              /\ PastCognito(req[r]) \/ req[r].stage = "reply"

\* A row a browser can still come by.
Reachable(k) ==
    \/ \E b \in Browsers : cookie[b] = k
    \/ \E r \in Requests : req[r] # None /\ req[r].new = k

\* A row that no browser can name stays usable for 30 days.  It comes about
\* only when a request fails between storing the key and delivering it, when a
\* login replaces the cookie of an earlier one, or when a reply replaces or
\* expires a cookie its own request did not carry: two refreshes or a refresh
\* and a logout overlapped, or the logout was not sent the cookie.
OrphanedOnlyByOverlapOrLoss ==
    [][\A k \in stored \cap stored' : Reachable(k) /\ ~ Reachable(k)' =>
          \E r \in Requests :
             /\ req[r] # None /\ req'[r] = None
             /\ \/ req[r].new = k
                \/ req[r].op = "store"
                \/ /\ At(r, {"refresh", "clear"}, "reply")
                   /\ cookie[req[r].browser] = k /\ req[r].key # k]_vars

\* Purges that lock rows in different orders may wait for each other, and for a
\* refresh that waits for Cognito.  Every request and every clean-up ends all the
\* same, as long as there is a key to draw: none waits for ever.
EveryRequestEnds ==
    \A r \in Requests : req[r] # None ~> (req[r] = None \/ Fresh = {})

\* Logout: "Clear HttpOnly refresh cookie server-side".  When the reply of a
\* clear-refresh takes a cookie from the browser, its row is gone.
ClearedIsRevoked ==
    [][\A r \in Requests :
          At(r, {"clear"}, "reply") /\ req'[r] = None /\ cookie' # cookie
             => cookie[req[r].browser] \notin stored]_vars
=============================================================================
