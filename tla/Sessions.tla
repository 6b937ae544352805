------------------------------ MODULE Sessions ------------------------------
(***************************************************************************)
(* The sessions table: one row per login, replaced when its refresh token  *)
(* rotates, revoked one by one or all at once, deleted with the user.      *)
(*                                                                         *)
(* A request authenticates its user, selects the rows it is about, and     *)
(* writes them when it commits (READ COMMITTED); other requests take steps *)
(* in between.  A row is its user, its deadline and whether it has been    *)
(* revoked; the hash of the token and the device's description are opaque. *)
(***************************************************************************)
EXTENDS Naturals

CONSTANTS
    Users,     \* users with an account
    Ids,       \* primary keys sessions can get (bounds the insertions)
    Requests,  \* request slots: how many requests run at the same time
    MaxTime,   \* bound on the clock
    None       \* no row, no request, no deadline, no session kept

ASSUME ClockBounded == MaxTime \in Nat

Time == 0 .. MaxTime

(***************************************************************************)
(* A row, with the login it descends from: the id of the session that was  *)
(* registered first in its line of rotations (a ghost).                    *)
(***************************************************************************)
Row == [ user : Users, expires_at : Time \cup {None}, revoked : BOOLEAN, login : Ids ]

(***************************************************************************)
(* A request: the session it names (of a revoke_all, the one to keep), the *)
(* rows it selected, and the user's rows there were at the time (a ghost). *)
(***************************************************************************)
Request ==
    [ op : {"register", "rotate", "revoke", "revoke_all"}, stage : {"select", "commit"},
      user : Users, id : Ids \cup {None}, selected : SUBSET Ids, known : SUBSET Ids ]

ASSUME NoneIsNothing == None \notin Row \cup Request \cup Ids \cup Nat

VARIABLES
    rows,    \* the sessions table, by primary key
    fresh,   \* primary keys never handed out
    user,    \* users table: "live" or "deleted"
    now,     \* utc_now()
    req,     \* the request in each slot, None when the slot is free
    forked   \* logins with a rotation committed on a row revoked meanwhile

vars == <<rows, fresh, user, now, req, forked>>

TypeOK ==
    /\ rows \in [Ids -> Row \cup {None}]
    /\ fresh \subseteq Ids
    /\ user \in [Users -> {"live", "deleted"}]
    /\ now \in Time
    /\ req \in [Requests -> Request \cup {None}]
    /\ forked \subseteq Ids

-----------------------------------------------------------------------------
SessionsOf(u) == {i \in Ids : rows[i] # None /\ rows[i].user = u}

\* What list_user_sessions shows: expired sessions too.
Listed(u) == {i \in SessionsOf(u) : ~rows[i].revoked}

NotExpired(row) == row.expires_at = None \/ row.expires_at > now

\* validate_refresh_session, but for the token.
Valid(i) == rows[i] # None /\ ~rows[i].revoked /\ NotExpired(rows[i])

At(r, ops, stage) == req[r] # None /\ req[r].op \in ops /\ req[r].stage = stage

Init ==
    /\ rows = [i \in Ids |-> None]
    /\ fresh = Ids
    /\ user = [u \in Users |-> "live"]
    /\ now = 0
    /\ req = [r \in Requests |-> None]
    /\ forked = {}

-----------------------------------------------------------------------------
\* get_current_user finds the user; then the handler begins.
Start(r, op, u, id) ==
    /\ req[r] = None /\ user[u] = "live"
    /\ op \in {"rotate", "revoke"} => id # None
    /\ op = "register" => id = None
    /\ id \notin fresh
    /\ req' = [req EXCEPT ![r] =
                 [ op |-> op, stage |-> IF op = "register" THEN "commit" ELSE "select",
                   user |-> u, id |-> id, selected |-> {}, known |-> {} ]]
    /\ UNCHANGED <<rows, fresh, user, now, forked>>

\* An answer without a write: 404, a count of 0, 500 after a rollback; or the
\* process dies.
End(r) ==
    /\ req' = [req EXCEPT ![r] = None]
    /\ UNCHANGED <<rows, fresh, user, now, forked>>

Abort(r) == req[r] # None /\ End(r)

\* Mutants: revoke_all passes over expired sessions, a rotation does not.
SelectedUnexpired(me) ==
    {i \in Listed(me.user) :
        IF me.op = "revoke_all" THEN i # me.id /\ NotExpired(rows[i])
        ELSE i = me.id /\ (me.op = "rotate" => NotExpired(rows[i]))}

SelectedWhateverDeadline(me) ==
    {i \in Listed(me.user) : IF me.op = "revoke_all" THEN i # me.id ELSE i = me.id}

\* The rows of the handler's SELECT.
Selected(me) ==
    {i \in Listed(me.user) :
        IF me.op = "revoke_all" THEN i # me.id
        ELSE i = me.id /\ (me.op = "rotate" => NotExpired(rows[i]))}

\* A rotation may also end here because the old token is another one.
Select(r) ==
    /\ At(r, {"rotate", "revoke", "revoke_all"}, "select")
    /\ LET found == Selected(req[r])
       IN  \/ /\ found # {}
              /\ req' = [req EXCEPT ![r] = [@ EXCEPT !.stage = "commit", !.selected = found,
                                                     !.known = SessionsOf(req[r].user)]]
              /\ UNCHANGED <<rows, fresh, user, now, forked>>
           \/ /\ found = {} \/ req[r].op = "rotate"
              /\ End(r)

NewRow(u, expires_at, login) ==
    [ user |-> u, expires_at |-> expires_at, revoked |-> FALSE, login |-> login ]

\* Mutant: no foreign key.
CommitRegisterUnchecked(r) ==
    /\ At(r, {"register"}, "commit")
    /\ \E i \in fresh, expires_at \in Time \cup {None} :
         /\ rows' = [rows EXCEPT ![i] = NewRow(req[r].user, expires_at, i)]
         /\ fresh' = fresh \ {i}
    /\ req' = [req EXCEPT ![r] = None]
    /\ UNCHANGED <<user, now, forked>>

\* create_user_session.  The INSERT needs the user (foreign key).
CommitRegister(r) ==
    /\ At(r, {"register"}, "commit")
    /\ IF user[req[r].user] = "live"
       THEN /\ \E i \in fresh, expires_at \in Time \cup {None} :
                 /\ rows' = [rows EXCEPT ![i] = NewRow(req[r].user, expires_at, i)]
                 /\ fresh' = fresh \ {i}
            /\ req' = [req EXCEPT ![r] = None]
            /\ UNCHANGED <<user, now, forked>>
       ELSE End(r)

\* Mutant: the rotated session is not revoked.
RotatedKeepingOld(old, i, new) == [rows EXCEPT ![i] = new]

\* The old row revoked, the new one inserted.
Rotated(old, i, new) == [rows EXCEPT ![old].revoked = TRUE, ![i] = new]

\* rotate_user_session writes: the replacement keeps the deadline unless the
\* client names one.  A selected row deleted meanwhile raises StaleDataError.
CommitRotate(r) ==
    /\ At(r, {"rotate"}, "commit")
    /\ LET old == req[r].id
       IN  IF rows[old] # None
           THEN /\ \E i \in fresh, expires_at \in Time \cup {rows[old].expires_at} :
                     /\ rows' = Rotated(old, i, NewRow(req[r].user, expires_at, rows[old].login))
                     /\ fresh' = fresh \ {i}
                /\ forked' = IF rows[old].revoked THEN forked \cup {rows[old].login}
                             ELSE forked
                /\ req' = [req EXCEPT ![r] = None]
                /\ UNCHANGED <<user, now>>
           ELSE End(r)

CommitRevoke(r) ==
    /\ At(r, {"revoke", "revoke_all"}, "commit")
    /\ LET selected == req[r].selected
       IN  IF \A i \in selected : rows[i] # None
           THEN /\ rows' = [i \in Ids |-> IF i \in selected
                                          THEN [rows[i] EXCEPT !.revoked = TRUE] ELSE rows[i]]
                /\ req' = [req EXCEPT ![r] = None]
                /\ UNCHANGED <<fresh, user, now, forked>>
           ELSE End(r)

\* Mutant: ON DELETE SET NULL in place of the deletion.
DeleteUserNullifying(u) ==
    /\ user[u] = "live"
    /\ rows' = [i \in Ids |-> IF i \in SessionsOf(u)
                              THEN [rows[i] EXCEPT !.user = None] ELSE rows[i]]
    /\ user' = [user EXCEPT ![u] = "deleted"]
    /\ UNCHANGED <<fresh, now, req, forked>>

\* delete_user: the sessions go, and the user in the same transaction.
DeleteUser(u) ==
    /\ user[u] = "live"
    /\ rows' = [i \in Ids |-> IF i \in SessionsOf(u) THEN None ELSE rows[i]]
    /\ user' = [user EXCEPT ![u] = "deleted"]
    /\ UNCHANGED <<fresh, now, req, forked>>

Tick ==
    /\ now < MaxTime /\ now' = now + 1
    /\ UNCHANGED <<rows, fresh, user, req, forked>>

Next ==
    \/ Tick
    \/ \E u \in Users : DeleteUser(u)
    \/ \E r \in Requests :
        \/ \E op \in {"register", "rotate", "revoke", "revoke_all"},
              u \in Users, id \in Ids \cup {None} : Start(r, op, u, id)
        \/ Select(r) \/ CommitRegister(r) \/ CommitRotate(r) \/ CommitRevoke(r)
        \/ Abort(r)

Spec == Init /\ [][Next]_vars
-----------------------------------------------------------------------------
(* Properties *)

\* delete_user leaves no session, and none of a registration or rotation that
\* was in flight appears afterwards.
DeletedUserHasNoSession ==
    \A i \in Ids : rows[i] # None => user[rows[i].user] = "live"

\* "Rotate refresh token by revoking old session and creating a replacement":
\* a login has at most one session that is not revoked, whatever rotations,
\* revocations and logins interleave, unless a rotation committed on a row that
\* had been revoked since it validated it.
LoginForksOnlyByOverlap ==
    \A i, j \in Ids :
        /\ i # j /\ rows[i] # None /\ rows[j] # None
        /\ ~rows[i].revoked /\ ~rows[j].revoked
        => rows[i].login # rows[j].login \/ rows[i].login \in forked

\* No session of the login is good any more, and no rotation of one is past
\* its validation.
Over(login) ==
    /\ \A i \in Ids : Valid(i) => rows[i].login # login
    /\ \A r \in Requests : At(r, {"rotate"}, "commit") =>
          rows[req[r].id] = None \/ rows[req[r].id].login # login

\* A login that is over stays over: its sessions revoked, expired or deleted,
\* nobody who still holds one of its tokens gets a session from it.
LoginOverForGood ==
    [][\A l \in Ids \ fresh : Over(l) => Over(l)']_vars

\* revoke_all_user_sessions misses nothing but the session to be kept and what
\* came after its SELECT, be it a new login or the successor of a session it
\* revoked.  (The browser's logout asks to keep the session it ends.)
RevokeAllMissesOnlyNewer ==
    [][\A r \in Requests :
          At(r, {"revoke_all"}, "commit") /\ req'[r] = None /\ rows' # rows
             => \A i \in req[r].known \ {req[r].id} :
                   rows'[i] = None \/ rows'[i].revoked]_vars
=============================================================================
