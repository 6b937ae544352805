--------------------------- MODULE UserLifecycle ---------------------------
(***************************************************************************)
(* The users table and Cognito's accounts: a person signs in and syncs,    *)
(* platform admins suspend, promote, demote and delete users and manage    *)
(* their accounts.  (What a deletion needs and does in memberships and     *)
(* sessions is the subject of TenantMembership and Sessions.)              *)
(*                                                                         *)
(* Each SELECT, each call to Cognito and each commit of a request is a     *)
(* step of its own (READ COMMITTED).  A flush writes the columns whose     *)
(* value differs from the one loaded.  A token names a sub and an address  *)
(* and outlives both: its holder may sync it at any later time.            *)
(***************************************************************************)
EXTENDS CognitoAccounts, Naturals, FiniteSets

CONSTANTS
    Ids,      \* primary keys users can get (bounds the insertions)
    Requests  \* request slots: how many requests run at the same time

ASSUME FiniteIds == IsFiniteSet(Ids)
ASSUME OpsKnown ==
    Ops = {"suspend", "unsuspend", "promote", "demote", "delete", "disable", "enable", "reset"}

User == [ cognito_sub : Subs, email : Emails, is_platform_admin : BOOLEAN, is_active : BOOLEAN ]

(***************************************************************************)
(* A sync has a token (sub, email).  id and was: the row it is about and   *)
(* what was loaded of it.  seen: the platform admins a demotion counted    *)
(* (the code keeps their number).                                          *)
(***************************************************************************)
Request ==
    [ op : Ops \cup {"sync"}, sub : Subs \cup {None}, email : Emails \cup {None},
      stage : {"challenge", "token", "by_email", "load", "count", "cognito", "commit"},
      id : Ids \cup {None}, was : User \cup {None}, seen : SUBSET Ids ]

ASSUME NoneIsNothing == None \notin User \cup Request \cup Ids \cup Subs \cup Emails

VARIABLES
    users,  \* the users table, by primary key
    fresh,  \* primary keys never handed out
    mixed,  \* rows that a sync has once left with the identity of one token
            \* and the address of another (a ghost)
    req     \* the request in each slot, None when the slot is free

vars == <<cognito, users, fresh, mixed, req>>

TypeOK ==
    /\ CognitoTypeOK
    /\ users \in [Ids -> User \cup {None}]
    /\ fresh \subseteq Ids
    /\ mixed \subseteq Ids
    /\ req \in [Requests -> Request \cup {None}]

-----------------------------------------------------------------------------
Live == {i \in Ids : users[i] # None}

Admins == {i \in Live : users[i].is_platform_admin}

NewUser(s, e) ==
    [ cognito_sub |-> s, email |-> e, is_platform_admin |-> FALSE, is_active |-> TRUE ]

At(r, ops, stage) == req[r] # None /\ req[r].op \in ops /\ req[r].stage = stage

\* The first platform admin is made so in the database.
Init ==
    /\ CognitoInit
    /\ users \in [Ids -> {None} \cup
                    [ cognito_sub : Subs, email : Emails, is_platform_admin : BOOLEAN,
                      is_active : {TRUE} ]]
    /\ \A i \in Live : /\ pool[users[i].email] # None
                       /\ users[i].cognito_sub = pool[users[i].email].sub
    /\ \A i, j \in Live : i # j => users[i].email # users[j].email
    /\ fresh = {i \in Ids : users[i] = None}
    /\ mixed = {}
    /\ req = [r \in Requests |-> None]

-----------------------------------------------------------------------------
Begin(r, request) ==
    /\ req[r] = None
    /\ req' = [req EXCEPT ![r] = request]
    /\ UNCHANGED <<cognito, users, fresh, mixed>>

\* An answer without a write: 400, 401, 404, or 500 after a rollback; or the
\* process dies.
End(r) ==
    /\ req' = [req EXCEPT ![r] = None]
    /\ UNCHANGED <<cognito, users, fresh, mixed>>

Abort(r) == req[r] # None /\ End(r)

\* A commit: the row written, and the request answered.
Commit(r, i, row) ==
    /\ users' = [users EXCEPT ![i] = row]
    /\ req' = [req EXCEPT ![r] = None]
    /\ UNCHANGED cognito

-----------------------------------------------------------------------------
(* Signing in and syncing *)

NewSync(s, e, stage) ==
    [ op |-> "sync", stage |-> stage, sub |-> s, email |-> e, id |-> None, was |-> None,
      seen |-> {} ]

SignIn(r, e) ==
    \/ Authenticates(e) /\ Begin(r, NewSync(pool[e].sub, e, "token"))
    \/ Challenges(e) /\ Begin(r, NewSync(pool[e].sub, e, "challenge"))

SetPassword(r) ==
    /\ At(r, {"sync"}, "challenge")
    /\ respond_to_new_password_challenge(req[r].email, req[r].sub)
    /\ req' = [req EXCEPT ![r].stage = "token"]
    /\ UNCHANGED <<users, fresh, mixed>>

\* get_user_by_cognito_sub, get_user_by_email: at most one row, both are unique.
Found(r, ids, otherwise) ==
    /\ req' = [req EXCEPT ![r] =
                 IF ids = {} THEN [@ EXCEPT !.stage = otherwise]
                 ELSE LET i == CHOOSE i \in ids : TRUE
                      IN  [@ EXCEPT !.stage = "commit", !.id = i, !.was = users[i]]]
    /\ UNCHANGED <<cognito, users, fresh, mixed>>

SyncBySub(r) ==
    /\ At(r, {"sync"}, "token")
    /\ Found(r, {i \in Live : users[i].cognito_sub = req[r].sub}, "by_email")

\* Mutant: the address is not compared.
SyncByEmailAnyRow(r) ==
    /\ At(r, {"sync"}, "by_email")
    /\ Found(r, Live, "commit")

SyncByEmail(r) ==
    /\ At(r, {"sync"}, "by_email")
    /\ Found(r, {i \in Live : users[i].email = req[r].email}, "commit")

\* Mutant: a flush writes every column.
WrittenWholeRow(me, new) == new

Unique(i, row) ==
    \A j \in Live \ {i} :
        users[j].cognito_sub # row.cognito_sub /\ users[j].email # row.email

\* What an UPDATE by primary key leaves in the row.
Written(me, new) ==
    [ column \in DOMAIN new |->
        IF new[column] # me.was[column] THEN new[column] ELSE users[me.id][column] ]

\* The INSERT of a sync that found nothing.
SyncInsert(r) ==
    /\ At(r, {"sync"}, "commit") /\ req[r].id = None
    /\ IF Unique(None, NewUser(req[r].sub, req[r].email))
       THEN \E i \in fresh :
              /\ Commit(r, i, NewUser(req[r].sub, req[r].email))
              /\ fresh' = fresh \ {i}
              /\ UNCHANGED mixed
       ELSE End(r)

\* Found by sub, the row takes the token's address; found by address, its sub.
SyncUpdate(r) ==
    /\ At(r, {"sync"}, "commit") /\ req[r].id # None
    /\ LET me  == req[r]
           row == Written(me, [me.was EXCEPT !.cognito_sub = me.sub, !.email = me.email])
       IN  IF users[me.id] # None /\ Unique(me.id, row)
           THEN /\ Commit(r, me.id, row)
                /\ mixed' = IF row.cognito_sub = me.sub /\ row.email = me.email
                            THEN mixed ELSE mixed \cup {me.id}
                /\ UNCHANGED fresh
           ELSE End(r)

-----------------------------------------------------------------------------
(* Platform admins *)

\* get_current_user, ensure_platform_admin and the checks on the target.
StartAdmin(r, op, actor, i) ==
    /\ users[actor] # None /\ users[actor].is_active /\ users[actor].is_platform_admin
    /\ op \in {"suspend", "demote", "delete"} => actor # i
    /\ i \notin fresh
    /\ Begin(r, [ op |-> op, stage |-> "load", sub |-> None, email |-> None, id |-> i,
                  was |-> None, seen |-> {} ])

\* get_user_by_id, and "Demote them first".
Load(r) ==
    /\ At(r, Ops, "load")
    /\ LET me  == req[r]
           row == users[me.id]
       IN  IF row = None \/ (me.op = "delete" /\ row.is_platform_admin)
           THEN End(r)
           ELSE /\ req' = [req EXCEPT ![r] = [me EXCEPT !.was = row, !.stage =
                             IF me.op \in {"delete", "disable", "enable", "reset"} THEN "cognito"
                             ELSE IF me.op = "demote" /\ row.is_platform_admin THEN "count"
                             ELSE "commit"]]
                /\ UNCHANGED <<cognito, users, fresh, mixed>>

\* Mutant: the last administrator passes.
CountAdminsAny(r) ==
    /\ At(r, {"demote"}, "count")
    /\ IF Admins = {}
       THEN End(r)
       ELSE /\ req' = [req EXCEPT ![r] = [@ EXCEPT !.stage = "commit", !.seen = Admins]]
            /\ UNCHANGED <<cognito, users, fresh, mixed>>

\* "Cannot remove the last platform administrator": suspended ones count.
CountAdmins(r) ==
    /\ At(r, {"demote"}, "count")
    /\ IF Cardinality(Admins) <= 1
       THEN End(r)
       ELSE /\ req' = [req EXCEPT ![r] = [@ EXCEPT !.stage = "commit", !.seen = Admins]]
            /\ UNCHANGED <<cognito, users, fresh, mixed>>

Flagged(me) ==
    CASE me.op = "suspend"   -> [me.was EXCEPT !.is_active = FALSE]
      [] me.op = "unsuspend" -> [me.was EXCEPT !.is_active = TRUE]
      [] me.op = "promote"   -> [me.was EXCEPT !.is_platform_admin = TRUE]
      [] me.op = "demote"    -> [me.was EXCEPT !.is_platform_admin = FALSE]

\* The global sign-out that follows a suspension takes refresh tokens only:
\* who has a password signs in again.
CommitFlags(r) ==
    /\ At(r, {"suspend", "unsuspend", "promote", "demote"}, "commit")
    /\ LET me == req[r]
       IN  IF users[me.id] # None
           THEN Commit(r, me.id, Written(me, Flagged(me))) /\ UNCHANGED <<fresh, mixed>>
           ELSE End(r)

\* Mutant: Cognito's refusal does not stop the deletion.
DeleteAccountUnchecked(r) ==
    /\ At(r, {"delete"}, "cognito")
    /\ UNCHANGED <<users, fresh, mixed>>
    /\ admin_delete_user(req[r].was.email) \/ UNCHANGED cognito
    /\ req' = [req EXCEPT ![r].stage = "commit"]

\* delete_user asks Cognito for the address the row had.  The answer may be
\* lost after the account is gone.
DeleteAccount(r) ==
    /\ At(r, {"delete"}, "cognito")
    /\ UNCHANGED <<users, fresh, mixed>>
    /\ admin_delete_user(req[r].was.email)
    /\ \/ req' = [req EXCEPT ![r].stage = "commit"]
       \/ req' = [req EXCEPT ![r] = None]

\* Mutant: the user is made anonymous instead.
CommitDeleteAnonymizing(r) ==
    /\ At(r, {"delete"}, "commit")
    /\ IF users[req[r].id] # None
       THEN Commit(r, req[r].id, [users[req[r].id] EXCEPT !.email = None])
            /\ UNCHANGED <<fresh, mixed>>
       ELSE End(r)

\* The row goes, whatever has become of it since it was loaded.
CommitDelete(r) ==
    /\ At(r, {"delete"}, "commit")
    /\ IF users[req[r].id] # None
       THEN Commit(r, req[r].id, None) /\ UNCHANGED <<fresh, mixed>>
       ELSE End(r)

ManageAccount(r) ==
    /\ At(r, {"disable", "enable", "reset"}, "cognito")
    /\ LET me == req[r]
           e  == me.was.email
       IN  \/ me.op = "disable" /\ admin_disable_user(e)
           \/ me.op = "enable" /\ admin_enable_user(e)
           \/ me.op = "reset" /\ admin_reset_user_password(e)
    /\ req' = [req EXCEPT ![r] = None]
    /\ UNCHANGED <<users, fresh, mixed>>

-----------------------------------------------------------------------------
Next ==
    \/ CognitoNext /\ UNCHANGED <<users, fresh, mixed, req>>
    \/ \E r \in Requests :
        \/ \E e \in deployment.emails : SignIn(r, e)
        \/ \E op \in deployment.ops, actor, i \in Ids : StartAdmin(r, op, actor, i)
        \/ SetPassword(r) \/ SyncBySub(r) \/ SyncByEmail(r) \/ SyncInsert(r) \/ SyncUpdate(r)
        \/ Load(r) \/ CountAdmins(r) \/ CommitFlags(r)
        \/ DeleteAccount(r) \/ CommitDelete(r) \/ ManageAccount(r)
        \/ Abort(r)

Spec == Init /\ [][Next]_vars
-----------------------------------------------------------------------------
(* Properties *)

\* An identity that still holds its row's address in Cognito loses the row to
\* another one only if that one's token is out of date, or if the row has
\* changed between the other's SELECT and its commit.
RowLostOnlyToOldTokenOrOverlap ==
    [][\A i \in Live :
          /\ users'[i] # None /\ users'[i].cognito_sub # users[i].cognito_sub
          /\ pool[users[i].email] # None
          /\ pool[users[i].email].sub = users[i].cognito_sub
          => \E r \in Requests :
               /\ At(r, {"sync"}, "commit") /\ req'[r] = None /\ req[r].id = i
               /\ \/ users[i] # req[r].was
                  \/ pool[req[r].email] = None
                  \/ pool[req[r].email].sub # req[r].sub]_vars

\* "while preserving at least one admin": the last platform admin is lost only
\* to a demotion whose count had changed when it committed, or to the deletion
\* of a user who was promoted after the check.
LastAdminLostOnlyByStaleCheck ==
    [][Admins # {} /\ Admins' = {} =>
          \E r \in Requests :
             /\ req[r] # None /\ req'[r] = None
             /\ \/ req[r].op = "demote" /\ req[r].seen # Admins
                \/ req[r].op = "delete" /\ ~req[r].was.is_platform_admin]_vars

\* A suspension is lifted by an unsuspension only, and admin rights come from
\* a promotion only: no sync or other request that had loaded the row before
\* undoes them.
NoFlagWrittenBack ==
    [][\A i \in Live : users'[i] # None =>
          /\ ~users[i].is_active /\ users'[i].is_active =>
               \E r \in Requests : At(r, {"unsuspend"}, "commit") /\ req[r].id = i
          /\ ~users[i].is_platform_admin /\ users'[i].is_platform_admin =>
               \E r \in Requests : At(r, {"promote"}, "commit") /\ req[r].id = i]_vars

Deletes(r) == At(r, {"delete"}, "commit") /\ req'[r] = None /\ users' # users

\* When the row goes, neither the identity that the deletion loaded nor the one
\* the row has by then is left in Cognito, whatever failed or was tried again
\* before.  It may be only if it has changed its address; if two syncs had left
\* the row with the identity of one and the address of another; or if somebody
\* who has the row's address synced into it after the deletion had loaded it.
DeletedIdentityIsGone ==
    [][\A r \in Requests : Deletes(r) =>
          LET me  == req[r]
              row == users[me.id]
          IN  \A e \in Emails :
                pool[e] # None /\ pool[e].sub \in {me.was.cognito_sub, row.cognito_sub} =>
                   \/ pool[e].sub \in moved \/ me.id \in mixed
                   \/ /\ row.cognito_sub # me.was.cognito_sub
                      /\ pool[e].sub = row.cognito_sub /\ e = row.email]_vars

\* An account with a password that nobody knows, and no way to a new one.
Stranded(e) ==
    pool[e] # None /\ pool[e].status = "FORCE_CHANGE_PASSWORD"
    /\ ~pool[e].known /\ ~pool[e].code

\* "so the frontend can present a "set your password" form": no sequence of the
\* offered operations lets the holder of an invited account in.  The account stays
\* as it is until it is deleted, unless a challenge was open when the invitation
\* replaced a temporary password that somebody knew.
StrandedUntilDeleted ==
    [][\A e \in Emails : Stranded(e) =>
          \/ Stranded(e)' \/ pool'[e] = None
          \/ \E r \in Requests : At(r, {"sync"}, "challenge") /\ req[r].email = e]_vars
=============================================================================
