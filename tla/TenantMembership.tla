-------------------------- MODULE TenantMembership --------------------------
(***************************************************************************)
(* The account-scoped rows of the memberships table and every request that *)
(* writes them: creating and deleting a tenant, changing a role, removing  *)
(* and reactivating a member, accepting an invitation, deleting a user.    *)
(*                                                                         *)
(* One AsyncSession per request, READ COMMITTED: each SELECT of a handler  *)
(* is a step that reads the rows committed at that moment, and what the    *)
(* handler writes appears at once when it commits.  Between two steps of a *)
(* request any other request may take steps of its own.                    *)
(***************************************************************************)
EXTENDS AuthConfig, Naturals, FiniteSets

CONSTANTS
    Users,        \* rows of the users table that may hold memberships
    Admins,       \* accounts with is_platform_admin (some Users may be among them)
    Tenants,      \* ids of accounts: existing, yet to be created, or never one's
    RowIds,       \* primary keys memberships can get (bounds the insertions)
    Requests,     \* request slots: how many requests run at the same time
    PatchRoles,   \* roles a PATCH .../role body asks for
    InviteRoles,  \* target roles of the invitations being accepted
    NoRow         \* no row, no request

ASSUME RowIdsFinite == IsFiniteSet(RowIds)
ASSUME RolesKnown == /\ PatchRoles \subseteq LegacyRoles
                     /\ InviteRoles \subseteq RoleNames

Status == {"active", "removed"}
Row == [user : Users, tenant : Tenants, role : RoleNames, status : Status]

ASSUME NoRowFresh == NoRow \notin Row /\ NoRow \notin RowIds

VARIABLES
    rows,     \* the memberships table, by primary key
    fresh,    \* primary keys never handed out
    user,     \* users table: "live" or "deleted"
    tenant,   \* tenants table: "new" (not yet created), "live" or "deleted" (no row)
    req       \* the request in each slot, NoRow when the slot is free

vars == <<rows, fresh, user, tenant, req>>

Ops    == {"patch", "remove", "reactivate", "accept", "delete_user", "delete_tenant"}
Stages == {"load", "count", "cognito", "commit"}

(***************************************************************************)
(* A request in flight: its parameters (op, user, tenant, role, actor),    *)
(* where it stands, and what it read so far: the membership it loaded      *)
(* (row, was), the owner rows of the user being deleted (owned), the       *)
(* tenants whose owners are still to count (todo), the owner rows of each  *)
(* tenant counted (seen; the code keeps their number), and the rows a      *)
(* tenant deletion has locked (locked).  The tenant of an acceptance is    *)
(* the invitation's target scope, which its sender names freely; home is   *)
(* the tenant the invitation belongs to.  A ghost for the properties,      *)
(* known, holds the keys handed out when an acceptance looked for its      *)
(* user's membership or a deletion for those of its tenant.                *)
(***************************************************************************)
Request ==
    [ op : Ops, stage : Stages, user : Users \cup {NoRow}, tenant : Tenants \cup {NoRow},
      home : Tenants \cup {NoRow}, role : RoleNames \cup {"none"}, actor : RoleNames \cup {"none", "super"},
      row : RowIds \cup {NoRow}, was : Row \cup {NoRow},
      owned : SUBSET RowIds, todo : SUBSET Tenants,
      seen : [Tenants -> SUBSET RowIds], locked : SUBSET RowIds, known : SUBSET RowIds ]

ASSUME NoRowNoRequest == NoRow \notin Request

TypeOK ==
    /\ rows \in [RowIds -> Row \cup {NoRow}]
    /\ fresh \subseteq RowIds
    /\ user \in [Users -> {"live", "deleted"}]
    /\ tenant \in [Tenants -> {"new", "live", "deleted"}]
    /\ req \in [Requests -> Request \cup {NoRow}]

-----------------------------------------------------------------------------
(* Queries *)

Live == {i \in RowIds : rows[i] # NoRow}

RowsOf(u, t) == {i \in Live : rows[i].user = u /\ rows[i].tenant = t}

WithStatus(ids, s) == {i \in ids : rows[i].status = s}

IsOwner(row) == row # NoRow /\ row.status = "active" /\ row.role \in OwnerRoles

\* The rows `select count(*) ... role_name in ('account_owner','owner')` counts.
Owners(t) == {i \in Live : rows[i].tenant = t /\ IsOwner(rows[i])}

OwnerRowsOf(u) == {i \in Live : rows[i].user = u /\ IsOwner(rows[i])}

\* Rows deleted by a transaction that has not committed: a write to one waits.
LockedRows ==
    {i \in RowIds : \E r \in Requests :
        /\ req[r] # NoRow
        /\ req[r].stage = "commit"
        /\ i \in req[r].locked}

\* The constraint unique_user_role_scope.
UniqueRow(ids, u, t, role) ==
    \A i \in ids : rows[i] # NoRow =>
        ~ (rows[i].user = u /\ rows[i].tenant = t /\ rows[i].role = role)

-----------------------------------------------------------------------------
(* Starting, ending and losing a request *)

NewRequest(op, u, home, t, role, actor) ==
    [ op |-> op, stage |-> "load", user |-> u, tenant |-> t, home |-> home,
      role |-> role, actor |-> actor, row |-> NoRow, was |-> NoRow, owned |-> {},
      todo |-> {}, seen |-> [x \in Tenants |-> {}], locked |-> {}, known |-> {} ]

Start(r, request) ==
    /\ req[r] = NoRow
    /\ req' = [req EXCEPT ![r] = request]
    /\ UNCHANGED <<rows, fresh, user, tenant>>

\* The handler answers without writing: 400, 404, or 500 after a rollback.
End(r) ==
    /\ req' = [req EXCEPT ![r] = NoRow]
    /\ UNCHANGED <<rows, fresh, user, tenant>>

At(r, ops, stage) ==
    /\ req[r] # NoRow
    /\ req[r].op \in ops
    /\ req[r].stage = stage

\* The process dies or the connection drops: an open transaction rolls back.
Abort(r) == req[r] # NoRow /\ End(r)

\* get_scope_context + require_permission("members:manage") on tenant t:
\* "super", or the name of the first role found.  The memberships come
\* unordered, so with two active rows either may be the first.
ActorRoles(a, t) ==
    IF a \in Admins THEN {"super"}
    ELSE LET roles == {rows[i].role : i \in WithStatus(RowsOf(a, t), "active")}
         IN  IF \E role \in roles : "members:manage" \in permissions_for_role(role)
             THEN roles ELSE {}

Init ==
    /\ rows = [i \in RowIds |-> NoRow]
    /\ fresh = RowIds
    /\ user = [u \in Users |-> "live"]
    /\ tenant \in [Tenants -> {"new", "deleted"}]
    /\ req = [r \in Requests |-> NoRow]

-----------------------------------------------------------------------------
(* Tenants *)

\* create_tenant: the tenant and its owner's membership in one transaction, a
\* request that reads nothing and so takes its slot for one step only.
CreateTenant(u, t) ==
    /\ \E r \in Requests : req[r] = NoRow
    /\ user[u] = "live"
    /\ tenant[t] = "new"
    /\ \E i \in fresh :
        /\ rows' = [rows EXCEPT ![i] = [user |-> u, tenant |-> t,
                                        role |-> "account_owner", status |-> "active"]]
        /\ fresh' = fresh \ {i}
    /\ tenant' = [tenant EXCEPT ![t] = "live"]
    /\ UNCHANGED <<user, req>>

StartDeleteTenant(r, a, t) ==
    /\ a \in Admins
    /\ tenant[t] = "live"
    /\ Start(r, NewRequest("delete_tenant", NoRow, NoRow, t, "none", "super"))

\* Mutant: the DELETE takes the active memberships only.
DeleteActiveMemberships(r) ==
    /\ At(r, {"delete_tenant"}, "load")
    /\ LET doomed == WithStatus({i \in Live : rows[i].tenant = req[r].tenant}, "active")
       IN  /\ doomed \cap LockedRows = {}
           /\ req' = [req EXCEPT ![r].stage = "commit", ![r].locked = doomed,
                                 ![r].known = RowIds \ fresh]
    /\ UNCHANGED <<rows, fresh, user, tenant>>

\* DELETE FROM memberships: locks the rows it finds, shows nothing yet.
DeleteTenantMemberships(r) ==
    /\ At(r, {"delete_tenant"}, "load")
    /\ LET doomed == {i \in Live : rows[i].tenant = req[r].tenant}
       IN  /\ doomed \cap LockedRows = {}
           /\ req' = [req EXCEPT ![r].stage = "commit", ![r].locked = doomed,
                                 ![r].known = RowIds \ fresh]
    /\ UNCHANGED <<rows, fresh, user, tenant>>

\* Invitations and the tenant go last, then the commit shows everything.
CommitDeleteTenant(r) ==
    /\ At(r, {"delete_tenant"}, "commit")
    /\ rows' = [i \in RowIds |-> IF i \in req[r].locked THEN NoRow ELSE rows[i]]
    /\ tenant' = [tenant EXCEPT ![req[r].tenant] = "deleted"]
    /\ req' = [req EXCEPT ![r] = NoRow]
    /\ UNCHANGED <<fresh, user>>

-----------------------------------------------------------------------------
(* Changing a role, removing and reactivating a member *)

StartManage(r, a, op, u, t, role) ==
    /\ a \in Users => user[a] = "live"
    /\ tenant[t] # "new"
    /\ op = "patch" <=> role # "none"
    /\ \E actor \in ActorRoles(a, t) :
        Start(r, NewRequest(op, u, NoRow, t, role, IF op = "patch" THEN actor ELSE "none"))

\* The checks on the actor in update_user_role.
RoleChangeRefused(actor, current, new) ==
    /\ actor # "super"
    /\ \/ new \in OwnerRoles /\ actor \notin OwnerRoles
       \/ actor \in AdminRoles /\ (current \in OwnerRoles \/ new \in AdminRoles)

\* Mutant: a removal does not count the owners.
GivesUpOwnershipByPatch(request, current) ==
    /\ current \in OwnerRoles
    /\ request.op = "patch" /\ request.role \notin OwnerRoles

\* Whether the handler counts the owners before it writes.
GivesUpOwnership(request, current) ==
    /\ current \in OwnerRoles
    /\ \/ request.op = "remove"
       \/ request.op = "patch" /\ request.role \notin OwnerRoles

\* The SELECT of the target membership and the checks that follow it; two
\* matching rows raise MultipleResultsFound, none is a 404.
LoadTarget(r) ==
    /\ At(r, {"patch", "remove", "reactivate"}, "load")
    /\ LET me    == req[r]
           found == WithStatus(RowsOf(me.user, me.tenant),
                               IF me.op = "reactivate" THEN "removed" ELSE "active")
       IN  IF /\ Cardinality(found) = 1
              /\ \A i \in found :
                    ~ (me.op = "patch" /\ RoleChangeRefused(me.actor, rows[i].role, me.role))
           THEN \E i \in found :
                 LET counts == GivesUpOwnership(me, rows[i].role)
                 IN  /\ req' = [req EXCEPT
                          ![r] = [@ EXCEPT !.row = i, !.was = rows[i],
                                    !.todo = IF counts THEN {me.tenant} ELSE {},
                                    !.stage = IF counts THEN "count" ELSE "commit"]]
                     /\ UNCHANGED <<rows, fresh, user, tenant>>
           ELSE End(r)

\* One SELECT count(*) of active owners; the last owner stops the request.
CountOwners(r) ==
    /\ At(r, {"patch", "remove", "delete_user"}, "count")
    /\ \E t \in req[r].todo :
        IF Cardinality(Owners(t)) <= 1
        THEN End(r)
        ELSE LET left == req[r].todo \ {t}
             IN  /\ req' = [req EXCEPT
                       ![r] = [@ EXCEPT !.seen[t] = Owners(t), !.todo = left,
                                 !.stage = IF left # {} THEN "count"
                                           ELSE IF req[r].op = "delete_user" THEN "cognito"
                                           ELSE "commit"]]
                 /\ UNCHANGED <<rows, fresh, user, tenant>>

\* What an UPDATE by primary key leaves in the row: only the columns whose
\* value differs from the one loaded are written.
Written(request, new) ==
    [rows[request.row] EXCEPT
        !.role   = IF new.role # request.was.role THEN new.role ELSE @,
        !.status = IF new.status # request.was.status THEN new.status ELSE @]

\* The flush and commit.  A row deleted meanwhile raises StaleDataError, a
\* role the user already has in another row breaks unique_user_role_scope.
UpdateRow(r, new) ==
    LET i == req[r].row
    IN  /\ i \notin LockedRows
        /\ IF /\ rows[i] # NoRow
              /\ new.role # req[r].was.role =>
                    UniqueRow(RowIds \ {i}, new.user, new.tenant, new.role)
           THEN /\ rows' = [rows EXCEPT ![i] = Written(req[r], new)]
                /\ req' = [req EXCEPT ![r] = NoRow]
                /\ UNCHANGED <<fresh, user, tenant>>
           ELSE End(r)

CommitPatch(r) ==
    /\ At(r, {"patch"}, "commit")
    /\ UpdateRow(r, [req[r].was EXCEPT !.role = req[r].role])

CommitRemove(r) ==
    /\ At(r, {"remove"}, "commit")
    /\ UpdateRow(r, [req[r].was EXCEPT !.status = "removed"])

CommitReactivate(r) ==
    /\ At(r, {"reactivate"}, "commit")
    /\ UpdateRow(r, [req[r].was EXCEPT !.status = "active"])

-----------------------------------------------------------------------------
(* Accepting an invitation *)

\* What target_scope_id may name: any id the sender can know, the invitation's
\* own tenant by default.  Nobody looks it up.
TargetScopes == {t \in Tenants : tenant[t] # "new"}

\* The invitation passed the checks of accept_invitation; its own life is
\* the subject of module Invitations.
StartAccept(r, u, home, t, role) ==
    /\ user[u] = "live"
    /\ tenant[home] = "live"
    /\ t \in TargetScopes
    /\ Start(r, NewRequest("accept", u, home, t, role, "none"))

\* Mutant: only an active membership is found, a removed one gets a twin.
LoadActiveMembership(r) ==
    /\ At(r, {"accept"}, "load")
    /\ LET found == WithStatus(RowsOf(req[r].user, req[r].tenant), "active")
       IN  \/ /\ Cardinality(found) > 1
              /\ End(r)
           \/ /\ found = {}
              /\ req' = [req EXCEPT ![r] = [@ EXCEPT !.stage = "commit",
                                                        !.known = RowIds \ fresh]]
              /\ UNCHANGED <<rows, fresh, user, tenant>>
           \/ /\ Cardinality(found) = 1
              /\ \E i \in found :
                    req' = [req EXCEPT ![r] = [@ EXCEPT !.row = i, !.was = rows[i],
                                                        !.stage = "commit"]]
              /\ UNCHANGED <<rows, fresh, user, tenant>>

\* The membership of this user in the scope, whatever its status.
LoadMembership(r) ==
    /\ At(r, {"accept"}, "load")
    /\ LET found == RowsOf(req[r].user, req[r].tenant)
       IN  \/ /\ Cardinality(found) > 1
              /\ End(r)
           \/ /\ found = {}
              /\ req' = [req EXCEPT ![r] = [@ EXCEPT !.stage = "commit",
                                                        !.known = RowIds \ fresh]]
              /\ UNCHANGED <<rows, fresh, user, tenant>>
           \/ /\ Cardinality(found) = 1
              /\ \E i \in found :
                    req' = [req EXCEPT ![r] = [@ EXCEPT !.row = i, !.was = rows[i],
                                                        !.stage = "commit"]]
              /\ UNCHANGED <<rows, fresh, user, tenant>>

\* Mutants: the insertion without the foreign key on the user, and without
\* the write to the invitation that fails once the tenant is deleted.
InsertForDeletedUser(me) ==
    /\ tenant[me.home] = "live"
    /\ UniqueRow(RowIds, me.user, me.tenant, me.role)

InsertForDeletedTenant(me) ==
    /\ user[me.user] = "live"
    /\ UniqueRow(RowIds, me.user, me.tenant, me.role)

\* With no row the membership is inserted.  The INSERT needs the user (foreign
\* key) and a free (user, role, scope); accepted_at needs the invitation,
\* which goes with the tenant it belongs to.  The target scope is no key.
InsertPossible(me) ==
    /\ user[me.user] = "live"
    /\ tenant[me.home] = "live"
    /\ UniqueRow(RowIds, me.user, me.tenant, me.role)

CommitAcceptInsert(r) ==
    /\ At(r, {"accept"}, "commit")
    /\ req[r].row = NoRow
    /\ LET me == req[r]
       IN  IF InsertPossible(me)
           THEN /\ \E i \in fresh :
                     /\ rows' = [rows EXCEPT ![i] =
                                   [user |-> me.user, tenant |-> me.tenant,
                                    role |-> me.role, status |-> "active"]]
                     /\ fresh' = fresh \ {i}
                /\ req' = [req EXCEPT ![r] = NoRow]
                /\ UNCHANGED <<user, tenant>>
           ELSE End(r)

CommitAcceptUpdate(r) ==
    /\ At(r, {"accept"}, "commit")
    /\ req[r].row # NoRow
    /\ LET me == req[r]
       IN  IF tenant[me.home] = "live"
           THEN UpdateRow(r, [me.was EXCEPT !.role = RoleAfterAccept(@, me.role),
                                            !.status = "active"])
           ELSE End(r)

-----------------------------------------------------------------------------
(* Deleting a user *)

StartDeleteUser(r, a, u) ==
    /\ a \in Admins
    /\ user[u] = "live" /\ u \notin Admins
    /\ Start(r, NewRequest("delete_user", u, NoRow, NoRow, "none", "super"))

LoadOwned(r) ==
    /\ At(r, {"delete_user"}, "load")
    /\ LET owned == OwnerRowsOf(req[r].user)
           todo  == {rows[i].tenant : i \in owned}
       IN  req' = [req EXCEPT ![r] = [@ EXCEPT !.owned = owned, !.todo = todo,
                                !.stage = IF todo = {} THEN "cognito" ELSE "count"]]
    /\ UNCHANGED <<rows, fresh, user, tenant>>

\* Deleting the Cognito user off the event loop; a failure is a 400.
CognitoDelete(r) ==
    /\ At(r, {"delete_user"}, "cognito")
    /\ \/ /\ req' = [req EXCEPT ![r].stage = "commit"]
          /\ UNCHANGED <<rows, fresh, user, tenant>>
       \/ End(r)

\* Mutant: ON DELETE SET NULL in place of the deletion.
NullifyMemberships(r) ==
    /\ At(r, {"delete_user"}, "commit")
    /\ LET doomed == {i \in Live : rows[i].user = req[r].user}
       IN  /\ doomed \cap LockedRows = {}
           /\ rows' = [i \in RowIds |-> IF i \in doomed
                                        THEN [rows[i] EXCEPT !.user = NoRow] ELSE rows[i]]
    /\ user' = [user EXCEPT ![req[r].user] = "deleted"]
    /\ req' = [req EXCEPT ![r] = NoRow]
    /\ UNCHANGED <<fresh, tenant>>

\* DELETE of the memberships, then of the user, which cascades to any other.
CommitDeleteUser(r) ==
    /\ At(r, {"delete_user"}, "commit")
    /\ LET doomed == {i \in Live : rows[i].user = req[r].user}
       IN  /\ doomed \cap LockedRows = {}
           /\ rows' = [i \in RowIds |-> IF i \in doomed THEN NoRow ELSE rows[i]]
    /\ user' = [user EXCEPT ![req[r].user] = "deleted"]
    /\ req' = [req EXCEPT ![r] = NoRow]
    /\ UNCHANGED <<fresh, tenant>>

-----------------------------------------------------------------------------
Begin(r) ==
    \E a \in Users \cup Admins, u \in Users, t \in Tenants :
        \/ \E op \in {"patch", "remove", "reactivate"}, role \in PatchRoles \cup {"none"} :
              StartManage(r, a, op, u, t, role)
        \/ StartDeleteTenant(r, a, t)
        \/ StartDeleteUser(r, a, u)
        \/ \E home \in Tenants, role \in InviteRoles : StartAccept(r, u, home, t, role)

Continue(r) ==
    \/ LoadTarget(r) \/ CountOwners(r)
    \/ CommitPatch(r) \/ CommitRemove(r) \/ CommitReactivate(r)
    \/ LoadMembership(r) \/ CommitAcceptInsert(r) \/ CommitAcceptUpdate(r)
    \/ LoadOwned(r) \/ CognitoDelete(r) \/ CommitDeleteUser(r)
    \/ DeleteTenantMemberships(r) \/ CommitDeleteTenant(r)

Next ==
    \/ \E u \in Users, t \in Tenants : CreateTenant(u, t)
    \/ \E r \in Requests : Begin(r) \/ Continue(r) \/ Abort(r)

Spec == Init /\ [][Next]_vars
-----------------------------------------------------------------------------
(* Properties *)

\* Request r takes its last step, and that step changes the memberships.
Ends(r) == req[r] # NoRow /\ req'[r] = NoRow
Commits(r) == Ends(r) /\ rows' # rows

\* What r decided on is no longer so: the row it loaded, the owner rows of
\* the user it deletes, or the owners it counted changed under it.
Stale(r, t) ==
    \/ req[r].row # NoRow /\ rows[req[r].row] # req[r].was
    \/ req[r].op = "delete_user" /\ OwnerRowsOf(req[r].user) # req[r].owned
    \/ req[r].seen[t] # {} /\ req[r].seen[t] # Owners(t)

\* Two rows make one user count as two owners.
OwnsTwice(t) == \E i, j \in Owners(t) : i # j /\ rows[i].user = rows[j].user

Orphaned(t) == Owners(t) # {} /\ Owners(t)' = {} /\ tenant'[t] = "live"

\* "Prevent removing the last owner": a live tenant loses its last active owner
\* only to a request that raced (what it had checked changed before its commit),
\* to the deletion of a user who held two owner rows there, or to an accepted
\* invitation for a role with a permission the owner's role lacks.  Every other
\* commit of update_user_role, remove_user_from_tenant, delete_user and
\* accept_invitation leaves the tenant an owner.
OrphanedOnlyByRaceOrDowngrade ==
    [][\A t \in Tenants : Orphaned(t) =>
          \E r \in Requests :
             /\ Commits(r)
             /\ \/ Stale(r, t)
                \/ req[r].op = "delete_user" /\ OwnsTwice(t)
                \/ /\ req[r].op = "accept"
                   /\ ~ permissions_for_role(req[r].role)
                          \subseteq permissions_for_role(req[r].was.role)]_vars

\* delete_tenant takes its invitations along: whatever was in flight when it
\* committed, a membership is inserted for a tenant that is gone, or never was,
\* only by the invitation of another tenant, one that lives and named this scope
\* as its target.
DeletedTenantGainsOnlyStrays ==
    [][\A t \in Tenants, i \in RowIds :
          tenant[t] = "deleted" /\ rows[i] = NoRow /\ rows'[i] # NoRow
             /\ rows'[i].tenant = t =>
          \E r \in Requests :
             /\ Commits(r) /\ req[r].op = "accept"
             /\ req[r].home # t /\ tenant[req[r].home] = "live"]_vars

\* A membership whose scope is no tenant's.
Dangling(i) == rows[i] # NoRow /\ tenant[rows[i].tenant] # "live"

\* delete_tenant deletes "all associated data": a membership is left or put
\* without its tenant only by a tenant's deletion that commits past a row inserted
\* after its DELETE looked, or by the invitation of another tenant.
DanglingOnlyByOverlapOrStray ==
    [][\A i \in RowIds : ~ Dangling(i) /\ Dangling(i)' =>
          \E r \in Requests :
             /\ Ends(r)
             /\ \/ req[r].op = "delete_tenant" /\ i \notin req[r].known
                \/ req[r].op = "accept" /\ req[r].home # req[r].tenant]_vars

\* What every `scalar_one_or_none` on (user, scope) takes for granted is one
\* membership per user and scope, and unique_user_role_scope does not give it: the
\* roles may differ.  A second one appears only when an acceptance inserts beside a
\* row that was not there when it looked; a row the lookup could have found,
\* removed ones included, never gets a twin.
TwinOnlyByOverlap ==
    [][\A i, j \in RowIds :
          /\ i # j /\ rows[i] = NoRow /\ rows'[i] # NoRow /\ rows'[j] # NoRow
          /\ rows'[i].user = rows'[j].user /\ rows'[i].tenant = rows'[j].tenant
          => \E r \in Requests :
                Commits(r) /\ req[r].op = "accept" /\ j \notin req[r].known]_vars

\* delete_user is final: no membership of a deleted user remains or appears,
\* although an acceptance or a reactivation may have been in flight.
DeletedUserHasNoMembership == \A i \in Live : user[rows[i].user] = "live"

\* Run one at a time, the handlers are the atomic operations of Memberships, with
\* every rule checked on the state they change.
Atomic == INSTANCE Memberships

RefinesMemberships == Atomic!Spec

\* What every `scalar_one_or_none` on (user, scope) takes for granted: one
\* membership per user and tenant.  Holds when requests do not overlap.
OneMembershipPerUser ==
    \A u \in Users, t \in Tenants : Cardinality(RowsOf(u, t)) <= 1

\* Run one at a time, delete_tenant leaves no membership of its tenant behind:
\* only the invitation of another tenant puts one where no tenant is.
DanglingOnlyByStray ==
    [][\A i \in RowIds : ~ Dangling(i) /\ Dangling(i)' =>
          \E r \in Requests :
             Ends(r) /\ req[r].op = "accept" /\ req[r].home # req[r].tenant]_vars

\* "remove_user_from_tenant and update_user_role prevent removing or demoting the
\* last account_owner": neither takes a tenant's last owner row.
LastOwnerStaysOnRemovalOrDemotion ==
    [][\A r \in Requests : Commits(r) /\ req[r].op \in {"patch", "remove"} =>
          \A t \in Tenants : ~ Orphaned(t)]_vars

\* With one request at a time what a handler checked is still so when it
\* commits: update_user_role, remove_user_from_tenant, reactivate_user_in_tenant
\* and delete_user never take a tenant's last owner.  Only an accepted invitation
\* for a role with a permission the owner's role lacks does.
OwnerLostOnlyByDowngrade ==
    [][\A t \in Tenants : Orphaned(t) =>
          \E r \in Requests :
             /\ Commits(r) /\ req[r].op = "accept"
             /\ ~ permissions_for_role(req[r].role)
                    \subseteq permissions_for_role(req[r].was.role)]_vars

\* "Compare permission sets": between account roles an acceptance only adds.
\* Unless the row changed under the request, the membership ends with the
\* permissions it had and those of the invitation.
AcceptOnlyAddsPermissions ==
    [][\A r \in Requests :
          /\ Commits(r) /\ req[r].op = "accept" /\ req[r].row # NoRow
          /\ rows[req[r].row] = req[r].was
          /\ {req[r].was.role, req[r].role} \subseteq AccountRoles
          => permissions_for_role(req[r].was.role) \cup permissions_for_role(req[r].role)
                \subseteq permissions_for_role(rows'[req[r].row].role)]_vars

\* "Compare permission sets: never downgrade through invitation": accepting an
\* invitation never takes an owner role, as the last-owner checks know it, away.
AcceptNeverDowngradesOwner ==
    [][\A r \in Requests : Commits(r) /\ req[r].op = "accept" =>
          \A i \in Live : IsOwner(rows[i]) => IsOwner(rows'[i])]_vars
=============================================================================
