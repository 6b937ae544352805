---------------------------- MODULE Memberships ----------------------------
(***************************************************************************)
(* What the handlers on account memberships promise, each one an atomic    *)
(* operation on the three tables: no request in flight, nothing read that  *)
(* is not so when it is written.  The rules are those the handlers check:  *)
(* a tenant's last owner stays, a user is a member once, an acceptance takes *)
(* no role whose permissions include those of the invitation's.            *)
(*                                                                         *)
(* Who may ask for an operation is left open, and so is whether one that   *)
(* is allowed is carried out.                                              *)
(***************************************************************************)
EXTENDS AuthConfig, FiniteSets

CONSTANTS Users, Tenants, RowIds, NoRow

VARIABLES rows, user, tenant

state == <<rows, user, tenant>>

Membership(i) == rows[i] # NoRow

\* The one membership of a user in a tenant.
TheRow(i, u, t) ==
    /\ Membership(i) /\ rows[i].user = u /\ rows[i].tenant = t
    /\ \A j \in RowIds : Membership(j) /\ rows[j].user = u /\ rows[j].tenant = t => j = i

Owns(i, t) ==
    /\ Membership(i) /\ rows[i].tenant = t
    /\ rows[i].status = "active" /\ rows[i].role \in OwnerRoles

\* An owner may go when another user owns the tenant too.
Dispensable(i) ==
    Owns(i, rows[i].tenant) =>
        \E j \in RowIds : Owns(j, rows[i].tenant) /\ rows[j].user # rows[i].user

Init ==
    /\ rows = [i \in RowIds |-> NoRow]
    /\ user = [u \in Users |-> "live"]
    /\ tenant \in [Tenants -> {"new", "deleted"}]

Insert(i, u, t, role) ==
    /\ rows[i] = NoRow
    /\ rows' = [rows EXCEPT ![i] = [user |-> u, tenant |-> t, role |-> role,
                                    status |-> "active"]]

CreateTenant(i, u, t) ==
    /\ user[u] = "live" /\ tenant[t] = "new"
    /\ Insert(i, u, t, "account_owner")
    /\ tenant' = [tenant EXCEPT ![t] = "live"]
    /\ UNCHANGED user

ChangeRole(i, u, t, role) ==
    /\ TheRow(i, u, t) /\ rows[i].status = "active"
    /\ role \notin OwnerRoles => Dispensable(i)
    /\ rows' = [rows EXCEPT ![i].role = role]
    /\ UNCHANGED <<user, tenant>>

Remove(i, u, t) ==
    /\ TheRow(i, u, t) /\ rows[i].status = "active"
    /\ Dispensable(i)
    /\ rows' = [rows EXCEPT ![i].status = "removed"]
    /\ UNCHANGED <<user, tenant>>

Reactivate(i, u, t) ==
    /\ TheRow(i, u, t) /\ rows[i].status = "removed"
    /\ rows' = [rows EXCEPT ![i].status = "active"]
    /\ UNCHANGED <<user, tenant>>

\* The first membership in the scope t an invitation of tenant home names, or the
\* one there is with the better role.  That scope may have lost its tenant.
Accept(i, u, home, t, role) ==
    /\ user[u] = "live" /\ tenant[home] = "live" /\ tenant[t] # "new"
    /\ \/ /\ \A j \in RowIds : ~ (Membership(j) /\ rows[j].user = u /\ rows[j].tenant = t)
          /\ Insert(i, u, t, role)
       \/ /\ TheRow(i, u, t)
          /\ rows' = [rows EXCEPT ![i].role = RoleAfterAccept(rows[i].role, role),
                                  ![i].status = "active"]
    /\ UNCHANGED <<user, tenant>>

\* A user goes with all memberships, when no tenant is left without an owner.
DeleteUser(u) ==
    /\ user[u] = "live"
    /\ \A i \in RowIds : Membership(i) /\ rows[i].user = u => Dispensable(i)
    /\ rows' = [i \in RowIds |-> IF Membership(i) /\ rows[i].user = u THEN NoRow ELSE rows[i]]
    /\ user' = [user EXCEPT ![u] = "deleted"]
    /\ UNCHANGED tenant

\* A tenant goes with all memberships.
DeleteTenant(t) ==
    /\ tenant[t] = "live"
    /\ rows' = [i \in RowIds |-> IF Membership(i) /\ rows[i].tenant = t THEN NoRow ELSE rows[i]]
    /\ tenant' = [tenant EXCEPT ![t] = "deleted"]
    /\ UNCHANGED user

Next ==
    \/ \E i \in RowIds, u \in Users, t \in Tenants :
        \/ CreateTenant(i, u, t)
        \/ \E role \in RoleNames : ChangeRole(i, u, t, role)
        \/ \E home \in Tenants, role \in RoleNames : Accept(i, u, home, t, role)
        \/ Remove(i, u, t) \/ Reactivate(i, u, t)
    \/ \E u \in Users : DeleteUser(u)
    \/ \E t \in Tenants : DeleteTenant(t)

Spec == Init /\ [][Next]_state
=============================================================================
