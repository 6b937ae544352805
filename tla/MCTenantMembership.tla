------------------------- MODULE MCTenantMembership -------------------------
(* Small instances of TenantMembership for TLC. *)
EXTENDS TenantMembership, TLC

\* Nothing tells two users, two tenants, two keys or two request slots apart.
Symmetry ==
    Permutations(Users) \cup Permutations(Tenants) \cup Permutations(RowIds)
        \cup Permutations(Requests)

\* Roles are given by PATCH in one tenant only, and a second tenant is created
\* only where none has been: each has more states than both together allow.
NoPatch ==
    /\ \A i \in Live : rows[i].role \notin PatchRoles
    /\ \A r \in Requests : req[r] = NoRow \/ req[r].op # "patch"

OneTenantOrNoPatch == Cardinality({t \in Tenants : tenant[t] # "new"}) <= 1 \/ NoPatch
=============================================================================
