\* Two requests at a time; every lookup and commit interleaves.  Two tenants, so that
\* an invitation may name another scope, where nobody has been given a role by PATCH.
CONSTANTS
    Users = {u1, u2}
    Admins = {adm}
    Tenants = {t1, t2}
    RowIds = {k1, k2, k3}
    Requests = {r1, r2}
    PatchRoles = {"owner", "member"}
    InviteRoles = {"account_member"}
    NoRow = NoRow
SPECIFICATION Spec
SYMMETRY Symmetry
CONSTRAINT OneTenantOrNoPatch
INVARIANTS TypeOK DeletedUserHasNoMembership
PROPERTIES OrphanedOnlyByRaceOrDowngrade TwinOnlyByOverlap DeletedTenantGainsOnlyStrays DanglingOnlyByOverlapOrStray
CHECK_DEADLOCK FALSE
