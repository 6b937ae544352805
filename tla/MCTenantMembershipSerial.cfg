\* One request at a time on two tenants: what the checks guarantee without races.
CONSTANTS
    Users = {u1, u2}
    Admins = {adm}
    Tenants = {t1, t2}
    RowIds = {k1, k2, k3}
    Requests = {r1}
    PatchRoles = {"owner", "admin", "member"}
    InviteRoles = {"account_owner", "account_member"}
    NoRow = NoRow
SPECIFICATION Spec
SYMMETRY Symmetry
INVARIANTS OneMembershipPerUser
PROPERTIES DanglingOnlyByStray AcceptOnlyAddsPermissions OwnerLostOnlyByDowngrade RefinesMemberships
CHECK_DEADLOCK FALSE
