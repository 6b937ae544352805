\* One request at a time: an accepted invitation and a legacy owner.
CONSTANTS
    Users = {u1, u2}
    Admins = {adm}
    Tenants = {t1}
    RowIds = {k1, k2, k3}
    Requests = {r1}
    PatchRoles = {"owner", "member"}
    InviteRoles = {"account_member"}
    NoRow = NoRow
SPECIFICATION Spec
SYMMETRY Symmetry
PROPERTIES AcceptNeverDowngradesOwner
CHECK_DEADLOCK FALSE
