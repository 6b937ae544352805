\* Two removals or demotions at a time: the documented last-owner protection.
CONSTANTS
    Users = {u1, u2}
    Admins = {adm}
    Tenants = {t1}
    RowIds = {k1, k2, k3}
    Requests = {r1, r2}
    PatchRoles = {"owner", "member"}
    InviteRoles = {"account_owner"}
    NoRow = NoRow
SPECIFICATION Spec
SYMMETRY Symmetry
PROPERTIES LastOwnerStaysOnRemovalOrDemotion
CHECK_DEADLOCK FALSE
