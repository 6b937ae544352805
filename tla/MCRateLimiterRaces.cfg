\* Two requests at a time on two limited routes and one that is not.
SPECIFICATION Spec
CONSTANTS
    Routes = {"/sync", "/tenants/{id}/invite", "/custom/login"}
    Ids = {h1, h2, h3, h4}
    Requests = {r1, r2}
    Limit = 2
    Window = 1
    Retention = 2
    MaxTime = 3
    None = None
SYMMETRY Symmetry
INVARIANTS
    TypeOK
    ExcessBoundedByOverlap
    RefusedOnlyAtLimit
PROPERTIES
    GrantedAloneBelowLimit
CHECK_DEADLOCK FALSE
