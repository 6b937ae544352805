\* Two requests at a time on one user's three sessions, each with a deadline or none.
SPECIFICATION Spec
CONSTANTS
    Users = {u1}
    Ids = {i1, i2, i3}
    Requests = {r1, r2}
    MaxTime = 1
    None = None
SYMMETRY Symmetry
INVARIANTS
    TypeOK
    DeletedUserHasNoSession
    LoginForksOnlyByOverlap
PROPERTIES
    LoginOverForGood
    RevokeAllMissesOnlyNewer
CHECK_DEADLOCK FALSE
