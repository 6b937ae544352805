\* An acceptance and a revocation of one invitation at a time.
CONSTANTS
    Ids = {i1}
    Tokens = {k1, k2, k3}
    Emails = {e1}
    Requests = {r1, r2}
    Ttl = 1
    CleanupAge = 1
    MaxBulk = 1
    MaxTime = 2
    None = None
SPECIFICATION Spec
SYMMETRY Symmetry
INVARIANTS AcceptedNotRevoked
CHECK_DEADLOCK FALSE
