\* Two requests at a time, one address, a bulk request of two.
CONSTANTS
    Ids = {i1, i2}
    Tokens = {k1, k2, k3}
    Emails = {e1}
    Requests = {r1, r2}
    Ttl = 1
    CleanupAge = 1
    MaxBulk = 2
    MaxTime = 2
    None = None
SPECIFICATION Spec
SYMMETRY Symmetry
INVARIANTS TypeOK
PROPERTIES RefinesLifecycle DeadTokenStaysDead TwinsOnlyByResendOrRace
CHECK_DEADLOCK FALSE
