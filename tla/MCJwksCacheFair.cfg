\* Three verifications on both paths, two keys; keys grow old and are invalidated.
SPECIFICATION MCFairSpec
CONSTANTS
    Kids = {k1, k2}
    Tasks = {a1, a2}
    Threads = {t1}
    FirstKid = k1
    TTL = 1
    MaxTime = 1
    None = None
INVARIANTS
    TypeOK
    NobodyStuck
PROPERTIES
    ListedKeyIsFound
    WithdrawnKeyExpires
    EveryVerificationAnswers
CHECK_DEADLOCK FALSE
