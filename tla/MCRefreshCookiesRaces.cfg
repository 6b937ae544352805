\* Two requests at a time from two browsers, three keys, two ticks: rows expire before and during requests.
CONSTANTS
    Browsers = {b1, b2}
    Keys = {k1, k2, k3}
    Requests = {r1, r2}
    MaxAge = 1
    MaxTime = 2
    None = None
SPECIFICATION Spec
SYMMETRY Symmetry
INVARIANTS TypeOK LoginSurvivesRotation
PROPERTIES OrphanedOnlyByOverlapOrLoss
CHECK_DEADLOCK FALSE
