\* Two requests at a time from one browser, or one and the clean-up; two rows may be locked in either order.
CONSTANTS
    Browsers = {b1}
    Keys = {k1, k2, k3}
    Requests = {r1, r2}
    MaxAge = 1
    MaxTime = 2
    None = None
SPECIFICATION FairSpec
CONSTRAINT EndsBounds
PROPERTIES EveryRequestEnds
CHECK_DEADLOCK FALSE
