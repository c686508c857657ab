SPECIFICATION PicksSpec
CONSTANTS
    Requests = {r1, r2, r3}
    RuleTargets = {t1, t2}
    NoTarget = NoTarget
    MaxQueue = 2
    TTL = 0
    MaxTime = 1
    MaxChanges = 1
SYMMETRY Symmetry
CHECK_DEADLOCK FALSE
INVARIANTS
    PickUsedOnce
    SharedWhenAlone
