SPECIFICATION PicksSpec
CONSTANTS
    Requests = {r1, r2}
    RuleTargets = {t1, t2}
    NoTarget = NoTarget
    MaxQueue = 2
    TTL = 0
    MaxTime = 1
    MaxChanges = 1
CHECK_DEADLOCK FALSE
INVARIANT RoutedAsAuthenticated
