SPECIFICATION Spec
CONSTANTS
    Requests = {r1, r2, r3, r4, r5}
    Rpm = 2
    Minute = 2
    MaxTime = 5
    MaxSteps = 1
SYMMETRY Symmetry
CHECK_DEADLOCK FALSE
INVARIANTS
    SlidingBound
PROPERTIES
    DeniedFairly
    HintIsEnough
