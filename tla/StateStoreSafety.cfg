SPECIFICATION Spec
CONSTANTS
    Scopes = {s1, s2}
    Keys = {k1}
    Requests = {r1, r2}
    MaxCrashes = 1
    DiskMayFail = TRUE
SYMMETRY Symmetry
INVARIANTS
    ResetIsFinal
    FailedResetHarmless
    AckedKeysDurable
    FileNotAhead
    StoreInv
PROPERTY LedgerSpec
