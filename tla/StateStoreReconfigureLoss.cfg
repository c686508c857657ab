SPECIFICATION Spec
CONSTANTS
    Scopes = {s1}
    Keys = {k1}
    Requests = {r1}
    MaxCrashes = 0
    DiskMayFail = FALSE
PROPERTY ReconfigureKeepsCharges
