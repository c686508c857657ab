SPECIFICATION FairSpec
CONSTANTS
    Scopes = {s1}
    Keys = {k1}
    Requests = {r1}
    MaxCrashes = 1
    DiskMayFail = TRUE
PROPERTIES
    ManagementReturns
    ChargeReachesFile
