SPECIFICATION Spec
CONSTANTS
    Scopes = {s1, s2}
    OperatorIds = {k1}
    Auths = {a1, a2}
    Groups = {g1}
    Policies = {open, tight}
    DefaultPolicy = open
    None = None
    BatchTargets <- MCBatchTargets
    Catalogs <- MCCatalogs
    HistoryLimit = 3
    MaxEdits = 1
    MaxOps = 4
    MaxFailures = 1
SYMMETRY Symmetry
CHECK_DEADLOCK FALSE
PROPERTY PlansAreValid
PROPERTY RestoreReturnsTargets
PROPERTY OverridesOnlyRecorded
PROPERTY PolicyPreserved
PROPERTY PreviewIsExact
PROPERTY MarkersRoundTrip
PROPERTY LogSpec
