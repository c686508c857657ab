SPECIFICATION Spec
CONSTANTS
    Keys = {k1, k2}
    Secrets = {s1, s2}
    NoSecret = NoSecret
    Idle = Idle
    Aliases = {a1}
    Targets = {t1, t2}
    CfgAliases = {}
    Patchers = {p1}
    MaxFailures = 1
SYMMETRY Symmetry
INVARIANTS
    FileLoads
    NoPhantomTarget
    RevivedOnlyByPatch
