SPECIFICATION Spec
CONSTANTS
    v1 = v1
    v2 = v2
    app = app
    side = side
    default = default
    Pkg = {v1, v2}
    NoPkg = NoPkg
    Namespace = {app, side, default}
    ChartNamespace = app
    Initial = {default}
    Named <- NamedBy
    maxHelmHistory = 3
    Radix = 3
    MaxRevision = 6
    MaxFaults = 3
CHECK_DEADLOCK FALSE
INVARIANTS RecoveryIsSound SecretsBeforeResources
PROPERTIES OutcomesAreKnown
