SPECIFICATION Spec
CONSTANTS
    web = web
    db = db
    mon = mon
    app = app
    ops = ops
    v1 = v1
    v2 = v2
    Chart = {web, db, mon}
    ChartName <- DistinctNames
    Blank = Blank
    Component = {app, ops}
    Pkg = {v1, v2}
    NoPkg = NoPkg
    Def <- TwoComponentsInit
    Faults = {"connect", "read", "write", "helm", "step", "render", "cancel", "crash"}
    MaxFaults = 2
    MaxDeploys = 2
CHECK_DEADLOCK FALSE
INVARIANTS RemoveUninstallsTarget
PROPERTIES UninstalledBeforeForgotten RemoveReversesComponents
