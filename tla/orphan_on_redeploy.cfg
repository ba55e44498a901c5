SPECIFICATION Spec
CONSTANTS
    web = web
    db = db
    mon = mon
    app = app
    ops = ops
    v1 = v1
    v2 = v2
    Chart = {web, db, mon}
    ChartName <- DistinctNames
    Blank = Blank
    Component = {app, ops}
    Pkg = {v1, v2}
    NoPkg = NoPkg
    Def <- TwoComponents
    Faults = {"step"}
    MaxFaults = 1
    MaxDeploys = 2
CHECK_DEADLOCK FALSE
INVARIANTS NoOrphan
