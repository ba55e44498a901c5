SPECIFICATION Spec
CONSTANTS
    web = web
    db = db
    mon = mon
    app = app
    ops = ops
    v1 = v1
    v2 = v2
    Chart = {web, db, mon}
    ChartName <- SharedName
    Blank = Blank
    Component = {app, ops}
    Pkg = {v1, v2}
    NoPkg = NoPkg
    Def <- ChartToFiles
    Faults = {"connect", "helm", "step", "crash"}
    MaxFaults = 2
    MaxDeploys = 3
CHECK_DEADLOCK FALSE
INVARIANTS DeployRecordsWhatItInstalled SucceededIsRunning
PROPERTIES RecordKeepsCharts
