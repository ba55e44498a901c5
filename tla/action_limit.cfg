SPECIFICATION Spec
CONSTANTS
    NoImage = NoImage
    Image = {i1}
    Injection = {d1}
    File = {f1}
    ByManifest = {}
    Object = {o1}
    PushRetries = 1
    NoChecksum = TRUE
    Limits = {0, 2}
    MaxRetries = 2
    MaxClock = 6
    MaxEvents = 1
    Faults = {}
    MaxFaults = 0
CHECK_DEADLOCK FALSE
INVARIANTS ActionTimeBound
