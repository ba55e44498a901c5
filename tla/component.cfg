SPECIFICATION Spec
CONSTANTS
    NoImage = NoImage
    Image = {i1, i2}
    Injection = {d1, d2}
    File = {f1, f2}
    ByManifest = {d2}
    Object = {o1, o2}
    PushRetries = 2
    NoChecksum = FALSE
    Limits = {0, 1}
    MaxRetries = 1
    MaxClock = 2
    MaxEvents = 1
    Faults = {"push", "tunnel", "temp", "chart", "exec", "timeout", "evict"}
    MaxFaults = 2
CHECK_DEADLOCK FALSE
INVARIANTS MarkerMeansData SuccessIsComplete
PROPERTIES ComponentEnds
