SPECIFICATION Spec
CONSTANTS
    Keys = {"k1", "id1"}
    Keyless = {"id1"}
    NoKey = "none"
    Remotes = {"r1"}
    ImageBlobs <- MCBlobs
    PushAttempts = 2
    Images = {"i1", "i2", "i3"}
    Pinned = {"i2"}
    Kind <- MCKind
    InDaemon = {"i1"}
    InArchive = {"i3"}
    PullAttempts = 2
    Upstream <- AllServed
    Builds <- FiveBuilds
    Moving = {"i1"}
    MaxParts = 3
    MaxCommands = 2
    MaxFaults = 2
    Creations <- MCCreations
    Loads <- MCLoads
CHECK_DEADLOCK FALSE
INVARIANTS SelectionIsComplete MovedTagsAreMet SignaturesAreTrue SplitIsWhole
PROPERTIES ImplementsCatalog
