SPECIFICATION Spec
CHECK_DEADLOCK FALSE
CONSTANTS
    Loc <- MCLoc
    At <- MCAt
    HeadLoc = "A"
    Cache = "cache"
    Arch = "amd64"
    Flavor = "f"
    Worlds <- MCWorlds
    Requests <- MCRequests
    LocalOS = "linux"
    SetVariables <- MCSetVariables
    MaxDepth = 4
    Given <- MCGiven
INVARIANTS ImportsResolve SelectionIsRight NearestWins NoLateMissingKey
