SPECIFICATION Spec
CONSTANTS
    AlphaPackages <- AllAlpha
    BetaPackages <- AllBeta
    MaxWrites = 2
CHECK_DEADLOCK FALSE
INVARIANTS WrittenIsRead ScriptsRunOnce MeaningIsKept
