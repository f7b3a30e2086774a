SPECIFICATION Spec
CONSTANTS
    Worlds <- MCWorlds
    Silences <- MCSilences
    LookupLimit = 3
    VoidLimit = 1
    DepthLimit = 3
    LookupCap = 4
    MxCap = 2
CHECK_DEADLOCK FALSE
INVARIANT BrokenIsBogus
