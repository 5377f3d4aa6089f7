SPECIFICATION NativeSpec
CONSTANTS
    NREG = 4
    RamSize = 8
    Op <- MCOp
    Symphony = FALSE
    HaltAddress = 12
    MaxSteps = 9
    Interval = 4
    Images <- MCImages
    LoadAddresses = {0, 65528}
    InputLists <- MCInputLists
    PersistentSizes = {0, 4}
INVARIANTS
    CacheCoherent
    DispatchesMemory
PROPERTIES
    MatchesReference
CHECK_DEADLOCK FALSE
