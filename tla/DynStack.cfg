SPECIFICATION Spec
CONSTANTS
    RamWords = 16
    HeapStart = 4
    Entry = 14
    Sizes = {0, 2, 3, 4}
    MaxScopes = 4
    MaxLoops = 2
    DirectContinue = FALSE
INVARIANTS
    ReleasedOnExit
    ArraysApart
    TrapsOnlyWhenFull
CHECK_DEADLOCK FALSE
