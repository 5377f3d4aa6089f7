SPECIFICATION Spec
CONSTANTS
    Names = 3
    Length = 4
    CallerCount = 1
    CalleeCount = 1
INVARIANTS
    ReadsLastWriteForward
    SavedHomesReadBack
CHECK_DEADLOCK FALSE
