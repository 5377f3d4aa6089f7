SPECIFICATION FairSpec
CONSTANTS
    RamWords = 14
    HeapStart = 2
    Wrap = 64
    Requests = {0, 4, 9, 57}
    StackTops = {10, 13}
    Data = {3}
INVARIANTS
    Disjoint
    NothingLost
    ListSound
    Coalesced
    FailsOnlyWhenFull
    HeapInvariant
PROPERTIES
    CallsReturn
    ImplementsAllocator
CHECK_DEADLOCK FALSE
