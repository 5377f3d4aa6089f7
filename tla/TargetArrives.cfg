SPECIFICATION FrameSpec
CONSTANTS
    ArgCount = 7
    CallerHomes = {3, 4, 5, 6}
    CalleeHomes = {8, 9}
    Registers = {1, 2, 3, 4, 5, 6, 7, 8, 9}
    Flags = 15
    slot = slot
    spill = spill
    const = const
    Slots = {slot, spill}
    Constants = {const}
    Direct = direct
    Targets = {direct, 3, slot}
    ArgLists <- MCArgLists
    EnteredLists <- MCEnteredLists
    HomeLists <- MCHomeLists
    MaxLocals = 1
    Top = 15
    Address = address
    Nothing = nothing
    KeptFrame = 300
    KeptLink = link
    Result = result
    Values = {3, 4, 5, 6, 8, 9, slot, spill, const, address, nothing, 300, link, result}
INVARIANTS
    TargetArrives
CHECK_DEADLOCK FALSE
