SPECIFICATION Spec
CONSTANTS
    Projects <- Families
    Evaluate <- ConditionOf
    Expand <- ExpansionOf
    CCondition <- ConditionInC
    CExpansion <- ExpansionInC
    CMeaning <- MeaningInC
    MaxDepth = 3
    MaxParameters = 2
    TablePerFile = 1
    TableSpare = 1
    OutputSpare = 2
    Limit = 45
INVARIANTS
    NeverInsideItself
    ConditionsMeanC
    ExpansionsMeanC
    OutputMeansC
CHECK_DEADLOCK FALSE
