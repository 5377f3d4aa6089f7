SPECIFICATION Spec
CONSTANTS
    Isas = {"dynphony", "symphony"}
    LoadAddresses = {0, 30, 50, 100}
    Limit = 64
    Programs <- MCPrograms
INVARIANTS
    LabelsPointHome
    ShortWhereItReaches
PROPERTIES
    Finishes
CHECK_DEADLOCK FALSE
