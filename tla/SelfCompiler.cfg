SPECIFICATION Spec
CONSTANTS
    WordBits = 12
    Programs <- Sources
    Parsed <- UnitParsed
    Emitted <- FunctionEmitted
INVARIANTS
    ComputesMeaning
    RejectsExactly
    JumpsLand
    ObjectsApart
PROPERTIES
    Halts
