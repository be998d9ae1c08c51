SPECIFICATION Spec
CONSTANTS
    Data <- AnyRecords
    Blank <- NoRecords
    MaxPages = 4
    NeverEmptied = FALSE
INVARIANT
    NextIsUsed
