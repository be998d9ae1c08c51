SPECIFICATION Spec
CONSTANTS
    DATA_SIZE = 8
    SLOT_SIZE = 2
    NUL = NUL
    a = a
    b = b
    Record <- SomeRecords
INVARIANTS
    TypeOK
    LayoutExact
    IterationComplete
PROPERTY
    RecordsSafe
CHECK_DEADLOCK FALSE
