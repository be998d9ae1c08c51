SPECIFICATION Spec
CONSTANTS
    DATA_SIZE = 9
    SLOT_SIZE = 2
    NUL = NUL
    a = a
    b = b
    Record <- SomeRecords
PROPERTY
    OthersStay
CHECK_DEADLOCK FALSE
