SPECIFICATION Spec
CONSTANTS
    DATA_SIZE = 8
    SLOT_SIZE = 2
    NUL = NUL
    a = a
    b = b
    Record <- SomeRecords
INVARIANT
    SlotIsUnused
CHECK_DEADLOCK FALSE
