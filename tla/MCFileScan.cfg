SPECIFICATION SystemSpec
CONSTANTS
    Data <- AnyRecords
    Blank <- NoRecords
    Records <- HowMany
    MaxPages = 3
    NeverEmptied = TRUE
    Recreates = FALSE
    REL = "rel"
    Name = {"rel", "other"}
    h1 = h1
    h2 = h2
    SCAN = scanFile
    Handle = {h1, h2, scanFile}
    NoFile = NoFile
    MaxOpen = 2
    MaxUnHashed = 1
SYMMETRY Alike
VIEW SystemState
INVARIANTS
    TypeOK
    UsedListExact
    FreeListExact
    HandlesExact
    PinsBalanced
    ScanComplete
PROPERTIES
    Forward
    OnlyWritesChange
    PagesOutlastOpen
CHECK_DEADLOCK FALSE
