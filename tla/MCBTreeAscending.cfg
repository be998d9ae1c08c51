SPECIFICATION FairSpec
CONSTANTS
    Entry <- FourteenKeys
    Before <- Upwards
    ScanArgs <- Wide
    LeafSize = 4
    NonLeafSize = 2
    NumBufs = 5
    CallerPins = 1
INVARIANTS
    Searchable
    ScanComplete
    NeverExceeded
PROPERTY
    CallsEnd
