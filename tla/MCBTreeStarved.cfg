SPECIFICATION Spec
CONSTANTS
    Entry <- SixteenKeys
    Before <- FirstLeafFull
    ScanArgs <- Above
    LeafSize = 4
    NonLeafSize = 2
    NumBufs = 4
    CallerPins = 1
INVARIANTS
    KindsTold
    NoEntryLost
PROPERTY
    FourFramesSuffice
CHECK_DEADLOCK FALSE
