SPECIFICATION Spec
CONSTANTS
    Entry <- TenKeys
    Before <- DownwardsButOne
    ScanArgs <- Points
    LeafSize = 4
    NonLeafSize = 2
    NumBufs = 5
    CallerPins = 1
INVARIANT
    NoSuchKeyTrue
