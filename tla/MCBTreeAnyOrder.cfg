SPECIFICATION Spec
CONSTANTS
    Entry <- SevenKeys
    Before <- AnyOrder
    ScanArgs <- AllKinds
    LeafSize = 4
    NonLeafSize = 2
    NumBufs = 5
    CallerPins = 1
INVARIANTS
    TypeOK
    NoEntryLost
    PinsBalanced
    NoSuchKeyTrue
    ScanComplete
