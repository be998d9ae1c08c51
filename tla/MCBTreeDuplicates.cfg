SPECIFICATION Spec
CONSTANTS
    Entry <- OneKey
    Before <- OneKeyInOrder
    ScanArgs <- Points
    LeafSize = 4
    NonLeafSize = 2
    NumBufs = 5
    CallerPins = 1
INVARIANT
    ScanComplete
