SPECIFICATION Spec
CONSTANTS
    h1 = h1
    h2 = h2
    p1 = p1
    p2 = p2
    p3 = p3
    d1 = d1
    Empty = Empty
    Free = Free
    NoPage = NoPage
    NoFrame = NoFrame
    File = {h1}
    FileOf <- OwnFile
    PageNo = {p1, p2, p3}
    Data = {Empty, d1}
    NumBufs = 2
    MaxPin = 2
SYMMETRY Symmetry
INVARIANTS
    TypeOK
    HashAgrees
    CleanMatchesDisk
    NoInternalError
    ExceededOnlyWhenAllPinned
PROPERTIES
    PinnedStay
    SecondChance
    ImplementsStore
