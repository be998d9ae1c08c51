SPECIFICATION Spec
CONSTANTS
    h1 = h1
    h2 = h2
    p1 = p1
    p2 = p2
    p3 = p3
    d1 = d1
    Empty = Empty
    Free = Free
    NoPage = NoPage
    NoFrame = NoFrame
    File = {h1, h2}
    FileOf <- SameFile
    PageNo = {p1, p2}
    Data = {Empty, d1}
    NumBufs = 2
    MaxPin = 1
SYMMETRY Symmetry
INVARIANT
    HashSound
PROPERTY
    PinnedStay
