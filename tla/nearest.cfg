SPECIFICATION Spec
CONSTANTS
    near = near
    twin = twin
    far = far
    spare = spare
    outer = outer
    nan = nan
    tiny = tiny
    large = large
    huge = huge
    largeInt = largeInt
    hugeInt = hugeInt
    NoPoint = NoPoint
    NoRect = NoRect
    Points <- MCPoints
    NonFinite = {nan}
    IntRects <- MCIntRects
    Rects <- MCRects
    AsFloat32 <- MCAsFloat32
    Valid <- MCValid
    IntegerFactor = 3
    Region <- MCRegion
    Near <- MCNear
    SuperNear <- MCSuperNear
    Unlocatable = {far}
    Batches <- MCBatches
    Requests <- MCRequests
    ChunkLength = 2
    NaturalLast = 9
    IntMax = 127
    MaxSlots = 7
    MaxVirtual = 0

INVARIANTS
    NearestIsInserted
