SPECIFICATION Spec
CONSTANTS
    near = near
    twin = twin
    far = far
    spare = spare
    outer = outer
    nan = nan
    tiny = tiny
    large = large
    huge = huge
    largeInt = largeInt
    hugeInt = hugeInt
    NoPoint = NoPoint
    NoRect = NoRect
    Points <- MCMorePoints
    NonFinite = {nan}
    IntRects <- MCIntRects
    Rects <- MCRects
    AsFloat32 <- MCAsFloat32
    Valid <- MCValid
    IntegerFactor = 3
    Region <- MCMoreRegion
    Near <- MCMoreNear
    SuperNear <- MCSuperNear
    Unlocatable = {far}
    Batches <- MCBatches
    Requests <- MCRequests
    ChunkLength = 2
    NaturalLast = 9
    IntMax = 111
    MaxSlots = 8
    MaxVirtual = 1
INVARIANTS
    UsableIsWhole
    HandleOwnsOne
    PublishedBoundsAreNative
    IssuedVerticesStay
    VoronoiDataCurrent
    BatchIndexInRange
    NoInvalidResult
    EdgeArithmeticInRange
PROPERTIES
    BatchReportsProgress
    ImplementsContract
    CallsReturn
