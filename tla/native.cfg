SPECIFICATION PartsSpec
CONSTANTS
    infinite = infinite
    NotFinite = infinite
    Precision = 4
    MaxExponent = 3
    XCoordinates <- MCXCoordinates
    YCoordinates <- MCYCoordinates
    Extents <- MCExtents
    task1 = task1
    task2 = task2
    Tasks = {task1, task2}
    ArgumentMessages = {"null handle"}
    ThrownMessages = {"what()", "long what()", "long what() again"}
    UnknownException = "Unknown C++ exception"
    Texts = {"", "null handle", "what()", "long what()", "Unknown C++ exception"}
    Empty = ""
    Cut <- MCCut
    None = None
INVARIANTS
    SuperTriangleSound
    RaisesOwnDiagnostic
\* A rectangle is rejected or initializes once.
CHECK_DEADLOCK FALSE
