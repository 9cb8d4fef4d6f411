CONSTANTS
    Width = 2
    Height = 1
    MaxVertices = 6
SPECIFICATION Spec
INVARIANT StarsRejected
\* A full polygon does not grow.
CHECK_DEADLOCK FALSE
