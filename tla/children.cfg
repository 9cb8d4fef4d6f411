CONSTANTS
    JobCount = 4
    Parallel = 2
    Selections <- MCSelections
    Versions = {v1, v2}
    InPrefix = {inside}
    Elsewhere = {outside}
    Codes <- MCCodes
    MaxBody = 2
    None = None
    Away = Away
SPECIFICATION PartsSpec
INVARIANTS
    PoolKeepsChildren
    EvidenceSound
PROPERTIES
    PoolFinishes
    EvidenceEnds
\* The generator and the runner end.
CHECK_DEADLOCK FALSE
