\* A campaign of three cases with three crashes, and every count up to 127.
CONSTANTS
    CaseCount = 3
    Identities = {old, new}
    Ends <- MCEnds
    MaxCrashes = 3
    Outputs <- MCOutputs
    Rounds = 5
    Block = 4
    MaxCount = 127
    Away = Away
SPECIFICATION PartsSpec
INVARIANTS
    ReportSound
    BoundCertified
    DivisorsFound
PROPERTIES
    EvidenceKept
    RunEnds
\* A selection ends.
CHECK_DEADLOCK FALSE
