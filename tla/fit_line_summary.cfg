\* The summary of a campaign of two cases.
CONSTANTS
    CaseCount = 2
    Identities = {old, new}
    Ends <- MCEnds
    MaxCrashes = 2
    Outputs <- MCOutputs
    Rounds = 5
    Block = 4
    MaxCount = 3
    Away = Away
SPECIFICATION PartsSpec
INVARIANTS
    SummaryComplete
\* A selection ends.
CHECK_DEADLOCK FALSE
