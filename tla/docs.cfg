\* Packages of three items and declarations of up to five lines instead of 200;
\* two declarations with two warnings each; specifications of two declarations.
CONSTANTS
    AdaSources <- MCTexts
    SpelledIn <- MCSpelledIn
    MaxLines = 5
    MaxGap = 3
    Identities = {D1, D2}
    MaxCount = 2
    MaxSteps = 2
    Specifications <- MCSpecifications
    PagesOf <- MCPagesOf
    Baselines <- MCBaselines
    Away = Away
SYMMETRY MCSymmetry
SPECIFICATION PartsSpec
INVARIANTS
    FiledByDeclaration
    ReviewedOnly
    PassedIsDocumented
PROPERTIES
    NoSilentReturn
\* A check ends.
CHECK_DEADLOCK FALSE
