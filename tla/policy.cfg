CONSTANTS
    Declarations <- MCDeclarations
    Additions <- MCAdditions
    Verifiers = {"v1", "v2"}
    NoVerifier = "none"
    Versions = {2, 3}
    VersionTransitions <- MCTransitions
    FirstContents <- MCFirstContents
    Requests = {p1, p2}
    MaxCommits = 6
    Protected = TRUE
    None = None
SYMMETRY MCSymmetry
SPECIFICATION Spec
PROPERTIES
    DeploymentsGrow
    OnlyReviewedChanges
