CONSTANTS
    Cases = {"c1", "c2"}
    Expected <- MCExpected
    Behaviours <- MCBehaviours
    None = None
    Names = {"a", "b"}
    Points = {"p", "q"}
    Families = {"4.x", "5.x"}
    MaxLines = 5
    PerLine = 2
    Away = Away
    Width = 2
    Height = 2
    MaxVertices = 5
SPECIFICATION PartsSpec
INVARIANTS
    VerdictMeans
    CorpusKept
    CompetitorsSound
    EdgeTestsDecideEnclosure
\* The runner exits; corpus, grid and polygon end.
CHECK_DEADLOCK FALSE
