\* The parts of cross_geometry.py.
CONSTANTS
    exe = exe
    x = x
    y = y
    script = script
    n1 = n1
    n2 = n2
    d1 = d1
    d2 = d2
    v = v
    Files = {exe, x, y, script}
    Names = {n1, n2}
    Dirs = {d1, d2}
    Versions = {v}
    Given = {exe}
    Absent = Absent
    Broken = Broken
    Outside = Outside
    Origin = Origin
    Starts <- MCStarts
    Layouts <- MCLayouts
    Compilers = {gnat, gxx}
    Signatures = {v12, v13}
    Runtimes = {default, other}
    SuppliedRuntime = default
    Releases <- MCReleases
    Places = {libdir, extra}
    Libraries = {one, two}
    Roots = {inCore}
    Paths = {inCore, tool, host}
    Allowed = {tool}
    None = None
    Away = Away
    SpelledPaths <- MCPaths
    Canonical <- MCCanonical
    ToolNames <- MCNames
    KindOf <- MCKindOf
    Prefixed <- MCPrefixed
    AdaCompiler <- MCAda
    CxxCompiler <- MCCxx
    TargetTools <- MCTargetTools
    AdaTools <- MCAdaTools
    InstalledDirs <- MCGiven
    SysrootText <- MCSysrootText
    RuntimeText <- MCRuntimeText
    X86 = {"x86_64"}
    Traces <- MCTraces
    ConfFiles = {main, one, two}
    ConfRoot = main
    SearchDirs = {lib, opt, usr}
    MaxDepth = 2
    DefaultDirs <- MCDefaultDirs
    ConfSysroots <- MCSysroots
    main = main
    one = one
    two = two
    lib = lib
    opt = opt
    usr = usr
    Attempts = {a, b}
    SourceFiles = {f, g}
    Edits = 2
    Release <- MCRelease
    Signature <- MCSignature
    Prebuilt = Prebuilt
    LeftOut = LeftOut
SPECIFICATION PartsSpec
INVARIANTS
    ClosureIsLoaders
    OneTarget
    TraceIsTheTargets
    LoaderSearches
    EvidenceEarned
\* A part ends.
CHECK_DEADLOCK FALSE
