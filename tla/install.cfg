SPECIFICATION Spec
\* Every attempt has ended.
CHECK_DEADLOCK FALSE
CONSTANTS
    Attempts = {"i1", "i2"}
    Qualifying = {"i2"}
    Entries <- MCEntries
    Directories = {"lib", "lib/opencv_geometry", "share"}
    Guarded = {"lib/opencv_geometry", "share/gpr"}
    Above <- MCAbove
    Prefixes <- MCPrefixes
    MaxFaults = 2
    None = None

INVARIANTS
    InstallationsSound
PROPERTIES
    NothingReplaced
    OneSucceeds
