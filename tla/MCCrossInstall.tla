--------------------------- MODULE MCCrossInstall ---------------------------
EXTENDS CrossInstall

MCEntries == <<"lib", "lib/opencv_geometry", "lib/opencv_geometry/a",
               "share", "share/gpr">>

MCAbove(p) ==
    CASE p = "lib/opencv_geometry/a" -> {p, "lib/opencv_geometry", "lib"}
      [] p = "lib/opencv_geometry" -> {p, "lib"}
      [] p = "share/gpr" -> {p, "share"}
      [] p \in LogDirectories \cup {"dispositions"} -> {p, "share"}
      [] p = "consumers-installed/log" -> {p, "consumers-installed", "share"}
      [] p = "qualification-installed/log" ->
            {p, "qualification-installed", "share"}
      [] p = "qualification-relocated/log" ->
            {p, "qualification-relocated", "share"}
      [] OTHER -> {p}

Fresh == [p \in Paths |-> Absent]

\* No prefix; Core's own; one with a linked directory; one with a file
\* where Geometry's is to go.
MCPrefixes ==
    {Fresh,
     [Fresh EXCEPT !["lib"] = File("directory", "core"),
                   !["share"] = File("directory", "core")],
     [Fresh EXCEPT !["share"] = File("link", "core")],
     [Fresh EXCEPT !["share"] = File("directory", "core"),
                   !["share/gpr"] = File("whole", "core")]}
=============================================================================
