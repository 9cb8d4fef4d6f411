--------------------------- MODULE MCCrossGeometry ---------------------------
(* The parts of cross_geometry.py on small instances.                         *)
EXTENDS CrossGeometry, FiniteSetsExt, TLC

------------------------------------------------------------------------------
(* The closure: an executable and two libraries that may need each other      *)
(* under two names, in two directories, over every small sysroot of them.     *)
CONSTANTS exe, x, y, script, n1, n2, d1, d2, v

MCStarts == <<exe>>

RunPathChoices == {<< >>, <<d2>>, <<Origin>>}
Cells == {Absent, Broken, Outside, x, y, script}

MCLayouts ==
    {[at |-> d1 :> (n1 :> a11 @@ n2 :> a12) @@ d2 :> (n1 :> a21 @@ n2 :> y),
      elf |-> {exe, x, y},
      needs |-> exe :> <<n1, n2>> @@ x :> nx @@ y :> ny @@ script :> << >>,
      run |-> exe :> re @@ x :> rx @@ y :> << >> @@ script :> << >>,
      wants |-> exe :> (n1 :> {v} @@ n2 :> {}) @@ x :> (n1 :> {} @@ n2 :> wx)
                @@ y :> (n1 :> {} @@ n2 :> {}) @@ script :> (n1 :> {} @@ n2 :> {}),
      defines |-> exe :> {} @@ x :> dx @@ y :> dy @@ script :> {},
      home |-> exe :> d1 @@ x :> d2 @@ y :> d1 @@ script :> d1,
      defaults |-> defaults] :
        a11 \in Cells, a21 \in {Absent, x, y}, a12 \in {Absent, x, y},
        nx \in {<< >>, <<n2>>, <<n2, n1>>}, ny \in {<< >>, <<n1>>},
        re \in RunPathChoices, rx \in RunPathChoices, wx \in SUBSET {v},
        dx \in SUBSET {v}, dy \in SUBSET {v},
        defaults \in {<<d1>>, <<d1, d2>>}}

------------------------------------------------------------------------------
(* The preflight: two compilers, two ALI signatures, two runtimes, two        *)
(* library directories and OpenCV releases of both majors, supported or not.  *)
MCReleases == {<<4, 0, 1>>, <<4, 9, 0>>, <<4, 10, 0>>, <<5, 0, 0>>, <<5, 1, 0>>}

------------------------------------------------------------------------------
(* Traces of one and two commands, each with up to two directories. The Ada   *)
(* and the C++ compiler stand in two directories, each with target tools; a   *)
(* third is the host's, with tools under both kinds of names.                 *)
MCAda == [dir |-> <<"ada">>, name |-> "target-gcc"]
MCCxx == [dir |-> <<"cxx">>, name |-> "target-g++"]
MCNames == {"target-gcc", "target-g++", "target-gnatbind", "gnatbind", "target-ar",
            "ar", "cmake"}
MCKindOf == [n \in MCNames |->
    CASE n \in {"target-gcc", "target-g++"} -> "driver"
      [] n \in {"target-gnatbind", "gnatbind"} -> "gnat"
      [] n \in {"target-ar", "ar"} -> "archiver" [] OTHER -> "other"]
MCPrefixed == {"target-gcc", "target-g++", "target-gnatbind", "target-ar"}

(* /core/lib/p is approved, /core/lib/p/sub is below it, /core/lib/link leads *)
(* to it, /core/lib/out to the host and /alias to another directory of Core.  *)
(* The runtime and a sysroot lie under /usr/lib, as some do.                  *)
Links == <<"core", "lib", "link">> :> <<"core", "lib", "p">>
         @@ <<"core", "lib", "out">> :> <<"usr", "lib">>
         @@ <<"alias">> :> <<"core", "lib", "q">>

RECURSIVE Resolve(_, _)
Resolve(done, rest) ==
    IF rest = << >> THEN done
    ELSE LET next == Append(done, Head(rest))
         IN  CASE Head(rest) = ".." ->
                    Resolve(SubSeq(done, 1, Len(done) - 1), Tail(rest))
               [] next \in DOMAIN Links -> Resolve(<< >>, Links[next] \o Tail(rest))
               [] OTHER -> Resolve(next, Tail(rest))

MCSearched ==
    {<<"usr", "include">>, <<"usr", "lib", "rts">>, <<"usr", "lib", "sysroot", "lib">>,
     <<"core", "lib", "p">>, <<"core", "lib", "p", "sub">>, <<"core", "lib", "link">>,
     <<"core", "lib", "out">>, <<"core", "lib", "p", "..", "q">>, <<"alias">>,
     <<"alias", "..", "..", "..", "usr", "include">>, <<"opt", "x86_64">>}
MCGiven == {<<"core", "lib", "p">>}
MCSysrootText == {<<"usr", "lib", "sysroot", "lib">>}
MCRuntimeText == {<<"usr", "lib", "rts">>}

Spelled == MCSearched \cup {<<"ada">>, <<"cxx">>, <<"host">>, <<"core">>}
MCPaths == Spelled \cup {Resolve(<< >>, p) : p \in Spelled}
MCCanonical == [p \in MCPaths |-> Resolve(<< >>, p)]

MCPrograms == {MCAda, MCCxx} \cup
    [dir : {<<"ada">>, <<"cxx">>, <<"host">>}, name : {"target-gnatbind", "target-ar"}]
    \cup [dir : {<<"ada">>, <<"host">>}, name : {"gnatbind", "ar"}]
    \cup {[dir |-> <<"host">>, name |-> n] : n \in {"target-gcc", "cmake"}}
MCTargetTools == {MCAda, MCCxx} \cup [dir : {<<"ada">>, <<"cxx">>}, name : MCPrefixed]
MCAdaTools == [dir : {<<"ada">>}, name : MCPrefixed]

MCWord == [flag : {"-I", "-L"}, joined : BOOLEAN, dir : MCSearched]
MCWords == {w \in MCWord : w.joined \/ w.dir = <<"usr", "include">>}
MCCommands ==
    {[program |-> p, words |-> ws, compiles |-> c] :
        p \in MCPrograms, ws \in kSubset(2, MCWords) \cup {{}}, c \in BOOLEAN}
Last == {[program |-> p, words |-> {}, compiles |-> c] : p \in MCPrograms, c \in BOOLEAN}
MCTraces == {<< >>} \cup {<<c>> : c \in MCCommands}
            \cup {<<c, d>> : c \in {k \in MCCommands : k.program = MCCxx}, d \in Last}

------------------------------------------------------------------------------
(* Three configuration files that may include each other and themselves, and  *)
(* three directories, one of which may be relative and one missing.           *)
CONSTANTS main, one, two, lib, opt, usr

MCDefaultDirs == <<lib, usr>>
D(d) == [dir |-> d]
I(s) == [include |-> s]
ConfLines == {D(lib), D(opt), D(usr), I(<<one>>), I(<<one, two>>), I(<<main>>)}

MCSysroots ==
    {[lines |-> [f \in {main, one, two} |->
                    IF f = main THEN <<p, q, r>>
                    ELSE IF f = one THEN <<s, D(opt)>> ELSE <<t>>],
      file |-> {main, one, two} \ gone, exists |-> {lib, opt, usr} \ missing,
      relative |-> rel] :
        p \in ConfLines, q \in ConfLines, r \in {D(usr), I(<<two>>)},
        s \in ConfLines, t \in {D(lib), I(<<one>>)},
        gone \in {{}, {two}}, missing \in {{}, {lib}}, rel \in {{}, {opt}}}

------------------------------------------------------------------------------
(* Two attempts at one workspace, two files and two changes by others. The    *)
(* editions 0 and 1 of a compiler are of one release and signature, and the   *)
(* last edition of Ada is of the first release of C++.                        *)
MCRelease == [ada |-> [e \in 0 .. 2 |-> IF e < 2 THEN "r1" ELSE "r2"],
              cxx |-> [e \in 0 .. 2 |-> IF e < 2 THEN "r2" ELSE "r3"]]
MCSignature == [e \in 0 .. 2 |-> IF e < 2 THEN "v1" ELSE "v2"]
==============================================================================
