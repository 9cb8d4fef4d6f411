---------------------------- MODULE CrossPreflight ----------------------------
(* validate and core_prefix of scripts/cross_geometry.py: a sequence of       *)
(* checks of what the caller supplied, each of which may end it. What a check *)
(* looks at is not known before: each step meets any of the answers the tools *)
(* and files can give, keeps the ones the settings are made of in seen, and   *)
(* goes on or fails. The walk of the dependencies and the loader's            *)
(* directories are DependencyClosure and LoaderDirectories.                   *)
EXTENDS Integers, Sequences, SequencesExt

CONSTANTS Compilers,   \* the identities objects record
          Signatures,  \* the version records of ALI files
          Versions,    \* OpenCV versions, as <<major, minor, revision>>
          Runtimes,    \* Ada runtimes
          Runtime,     \* the one that was supplied
          Places,      \* directories of target libraries
          Libraries,   \* library files
          Roots,       \* the paths inside the Core prefix or the sysroot
          Paths,       \* the paths installed projects name
          Allowed,     \* the supplied compilers and runtime, which they may name
          None

PreflightAssumption ==
    /\ Runtime \in Runtimes
    /\ Roots \subseteq Paths /\ Allowed \subseteq Paths
    /\ None \notin Libraries \cup Places \cup {"opencv5", "opencv4", "opencv"}

VARIABLES at, seen
vars == <<at, seen>>

\* From 4.1, and 5.0.
Supported(v) == (v[1] = 4 /\ v[2] # 0) \/ (v[1] = 5 /\ v[2] = 0)
Backend(v) == IF v[1] = 4 THEN "imgproc" ELSE "geometry"
Abi(v) == <<v[1], v[2]>>

Unseen == [search |-> << >>, ada |-> None, signature |-> None,
           runtime_signature |-> None, cxx |-> None, package |-> None,
           version |-> None, header |-> None, sonames |-> None, module |-> None,
           holds |-> None, advertised |-> None, symbols |-> None,
           paths |-> None, archives |-> None, alis |-> None]

Init == at = "environment" /\ seen = Unseen

On(check, passed, next) ==
    /\ at = check
    /\ at' = IF passed THEN next ELSE "failed"

-----------------------------------------------------------------------------
(* The target's name, the sysroot and the compilers' target; no variable that *)
(* makes a host directory part of a search is set.                            *)
Environment ==
    \E wellFormed \in BOOLEAN, hostSearch \in BOOLEAN, targets \in BOOLEAN :
        /\ On("environment", wellFormed /\ ~ hostSearch /\ targets, "runtime")
        /\ UNCHANGED seen

\* MUTANT of Listed: a matching directory is enough.
ListedSomewhere(s) == s # << >> /\ \E i \in DOMAIN s : s[i] = Runtime

(* runtime_identity: an absolute answer of the compiler is the runtime it     *)
(* uses and decides; without one, matching_gnatls tells the directories of    *)
(* the compiler's search, sources and objects, and every one of them must be  *)
(* the supplied runtime's.                                                    *)
Listed(s) == s # << >> /\ \A i \in DOMAIN s : s[i] = Runtime

RuntimeIdentity ==
    \E search \in BoundedSeq(Runtimes, 2), absolute \in BOOLEAN, sibling \in BOOLEAN :
        /\ On("runtime", IF absolute /\ search # << >> THEN search[1] = Runtime
                         ELSE sibling /\ Listed(search), "probe")
        /\ seen' = [seen EXCEPT !.search = search]

(* probe_ada: a unit compiled now, for the target, by the supplied compiler;  *)
(* its ALI has the version record of the runtime's own.                       *)
ProbeAda ==
    \E id \in Compilers, s \in Signatures, r \in Signatures, elf \in BOOLEAN :
        /\ On("probe", elf /\ s = r, "versions")
        /\ seen' = [seen EXCEPT !.ada = id, !.signature = s, !.runtime_signature = r]

(* The compilers are of one version, or said not to be.                       *)
CompilerVersions ==
    \E same \in BOOLEAN, independent \in BOOLEAN :
        /\ On("versions", independent \/ same, "package")
        /\ UNCHANGED seen

(* The first of opencv5, opencv4 and opencv that pkg-config knows, if any is. *)
Package ==
    \E package \in {"opencv5", "opencv4", "opencv", None}, v \in Versions :
        /\ On("package", package # None /\ Supported(v), "headers")
        /\ seen' = [seen EXCEPT !.package = package, !.version = v, !.module = Backend(v)]

(* CV_VERSION_MAJOR, _MINOR and _REVISION of the headers.                     *)
Headers ==
    \E header \in Versions, present \in BOOLEAN :
        /\ On("headers", present /\ header = seen.version, "flags")
        /\ seen' = [seen EXCEPT !.header = header]

(* A library flag: the directories of pkg-config's -L flags, the first one    *)
(* its library directory, that have the name must all lead to one file.       *)
Matches(holds) == {holds[p] : p \in Places} \ {None}

\* MUTANT of Flags: the first match is taken.
FlagsFirst ==
    \E holds \in [Places -> Libraries \cup {None}], qualified \in BOOLEAN :
        /\ On("flags", qualified /\ Matches(holds) # {}, "libraries")
        /\ seen' = [seen EXCEPT !.holds = holds,
                       !.advertised = IF Matches(holds) = {} THEN None
                                      ELSE CHOOSE l \in Matches(holds) : TRUE]

Flags ==
    \E holds \in [Places -> Libraries \cup {None}], qualified \in BOOLEAN :
        /\ On("flags", qualified /\ \E l \in Libraries : Matches(holds) = {l}, "libraries")
        /\ seen' = [seen EXCEPT !.holds = holds,
                       !.advertised = IF Matches(holds) = {} THEN None
                                      ELSE CHOOSE l \in Matches(holds) : TRUE]

\* MUTANT of Sonames: the core library stands for both.
SonamesCore ==
    \E core \in Versions, module \in Versions, elf \in BOOLEAN :
        /\ On("libraries", elf /\ Abi(core) = Abi(seen.version), "closure")
        /\ seen' = [seen EXCEPT !.sonames = [core |-> core, module |-> module]]

(* The SONAMEs of the core library and of the module's.                       *)
Sonames ==
    \E core \in Versions, module \in Versions, elf \in BOOLEAN :
        /\ On("libraries", elf /\ Abi(core) = Abi(seen.version)
                               /\ Abi(module) = Abi(seen.version), "closure")
        /\ seen' = [seen EXCEPT !.sonames = [core |-> core, module |-> module]]

(* dependency_closure and check_versions pass, and the C++ compiler's own     *)
(* libstdc++ wants nothing the target's lacks.                                *)
Closure ==
    \E closed \in BOOLEAN, wanted \in SUBSET {1, 2}, offered \in SUBSET {1, 2} :
        /\ On("closure", closed /\ wanted # {} /\ wanted \subseteq offered, "configuration")
        /\ UNCHANGED seen

(* check_configuration, and the C++ compiler's identity.                      *)
Configuration ==
    \E id \in Compilers, names \in BOOLEAN :
        /\ On("configuration", names, "projects")
        /\ seen' = [seen EXCEPT !.cxx = id]

\* MUTANT of Projects: what looks like the supplied tools' directory may be named.
ProjectsLoosely ==
    \E paths \in SUBSET Paths, built \in BOOLEAN :
        /\ On("projects", built, "archives")
        /\ seen' = [seen EXCEPT !.paths = paths]

(* core_prefix: the installed projects are there, built elsewhere, and name   *)
(* no path but those inside the roots and the supplied tools.                 *)
Projects ==
    \E paths \in SUBSET Paths, built \in BOOLEAN :
        /\ On("projects", built /\ paths \subseteq Roots \cup Allowed, "archives")
        /\ seen' = [seen EXCEPT !.paths = paths]

Identities == {seen.ada, seen.cxx}
Archives ==
    \E ids \in SUBSET Compilers, elf \in BOOLEAN :
        /\ On("archives", elf /\ ids # {} /\ ids \subseteq Identities, "alis")
        /\ seen' = [seen EXCEPT !.archives = ids]

\* MUTANT of Alis: one ALI of the probe's compiler is enough.
AlisSome ==
    \E found \in SUBSET Signatures :
        /\ On("alis", seen.signature \in found, "passed")
        /\ seen' = [seen EXCEPT !.alis = found]

(* check_alis: there are ALIs, each with the probe's version record.          *)
Alis ==
    \E found \in SUBSET Signatures :
        /\ On("alis", found = {seen.signature}, "passed")
        /\ seen' = [seen EXCEPT !.alis = found]

Next ==
    \/ Environment \/ RuntimeIdentity \/ ProbeAda \/ CompilerVersions \/ Package
    \/ Headers \/ Flags \/ Sonames \/ Closure \/ Configuration \/ Projects
    \/ Archives \/ Alis

Spec == Init /\ [][Next]_vars

-----------------------------------------------------------------------------
Checks == {"environment", "runtime", "probe", "versions", "package", "headers",
           "flags", "libraries", "closure", "configuration", "projects",
           "archives", "alis", "passed", "failed"}

\* Types: what a check has seen is of its kind, and a pass has seen everything.
TypeOK ==
    /\ at \in Checks
    /\ DOMAIN seen = DOMAIN Unseen
    /\ seen.ada \in Compilers \cup {None} /\ seen.cxx \in Compilers \cup {None}
    /\ seen.advertised \in Libraries \cup {None}
    /\ at = "passed" =>
           /\ seen.ada \in Compilers /\ seen.cxx \in Compilers /\ seen.archives \subseteq Compilers
           /\ seen.alis \subseteq Signatures /\ seen.paths \subseteq Paths
           /\ seen.package # None /\ seen.version \in Versions
           /\ seen.sonames \in [core : Versions, module : Versions]
           /\ seen.advertised \in Libraries

(* A preflight that passed has proved the default runtime: of the directories *)
(* the compiler searches without --RTS the first is the supplied runtime's,   *)
(* whether the compiler or GNATLS has told.                                   *)
DefaultRuntime == at = "passed" => seen.search[1] = Runtime

(* One toolchain from end to end: what Core's archives and ALIs record, the   *)
(* fresh probe, the runtime and the two compilers all agree, though each pair *)
(* is compared at another time and most pairs never.                          *)
OneToolchain ==
    at = "passed" =>
        /\ seen.archives \subseteq {seen.ada, seen.cxx}
        /\ \A s \in seen.alis : s = seen.runtime_signature

(* One OpenCV: pkg-config, the headers and both libraries are of one release, *)
(* of a major version whose backend is the module that is linked.             *)
OneOpenCV ==
    at = "passed" =>
        /\ Abi(seen.header) = Abi(seen.sonames.core)
        /\ Abi(seen.sonames.core) = Abi(seen.sonames.module)
        /\ seen.module = Backend(seen.header)

(* The library that was examined is the one any linker finds, in whatever     *)
(* order it searches the directories.                                         *)
LinksWhatWasExamined ==
    at = "passed" =>
        \A p \in Places : seen.holds[p] # None => seen.holds[p] = seen.advertised

(* Core's projects lead a build nowhere but into Core, the sysroot and the    *)
(* supplied tools.                                                            *)
CoreContained == at = "passed" => seen.paths \subseteq Roots \cup Allowed

(* A preflight that passed has found one target: one runtime, one toolchain,  *)
(* one OpenCV and one installation of Core, whoever was asked about each.     *)
OneTarget ==
    /\ TypeOK /\ DefaultRuntime /\ OneToolchain /\ OneOpenCV
    /\ LinksWhatWasExamined /\ CoreContained

=============================================================================
