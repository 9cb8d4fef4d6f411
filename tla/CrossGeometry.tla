---------------------------- MODULE CrossGeometry ----------------------------
(* The parts of scripts/cross_geometry.py beside each other. They hand each   *)
(* other only success or failure, so a behaviour is one of one part, chosen   *)
(* at the start; the variables of the others rest.                            *)
EXTENDS DependencyClosure

VARIABLE part
CONSTANT Away

ClosureRests ==
    /\ tree = Away /\ pending = Away /\ visited = Away /\ needed = Away
    /\ outcome = "failed"

------------------------------------------------------------------------------
(* The preflight.                                                             *)
CONSTANTS Compilers, Signatures, Releases, Runtimes, SuppliedRuntime, Places, Libraries,
          Roots, Paths, Allowed, None
VARIABLES at, seen

Preflight == INSTANCE CrossPreflight WITH Versions <- Releases, Runtime <- SuppliedRuntime

preflightVars == <<at, seen>>
PreflightRests ==
    /\ at = Away /\ seen = Away

------------------------------------------------------------------------------
(* The trace of a build.                                                      *)
CONSTANTS SpelledPaths, Canonical, ToolNames, KindOf, Prefixed, AdaCompiler, CxxCompiler,
          TargetTools, AdaTools, InstalledDirs, SysrootText, RuntimeText, X86, Traces
VARIABLES trace, commands, line, verdict

Trace == INSTANCE BuildTrace WITH
    Paths <- SpelledPaths, Names <- ToolNames, Ada <- AdaCompiler, Cxx <- CxxCompiler,
    Given <- InstalledDirs, outcome <- verdict

traceVars == <<trace, commands, line, verdict>>
TraceRests ==
    /\ trace = Away /\ commands = Away /\ line = Away /\ verdict = Away

------------------------------------------------------------------------------
(* The directories of the loader's configuration.                             *)
CONSTANTS ConfFiles, ConfRoot, SearchDirs, MaxDepth, DefaultDirs, ConfSysroots
VARIABLES sysroot, stack, entries, directories, reading

Loader == INSTANCE LoaderDirectories WITH
    Conf <- ConfFiles, Root <- ConfRoot, Dirs <- SearchDirs, Defaults <- DefaultDirs,
    Sysroots <- ConfSysroots, outcome <- reading

loaderVars == <<sysroot, stack, entries, directories, reading>>
LoaderRests ==
    /\ sysroot = Away /\ stack = Away /\ entries = Away /\ directories = Away
    /\ reading = Away

------------------------------------------------------------------------------
(* The workspace of --build.                                                  *)
CONSTANTS Attempts, SourceFiles, Edits, Release, Signature, Prebuilt, LeftOut
VARIABLES git, source, commits, compiler, restored, supplied, changes, pc, settings,
          revision, author, work

Workspace == INSTANCE CrossWorkspace WITH Files <- SourceFiles

workspaceVars == <<git, source, commits, compiler, restored, supplied, changes, pc,
                   settings, revision, author, work>>
WorkspaceRests ==
    /\ git = Away /\ source = Away /\ commits = Away /\ compiler = Away
    /\ restored = Away /\ supplied = Away /\ changes = Away /\ pc = Away
    /\ settings = Away /\ revision = Away /\ author = Away /\ work = Away

ASSUME CrossGeometryAssumption ==
    /\ Preflight!PreflightAssumption /\ Trace!TraceAssumption
    /\ Loader!LoaderAssumption /\ Workspace!WorkspaceAssumption

------------------------------------------------------------------------------
PartsInit ==
    \/ /\ part = "closure" /\ Init
       /\ PreflightRests /\ TraceRests /\ LoaderRests /\ WorkspaceRests
    \/ /\ part = "preflight" /\ Preflight!Init
       /\ ClosureRests /\ TraceRests /\ LoaderRests /\ WorkspaceRests
    \/ /\ part = "trace" /\ Trace!Init
       /\ ClosureRests /\ PreflightRests /\ LoaderRests /\ WorkspaceRests
    \/ /\ part = "loader" /\ Loader!Init
       /\ ClosureRests /\ PreflightRests /\ TraceRests /\ WorkspaceRests
    \/ /\ part = "workspace" /\ Workspace!Init
       /\ ClosureRests /\ PreflightRests /\ TraceRests /\ LoaderRests

PartsNext ==
    /\ UNCHANGED part
    /\ \/ /\ part = "closure" /\ Next
          /\ UNCHANGED <<preflightVars, traceVars, loaderVars, workspaceVars>>
       \/ /\ part = "preflight" /\ Preflight!Next
          /\ UNCHANGED <<vars, traceVars, loaderVars, workspaceVars>>
       \/ /\ part = "trace" /\ Trace!Next
          /\ UNCHANGED <<vars, preflightVars, loaderVars, workspaceVars>>
       \/ /\ part = "loader" /\ Loader!Next
          /\ UNCHANGED <<vars, preflightVars, traceVars, workspaceVars>>
       \/ /\ part = "workspace" /\ Workspace!Next
          /\ UNCHANGED <<vars, preflightVars, traceVars, loaderVars>>

partsVars == <<part, vars, preflightVars, traceVars, loaderVars, workspaceVars>>

PartsSpec == PartsInit /\ [][PartsNext]_partsVars

------------------------------------------------------------------------------
(* A passed preflight examined one target, which is the one that is linked.   *)
OneTarget == part = "preflight" => Preflight!OneTarget

(* A build trace that passes is of the target's tools and libraries.          *)
TraceIsTheTargets == part = "trace" => Trace!TraceIsTheTargets

(* The search directories agree with ld.so.conf and all that it includes.     *)
LoaderSearches == part = "loader" => Loader!LoaderSearches

(* An installation's evidence rests on one author's verified build of the     *)
(* source its identity names, whatever others edit and commit meanwhile.      *)
EvidenceEarned == part = "workspace" => Workspace!EvidenceEarned
==============================================================================
