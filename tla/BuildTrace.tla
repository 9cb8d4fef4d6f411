------------------------------ MODULE BuildTrace ------------------------------
(* check_trace of scripts/cross_geometry.py reads the commands a build has    *)
(* logged and refuses it when one is not of the supplied toolchain or names a *)
(* directory of the host. It sees words, not what they lead to: a path is a   *)
(* spelling, the sequence of its components, links and ".." among them, and   *)
(* the same directory has several. What a program builds for it never sees    *)
(* either: it judges by the name and the directory.                           *)
EXTENDS Integers, Sequences, SequencesExt

CONSTANTS Paths,       \* the directories, as they may be spelled
          Canonical,   \* the spelling without links that each leads to
          Names,       \* the names of programs
          KindOf,      \* TOOL_NAME: "driver", "gnat", "archiver", else "other"
          Prefixed,    \* the names that begin with TARGET-
          Ada, Cxx,    \* the supplied compilers
          TargetTools, \* the programs that do build for the target
          AdaTools,    \* those of them that belong to the Ada compiler
          Given,       \* the installed library directories of the caller
          SysrootText, \* the spellings that begin with the sysroot's
          RuntimeText, \* the spellings that begin with the runtime's and a slash
          X86,         \* the components and names that contain x86_64
          Traces       \* the traces that may be met

Program == [dir : Paths, name : Names]

(* A word that names a directory: the flag and the directory joined, or the   *)
(* directory after its flag as a word of its own.                             *)
Word == [flag : {"-I", "-L"}, joined : BOOLEAN, dir : Paths]
Command == [program : Program, words : SUBSET Word, compiles : BOOLEAN]

(* Beside a supplied compiler stand, under the target's name, its own tools;  *)
(* what else there is in these or other directories may be anyone's.          *)
TraceAssumption ==
    /\ Canonical \in [Paths -> Paths]
    /\ \A p \in Paths : Canonical[Canonical[p]] = Canonical[p]
    /\ KindOf \in [Names -> {"driver", "gnat", "archiver", "other"}]
    /\ Ada \in Program /\ Cxx \in Program /\ {Ada, Cxx} \subseteq TargetTools
    /\ \A p \in Program : p.name \in Prefixed =>
           /\ p.dir = Ada.dir => p \in TargetTools /\ p \in AdaTools
           /\ p.dir = Cxx.dir => p \in TargetTools
    /\ Given \subseteq Paths
    /\ \A t \in Traces : t \in Seq(Command)

VARIABLES trace, commands, outcome, line
vars == <<trace, commands, outcome, line>>

Inside(path, roots) == \E r \in roots : IsPrefix(r, path)
Plain(path) == \A i \in DOMAIN path : path[i] # ".."

(* The caller's directories: each is spelled PREFIX/lib/PROJECT and leads     *)
(* nowhere out of its prefix; what is kept is where it leads.                 *)
RootOf(d) == Canonical[SubSeq(d, 1, Len(d) - 2)]
ValidDirectory(d) ==
    /\ Len(d) > 2 /\ d[Len(d) - 1] = "lib" /\ Plain(d)
    /\ Inside(Canonical[d], {RootOf(d)})
InstalledLibraries == {Canonical[d] : d \in Given}
InstalledRoots == {RootOf(d) : d \in Given}

Init ==
    /\ trace \in Traces
    /\ line = 1 /\ commands = 0
    /\ outcome = IF \A d \in Given : ValidDirectory(d) THEN "reading" ELSE "failed"

-----------------------------------------------------------------------------
\* MUTANT of ToolChecked: a name like the target's is enough for an archiver.
ToolCheckedByName(p) ==
    CASE KindOf[p.name] = "driver" -> p \in {Ada, Cxx}
      [] KindOf[p.name] = "gnat" -> p.dir = Ada.dir /\ p.name \in Prefixed
      [] OTHER -> p.name \in Prefixed

\* MUTANT of ToolChecked: an Ada tool may stand beside either compiler.
ToolCheckedBeside(p) ==
    CASE KindOf[p.name] = "driver" -> p \in {Ada, Cxx}
      [] OTHER -> p.dir \in {Ada.dir, Cxx.dir} /\ p.name \in Prefixed

(* A driver must be a supplied compiler, word for word; gnatbind and the like *)
(* stand beside the Ada compiler, ar and ranlib beside either.                *)
ToolChecked(p) ==
    CASE KindOf[p.name] = "driver" -> p \in {Ada, Cxx}
      [] KindOf[p.name] = "gnat" -> p.dir = Ada.dir /\ p.name \in Prefixed
      [] OTHER -> p.name \in Prefixed /\ p.dir \in {Ada.dir, Cxx.dir}

\* MUTANT of InstalledLibrary: only the spelling is compared, not what it leads to.
InstalledLibrarySpelled(w) ==
    w.flag = "-L" /\ w.joined /\ Inside(w.dir, InstalledLibraries)

InstalledLibrary(w) ==
    /\ w.flag = "-L" /\ w.joined
    /\ w.dir \in InstalledLibraries /\ Canonical[w.dir] = w.dir /\ Plain(w.dir)

\* MUTANT of Approves: only what is spelled below an installation is looked at.
ApprovesSpelled(w) ==
    w.flag = "-L" /\ w.joined /\ Inside(w.dir, InstalledRoots) => InstalledLibrary(w)

(* What is spelled below an installation, or leads into one, must be one of   *)
(* the caller's directories, and spelled as that.                             *)
Approves(w) ==
    w.flag = "-L" /\ w.joined
    /\ (Inside(w.dir, InstalledRoots) \/ Inside(Canonical[w.dir], InstalledRoots))
        => InstalledLibrary(w)

HostDirectories == {<<"usr", "include">>, <<"usr", "lib">>,
                    <<"usr", "local", "include">>, <<"usr", "local", "lib">>}

\* MUTANT of NotHost: the runtime's directory may be an include directory, too.
NotHostButRuntime(w) ==
    \/ ~ w.joined \/ ~ Inside(w.dir, HostDirectories)
    \/ w.dir \in SysrootText \cup RuntimeText
    \/ InstalledLibrary(w)

NotHost(w) ==
    \/ ~ w.joined \/ ~ Inside(w.dir, HostDirectories)
    \/ w.dir \in SysrootText
    \/ w.flag = "-L" /\ w.dir \in RuntimeText
    \/ InstalledLibrary(w)

\* No word, the program's path included, contains x86_64.
NotX86(path) == \A i \in DOMAIN path : path[i] \notin X86

WordChecked(w) == Approves(w) /\ NotHost(w) /\ NotX86(w.dir)

Runs(c) == KindOf[c.program.name] # "other"
Checked(c) ==
    Runs(c) =>
        /\ ToolChecked(c.program)
        /\ NotX86(c.program.dir) /\ c.program.name \notin X86
        /\ \A w \in c.words : WordChecked(w)

ReadLine ==
    /\ outcome = "reading" /\ line <= Len(trace)
    /\ Checked(trace[line])
    /\ line' = line + 1
    /\ commands' = IF Runs(trace[line]) /\ trace[line].compiles
                   THEN commands + 1 ELSE commands
    /\ UNCHANGED <<trace, outcome>>

Refuse ==
    /\ outcome = "reading" /\ line <= Len(trace)
    /\ ~ Checked(trace[line])
    /\ outcome' = "failed"
    /\ UNCHANGED <<trace, commands, line>>

Finish ==
    /\ outcome = "reading" /\ line > Len(trace)
    /\ outcome' = IF commands > 0 THEN "passed" ELSE "failed"
    /\ UNCHANGED <<trace, commands, line>>

Next == ReadLine \/ Refuse \/ Finish
Spec == Init /\ [][Next]_vars

-----------------------------------------------------------------------------
\* Types: the reader stays within the trace, and has an outcome.
TypeOK ==
    /\ trace \in Seq(Command)
    /\ line \in 1 .. Len(trace) + 1 /\ commands \in 0 .. Len(trace)
    /\ outcome \in {"reading", "passed", "failed"}

\* What the build ran, of the kinds check_trace looks for.
Ran == {trace[i] : i \in {j \in 1 .. Len(trace) : Runs(trace[j])}}

(* A trace that passed has compiled something, and what it ran under the name *)
(* of a compiler, binder, linker or archiver does build for the target,       *)
(* though nothing but names and directories was looked at; and no Ada tool    *)
(* was another toolchain's, the C++ compiler's for instance, when the two are *)
(* independent. An empty or foreign build is never taken for the target's.    *)
PassedTraceIsTheTargets ==
    outcome = "passed" =>
        /\ \A c \in Ran : c.program \in TargetTools
        /\ \A c \in Ran : KindOf[c.program.name] = "gnat" => c.program \in AdaTools
        /\ \E c \in Ran : c.compiles

(* Where the linker of a passed trace really searched, for the directories it *)
(* was given with -L in one word, by whatever links and "..": in no directory *)
(* of an installation but the caller's, and in none outside of it by a        *)
(* spelling that begins inside.                                               *)
OnlyApprovedLibraries ==
    outcome = "passed" =>
        \A c \in Ran : \A w \in c.words : w.flag = "-L" /\ w.joined =>
            LET searched == Canonical[w.dir]
            IN  /\ Inside(searched, InstalledRoots) => searched \in InstalledLibraries
                /\ Inside(w.dir, InstalledRoots) => Inside(searched, InstalledRoots)

(* A directory of the host was searched only under another name than its own, *)
(* through a link or "..", or given in a word of its own.                     *)
HostByItsName ==
    outcome = "passed" =>
        \A c \in Ran : \A w \in c.words :
            LET searched == Canonical[w.dir]
            IN  w.joined /\ searched = w.dir /\ Inside(searched, HostDirectories) =>
                    \/ w.dir \in SysrootText
                    \/ w.flag = "-L" /\ searched \in RuntimeText \cup InstalledLibraries

(* A trace that passed is the target's build.                                 *)
TraceIsTheTargets ==
    TypeOK /\ PassedTraceIsTheTargets /\ OnlyApprovedLibraries /\ HostByItsName

=============================================================================
