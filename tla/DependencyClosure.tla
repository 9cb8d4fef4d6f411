-------------------------- MODULE DependencyClosure --------------------------
(* scripts/cross_geometry.py decides, without running the target's loader,    *)
(* what that loader would load: dependency_closure walks the DT_NEEDED names  *)
(* of the objects it is given, finds each through the object's run paths and  *)
(* then the loader's default directories, and check_versions asks the library *)
(* found for the symbol versions wanted of it. The walk is a worklist over a  *)
(* graph that may have cycles, shared nodes and dead ends.                    *)
(*                                                                            *)
(* A file is a member of Files or a directory entry that leads nowhere        *)
(* (Broken) or nowhere inside the sysroot (Outside). The sysroot is chosen in *)
(* Init and does not change while it is walked.                               *)
EXTENDS Integers, Sequences, FiniteSets

CONSTANTS Files,      \* the objects of the sysroot and the given executables
          Names,      \* the names DT_NEEDED entries use
          Dirs,       \* the directories of the sysroot
          Versions,   \* symbol version names
          Starts,     \* the objects the closure is asked for, a sequence
          Given,      \* the objects that lie in roots, outside of the sysroot
          Absent, Broken, Outside,  \* what a directory has, but a file
          Origin,     \* the run path $ORIGIN
          Layouts     \* the sysroots that may be met

(* A sysroot: what each directory has under each name, which files are        *)
(* AArch64 ELF, the names, run paths and versions recorded in each file, the  *)
(* directory each file is in and the loader's default directories.            *)
Entry == Files \cup {Absent, Broken, Outside}
Layout == [at : [Dirs -> [Names -> Entry]], elf : SUBSET Files,
           needs : [Files -> Seq(Names)], run : [Files -> Seq(Dirs \cup {Origin})],
           wants : [Files -> [Names -> SUBSET Versions]],
           defines : [Files -> SUBSET Versions],
           home : [Files -> Dirs], defaults : Seq(Dirs)]

ASSUME LayoutAssumption ==
    /\ Layouts \subseteq Layout
    /\ Starts \in Seq(Files)
    /\ Given \subseteq Files
    /\ {Absent, Broken, Outside} \cap Files = {}
    /\ Origin \notin Dirs
    /\ \A l \in Layouts, d \in Dirs, n \in Names : l.at[d][n] \notin Given

VARIABLES tree,      \* the sysroot
          pending,   \* the objects to look at, the last one first
          visited,   \* the objects looked at
          needed,    \* visited[path]["needed"]: name -> file, for each of them
          outcome    \* "walking", "checking", "passed" or "failed"
vars == <<tree, pending, visited, needed, outcome>>

Elements(s) == {s[i] : i \in 1 .. Len(s)}

Init ==
    /\ tree \in Layouts
    /\ pending = Starts
    /\ visited = {}
    /\ needed = [f \in Files |-> [n \in Names |-> Absent]]
    /\ outcome = "walking"

-----------------------------------------------------------------------------
(* The directories an object's names are looked up in: its run paths, with    *)
(* $ORIGIN standing for the directory the object is in, then the defaults.    *)
Place(f, d) == IF d = Origin THEN tree.home[f] ELSE d
RunPaths(f) == [i \in 1 .. Len(tree.run[f]) |-> Place(f, tree.run[f][i])]

\* MUTANT of SearchPath: the defaults come first.
SearchPathDefaults(f) == tree.defaults \o RunPaths(f)

SearchPath(f) == RunPaths(f) \o tree.defaults

(* $ORIGIN of an object outside of the sysroot has no meaning on the target.  *)
RunPathsQualified(f) == Origin \in Elements(tree.run[f]) => f \notin Given

(* An entry ends the search when it exists or is a link, even one that leads  *)
(* nowhere.                                                                   *)
Has(d, n) == tree.at[d][n] # Absent

IsFirst(s, n, i) ==
    /\ i \in 1 .. Len(s)
    /\ Has(s[i], n)
    /\ \A j \in 1 .. i - 1 : ~ Has(s[j], n)

(* What the search finds, or Absent.                                          *)
Found(f, n) ==
    LET s == SearchPath(f)
    IN  IF \E i \in 1 .. Len(s) : IsFirst(s, n, i)
        THEN tree.at[s[CHOOSE i \in 1 .. Len(s) : IsFirst(s, n, i)]][n]
        ELSE Absent

Resolvable(f) == \A n \in Elements(tree.needs[f]) : Found(f, n) \in Files

(* The object can be looked at: an AArch64 ELF with qualified run paths, all  *)
(* of whose names are found inside the sysroot.                               *)
Loadable(f) == f \in tree.elf /\ RunPathsQualified(f) /\ Resolvable(f)

Top == pending[Len(pending)]
Rest == SubSeq(pending, 1, Len(pending) - 1)

\* MUTANT of Dependencies: the last directory that has the name is followed.
DependenciesLast(f) ==
    [i \in 1 .. Len(tree.needs[f]) |->
        LET s == SearchPath(f)
            n == tree.needs[f][i]
        IN  tree.at[s[CHOOSE j \in 1 .. Len(s) :
                /\ Has(s[j], n)
                /\ \A k \in j + 1 .. Len(s) : ~ Has(s[k], n)]][n]]

Dependencies(f) ==
    [i \in 1 .. Len(tree.needs[f]) |-> Found(f, tree.needs[f][i])]

-----------------------------------------------------------------------------
(* One turn of dependency_closure's loop.                                     *)
Skip ==
    /\ outcome = "walking" /\ pending # << >> /\ Top \in visited
    /\ pending' = Rest
    /\ UNCHANGED <<tree, visited, needed, outcome>>

\* MUTANT of Visit: the first of the object's dependencies is not followed.
VisitButFirst ==
    /\ outcome = "walking" /\ pending # << >>
    /\ Top \notin visited /\ Loadable(Top)
    /\ LET d == Dependencies(Top)
       IN  pending' = Rest \o SubSeq(d, 2, Len(d))
    /\ visited' = visited \cup {Top}
    /\ needed' = [needed EXCEPT ![Top] = [n \in Names |->
                     IF n \in Elements(tree.needs[Top]) THEN Found(Top, n) ELSE Absent]]
    /\ UNCHANGED <<tree, outcome>>

Visit ==
    /\ outcome = "walking" /\ pending # << >>
    /\ Top \notin visited /\ Loadable(Top)
    /\ pending' = Rest \o Dependencies(Top)
    /\ visited' = visited \cup {Top}
    /\ needed' = [needed EXCEPT ![Top] = [n \in Names |->
                     IF n \in Elements(tree.needs[Top]) THEN Found(Top, n) ELSE Absent]]
    /\ UNCHANGED <<tree, outcome>>

Reject ==
    /\ outcome = "walking" /\ pending # << >>
    /\ Top \notin visited /\ ~ Loadable(Top)
    /\ outcome' = "failed"
    /\ UNCHANGED <<tree, pending, visited, needed>>

Walked ==
    /\ outcome = "walking" /\ pending = << >>
    /\ outcome' = "checking"
    /\ UNCHANGED <<tree, pending, visited, needed>>

\* MUTANT of VersionsDefined: any library of the closure may define them.
VersionsSomewhere(f) ==
    \A n \in Names : tree.wants[f][n] # {} =>
        /\ n \in Elements(tree.needs[f])
        /\ tree.wants[f][n] \subseteq UNION {tree.defines[g] : g \in visited}

(* check_versions: an object wants versions only of names it needs, and the   *)
(* library resolved for the name defines them all.                            *)
VersionsDefined(f) ==
    \A n \in Names : tree.wants[f][n] # {} =>
        /\ n \in Elements(tree.needs[f])
        /\ tree.wants[f][n] \subseteq tree.defines[needed[f][n]]

CheckVersions ==
    /\ outcome = "checking"
    /\ outcome' = IF \A f \in visited : VersionsDefined(f) THEN "passed" ELSE "failed"
    /\ UNCHANGED <<tree, pending, visited, needed>>

Done ==
    /\ outcome \in {"passed", "failed"}
    /\ UNCHANGED vars

Next == Skip \/ Visit \/ Reject \/ Walked \/ CheckVersions \/ Done

Spec == Init /\ [][Next]_vars

-----------------------------------------------------------------------------
(* The target's loader, external to the repository: it opens the candidates   *)
(* in the same order, passes over what it cannot open or use, and takes the   *)
(* first file of its own architecture.                                        *)
Usable(e) == e \in tree.elf
Loads(f, n, g) ==
    LET s == RunPaths(f) \o tree.defaults
    IN  \E i \in 1 .. Len(s) :
            /\ tree.at[s[i]][n] = g /\ Usable(g)
            /\ \A j \in 1 .. i - 1 : ~ Usable(tree.at[s[j]][n])

(* A set of objects that loading never leaves.                                *)
Closed(C) ==
    /\ Elements(Starts) \subseteq C
    /\ \A f \in C \cap Files, n \in Names :
           n \in Elements(tree.needs[f]) => Found(f, n) \in C

-----------------------------------------------------------------------------
\* Types: the walk stays within the files of the prefix, and resolves names to
\* files or to nothing.
TypeOK ==
    /\ tree \in Layout
    /\ pending \in Seq(Files)
    /\ visited \subseteq Files
    /\ needed \in [Files -> [Names -> Files \cup {Absent}]]
    /\ outcome \in {"walking", "checking", "passed", "failed"}

(* Once the walk has ended, what was visited holds the starting objects and   *)
(* is closed under needing: no dependency is missed, whatever cycles or       *)
(* shared libraries the graph has.                                            *)
NothingMissed ==
    outcome \in {"checking", "passed"} => Closed(visited)

(* Nothing is visited that no starting object needs, directly or not: what    *)
(* is visited or pending lies in every closed set.                            *)
NothingExtra ==
    \A C \in SUBSET Files :
        Closed(C) => visited \cup Elements(pending) \subseteq C

(* "Resolve every DT_NEEDED as the target loader would": each name of each    *)
(* object of a closure that passed is the very file the loader takes, though  *)
(* the loader passes over broken and foreign candidates and this code stops   *)
(* at the first one.                                                          *)
AsTheLoaderWould ==
    outcome = "passed" =>
        \A f \in visited, n \in Names :
            n \in Elements(tree.needs[f]) => Loads(f, n, needed[f][n])

(* A passed closure holds only target objects, each with every version it     *)
(* wants defined by the library the loader gives it.                          *)
VersionsSatisfied ==
    outcome = "passed" =>
        \A f \in visited, n \in Names, g \in Files :
            Loads(f, n, g) /\ n \in Elements(tree.needs[f])
                => tree.wants[f][n] \subseteq tree.defines[g]

(* What dependency_closure returns is what the loader would load: nothing is  *)
(* missing or superfluous, each name is the loader's file, with its versions. *)
ClosureIsLoaders ==
    outcome # "failed" =>
        NothingMissed /\ NothingExtra /\ AsTheLoaderWould /\ VersionsSatisfied

=============================================================================
