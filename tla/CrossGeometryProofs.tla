------------------------- MODULE CrossGeometryProofs -------------------------
(* What scripts/cross_geometry.py establishes for every sysroot, workspace    *)
(* and tool chain: the dependency closure of DependencyClosure, which this    *)
(* module extends, and the workspace, the preflight, the build trace and the  *)
(* loader's directories; and at last CrossGeometry, where they are beside     *)
(* each other.                                                                *)
EXTENDS CrossGeometry, SequenceTheorems, NaturalsInduction, WellFoundedInduction, TLAPS

-----------------------------------------------------------------------------
(* The dependency closure.                                                    *)
(* What the loop keeps: the objects visited are loadable, what they need is   *)
(* visited or pending and is what was recorded for them, nothing is pending   *)
(* once the walk is over, and a pass means that each object's versions are    *)
(* defined.                                                                   *)
Walk ==
    /\ Elements(Starts) \subseteq visited \cup Elements(pending)
    /\ \A f \in visited : Loadable(f)
    /\ \A f \in visited, n \in Names : n \in Elements(tree.needs[f]) =>
           /\ Found(f, n) \in visited \cup Elements(pending)
           /\ needed[f][n] = Found(f, n)
    /\ outcome \in {"checking", "passed"} => pending = << >>
    /\ outcome = "passed" => \A f \in visited : VersionsDefined(f)

IInv == TypeOK /\ Walk /\ NothingExtra

-----------------------------------------------------------------------------
(* Sequences, as the worklist uses them.                                      *)
LEMMA ElementsOfConcat ==
    ASSUME NEW S, NEW s \in Seq(S), NEW t \in Seq(S)
    PROVE  /\ s \o t \in Seq(S)
           /\ Elements(s \o t) = Elements(s) \cup Elements(t)
<1>1. Elements(s \o t) \subseteq Elements(s) \cup Elements(t)
    BY DEF Elements
<1>2. Elements(s) \subseteq Elements(s \o t)
    BY DEF Elements
<1>3. ASSUME NEW j \in 1 .. Len(t)
      PROVE  t[j] \in Elements(s \o t)
    <2>1. Len(s) + j \in 1 .. Len(s \o t) /\ (s \o t)[Len(s) + j] = t[j]
        OBVIOUS
    <2>2. QED
        BY <2>1 DEF Elements
<1>4. QED
    BY <1>1, <1>2, <1>3 DEF Elements

LEMMA ElementsOfPop ==
    ASSUME NEW S, NEW s \in Seq(S), s # << >>
    PROVE  /\ SubSeq(s, 1, Len(s) - 1) \in Seq(S)
           /\ s[Len(s)] \in S
           /\ Elements(s) = {s[Len(s)]} \cup Elements(SubSeq(s, 1, Len(s) - 1))
<1>. DEFINE r == SubSeq(s, 1, Len(s) - 1)
<1>1. Len(s) \in Nat \ {0}
    BY EmptySeq
<1>2. r \in Seq(S) /\ Len(r) = Len(s) - 1 /\ \A i \in 1 .. Len(s) - 1 : r[i] = s[i]
    <2>1. 1 \in Int /\ Len(s) - 1 \in Int /\ \A i \in 1 .. Len(s) - 1 : s[i] \in S
        BY <1>1
    <2>2. /\ r \in Seq(S)
          /\ Len(r) = IF 1 <= Len(s) - 1 THEN Len(s) - 1 - 1 + 1 ELSE 0
          /\ \A i \in 1 .. Len(s) - 1 - 1 + 1 : r[i] = s[1 + i - 1]
        BY <2>1, SubSeqProperties
    <2>3. Len(r) = Len(s) - 1
        <3>. DEFINE l == Len(s)
                    k == Len(r)
        <3>1. l \in Nat \ {0} /\ k = IF 1 <= l - 1 THEN l - 1 - 1 + 1 ELSE 0
            BY <1>1, <2>2
        <3>. HIDE DEF l, k
        <3>2. k = l - 1
            BY <3>1
        <3>3. QED
            BY <3>2 DEF l, k
    <2>4. \A i \in 1 .. Len(s) - 1 : i \in 1 .. Len(s) - 1 - 1 + 1 /\ 1 + i - 1 = i
        BY <1>1
    <2>. HIDE DEF r
    <2>5. QED
        BY <2>2, <2>3, <2>4
<1>3. s[Len(s)] \in S
    BY <1>1
<1>4. 1 .. Len(s) = {Len(s)} \cup 1 .. Len(s) - 1
    BY <1>1
<1>5. Elements(r) = {s[i] : i \in 1 .. Len(s) - 1}
    BY <1>2 DEF Elements
<1>6. {s[i] : i \in 1 .. Len(s)} = {s[Len(s)]} \cup {s[i] : i \in 1 .. Len(s) - 1}
    BY <1>4
<1>7. QED
    BY <1>2, <1>3, <1>5, <1>6 DEF Elements

-----------------------------------------------------------------------------
(* The tree is a layout and keeps being one; this is all the search asks.     *)
LEMMA SearchPathType ==
    ASSUME tree \in Layout, NEW f \in Files
    PROVE  SearchPath(f) \in Seq(Dirs) /\ tree.needs[f] \in Seq(Names)
<1>1. /\ tree.run[f] \in Seq(Dirs \cup {Origin})
      /\ tree.home[f] \in Dirs
      /\ tree.defaults \in Seq(Dirs)
      /\ tree.needs[f] \in Seq(Names)
    BY DEF Layout
<1>2. RunPaths(f) \in Seq(Dirs)
    BY <1>1 DEF RunPaths, Place
<1>3. QED
    BY <1>1, <1>2 DEF SearchPath

(* What is found is the first entry of the search path that is not absent.    *)
LEMMA FoundIsFirst ==
    ASSUME tree \in Layout, NEW f \in Files, NEW n \in Names, Found(f, n) # Absent
    PROVE  \E i \in 1 .. Len(SearchPath(f)) :
               /\ IsFirst(SearchPath(f), n, i)
               /\ Found(f, n) = tree.at[SearchPath(f)[i]][n]
<1>. DEFINE s == SearchPath(f)
<1>1. \E i \in 1 .. Len(s) : IsFirst(s, n, i)
    BY DEF Found
<1>. DEFINE c == CHOOSE i \in 1 .. Len(s) : IsFirst(s, n, i)
<1>2. c \in 1 .. Len(s) /\ IsFirst(s, n, c)
    BY <1>1
<1>3. Found(f, n) = tree.at[s[c]][n]
    BY <1>1 DEF Found
<1>4. QED
    BY <1>2, <1>3

(* The objects a loadable object needs are files, and they are what is put on *)
(* the worklist for it.                                                       *)
LEMMA DependenciesAreFound ==
    ASSUME tree \in Layout, NEW f \in Files, Loadable(f)
    PROVE  /\ Dependencies(f) \in Seq(Files)
           /\ Elements(Dependencies(f)) = {Found(f, n) : n \in Elements(tree.needs[f])}
           /\ Elements(tree.needs[f]) \subseteq Names
<1>. DEFINE ns == tree.needs[f]
<1>1. ns \in Seq(Names)
    BY SearchPathType
<1>2. \A i \in 1 .. Len(ns) : ns[i] \in Names /\ ns[i] \in Elements(ns) /\ Found(f, ns[i]) \in Files
    BY <1>1 DEF Loadable, Resolvable, Elements
<1>3. Dependencies(f) \in Seq(Files)
    BY <1>1, <1>2 DEF Dependencies
<1>4. Len(Dependencies(f)) = Len(ns) /\ \A i \in 1 .. Len(ns) : Dependencies(f)[i] = Found(f, ns[i])
    BY <1>1 DEF Dependencies
<1>5. QED
    BY <1>2, <1>3, <1>4 DEF Elements

-----------------------------------------------------------------------------
LEMMA InitInv == Init => IInv
<1>. SUFFICES ASSUME Init PROVE IInv
    OBVIOUS
<1>. USE LayoutAssumption DEF Init
<1>1. TypeOK
    BY DEF TypeOK
<1>2. Walk
    BY DEF Walk
<1>3. NothingExtra
    BY DEF NothingExtra, Closed
<1>4. QED
    BY <1>1, <1>2, <1>3 DEF IInv

(* The search depends on the sysroot alone, which does not change.            *)
LEMMA SearchUnchanged ==
    ASSUME tree' = tree
    PROVE  /\ \A f, n : Found(f, n)' = Found(f, n)
           /\ \A f : Loadable(f)' = Loadable(f)
           /\ \A C : Closed(C)' = Closed(C)
<1>1. \A f : SearchPath(f)' = SearchPath(f)
    BY DEF SearchPath, RunPaths, Place
<1>2. \A s, n, i : IsFirst(s, n, i)' = IsFirst(s, n, i)
    BY DEF IsFirst, Has
<1>3. \A f, n : Found(f, n)' = Found(f, n)
    BY <1>1, <1>2 DEF Found
<1>4. \A f : Loadable(f)' = Loadable(f)
    BY <1>3 DEF Loadable, RunPathsQualified, Resolvable
<1>5. \A C : Closed(C)' = Closed(C)
    BY <1>3 DEF Closed
<1>6. QED
    BY <1>3, <1>4, <1>5

LEMMA VisitInv == IInv /\ Visit => IInv'
<1>. SUFFICES ASSUME IInv, Visit PROVE IInv'
    OBVIOUS
<1>. DEFINE deps == Dependencies(Top)
<1>1. tree \in Layout /\ pending \in Seq(Files) /\ visited \subseteq Files
      /\ needed \in [Files -> [Names -> Files \cup {Absent}]]
    BY DEF IInv, TypeOK
<1>2. /\ tree' = tree /\ outcome' = outcome /\ outcome = "walking"
      /\ pending # << >> /\ Loadable(Top) /\ Top \notin visited
      /\ pending' = Rest \o deps
      /\ visited' = visited \cup {Top}
    BY DEF Visit
<1>3. /\ Rest \in Seq(Files) /\ Top \in Files
      /\ Elements(pending) = {Top} \cup Elements(Rest)
    BY <1>1, <1>2, ElementsOfPop DEF Top, Rest
<1>4. /\ deps \in Seq(Files)
      /\ Elements(deps) = {Found(Top, n) : n \in Elements(tree.needs[Top])}
      /\ Elements(tree.needs[Top]) \subseteq Names
    BY <1>1, <1>2, <1>3, DependenciesAreFound
<1>5. /\ pending' \in Seq(Files)
      /\ Elements(pending') = Elements(Rest) \cup Elements(deps)
    BY <1>2, <1>3, <1>4, ElementsOfConcat
<1>6. /\ \A f, n : Found(f, n)' = Found(f, n)
      /\ \A f : Loadable(f)' = Loadable(f)
      /\ \A C : Closed(C)' = Closed(C)
    BY <1>2, SearchUnchanged
<1>7. \A n \in Elements(tree.needs[Top]) : Found(Top, n) \in Files
    BY <1>2 DEF Loadable, Resolvable
<1>8. needed' = [needed EXCEPT ![Top] = [n \in Names |->
          IF n \in Elements(tree.needs[Top]) THEN Found(Top, n) ELSE Absent]]
    BY DEF Visit
<1>9. needed' \in [Files -> [Names -> Files \cup {Absent}]]
    BY <1>1, <1>3, <1>7, <1>8
<1>10. TypeOK'
    BY <1>1, <1>2, <1>3, <1>5, <1>9 DEF TypeOK
<1>11. Walk'
    <2>1. Elements(Starts) \subseteq visited' \cup Elements(pending')
        BY <1>2, <1>3, <1>5 DEF IInv, Walk
    <2>2. \A f \in visited' : Loadable(f)'
        BY <1>2, <1>6 DEF IInv, Walk
    <2>3. ASSUME NEW f \in visited', NEW n \in Names, n \in Elements(tree.needs[f])
          PROVE  /\ Found(f, n) \in visited' \cup Elements(pending')
                 /\ needed'[f][n] = Found(f, n)
        <3>1. CASE f = Top
            BY <1>1, <1>3, <1>4, <1>5, <1>8, <2>3, <3>1
        <3>2. CASE f # Top
            <4>1. f \in visited /\ f \in Files
                BY <1>1, <1>2, <3>2
            <4>2. Found(f, n) \in visited \cup Elements(pending) /\ needed[f][n] = Found(f, n)
                BY <2>3, <4>1 DEF IInv, Walk
            <4>3. needed'[f] = needed[f]
                BY <1>1, <1>8, <3>2, <4>1
            <4>4. QED
                BY <1>2, <1>3, <1>5, <4>2, <4>3
        <3>3. QED
            BY <3>1, <3>2
    <2>4. QED
        BY <1>2, <1>6, <2>1, <2>2, <2>3 DEF Walk, Elements
<1>12. NothingExtra'
    <2>. SUFFICES ASSUME NEW C \in SUBSET Files, Closed(C)
                  PROVE  visited' \cup Elements(pending') \subseteq C
        BY <1>6 DEF NothingExtra, Elements
    <2>1. visited \cup Elements(pending) \subseteq C
        BY DEF IInv, NothingExtra
    <2>2. Top \in C
        BY <1>3, <2>1
    <2>3. Elements(deps) \subseteq C
        BY <1>3, <1>4, <2>2 DEF Closed
    <2>4. QED
        BY <1>2, <1>3, <1>5, <2>1, <2>3
<1>13. QED
    BY <1>10, <1>11, <1>12 DEF IInv

LEMMA SkipInv == IInv /\ Skip => IInv'
<1>. SUFFICES ASSUME IInv, Skip PROVE IInv'
    OBVIOUS
<1>1. /\ tree' = tree /\ visited' = visited /\ needed' = needed
      /\ outcome' = outcome /\ outcome = "walking"
      /\ pending # << >> /\ Top \in visited /\ pending' = Rest
    BY DEF Skip
<1>2. /\ Rest \in Seq(Files)
      /\ Elements(pending) = {Top} \cup Elements(Rest)
    BY <1>1, ElementsOfPop DEF IInv, TypeOK, Top, Rest
<1>3. /\ \A f, n : Found(f, n)' = Found(f, n)
      /\ \A f : Loadable(f)' = Loadable(f)
      /\ \A C : Closed(C)' = Closed(C)
    BY <1>1, SearchUnchanged
<1>4. visited' \cup Elements(pending') = visited \cup Elements(pending)
    BY <1>1, <1>2
<1>5. TypeOK'
    BY <1>1, <1>2 DEF IInv, TypeOK
<1>6. Walk'
    <2>1. Elements(Starts) \subseteq visited' \cup Elements(pending')
        BY <1>4 DEF IInv, Walk
    <2>2. \A f \in visited' : Loadable(f)'
        BY <1>1, <1>3 DEF IInv, Walk
    <2>3. \A f \in visited', n \in Names : n \in Elements(tree.needs[f]) =>
              /\ Found(f, n) \in visited' \cup Elements(pending')
              /\ needed'[f][n] = Found(f, n)
        BY <1>1, <1>4 DEF IInv, Walk
    <2>4. QED
        BY <1>1, <1>3, <2>1, <2>2, <2>3 DEF Walk, Elements
<1>7. NothingExtra'
    <2>. SUFFICES ASSUME NEW C \in SUBSET Files, Closed(C)
                  PROVE  visited' \cup Elements(pending') \subseteq C
        BY <1>3 DEF NothingExtra, Elements
    <2>1. QED
        BY <1>4 DEF IInv, NothingExtra
<1>8. QED
    BY <1>5, <1>6, <1>7 DEF IInv

(* The steps that look at no object change only the outcome, and a pass is    *)
(* reached only through CheckVersions.                                        *)
LEMMA OutcomeInv ==
    ASSUME IInv, UNCHANGED <<tree, pending, visited, needed>>,
           outcome' \in {"walking", "checking", "passed", "failed"},
           outcome' \in {"checking", "passed"} => pending = << >>,
           outcome' = "passed" => \A f \in visited : VersionsDefined(f)
    PROVE  IInv'
<1>1. /\ \A f, n : Found(f, n)' = Found(f, n)
      /\ \A f : Loadable(f)' = Loadable(f)
      /\ \A C : Closed(C)' = Closed(C)
    BY SearchUnchanged
<1>2. \A f : VersionsDefined(f)' = VersionsDefined(f)
    BY DEF VersionsDefined
<1>3. TypeOK'
    BY DEF IInv, TypeOK
<1>4. Walk'
    BY <1>1, <1>2 DEF IInv, Walk
<1>5. NothingExtra'
    BY <1>1 DEF IInv, NothingExtra
<1>6. QED
    BY <1>3, <1>4, <1>5 DEF IInv

LEMMA NextInv == IInv /\ [Next]_vars => IInv'
<1>. SUFFICES ASSUME IInv, [Next]_vars PROVE IInv'
    OBVIOUS
<1>0. outcome \in {"walking", "checking", "passed", "failed"}
    BY DEF IInv, TypeOK
<1>1. CASE Skip
    BY <1>1, SkipInv
<1>2. CASE Visit
    BY <1>2, VisitInv
<1>3. CASE Reject
    BY <1>3, OutcomeInv DEF Reject
<1>4. CASE Walked
    BY <1>4, OutcomeInv DEF Walked
<1>5. CASE CheckVersions
    <2>1. pending = << >>
        BY <1>5 DEF CheckVersions, IInv, Walk
    <2>2. QED
        BY <1>5, <2>1, OutcomeInv DEF CheckVersions
<1>6. CASE Done \/ UNCHANGED vars
    BY <1>0, <1>6, OutcomeInv DEF Done, vars, IInv, Walk
<1>7. QED
    BY <1>1, <1>2, <1>3, <1>4, <1>5, <1>6 DEF Next

(* What the loop keeps, at every moment of every walk.                        *)
THEOREM Inductive == Spec => []IInv
<1>1. Init => IInv
    BY InitInv
<1>2. IInv /\ [Next]_vars => IInv'
    BY NextInv
<1>3. QED
    BY <1>1, <1>2, PTL DEF Spec

(* The variables of dependency_closure keep their types: nothing but a file   *)
(* of the sysroot or a given executable is ever put on the worklist.          *)
THEOREM ClosureTypes == Spec => []TypeOK
<1>1. IInv => TypeOK
    BY DEF IInv
<1>2. QED
    BY <1>1, Inductive, PTL

(* When dependency_closure returns, its result is closed under DT_NEEDED.     *)
THEOREM ClosureMissesNothing == Spec => []NothingMissed
<1>1. IInv => NothingMissed
    BY DEF IInv, TypeOK, Walk, NothingMissed, Closed, Elements
<1>2. QED
    BY <1>1, Inductive, PTL

(* dependency_closure never looks at an object no starting object needs.      *)
THEOREM ClosureAddsNothing == Spec => []NothingExtra
<1>1. IInv => NothingExtra
    BY DEF IInv
<1>2. QED
    BY <1>1, Inductive, PTL

(* A file the search found and the walk accepted is the one the loader loads. *)
LEMMA FoundIsLoaded ==
    ASSUME IInv, outcome = "passed", NEW f \in visited, NEW n \in Names,
           n \in Elements(tree.needs[f])
    PROVE  Loads(f, n, needed[f][n])
<1>. DEFINE s == SearchPath(f)
<1>1. tree \in Layout /\ f \in Files /\ tree.elf \subseteq Files
    BY DEF IInv, TypeOK, Layout
<1>2. pending = << >> /\ needed[f][n] = Found(f, n) /\ Found(f, n) \in visited
    BY DEF IInv, Walk, Elements
<1>3. Found(f, n) \in tree.elf /\ Found(f, n) # Absent
    BY <1>1, <1>2, LayoutAssumption DEF IInv, TypeOK, Walk, Loadable
<1>4. PICK i \in 1 .. Len(s) : IsFirst(s, n, i) /\ Found(f, n) = tree.at[s[i]][n]
    BY <1>1, <1>3, FoundIsFirst
<1>5. \A j \in 1 .. i - 1 : ~ Usable(tree.at[s[j]][n])
    BY <1>1, <1>4, LayoutAssumption DEF IsFirst, Has, Usable
<1>6. s = RunPaths(f) \o tree.defaults
    BY DEF SearchPath
<1>7. QED
    BY <1>2, <1>3, <1>4, <1>5, <1>6 DEF Loads, Usable

(* The loader has one choice.                                                 *)
LEMMA LoadsOne ==
    ASSUME tree \in Layout, NEW f \in Files, NEW n, NEW g, NEW h,
           Loads(f, n, g), Loads(f, n, h)
    PROVE  g = h
<1>. DEFINE s == SearchPath(f)
<1>1. Len(s) \in Nat
    BY SearchPathType
<1>2. PICK i \in 1 .. Len(s) : tree.at[s[i]][n] = g /\ Usable(g)
          /\ \A k \in 1 .. i - 1 : ~ Usable(tree.at[s[k]][n])
    BY DEF Loads, SearchPath
<1>3. PICK j \in 1 .. Len(s) : tree.at[s[j]][n] = h /\ Usable(h)
          /\ \A k \in 1 .. j - 1 : ~ Usable(tree.at[s[k]][n])
    BY DEF Loads, SearchPath
<1>4. i \in Int /\ j \in Int
    BY <1>1
<1>5. ~ (i < j) /\ ~ (j < i)
    BY <1>1, <1>2, <1>3, <1>4
<1>6. QED
    BY <1>2, <1>3, <1>4, <1>5

(* dependency_closure resolves every name as the target's loader would, in    *)
(* every sysroot in which it succeeds.                                        *)
THEOREM ClosureAgreesWithLoader == Spec => []AsTheLoaderWould
<1>1. IInv => AsTheLoaderWould
    BY FoundIsLoaded DEF AsTheLoaderWould
<1>2. QED
    BY <1>1, Inductive, PTL

(* check_versions passes only when each library the loader takes defines the  *)
(* versions wanted of it.                                                     *)
THEOREM ClosureVersions == Spec => []VersionsSatisfied
<1>1. ASSUME IInv, outcome = "passed", NEW f \in visited, NEW n \in Names,
             NEW g \in Files, Loads(f, n, g), n \in Elements(tree.needs[f])
      PROVE  tree.wants[f][n] \subseteq tree.defines[g]
    <2>1. tree \in Layout /\ f \in Files
        BY <1>1 DEF IInv, TypeOK
    <2>2. g = needed[f][n]
        BY <1>1, <2>1, FoundIsLoaded, LoadsOne
    <2>3. VersionsDefined(f)
        BY <1>1 DEF IInv, Walk
    <2>4. QED
        BY <1>1, <2>2, <2>3 DEF VersionsDefined
<1>2. IInv => VersionsSatisfied
    BY <1>1 DEF VersionsSatisfied
<1>3. QED
    BY <1>2, Inductive, PTL

(* dependency_closure returns what the target's loader would load.            *)
THEOREM ClosureCorrect == Spec => []ClosureIsLoaders
<1>1. NothingMissed /\ NothingExtra /\ AsTheLoaderWould /\ VersionsSatisfied
        => ClosureIsLoaders
    BY DEF ClosureIsLoaders
<1>2. QED
    BY <1>1, ClosureMissesNothing, ClosureAddsNothing, ClosureAgreesWithLoader,
       ClosureVersions, PTL

-----------------------------------------------------------------------------
(* The workspace of --build.                                                  *)
Exported == Workspace!Inside \ {"export"}
Cleared == Exported \ {"prebuilt"}
Claimed == Cleared \ {"configure", "evidence"}
Building == Claimed \ {"probe"}
Compiled == Building \ {"build"}
Compared == Compiled \ {"outputs"}
Qualified == {"built", "verified"}

Qualification(place) ==
    IF place \in Qualified THEN "TARGET_BUILD_INSTALL_ONLY" ELSE "CROSS_CONFIGURATION_ONLY"

(* What an attempt has made sure of, by where it is: the workspace is its     *)
(* own, its export is what its identity names, its objects are of that export *)
(* and of both languages, what is Ada by a compiler no older than the one     *)
(* validated and no newer than the one that is there now unless one was put   *)
(* back, and its evidence says so.                                            *)
AdaSince(a) == ~ restored => settings[a].ada <= compiler["ada"]
Made(a, o) ==
    /\ o.by \in Workspace!Editions /\ o.from = work.content
    /\ o.lang = "ada" /\ ~ restored => settings[a].ada <= o.by /\ o.by <= compiler["ada"]
Recorded(a, o) ==
    /\ Release[o.lang][o.by] \in settings[a].identities
    /\ o.lang = "ada" => Signature[o.by] = Signature[settings[a].ada]
BothLanguages == \A l \in Workspace!Languages : \E o \in work.objects : o.lang = l
AdaVerified ==
    ~ restored => \A o \in work.objects : o.lang = "ada" => o.by = work.evidence.ada

Holds(a) ==
    /\ pc[a] \in Workspace!Inside => author = a
    /\ pc[a] \notin {"validate", "stopped"} =>
           settings[a] \in Workspace!Settings /\ AdaSince(a)
    /\ pc[a] \in {"clean", "head"} => git
    /\ git /\ pc[a] \in Workspace!Inside \cup {"create"} => revision[a] \in 1 .. Len(commits)
    /\ pc[a] \in Workspace!Inside \ Claimed => work.evidence = None
    /\ pc[a] \in Exported => /\ ~ git => revision[a] \in Workspace!Export
                             /\ work.content = Workspace!Identity(a)
    /\ pc[a] \in Cleared => \A f \in SourceFiles : work.content[f] # Prebuilt
    /\ pc[a] \in Claimed => work.evidence = Workspace!Claim(a, Qualification(pc[a]))
    /\ pc[a] \in Workspace!Inside \ Building => work.objects = {}
    /\ pc[a] \in Building => \A o \in work.objects : Made(a, o)
    /\ pc[a] \in Compiled => BothLanguages
    /\ pc[a] \in Compared => \A o \in work.objects : Recorded(a, o)
    /\ pc[a] = "verified" => AdaVerified

WorkspaceInv ==
    /\ Workspace!TypeOK
    /\ \A a \in Attempts : Holds(a)
    /\ Len(commits) >= 1
    /\ \A l \in Workspace!Languages : compiler[l] <= changes
    /\ author = None => work.evidence = None /\ work.objects = {}
    /\ Workspace!IdentityNamesContent /\ Workspace!InstallationEarned

LEMMA WorkspaceConstants ==
    ASSUME Workspace!WorkspaceAssumption
    PROVE  /\ Edits \in Nat /\ None \notin Attempts /\ None \notin Workspace!Editions
           /\ Workspace!Editions = 0 .. Edits /\ Workspace!Languages = {"ada", "cxx"}
BY DEF Workspace!WorkspaceAssumption, Workspace!Editions, Workspace!Languages

LEMMA StageSets ==
    /\ Workspace!Inside = {"export", "prebuilt", "configure", "evidence", "probe", "build",
                           "outputs", "install", "qualify", "built", "verified"}
    /\ Exported = {"prebuilt", "configure", "evidence", "probe", "build",
                   "outputs", "install", "qualify", "built", "verified"}
    /\ Cleared = {"configure", "evidence", "probe", "build",
                  "outputs", "install", "qualify", "built", "verified"}
    /\ Claimed = {"probe", "build", "outputs", "install", "qualify", "built", "verified"}
    /\ Building = {"build", "outputs", "install", "qualify", "built", "verified"}
    /\ Compiled = {"outputs", "install", "qualify", "built", "verified"}
    /\ Compared = {"install", "qualify", "built", "verified"}
    /\ Workspace!Inside \ Claimed = {"export", "prebuilt", "configure", "evidence"}
    /\ Workspace!Inside \ Building = {"export", "prebuilt", "configure", "evidence", "probe"}
<1>1. Workspace!Inside = {"export", "prebuilt", "configure", "evidence", "probe", "build",
                          "outputs", "install", "qualify", "built", "verified"}
    BY DEF Workspace!Inside, Workspace!Stages
<1>2. Exported = {"prebuilt", "configure", "evidence", "probe", "build",
                  "outputs", "install", "qualify", "built", "verified"}
    BY <1>1 DEF Exported
<1>3. Cleared = {"configure", "evidence", "probe", "build",
                 "outputs", "install", "qualify", "built", "verified"}
    BY <1>2 DEF Cleared
<1>4. Claimed = {"probe", "build", "outputs", "install", "qualify", "built", "verified"}
    BY <1>3 DEF Claimed
<1>4a. Building = {"build", "outputs", "install", "qualify", "built", "verified"}
    BY <1>4 DEF Building
<1>5. Compiled = {"outputs", "install", "qualify", "built", "verified"}
    BY <1>4a DEF Compiled
<1>6. Compared = {"install", "qualify", "built", "verified"}
    BY <1>5 DEF Compared
<1>7. Workspace!Inside \ Claimed = {"export", "prebuilt", "configure", "evidence"}
    BY <1>1, <1>4
<1>8. Workspace!Inside \ Building = {"export", "prebuilt", "configure", "evidence", "probe"}
    BY <1>1, <1>4a
<1>9. QED
    BY <1>1, <1>2, <1>3, <1>4, <1>4a, <1>5, <1>6, <1>7, <1>8

LEMMA WorkspaceInitially ==
    ASSUME Workspace!WorkspaceAssumption, Workspace!Init
    PROVE  WorkspaceInv
<1>1. 0 \in Workspace!Editions
    BY WorkspaceConstants
<1>2. source \in Workspace!Tree
    BY <1>1 DEF Workspace!Init, Workspace!Tree
<1>3. commits \in Seq(Workspace!Tree)
    BY <1>2 DEF Workspace!Init
<1>4. Workspace!Empty \in Workspace!Export
    BY DEF Workspace!Empty, Workspace!Export
<1>4a. compiler \in [Workspace!Languages -> Workspace!Editions]
    BY <1>1 DEF Workspace!Init
<1>5. Workspace!TypeOK
    BY <1>1, <1>2, <1>3, <1>4, <1>4a DEF Workspace!Init, Workspace!TypeOK, Workspace!Stages
<1>6. \A a \in Attempts : Holds(a)
    BY StageSets DEF Workspace!Init, Holds
<1>7. QED
    BY <1>1, <1>3, <1>5, <1>6, WorkspaceConstants DEF Workspace!Init, WorkspaceInv,
       Workspace!IdentityNamesContent, Workspace!InstallationEarned

(* What others do reaches no attempt: what is archived was committed before,  *)
(* and a compiler that is put in place is a newer one.                        *)
LEMMA OthersStep ==
    ASSUME Workspace!WorkspaceAssumption, WorkspaceInv,
           \/ \E f \in SourceFiles : Workspace!Edit(f)
           \/ Workspace!Commit
           \/ \E l \in Workspace!Languages : Workspace!ReplaceCompiler(l)
           \/ \E l \in Workspace!Languages, e \in Workspace!Editions : Workspace!PutBack(l, e)
           \/ Workspace!ReplaceConfiguration
    PROVE  WorkspaceInv'
<1>0. /\ Workspace!TypeOK /\ (\A a \in Attempts : Holds(a))
      /\ \A l \in Workspace!Languages : compiler[l] <= changes
      /\ Len(commits) >= 1 /\ (author = None => work.evidence = None /\ work.objects = {})
      /\ Workspace!IdentityNamesContent /\ Workspace!InstallationEarned
    BY DEF WorkspaceInv
<1>1. UNCHANGED <<git, pc, settings, revision, author, work>>
    BY DEF Workspace!Edit, Workspace!Commit, Workspace!ReplaceCompiler, Workspace!PutBack,
           Workspace!ReplaceConfiguration
<1>2. /\ changes \in Int /\ Edits \in Nat /\ restored \in BOOLEAN
      /\ source \in Workspace!Tree /\ commits \in Seq(Workspace!Tree)
      /\ supplied \in Workspace!Editions
      /\ compiler \in [Workspace!Languages -> Workspace!Editions]
      /\ changes \in Workspace!Editions
    BY <1>0, WorkspaceConstants DEF Workspace!TypeOK
<1>2a. compiler["ada"] \in Int /\ \A l \in Workspace!Languages : compiler[l] \in Int
    BY <1>2, WorkspaceConstants
<1>2b. Workspace!Change => changes + 1 \in Workspace!Editions /\ changes' = changes + 1
    BY <1>2, WorkspaceConstants DEF Workspace!Change
<1>3. /\ source' \in Workspace!Tree /\ commits' \in Seq(Workspace!Tree)
      /\ supplied' \in Workspace!Editions /\ restored' \in BOOLEAN
      /\ compiler' \in [Workspace!Languages -> Workspace!Editions]
      /\ changes' \in Workspace!Editions
      /\ ~ restored' => ~ restored /\ compiler["ada"] <= compiler'["ada"]
      /\ \A l \in Workspace!Languages : compiler'[l] <= changes'
      /\ Len(commits) <= Len(commits')
      /\ \A i \in 1 .. Len(commits) : commits'[i] = commits[i]
    <2>1. CASE \E f \in SourceFiles : Workspace!Edit(f)
        <3>1. PICK f \in SourceFiles : Workspace!Edit(f)
            BY <2>1
        <3>2. source' \in Workspace!Tree
            BY <1>2, <1>2b, <3>1 DEF Workspace!Edit, Workspace!Tree
        <3>3. QED
            BY <1>0, <1>2, <1>2a, <1>2b, <3>1, <3>2 DEF Workspace!Edit
    <2>2. CASE Workspace!Commit
        BY <1>0, <1>2, <1>2a, <2>2 DEF Workspace!Commit
    <2>3. CASE \E l \in Workspace!Languages : Workspace!ReplaceCompiler(l)
        <3>1. PICK l \in Workspace!Languages : Workspace!ReplaceCompiler(l)
            BY <2>3
        <3>2. /\ compiler' = [compiler EXCEPT ![l] = changes + 1]
              /\ changes + 1 \in Workspace!Editions /\ changes' = changes + 1
              /\ UNCHANGED <<source, commits, supplied, restored>>
            BY <1>2b, <3>1 DEF Workspace!ReplaceCompiler
        <3>3. compiler' \in [Workspace!Languages -> Workspace!Editions]
            BY <1>2, <3>2
        <3>4. /\ \A k \in Workspace!Languages : compiler'[k] <= changes'
              /\ compiler["ada"] <= compiler'["ada"]
            BY <1>0, <1>2, <1>2a, <3>2, WorkspaceConstants
        <3>5. QED
            BY <1>2, <3>2, <3>3, <3>4
    <2>4. CASE \E l \in Workspace!Languages, e \in Workspace!Editions : Workspace!PutBack(l, e)
        <3>1. PICK l \in Workspace!Languages, e \in Workspace!Editions : Workspace!PutBack(l, e)
            BY <2>4
        <3>2. /\ compiler' = [compiler EXCEPT ![l] = e] /\ e < compiler[l]
              /\ restored' = (restored \/ l = "ada")
              /\ changes + 1 \in Workspace!Editions /\ changes' = changes + 1
              /\ UNCHANGED <<source, commits, supplied>>
            BY <1>2b, <3>1 DEF Workspace!PutBack
        <3>3. compiler' \in [Workspace!Languages -> Workspace!Editions]
            BY <1>2, <3>1, <3>2
        <3>4. /\ \A k \in Workspace!Languages : compiler'[k] <= changes'
              /\ l # "ada" => compiler["ada"] = compiler'["ada"]
            <4>1. e \in Int
                BY <3>1, WorkspaceConstants
            <4>2. QED
                BY <1>0, <1>2, <1>2a, <3>2, <4>1, WorkspaceConstants
        <3>5. restored' \in BOOLEAN /\ (~ restored' => ~ restored /\ l # "ada")
            BY <3>2, Zenon
        <3>6. ~ restored' => ~ restored /\ compiler["ada"] <= compiler'["ada"]
            BY <1>2a, <3>4, <3>5
        <3>7. UNCHANGED <<source, commits, supplied>> /\ changes' \in Workspace!Editions
            BY <3>2
        <3>8. Len(commits) <= Len(commits')
              /\ \A i \in 1 .. Len(commits) : commits'[i] = commits[i]
            BY <1>2, <3>7
        <3>9. QED
            BY <1>2, <3>3, <3>4, <3>5, <3>6, <3>7, <3>8
    <2>5. CASE Workspace!ReplaceConfiguration
        BY <1>0, <1>2, <1>2a, <1>2b, <2>5 DEF Workspace!ReplaceConfiguration
    <2>6. QED
        BY <2>1, <2>2, <2>3, <2>4, <2>5
<1>4. /\ Len(commits) \in Nat /\ Len(commits') \in Nat /\ compiler'["ada"] \in Int
      /\ 1 .. Len(commits) \subseteq 1 .. Len(commits')
    <2>1. Len(commits) \in Nat /\ Len(commits') \in Nat
        BY <1>2, <1>3
    <2>2. QED
        BY <1>2, <1>3, <2>1, WorkspaceConstants
<1>5. Workspace!TypeOK'
    BY <1>0, <1>1, <1>3, <1>4 DEF Workspace!TypeOK
<1>6. ASSUME NEW a \in Attempts PROVE Holds(a)'
    <2>1. Holds(a)
        BY <1>0
    <2>2. pc[a] \in Exported => Workspace!Identity(a)' = Workspace!Identity(a)
        BY <1>1, <1>3, <2>1, StageSets DEF Holds, Workspace!Identity
    <2>3. pc[a] \in Claimed => /\ Workspace!Claim(a, Qualification(pc[a]))'
                                    = Workspace!Claim(a, Qualification(pc[a]))
        BY <1>1, <2>2, StageSets DEF Workspace!Claim, Qualification
    <2>4. settings[a] \in Workspace!Settings /\ AdaSince(a) => AdaSince(a)'
        <3>1. settings[a] \in Workspace!Settings => settings[a].ada \in Int
            BY WorkspaceConstants DEF Workspace!Settings
        <3>2. QED
            BY <1>1, <1>2a, <1>3, <1>4, <3>1 DEF AdaSince
    <2>5. \A o : Made(a, o) => Made(a, o)'
        <3>1. \A o : o.by \in Workspace!Editions => o.by \in Int
            BY WorkspaceConstants
        <3>2. QED
            BY <1>1, <1>2a, <1>3, <1>4, <3>1 DEF Made
    <2>6. /\ BothLanguages => BothLanguages'
          /\ \A o : Recorded(a, o) => Recorded(a, o)'
          /\ AdaVerified => AdaVerified'
        BY <1>1, <1>3 DEF BothLanguages, Recorded, AdaVerified
    <2>7. QED
        BY <1>1, <1>4, <2>1, <2>2, <2>3, <2>4, <2>5, <2>6 DEF Holds
<1>7. QED
    BY <1>0, <1>1, <1>3, <1>4, <1>5, <1>6 DEF WorkspaceInv, Workspace!IdentityNamesContent,
       Workspace!InstallationEarned

Works == [content : Workspace!Export, config : Workspace!Editions \cup {None},
          objects : SUBSET Workspace!Object, evidence : Workspace!Evidence \cup {None}]

(* A step of one attempt: the others are where they were, and outside of the  *)
(* workspace when the step writes there.                                      *)
LEMMA AttemptFrame ==
    ASSUME Workspace!WorkspaceAssumption, WorkspaceInv, NEW a \in Attempts,
           UNCHANGED Workspace!others,
           pc' \in [Attempts -> Workspace!Stages],
           settings' \in [Attempts -> Workspace!Settings \cup {None}],
           DOMAIN revision' = Attempts,
           revision'[a] = None \/ IF git THEN revision'[a] \in 1 .. Len(commits)
                                         ELSE revision'[a] \in Workspace!Export,
           author' \in Attempts \cup {None}, work' \in Works,
           \A b \in Attempts \ {a} : /\ pc'[b] = pc[b] /\ settings'[b] = settings[b]
                                     /\ revision'[b] = revision[b],
           \/ UNCHANGED <<author, work>>
           \/ \A b \in Attempts \ {a} : pc[b] \notin Workspace!Inside,
           Holds(a)', author' = None => work'.evidence = None /\ work'.objects = {},
           Workspace!IdentityNamesContent', Workspace!InstallationEarned'
    PROVE  WorkspaceInv'
<1>0. /\ Workspace!TypeOK /\ (\A b \in Attempts : Holds(b)) /\ Len(commits) >= 1
      /\ \A l \in Workspace!Languages : compiler[l] <= changes
    BY DEF WorkspaceInv
<1>1. UNCHANGED <<git, source, commits, compiler, restored, supplied, changes>>
    BY DEF Workspace!others
<1>2. Workspace!TypeOK'
    <2>1. \A b \in Attempts : revision'[b] # None =>
              IF git THEN revision'[b] \in 1 .. Len(commits) ELSE revision'[b] \in Workspace!Export
        BY <1>0 DEF Workspace!TypeOK
    <2>2. QED
        BY <1>0, <1>1, <2>1 DEF Workspace!TypeOK, Works
<1>3. ASSUME NEW b \in Attempts, b # a PROVE Holds(b)'
    <2>1. Holds(b) /\ pc'[b] = pc[b] /\ settings'[b] = settings[b] /\ revision'[b] = revision[b]
        BY <1>0, <1>3
    <2>2. Workspace!Identity(b)' = Workspace!Identity(b)
        BY <1>1, <2>1 DEF Workspace!Identity
    <2>3. Workspace!Claim(b, Qualification(pc[b]))' = Workspace!Claim(b, Qualification(pc[b]))
        BY <2>1, <2>2 DEF Workspace!Claim, Qualification
    <2>3a. AdaSince(b)' = AdaSince(b)
        BY <1>1, <2>1 DEF AdaSince
    <2>4. CASE UNCHANGED <<author, work>>
        <3>1. /\ \A o : Made(b, o)' = Made(b, o) /\ Recorded(b, o)' = Recorded(b, o)
              /\ BothLanguages' = BothLanguages /\ AdaVerified' = AdaVerified
            BY <1>1, <2>1, <2>4 DEF Made, Recorded, BothLanguages, AdaVerified
        <3>2. QED
            BY <1>1, <2>1, <2>2, <2>3, <2>3a, <2>4, <3>1 DEF Holds
    <2>5. CASE pc[b] \notin Workspace!Inside
        <3>1. /\ pc[b] \notin Exported /\ pc[b] \notin Cleared /\ pc[b] \notin Claimed
              /\ pc[b] \notin Compiled /\ pc[b] \notin Compared /\ pc[b] # "verified"
              /\ pc[b] \notin Workspace!Inside \ Claimed /\ pc[b] \notin Building
              /\ pc[b] \notin Workspace!Inside \ Building
            BY <2>5, StageSets
        <3>2. QED
            BY <1>1, <2>1, <2>3a, <2>5, <3>1 DEF Holds
    <2>6. QED
        BY <1>3, <2>4, <2>5
<1>4. QED
    BY <1>0, <1>1, <1>2, <1>3 DEF WorkspaceInv

(* A step that moves one attempt on and writes nothing.                       *)
LEMMA Moves ==
    ASSUME Workspace!WorkspaceAssumption, WorkspaceInv, NEW a \in Attempts,
           NEW place \in Workspace!Stages,
           UNCHANGED Workspace!others, UNCHANGED <<settings, revision, author, work>>,
           pc' = [pc EXCEPT ![a] = place], Holds(a)'
    PROVE  WorkspaceInv'
<1>0. /\ Workspace!TypeOK /\ (author = None => work.evidence = None /\ work.objects = {})
      /\ Workspace!IdentityNamesContent /\ Workspace!InstallationEarned
    BY DEF WorkspaceInv
<1>1. pc' \in [Attempts -> Workspace!Stages] /\ \A b \in Attempts \ {a} : pc'[b] = pc[b]
    BY <1>0 DEF Workspace!TypeOK
<1>2. Workspace!IdentityNamesContent' /\ Workspace!InstallationEarned'
    BY <1>0 DEF Workspace!IdentityNamesContent, Workspace!InstallationEarned
<1>3. /\ settings' \in [Attempts -> Workspace!Settings \cup {None}]
      /\ DOMAIN revision' = Attempts /\ author' \in Attempts \cup {None} /\ work' \in Works
      /\ revision'[a] = None \/ IF git THEN revision'[a] \in 1 .. Len(commits)
                                       ELSE revision'[a] \in Workspace!Export
    BY <1>0 DEF Workspace!TypeOK, Works
<1>4. QED
    BY <1>0, <1>1, <1>2, <1>3, AttemptFrame

LEMMA StagesAre ==
    Workspace!Stages = {"validate", "unused", "clean", "head", "create", "export", "prebuilt",
                        "configure", "evidence", "probe", "build", "outputs", "install",
                        "qualify", "built", "verified", "stopped"}
BY DEF Workspace!Stages

(* The moves that write nothing, one at a time.                               *)
LEMMA MovesOn ==
    ASSUME Workspace!WorkspaceAssumption, WorkspaceInv, NEW a \in Attempts,
           Workspace!Unused(a) \/ Workspace!Clean(a) \/ Workspace!NoPrebuilt(a)
           \/ Workspace!Probe(a) \/ Workspace!Outputs(a) \/ Workspace!Install(a)
           \/ Workspace!VerifyBuilt(a) \/ Workspace!Stop(a)
    PROVE  WorkspaceInv'
<1>0. Workspace!TypeOK /\ Holds(a) /\ pc \in [Attempts -> Workspace!Stages]
    BY DEF WorkspaceInv, Workspace!TypeOK
<1>1. UNCHANGED Workspace!others /\ UNCHANGED <<settings, revision, author, work>>
    BY DEF Workspace!Unused, Workspace!Clean, Workspace!NoPrebuilt, Workspace!Probe,
           Workspace!Outputs, Workspace!Install, Workspace!VerifyBuilt, Workspace!Stop
<1>2. UNCHANGED <<git, source, commits, compiler, restored, supplied, changes>>
    BY <1>1 DEF Workspace!others
<1>. DEFINE place == pc'[a]
<1>3. pc' = [pc EXCEPT ![a] = place] /\ place \in Workspace!Stages
    BY <1>0, StagesAre DEF Workspace!Unused, Workspace!Clean, Workspace!NoPrebuilt,
           Workspace!Probe, Workspace!Outputs, Workspace!Install, Workspace!VerifyBuilt,
           Workspace!Stop, Workspace!Go
<1>4. Workspace!Identity(a)' = Workspace!Identity(a)
    BY <1>1, <1>2 DEF Workspace!Identity
<1>5. \A q : Workspace!Claim(a, q)' = Workspace!Claim(a, q)
    BY <1>1, <1>4 DEF Workspace!Claim
<1>5a. /\ \A o : Made(a, o)' = Made(a, o) /\ Recorded(a, o)' = Recorded(a, o)
       /\ AdaSince(a)' = AdaSince(a)
       /\ BothLanguages' = BothLanguages /\ AdaVerified' = AdaVerified
    BY <1>1, <1>2 DEF Made, Recorded, AdaSince, BothLanguages, AdaVerified
<1>6. Holds(a)'
    <2>1. CASE Workspace!Unused(a) \/ Workspace!Clean(a)
        <3>1. pc[a] \in {"unused", "clean"} /\ place \in {"clean", "create", "head"}
              /\ (place = "create" => ~ git) /\ (place # "create" => git)
            BY <1>0, <2>1 DEF Workspace!Unused, Workspace!Clean, Workspace!At, Workspace!Go, Holds
        <3>2. QED
            BY <1>0, <1>1, <1>2, <1>5a, <3>1, StageSets DEF Holds
    <2>2. CASE Workspace!NoPrebuilt(a)
        <3>1. pc[a] = "prebuilt" /\ place = "configure"
              /\ \A f \in SourceFiles : work.content[f] # Prebuilt
            BY <1>0, <2>2 DEF Workspace!NoPrebuilt, Workspace!At, Workspace!Go
        <3>2. QED
            BY <1>0, <1>1, <1>2, <1>4, <1>5a, <3>1, StageSets DEF Holds
    <2>3. CASE Workspace!Probe(a)
        <3>1. pc[a] = "probe" /\ place = "build"
            BY <1>0, <2>3 DEF Workspace!Probe, Workspace!At, Workspace!Go
        <3>2. QED
            BY <1>0, <1>1, <1>2, <1>4, <1>5, <1>5a, <3>1, StageSets DEF Holds, Qualification, Qualified
    <2>4. CASE Workspace!Outputs(a)
        <3>1. pc[a] = "outputs" /\ place = "install" /\ Workspace!CheckOutputs(settings[a])
            BY <1>0, <2>4 DEF Workspace!Outputs, Workspace!At, Workspace!Go
        <3>2. \A o \in work.objects : o.by # None
            BY <1>0, <3>1, StageSets, WorkspaceConstants DEF Holds, Made
        <3>3. \A o \in work.objects : Recorded(a, o)
            BY <3>1, <3>2 DEF Recorded, Workspace!CheckOutputs, Workspace!KnownRelease,
               Workspace!KnownSignature
        <3>4. QED
            BY <1>0, <1>1, <1>2, <1>4, <1>5, <1>5a, <3>1, <3>3, StageSets
            DEF Holds, Qualification, Qualified
    <2>5. CASE Workspace!Install(a)
        <3>1. pc[a] = "install" /\ place = "qualify"
            BY <1>0, <2>5 DEF Workspace!Install, Workspace!At, Workspace!Go
        <3>2. QED
            BY <1>0, <1>1, <1>2, <1>4, <1>5, <1>5a, <3>1, StageSets DEF Holds, Qualification, Qualified
    <2>6. CASE Workspace!VerifyBuilt(a)
        <3>1. pc[a] = "built" /\ place = "verified" /\ compiler["ada"] = work.evidence.ada
            BY <1>0, <2>6 DEF Workspace!VerifyBuilt, Workspace!At, Workspace!Go
        <3>2. work.evidence.ada = settings[a].ada
            BY <1>0, <3>1, StageSets DEF Holds, Workspace!Claim
        <3>3. compiler["ada"] \in Int
            BY <1>0, WorkspaceConstants DEF Workspace!TypeOK
        <3>4. \A o \in work.objects : Made(a, o) /\ o.by \in Int
            BY <1>0, <3>1, StageSets, WorkspaceConstants DEF Holds, Made
        <3>5. AdaVerified
            BY <3>1, <3>2, <3>3, <3>4 DEF AdaVerified, Made
        <3>6. QED
            BY <1>0, <1>1, <1>2, <1>4, <1>5, <1>5a, <3>1, <3>5, StageSets
            DEF Holds, Qualification, Qualified
    <2>7. CASE Workspace!Stop(a)
        <3>1. place = "stopped"
            BY <1>0, <2>7 DEF Workspace!Stop, Workspace!Go
        <3>2. QED
            BY <1>1, <1>2, <1>5a, <3>1, StageSets DEF Holds
    <2>8. QED
        BY <2>1, <2>2, <2>3, <2>4, <2>5, <2>6, <2>7
<1>7. QED
    BY <1>1, <1>3, <1>6, Moves

(* The steps before there is anything in the workspace.                       *)
LEMMA Preparations ==
    ASSUME Workspace!WorkspaceAssumption, WorkspaceInv, NEW a \in Attempts,
           Workspace!Validate(a) \/ Workspace!ReadHead(a) \/ Workspace!Create(a)
    PROVE  WorkspaceInv'
<1>0. /\ Workspace!TypeOK /\ (\A b \in Attempts : Holds(b)) /\ Holds(a)
      /\ (author = None => work.evidence = None /\ work.objects = {}) /\ Len(commits) >= 1
      /\ Workspace!IdentityNamesContent /\ Workspace!InstallationEarned
    BY DEF WorkspaceInv
<1>1. UNCHANGED Workspace!others /\ work' = work /\ compiler["ada"] \in Int
      /\ UNCHANGED <<git, source, commits, compiler, restored, supplied, changes>>
    BY <1>0, WorkspaceConstants DEF Workspace!Validate, Workspace!ReadHead, Workspace!Create,
       Workspace!others, Workspace!TypeOK
<1>2. Workspace!IdentityNamesContent' /\ Workspace!InstallationEarned' /\ work' \in Works
    BY <1>0, <1>1 DEF Workspace!IdentityNamesContent, Workspace!InstallationEarned,
       Workspace!TypeOK, Works
<1>3. /\ pc' \in [Attempts -> Workspace!Stages]
      /\ \A b \in Attempts \ {a} : pc'[b] = pc[b]
    BY <1>0, StagesAre DEF Workspace!Validate, Workspace!ReadHead, Workspace!Create,
       Workspace!Go, Workspace!TypeOK
<1>4. CASE Workspace!Validate(a)
    <2>1. /\ settings' = [settings EXCEPT ![a] = Workspace!Probed]
          /\ pc'[a] = "unused" /\ UNCHANGED <<revision, author, work>>
        BY <1>0, <1>4 DEF Workspace!Validate, Workspace!Go, Workspace!TypeOK
    <2>2. Workspace!Probed \in Workspace!Settings /\ Workspace!Probed.ada = compiler["ada"]
        <3>1. /\ compiler["ada"] \in Workspace!Editions /\ compiler["cxx"] \in Workspace!Editions
              /\ supplied \in Workspace!Editions
            BY <1>0, WorkspaceConstants DEF Workspace!TypeOK
        <3>2. {Release["ada"][compiler["ada"]], Release["cxx"][compiler["cxx"]]}
                  \subseteq Workspace!CompilerReleases
            BY <3>1, WorkspaceConstants DEF Workspace!CompilerReleases
        <3>3. QED
            BY <3>1, <3>2 DEF Workspace!Settings, Workspace!Probed
    <2>3. /\ settings' \in [Attempts -> Workspace!Settings \cup {None}]
          /\ settings'[a] = Workspace!Probed
          /\ \A b \in Attempts \ {a} : settings'[b] = settings[b]
        BY <1>0, <2>1, <2>2 DEF Workspace!TypeOK
    <2>4. Holds(a)'
        <3>1. AdaSince(a)'
            BY <1>1, <2>2, <2>3 DEF AdaSince
        <3>2. QED
            BY <1>1, <2>1, <2>2, <2>3, <3>1, StageSets DEF Holds
    <2>5. revision'[a] = None \/ IF git THEN revision'[a] \in 1 .. Len(commits)
                                        ELSE revision'[a] \in Workspace!Export
        BY <1>0, <2>1 DEF Workspace!TypeOK
    <2>6. DOMAIN revision' = Attempts /\ author' \in Attempts \cup {None}
        BY <1>0, <2>1 DEF Workspace!TypeOK
    <2>7. (author' = None => work'.evidence = None /\ work'.objects = {})
          /\ \A b \in Attempts \ {a} : revision'[b] = revision[b]
        BY <1>0, <2>1
    <2>8. QED
        BY <1>1, <1>2, <1>3, <2>1, <2>3, <2>4, <2>5, <2>6, <2>7, AttemptFrame
<1>5. CASE Workspace!ReadHead(a)
    <2>1. /\ revision' = [revision EXCEPT ![a] = Len(commits)]
          /\ pc[a] = "head" /\ pc'[a] = "create" /\ UNCHANGED <<settings, author, work>>
        BY <1>0, <1>5 DEF Workspace!ReadHead, Workspace!At, Workspace!Go, Workspace!TypeOK
    <2>2. /\ DOMAIN revision' = Attempts /\ revision'[a] = Len(commits)
          /\ \A b \in Attempts \ {a} : revision'[b] = revision[b]
          /\ author' \in Attempts \cup {None}
          /\ settings' \in [Attempts -> Workspace!Settings \cup {None}]
        BY <1>0, <2>1 DEF Workspace!TypeOK
    <2>3. git /\ Len(commits) \in 1 .. Len(commits)
        <3>1. Len(commits) \in Nat
            BY <1>0 DEF Workspace!TypeOK
        <3>2. QED
            BY <1>0, <2>1, <3>1 DEF Holds
    <2>4. Holds(a)'
        <3>1. AdaSince(a)' = AdaSince(a)
            BY <1>1, <2>1 DEF AdaSince
        <3>2. QED
            BY <1>0, <1>1, <2>1, <2>2, <2>3, <3>1, StageSets DEF Holds
    <2>5. /\ author' = None => work'.evidence = None /\ work'.objects = {}
          /\ \A b \in Attempts \ {a} : settings'[b] = settings[b]
        BY <1>0, <2>1
    <2>6. revision'[a] = None \/ IF git THEN revision'[a] \in 1 .. Len(commits)
                                        ELSE revision'[a] \in Workspace!Export
        BY <2>2, <2>3
    <2>7. QED
        BY <1>1, <1>2, <1>3, <2>1, <2>2, <2>4, <2>5, <2>6, AttemptFrame
<1>6. CASE Workspace!Create(a)
    <2>1. /\ author = None /\ author' = a /\ pc[a] = "create" /\ pc'[a] = "export"
          /\ UNCHANGED <<settings, revision, work>>
        BY <1>0, <1>6 DEF Workspace!Create, Workspace!At, Workspace!Go, Workspace!TypeOK
    <2>2. /\ settings' \in [Attempts -> Workspace!Settings \cup {None}]
          /\ DOMAIN revision' = Attempts /\ author' \in Attempts \cup {None}
          /\ revision'[a] = None \/ IF git THEN revision'[a] \in 1 .. Len(commits)
                                           ELSE revision'[a] \in Workspace!Export
        BY <1>0, <2>1 DEF Workspace!TypeOK
    <2>3. \A b \in Attempts \ {a} : /\ pc[b] \notin Workspace!Inside
                                    /\ settings'[b] = settings[b] /\ revision'[b] = revision[b]
        BY <1>0, <2>1, WorkspaceConstants DEF Holds
    <2>4. Holds(a)'
        <3>1. AdaSince(a)' = AdaSince(a)
            BY <1>1, <2>1 DEF AdaSince
        <3>2. QED
            BY <1>0, <1>1, <2>1, <3>1, StageSets DEF Holds
    <2>5. author' = None => work'.evidence = None /\ work'.objects = {}
        BY <2>1, WorkspaceConstants
    <2>6. QED
        BY <1>1, <1>2, <1>3, <2>2, <2>3, <2>4, <2>5, AttemptFrame
<1>7. QED
    BY <1>4, <1>5, <1>6

(* The steps that write into the workspace are its author's; nobody else is   *)
(* inside.                                                                    *)
LEMMA Writes ==
    ASSUME Workspace!WorkspaceAssumption, WorkspaceInv, NEW a \in Attempts,
           NEW place \in Workspace!Stages, pc[a] \in Workspace!Inside,
           UNCHANGED Workspace!others, UNCHANGED <<settings, author>>,
           pc' = [pc EXCEPT ![a] = place],
           \/ revision' = revision
           \/ ~ git /\ revision' = [revision EXCEPT ![a] = work.content] /\ work' = work,
           work' \in Works, Holds(a)',
           Workspace!IdentityNamesContent', Workspace!InstallationEarned'
    PROVE  WorkspaceInv'
<1>0. /\ Workspace!TypeOK /\ (\A b \in Attempts : Holds(b)) /\ work \in Works
    BY DEF WorkspaceInv, Workspace!TypeOK, Works
<1>1. author = a /\ author' # None /\ \A b \in Attempts \ {a} : pc[b] \notin Workspace!Inside
    BY <1>0, WorkspaceConstants DEF Holds
<1>2. /\ pc' \in [Attempts -> Workspace!Stages]
      /\ \A b \in Attempts \ {a} : /\ pc'[b] = pc[b] /\ settings'[b] = settings[b]
                                   /\ revision'[b] = revision[b]
      /\ settings' \in [Attempts -> Workspace!Settings \cup {None}]
      /\ DOMAIN revision' = Attempts /\ author' \in Attempts \cup {None}
    BY <1>0 DEF Workspace!TypeOK
<1>3. revision'[a] = None \/ IF git THEN revision'[a] \in 1 .. Len(commits)
                                    ELSE revision'[a] \in Workspace!Export
    <2>1. work.content \in Workspace!Export
        BY <1>0 DEF Works
    <2>2. QED
        BY <1>0, <2>1 DEF Workspace!TypeOK
<1>4. QED
    BY <1>1, <1>2, <1>3, AttemptFrame

(* The export, until its identity is known: there is no evidence yet.         *)
LEMMA Exports ==
    ASSUME Workspace!WorkspaceAssumption, WorkspaceInv, NEW a \in Attempts,
           Workspace!Archive(a) \/ (\E f \in SourceFiles : Workspace!CopyOne(a, f))
           \/ Workspace!Identify(a) \/ Workspace!Configure(a)
    PROVE  WorkspaceInv'
<1>0. /\ Workspace!TypeOK /\ Holds(a) /\ work \in Works
      /\ pc \in [Attempts -> Workspace!Stages]
      /\ commits \in Seq(Workspace!Tree) /\ source \in Workspace!Tree
    BY DEF WorkspaceInv, Workspace!TypeOK, Works
<1>1. UNCHANGED Workspace!others /\ UNCHANGED <<settings, author>>
      /\ UNCHANGED <<git, source, commits, compiler, restored, supplied, changes>>
    BY DEF Workspace!Archive, Workspace!CopyOne, Workspace!Identify, Workspace!Configure,
       Workspace!others
<1>1a. AdaSince(a)' = AdaSince(a)
    BY <1>1 DEF AdaSince
<1>2. pc[a] \in Workspace!Inside /\ work.evidence = None /\ work.objects = {}
    BY <1>0, StageSets DEF Workspace!Archive, Workspace!CopyOne, Workspace!Identify,
       Workspace!Configure, Workspace!At, Holds
<1>3. CASE Workspace!Archive(a)
    <2>1. /\ work' = [work EXCEPT !.content = commits[revision[a]]] /\ revision' = revision
          /\ pc[a] = "export" /\ pc' = [pc EXCEPT ![a] = "prebuilt"] /\ git
        BY <1>3 DEF Workspace!Archive, Workspace!At, Workspace!Go
    <2>2. revision[a] \in 1 .. Len(commits)
        BY <1>0, <2>1, StageSets DEF Holds
    <2>3. commits[revision[a]] \in Workspace!Export
        <3>1. commits[revision[a]] \in Workspace!Tree
            BY <1>0, <2>2
        <3>2. QED
            BY <3>1 DEF Workspace!Tree, Workspace!Export
    <2>4. work' \in Works /\ work'.evidence = None /\ work'.content = commits[revision[a]]
          /\ work'.objects = {}
        BY <1>0, <1>2, <2>1, <2>3 DEF Works
    <2>5. pc'[a] = "prebuilt" /\ "prebuilt" \in Workspace!Stages
        BY <1>0, <2>1, StagesAre
    <2>6. Holds(a)'
        BY <1>0, <1>1, <1>1a, <2>1, <2>2, <2>4, <2>5, StageSets DEF Holds, Workspace!Identity
    <2>7. Workspace!IdentityNamesContent' /\ Workspace!InstallationEarned'
        BY <2>4 DEF Workspace!IdentityNamesContent, Workspace!InstallationEarned
    <2>8. QED
        BY <1>1, <1>2, <2>1, <2>4, <2>5, <2>6, <2>7, Writes
<1>4. CASE \E f \in SourceFiles : Workspace!CopyOne(a, f)
    <2>1. PICK f \in SourceFiles : Workspace!CopyOne(a, f)
        BY <1>4
    <2>. DEFINE text == IF source[f] = Prebuilt THEN LeftOut ELSE source[f]
    <2>2. /\ work' = [work EXCEPT !.content[f] = text] /\ revision' = revision
          /\ pc[a] = "export" /\ pc' = pc /\ ~ git
        BY <2>1 DEF Workspace!CopyOne, Workspace!At
    <2>3. text \in Workspace!Editions \cup {Prebuilt, LeftOut, None}
        BY <1>0 DEF Workspace!Tree
    <2>. HIDE DEF text
    <2>4. [work.content EXCEPT ![f] = text] \in Workspace!Export
        BY <1>0, <2>3 DEF Works, Workspace!Export
    <2>5. work' = [work EXCEPT !.content = [work.content EXCEPT ![f] = text]]
        BY <2>2
    <2>6. work' \in Works /\ work'.evidence = None /\ work'.objects = {}
        BY <1>0, <1>2, <2>4, <2>5 DEF Works
    <2>7. pc' = [pc EXCEPT ![a] = "export"] /\ pc'[a] = "export" /\ "export" \in Workspace!Stages
        BY <1>0, <2>2, StagesAre
    <2>8. Holds(a)'
        BY <1>0, <1>1, <1>1a, <2>2, <2>6, <2>7, StageSets DEF Holds
    <2>9. Workspace!IdentityNamesContent' /\ Workspace!InstallationEarned'
        BY <2>6 DEF Workspace!IdentityNamesContent, Workspace!InstallationEarned
    <2>10. QED
        BY <1>1, <1>2, <2>2, <2>6, <2>7, <2>8, <2>9, Writes
<1>5. CASE Workspace!Identify(a)
    <2>1. /\ revision' = [revision EXCEPT ![a] = work.content] /\ work' = work
          /\ pc[a] = "export" /\ pc' = [pc EXCEPT ![a] = "prebuilt"] /\ ~ git
        BY <1>5 DEF Workspace!Identify, Workspace!At, Workspace!Go
    <2>2. revision'[a] = work.content /\ work.content \in Workspace!Export
        BY <1>0, <2>1 DEF Works, Workspace!TypeOK
    <2>3. pc'[a] = "prebuilt" /\ "prebuilt" \in Workspace!Stages
        BY <1>0, <2>1, StagesAre
    <2>4. Holds(a)'
        BY <1>0, <1>1, <1>1a, <1>2, <2>1, <2>2, <2>3, StageSets DEF Holds, Workspace!Identity
    <2>5. Workspace!IdentityNamesContent' /\ Workspace!InstallationEarned'
        BY <1>2, <2>1 DEF Workspace!IdentityNamesContent, Workspace!InstallationEarned
    <2>6. QED
        BY <1>0, <1>1, <1>2, <2>1, <2>3, <2>4, <2>5, Writes
<1>6. CASE Workspace!Configure(a)
    <2>1. /\ work' = [work EXCEPT !.config = supplied] /\ revision' = revision
          /\ pc[a] = "configure" /\ pc' = [pc EXCEPT ![a] = "evidence"]
        BY <1>6 DEF Workspace!Configure, Workspace!At, Workspace!Go
    <2>2. /\ work' \in Works /\ work'.evidence = None /\ work'.content = work.content
          /\ work'.objects = {}
        BY <1>0, <1>2, <2>1 DEF Works, Workspace!TypeOK
    <2>3. pc'[a] = "evidence" /\ "evidence" \in Workspace!Stages
        BY <1>0, <2>1, StagesAre
    <2>4. Workspace!Identity(a)' = Workspace!Identity(a)
        BY <1>1, <2>1 DEF Workspace!Identity
    <2>5. Holds(a)'
        BY <1>0, <1>1, <1>1a, <2>1, <2>2, <2>3, <2>4, StageSets DEF Holds
    <2>6. Workspace!IdentityNamesContent' /\ Workspace!InstallationEarned'
        BY <2>2 DEF Workspace!IdentityNamesContent, Workspace!InstallationEarned
    <2>7. QED
        BY <1>1, <1>2, <2>1, <2>2, <2>3, <2>5, <2>6, Writes
<1>7. QED
    BY <1>3, <1>4, <1>5, <1>6

(* The claim of an attempt inside is one that evidence can make.              *)
LEMMA ClaimType ==
    ASSUME Workspace!WorkspaceAssumption, Workspace!TypeOK, NEW a \in Attempts, Holds(a),
           pc[a] \in Exported,
           NEW q \in {"CROSS_CONFIGURATION_ONLY", "TARGET_BUILD_INSTALL_ONLY"}
    PROVE  /\ Workspace!Claim(a, q) \in Workspace!Evidence
           /\ Workspace!Claim(a, q).source_identity = work.content
           /\ Workspace!Claim(a, q).qualification = q
           /\ Workspace!Claim(a, q).ada = settings[a].ada
           /\ Workspace!Claim(a, q).identities = settings[a].identities
<1>1. settings[a] \in Workspace!Settings /\ work.content = Workspace!Identity(a)
      /\ work.content \in Workspace!Export
    BY StageSets DEF Holds, Workspace!TypeOK
<1>2. /\ settings[a].ada \in Workspace!Editions /\ settings[a].config \in Workspace!Editions
      /\ settings[a].identities \subseteq Workspace!CompilerReleases
    BY <1>1 DEF Workspace!Settings
<1>3. QED
    BY <1>1, <1>2 DEF Workspace!Claim, Workspace!Evidence

(* The evidence, and the build between the two claims.                        *)
LEMMA ClaimsAndBuild ==
    ASSUME Workspace!WorkspaceAssumption, WorkspaceInv, NEW a \in Attempts,
           \/ Workspace!FirstEvidence(a) \/ Workspace!Built(a) \/ Workspace!FinalEvidence(a)
           \/ \E l \in Workspace!Languages : Workspace!Compile(a, l)
    PROVE  WorkspaceInv'
<1>0. /\ Workspace!TypeOK /\ Holds(a) /\ work \in Works
      /\ pc \in [Attempts -> Workspace!Stages]
    BY DEF WorkspaceInv, Workspace!TypeOK, Works
<1>1. UNCHANGED Workspace!others /\ UNCHANGED <<settings, author, revision>>
      /\ UNCHANGED <<git, source, commits, compiler, restored, supplied, changes>>
    BY DEF Workspace!FirstEvidence, Workspace!Compile, Workspace!Built,
           Workspace!FinalEvidence, Workspace!others
<1>2. pc[a] \in Workspace!Inside /\ pc[a] \in Exported
    BY StageSets DEF Workspace!FirstEvidence, Workspace!Compile, Workspace!Built,
       Workspace!FinalEvidence, Workspace!At
<1>3. Workspace!Identity(a)' = Workspace!Identity(a)
    BY <1>1 DEF Workspace!Identity
<1>4. \A q : Workspace!Claim(a, q)' = Workspace!Claim(a, q)
    BY <1>1, <1>3 DEF Workspace!Claim
<1>4a. AdaSince(a)' = AdaSince(a)
    BY <1>1 DEF AdaSince
<1>4b. \A o : work'.content = work.content =>
           Made(a, o)' = Made(a, o) /\ Recorded(a, o)' = Recorded(a, o)
    BY <1>1 DEF Made, Recorded
<1>5. CASE Workspace!FirstEvidence(a)
    <2>. DEFINE claim == Workspace!Claim(a, "CROSS_CONFIGURATION_ONLY")
    <2>1. /\ work' = [work EXCEPT !.evidence = claim]
          /\ pc[a] = "evidence" /\ pc' = [pc EXCEPT ![a] = "probe"]
        BY <1>5 DEF Workspace!FirstEvidence, Workspace!At, Workspace!Go
    <2>2. /\ claim \in Workspace!Evidence /\ claim.source_identity = work.content
          /\ claim.qualification = "CROSS_CONFIGURATION_ONLY"
        BY <1>0, <1>2, ClaimType
    <2>3. pc'[a] = "probe" /\ "probe" \in Workspace!Stages
        BY <1>0, <2>1, StagesAre
    <2>3a. claim' = claim
        BY <1>4
    <2>. HIDE DEF claim
    <2>4. /\ work' \in Works /\ work'.evidence = claim /\ work'.content = work.content
          /\ work'.objects = work.objects
        BY <1>0, <2>1, <2>2 DEF Works
    <2>5. Holds(a)'
        <3>1. Workspace!Claim(a, Qualification(pc[a]))' = claim
            BY <2>3, <2>3a DEF Qualification, Qualified, claim
        <3>2. QED
            BY <1>0, <1>1, <1>3, <1>4a, <2>1, <2>3, <2>4, <3>1, StageSets DEF Holds
    <2>6. Workspace!IdentityNamesContent' /\ Workspace!InstallationEarned'
        BY <2>2, <2>4 DEF Workspace!IdentityNamesContent, Workspace!InstallationEarned
    <2>7. QED
        BY <1>1, <1>2, <2>1, <2>3, <2>4, <2>5, <2>6, Writes
<1>6. CASE \E l \in Workspace!Languages : Workspace!Compile(a, l)
    <2>1. PICK l \in Workspace!Languages : Workspace!Compile(a, l)
        BY <1>6
    <2>. DEFINE made == [lang |-> l, from |-> work.content, by |-> compiler[l]]
    <2>2. /\ work' = [work EXCEPT !.objects = @ \cup {made}]
          /\ pc[a] = "build" /\ pc' = pc
        BY <2>1 DEF Workspace!Compile, Workspace!At
    <2>3. made \in Workspace!Object /\ compiler[l] \in Workspace!Editions
        BY <1>0 DEF Works, Workspace!Object, Workspace!TypeOK
    <2>4. Made(a, made)
        <3>1. AdaSince(a) /\ compiler["ada"] \in Int
            BY <1>0, <2>2, WorkspaceConstants DEF Holds, Workspace!TypeOK
        <3>2. QED
            BY <2>3, <3>1 DEF Made, AdaSince
    <2>. HIDE DEF made
    <2>5. /\ work' \in Works /\ work'.evidence = work.evidence /\ work'.content = work.content
          /\ work'.objects = work.objects \cup {made}
        BY <1>0, <2>2, <2>3 DEF Works
    <2>6. /\ pc' = [pc EXCEPT ![a] = "build"] /\ pc'[a] = "build"
          /\ "build" \in Workspace!Stages
        BY <1>0, <2>2, StagesAre
    <2>7. QED
        <3>1. work.evidence = Workspace!Claim(a, "CROSS_CONFIGURATION_ONLY")
            BY <1>0, <2>2, StageSets DEF Holds, Qualification, Qualified
        <3>2. /\ work.evidence.source_identity = work.content
              /\ work.evidence.qualification = "CROSS_CONFIGURATION_ONLY"
            BY <1>0, <1>2, <3>1, ClaimType
        <3>3. Workspace!Claim(a, Qualification(pc[a]))' = work.evidence
            BY <1>4, <2>6, <3>1 DEF Qualification, Qualified
        <3>4. \A o \in work'.objects : Made(a, o)'
            BY <1>0, <1>4b, <2>2, <2>4, <2>5, StageSets DEF Holds
        <3>5. Holds(a)'
            BY <1>0, <1>1, <1>3, <1>4a, <2>2, <2>5, <2>6, <3>3, <3>4, StageSets DEF Holds
        <3>6. Workspace!IdentityNamesContent' /\ Workspace!InstallationEarned'
            BY <2>5, <3>2 DEF Workspace!IdentityNamesContent, Workspace!InstallationEarned
        <3>7. QED
            BY <1>1, <1>2, <2>5, <2>6, <3>5, <3>6, Writes
<1>6a. CASE Workspace!Built(a)
    <2>1. /\ work' = [work EXCEPT !.objects = @ \cup
                {Workspace!Foreign : f \in {g \in SourceFiles : work.content[g] = Prebuilt}}]
          /\ BothLanguages
          /\ pc[a] = "build" /\ pc' = [pc EXCEPT ![a] = "outputs"]
        BY <1>6a DEF Workspace!Built, Workspace!At, Workspace!Go, BothLanguages
    <2>2. {g \in SourceFiles : work.content[g] = Prebuilt} = {}
        BY <1>0, <2>1, StageSets DEF Holds
    <2>3. work' = [work EXCEPT !.objects = work.objects]
        BY <2>1, <2>2
    <2>4. work' = work
        BY <1>0, <2>3 DEF Works
    <2>5. pc'[a] = "outputs" /\ "outputs" \in Workspace!Stages
        BY <1>0, <2>1, StagesAre
    <2>6. work.evidence = Workspace!Claim(a, "CROSS_CONFIGURATION_ONLY")
        BY <1>0, <2>1, StageSets DEF Holds, Qualification, Qualified
    <2>7. /\ work.evidence.source_identity = work.content
          /\ work.evidence.qualification = "CROSS_CONFIGURATION_ONLY"
        BY <1>0, <1>2, <2>6, ClaimType
    <2>8. Holds(a)'
        <3>1. Workspace!Claim(a, Qualification(pc[a]))' = work.evidence
            BY <1>4, <2>5, <2>6 DEF Qualification, Qualified
        <3>2. \A o \in work.objects : Made(a, o)'
            BY <1>0, <1>4b, <2>1, <2>4, StageSets DEF Holds
        <3>3. BothLanguages'
            BY <2>1, <2>4 DEF BothLanguages
        <3>4. QED
            BY <1>0, <1>1, <1>3, <1>4a, <2>1, <2>4, <2>5, <3>1, <3>2, <3>3, StageSets DEF Holds
    <2>9. Workspace!IdentityNamesContent' /\ Workspace!InstallationEarned'
        BY <2>4, <2>7 DEF Workspace!IdentityNamesContent, Workspace!InstallationEarned
    <2>10. QED
        BY <1>0, <1>1, <1>2, <2>1, <2>4, <2>5, <2>8, <2>9, Writes
<1>7. CASE Workspace!FinalEvidence(a)
    <2>. DEFINE claim == Workspace!Claim(a, "TARGET_BUILD_INSTALL_ONLY")
    <2>1. /\ work' = [work EXCEPT !.evidence = claim]
          /\ pc[a] = "qualify" /\ pc' = [pc EXCEPT ![a] = "built"]
        BY <1>7 DEF Workspace!FinalEvidence, Workspace!At, Workspace!Go
    <2>2. /\ claim \in Workspace!Evidence /\ claim.source_identity = work.content
          /\ claim.ada = settings[a].ada /\ claim.identities = settings[a].identities
        BY <1>0, <1>2, ClaimType
    <2>3. pc'[a] = "built" /\ "built" \in Workspace!Stages
        BY <1>0, <2>1, StagesAre
    <2>4. claim' = claim
        BY <1>4
    <2>. HIDE DEF claim
    <2>5. /\ work' \in Works /\ work'.evidence = claim /\ work'.content = work.content
          /\ work'.objects = work.objects
        BY <1>0, <2>1, <2>2 DEF Works
    <2>6. BothLanguages /\ BothLanguages'
        BY <1>0, <2>1, <2>5, StageSets DEF Holds, BothLanguages
    <2>7. \A o \in work.objects : Made(a, o) /\ Recorded(a, o)
        BY <1>0, <2>1, StageSets DEF Holds
    <2>7a. \A o \in work.objects : Made(a, o)' /\ Recorded(a, o)'
        BY <1>4b, <2>5, <2>7
    <2>8. Holds(a)'
        <3>1. Workspace!Claim(a, Qualification(pc[a]))' = claim
            BY <2>3, <2>4 DEF Qualification, Qualified, claim
        <3>2. QED
            BY <1>0, <1>1, <1>3, <1>4a, <2>1, <2>3, <2>5, <2>6, <2>7a, <3>1, StageSets
            DEF Holds
    <2>9. Workspace!IdentityNamesContent'
        BY <2>2, <2>5 DEF Workspace!IdentityNamesContent
    <2>10. Workspace!InstallationEarned'
        <3>1. \A o \in work'.objects :
                  /\ o.by # None /\ o.from = work'.evidence.source_identity
                  /\ Release[o.lang][o.by] \in work'.evidence.identities
                  /\ o.lang = "ada" => Signature[o.by] = Signature[work'.evidence.ada]
            BY <2>2, <2>5, <2>7, WorkspaceConstants DEF Made, Recorded
        <3>2. QED
            BY <2>6, <3>1 DEF Workspace!InstallationEarned, BothLanguages
    <2>11. QED
        BY <1>1, <1>2, <2>1, <2>3, <2>5, <2>8, <2>9, <2>10, Writes
<1>8. QED
    BY <1>5, <1>6, <1>6a, <1>7

LEMMA WorkspaceStep ==
    ASSUME Workspace!WorkspaceAssumption, WorkspaceInv, [Workspace!Next]_Workspace!vars
    PROVE  WorkspaceInv'
<1>1. CASE Workspace!Next
    BY <1>1, OthersStep, Preparations, MovesOn, Exports, ClaimsAndBuild
    DEF Workspace!Next, Workspace!Attempt
<1>2. CASE UNCHANGED Workspace!vars
    <2>1. UNCHANGED <<git, source, commits, compiler, restored, supplied, changes, pc,
                      settings, revision, author, work>>
        BY <1>2 DEF Workspace!vars
    <2>2. Workspace!TypeOK'
        BY <2>1 DEF WorkspaceInv, Workspace!TypeOK
    <2>3. ASSUME NEW a \in Attempts PROVE Holds(a)'
        <3>1. Holds(a)
            BY DEF WorkspaceInv
        <3>2. Workspace!Identity(a)' = Workspace!Identity(a)
            BY <2>1 DEF Workspace!Identity
        <3>3. \A q : Workspace!Claim(a, q)' = Workspace!Claim(a, q)
            BY <2>1, <3>2 DEF Workspace!Claim
        <3>4. /\ \A o : Made(a, o)' = Made(a, o) /\ Recorded(a, o)' = Recorded(a, o)
              /\ AdaSince(a)' = AdaSince(a)
              /\ BothLanguages' = BothLanguages /\ AdaVerified' = AdaVerified
            BY <2>1 DEF Made, Recorded, AdaSince, BothLanguages, AdaVerified
        <3>5. QED
            BY <2>1, <3>1, <3>2, <3>3, <3>4 DEF Holds, Qualification
    <2>4. QED
        BY <2>1, <2>2, <2>3 DEF WorkspaceInv, Workspace!IdentityNamesContent,
           Workspace!InstallationEarned
<1>3. QED
    BY <1>1, <1>2

(* The workspace by itself.                                                   *)
LEMMA WorkspaceSound ==
    ASSUME Workspace!WorkspaceAssumption
    PROVE  Workspace!Spec => []Workspace!EvidenceEarned
<1>1. Workspace!Init => WorkspaceInv
    BY WorkspaceInitially
<1>2. WorkspaceInv /\ [Workspace!Next]_Workspace!vars => WorkspaceInv'
    BY WorkspaceStep
<1>3. WorkspaceInv => Workspace!EvidenceEarned
    BY DEF WorkspaceInv, Holds, Workspace!EvidenceEarned, Workspace!OneAuthor,
       Workspace!VerifiedCompiler, AdaVerified
<1>4. QED
    BY <1>1, <1>2, <1>3, PTL DEF Workspace!Spec

-----------------------------------------------------------------------------
(* The preflight: what a check has established holds at every later one.      *)
FromProbe == Preflight!Checks \ {"environment", "runtime", "failed"}
FromVersions == FromProbe \ {"probe"}
FromHeaders == FromVersions \ {"versions", "package"}
FromFlags == FromHeaders \ {"headers"}
FromLibraries == FromFlags \ {"flags"}
FromClosure == FromLibraries \ {"libraries"}
FromProjects == FromClosure \ {"closure", "configuration"}
FromArchives == FromProjects \ {"projects"}
FromAlis == FromArchives \ {"archives"}

RuntimeFound == seen.search[1] = SuppliedRuntime
AdaProbed == seen.ada \in Compilers /\ seen.signature \in Signatures
             /\ seen.signature = seen.runtime_signature
PackageFound == /\ seen.version \in Releases /\ seen.package # None
                /\ seen.module = Preflight!Backend(seen.version)
HeadersAgree == seen.header = seen.version
OneLibrary == seen.advertised \in Libraries
              /\ Preflight!Matches(seen.holds) = {seen.advertised}
SonamesAgree == /\ seen.sonames \in [core : Releases, module : Releases]
                /\ Preflight!Abi(seen.sonames.core) = Preflight!Abi(seen.version)
                /\ Preflight!Abi(seen.sonames.module) = Preflight!Abi(seen.version)
CxxProbed == seen.cxx \in Compilers
PathsInside == seen.paths \subseteq Roots \cup Allowed
ArchivesAgree == seen.archives \subseteq {seen.ada, seen.cxx}
AlisAgree == seen.alis = {seen.signature}

PreflightInv ==
    /\ at \in Preflight!Checks
    /\ DOMAIN seen = DOMAIN Preflight!Unseen
    /\ seen.ada \in Compilers \cup {None} /\ seen.cxx \in Compilers \cup {None}
    /\ seen.advertised \in Libraries \cup {None}
    /\ at \in FromProbe => RuntimeFound
    /\ at \in FromVersions => AdaProbed
    /\ at \in FromHeaders => PackageFound
    /\ at \in FromFlags => HeadersAgree
    /\ at \in FromLibraries => OneLibrary
    /\ at \in FromClosure => SonamesAgree
    /\ at \in FromProjects => CxxProbed
    /\ at \in FromArchives => PathsInside
    /\ at \in FromAlis => ArchivesAgree
    /\ at = "passed" => AlisAgree

LEMMA ChecksAfter ==
    /\ FromProbe = {"probe", "versions", "package", "headers", "flags", "libraries",
                    "closure", "configuration", "projects", "archives", "alis", "passed"}
    /\ FromVersions = {"versions", "package", "headers", "flags", "libraries",
                       "closure", "configuration", "projects", "archives", "alis", "passed"}
    /\ FromHeaders = {"headers", "flags", "libraries", "closure", "configuration",
                      "projects", "archives", "alis", "passed"}
    /\ FromFlags = {"flags", "libraries", "closure", "configuration",
                    "projects", "archives", "alis", "passed"}
    /\ FromLibraries = {"libraries", "closure", "configuration",
                        "projects", "archives", "alis", "passed"}
    /\ FromClosure = {"closure", "configuration", "projects", "archives", "alis", "passed"}
    /\ FromProjects = {"projects", "archives", "alis", "passed"}
    /\ FromArchives = {"archives", "alis", "passed"}
    /\ FromAlis = {"alis", "passed"}
<1>1. FromProbe = {"probe", "versions", "package", "headers", "flags", "libraries",
                   "closure", "configuration", "projects", "archives", "alis", "passed"}
    BY DEF FromProbe, Preflight!Checks
<1>2. FromVersions = {"versions", "package", "headers", "flags", "libraries",
                      "closure", "configuration", "projects", "archives", "alis", "passed"}
    BY <1>1 DEF FromVersions
<1>3. FromHeaders = {"headers", "flags", "libraries", "closure", "configuration",
                     "projects", "archives", "alis", "passed"}
    BY <1>2 DEF FromHeaders
<1>4. FromFlags = {"flags", "libraries", "closure", "configuration",
                   "projects", "archives", "alis", "passed"}
    BY <1>3 DEF FromFlags
<1>5. FromLibraries = {"libraries", "closure", "configuration",
                       "projects", "archives", "alis", "passed"}
    BY <1>4 DEF FromLibraries
<1>6. FromClosure = {"closure", "configuration", "projects", "archives", "alis", "passed"}
    BY <1>5 DEF FromClosure
<1>7. FromProjects = {"projects", "archives", "alis", "passed"}
    BY <1>6 DEF FromProjects
<1>8. FromArchives = {"archives", "alis", "passed"}
    BY <1>7 DEF FromArchives
<1>9. FromAlis = {"alis", "passed"}
    BY <1>8 DEF FromAlis
<1>10. QED
    BY <1>1, <1>2, <1>3, <1>4, <1>5, <1>6, <1>7, <1>8, <1>9

LEMMA SeenFields ==
    DOMAIN Preflight!Unseen =
        {"search", "ada", "signature", "runtime_signature", "cxx", "package", "version",
         "header", "sonames", "module", "holds", "advertised", "symbols", "paths",
         "archives", "alis"}
BY DEF Preflight!Unseen

LEMMA PreflightInitially == Preflight!Init => PreflightInv
<1>1. "environment" \in Preflight!Checks
    BY DEF Preflight!Checks
<1>2. QED
    BY <1>1, ChecksAfter DEF Preflight!Init, PreflightInv, Preflight!Unseen

(* A check that fails ends the preflight: nothing but the types is left to    *)
(* hold.                                                                      *)
LEMMA Fails ==
    ASSUME at' = "failed", DOMAIN seen' = DOMAIN Preflight!Unseen,
           seen'.ada \in Compilers \cup {None}, seen'.cxx \in Compilers \cup {None},
           seen'.advertised \in Libraries \cup {None}
    PROVE  PreflightInv'
BY ChecksAfter DEF PreflightInv, Preflight!Checks

(* The checks up to the package.                                              *)
LEMMA FirstChecks ==
    ASSUME PreflightInv,
           Preflight!Environment \/ Preflight!RuntimeIdentity \/ Preflight!ProbeAda
           \/ Preflight!CompilerVersions \/ Preflight!Package
    PROVE  PreflightInv'
<1>0. /\ at \in Preflight!Checks /\ DOMAIN seen = DOMAIN Preflight!Unseen
      /\ seen.ada \in Compilers \cup {None} /\ seen.cxx \in Compilers \cup {None}
      /\ seen.advertised \in Libraries \cup {None}
    BY DEF PreflightInv
<1>1. CASE Preflight!Environment
    <2>1. seen' = seen /\ at' \in {"runtime", "failed"}
        BY <1>1 DEF Preflight!Environment, Preflight!On
    <2>2. QED
        BY <1>0, <2>1, ChecksAfter DEF PreflightInv, Preflight!Checks
<1>2. CASE Preflight!RuntimeIdentity
    <2>1. PICK search \in UNION {[1 .. m -> Runtimes] : m \in 0 .. 2},
               absolute \in BOOLEAN, sibling \in BOOLEAN :
              /\ Preflight!On("runtime", IF absolute /\ search # <<>>
                                         THEN search[1] = SuppliedRuntime
                                         ELSE sibling /\ Preflight!Listed(search), "probe")
              /\ seen' = [seen EXCEPT !.search = search]
        BY <1>2 DEF Preflight!RuntimeIdentity, Preflight!BoundedSeq, Preflight!SeqOf
    <2>2. /\ DOMAIN seen' = DOMAIN seen /\ seen'.search = search /\ seen'.ada = seen.ada
          /\ seen'.cxx = seen.cxx /\ seen'.advertised = seen.advertised
        BY <1>0, <2>1, SeenFields
    <2>3. at' \in {"probe", "failed"}
        BY <2>1 DEF Preflight!On
    <2>4. at' = "probe" => search[1] = SuppliedRuntime
        <3>. SUFFICES ASSUME at' = "probe" PROVE search[1] = SuppliedRuntime
            OBVIOUS
        <3>1. CASE absolute /\ search # <<>>
            BY <2>1, <3>1 DEF Preflight!On
        <3>2. CASE ~ (absolute /\ search # <<>>)
            <4>1. search # <<>> /\ \A i \in DOMAIN search : search[i] = SuppliedRuntime
                BY <2>1, <3>2 DEF Preflight!On, Preflight!Listed
            <4>2. PICK m \in 0 .. 2 : search \in [1 .. m -> Runtimes]
                BY <2>1
            <4>3. m # 0
                BY <4>1, <4>2
            <4>4. 1 \in DOMAIN search
                BY <4>2, <4>3
            <4>5. QED
                BY <4>1, <4>4
        <3>3. QED
            BY <3>1, <3>2
    <2>5. CASE at' = "failed"
        BY <1>0, <2>2, <2>5, Fails
    <2>6. CASE at' = "probe"
        BY <1>0, <2>2, <2>4, <2>6, ChecksAfter DEF PreflightInv, RuntimeFound, Preflight!Checks
    <2>7. QED
        BY <2>3, <2>5, <2>6
<1>3. CASE Preflight!ProbeAda
    <2>1. PICK id \in Compilers, s \in Signatures, r \in Signatures, elf \in BOOLEAN :
              /\ Preflight!On("probe", elf /\ s = r, "versions")
              /\ seen' = [seen EXCEPT !.ada = id, !.signature = s, !.runtime_signature = r]
        BY <1>3 DEF Preflight!ProbeAda
    <2>2. /\ DOMAIN seen' = DOMAIN seen /\ seen'.search = seen.search /\ seen'.ada = id
          /\ seen'.cxx = seen.cxx /\ seen'.advertised = seen.advertised
          /\ seen'.signature = s /\ seen'.runtime_signature = r
        BY <1>0, <2>1, SeenFields
    <2>3. at = "probe" /\ at' \in {"versions", "failed"} /\ (at' = "versions" => s = r)
        BY <2>1 DEF Preflight!On
    <2>4. CASE at' = "failed"
        BY <1>0, <2>2, <2>4, Fails
    <2>5. CASE at' = "versions"
        BY <1>0, <2>2, <2>3, <2>5, ChecksAfter
        DEF PreflightInv, RuntimeFound, AdaProbed, Preflight!Checks
    <2>6. QED
        BY <2>3, <2>4, <2>5
<1>4. CASE Preflight!CompilerVersions
    <2>1. seen' = seen /\ at = "versions" /\ at' \in {"package", "failed"}
        BY <1>4 DEF Preflight!CompilerVersions, Preflight!On
    <2>2. CASE at' = "failed"
        BY <1>0, <2>1, <2>2, Fails
    <2>3. CASE at' = "package"
        BY <1>0, <2>1, <2>3, ChecksAfter
        DEF PreflightInv, RuntimeFound, AdaProbed, Preflight!Checks
    <2>4. QED
        BY <2>1, <2>2, <2>3
<1>5. CASE Preflight!Package
    <2>1. PICK package \in {"opencv5", "opencv4", "opencv", None}, v \in Releases :
              /\ Preflight!On("package", package # None /\ Preflight!Supported(v), "headers")
              /\ seen' = [seen EXCEPT !.package = package, !.version = v,
                                      !.module = Preflight!Backend(v)]
        BY <1>5 DEF Preflight!Package
    <2>2. /\ DOMAIN seen' = DOMAIN seen /\ seen'.search = seen.search /\ seen'.ada = seen.ada
          /\ seen'.cxx = seen.cxx /\ seen'.advertised = seen.advertised
          /\ seen'.signature = seen.signature
          /\ seen'.runtime_signature = seen.runtime_signature
          /\ seen'.package = package /\ seen'.version = v
          /\ seen'.module = Preflight!Backend(v)
        BY <1>0, <2>1, SeenFields
    <2>3. at = "package" /\ at' \in {"headers", "failed"} /\ (at' = "headers" => package # None)
        BY <2>1 DEF Preflight!On
    <2>4. CASE at' = "failed"
        BY <1>0, <2>2, <2>4, Fails
    <2>5. CASE at' = "headers"
        BY <1>0, <2>2, <2>3, <2>5, ChecksAfter
        DEF PreflightInv, RuntimeFound, AdaProbed, PackageFound, Preflight!Checks
    <2>6. QED
        BY <2>3, <2>4, <2>5
<1>6. QED
    BY <1>1, <1>2, <1>3, <1>4, <1>5

(* The checks of the headers and the libraries.                               *)
LEMMA LibraryChecks ==
    ASSUME Preflight!PreflightAssumption, PreflightInv,
           Preflight!Headers \/ Preflight!Flags \/ Preflight!Sonames \/ Preflight!Closure
    PROVE  PreflightInv'
<1>0. /\ at \in Preflight!Checks /\ DOMAIN seen = DOMAIN Preflight!Unseen
      /\ seen.ada \in Compilers \cup {None} /\ seen.cxx \in Compilers \cup {None}
      /\ seen.advertised \in Libraries \cup {None}
    BY DEF PreflightInv
<1>1. CASE Preflight!Headers
    <2>1. PICK header \in Releases, present \in BOOLEAN :
              /\ Preflight!On("headers", present /\ header = seen.version, "flags")
              /\ seen' = [seen EXCEPT !.header = header]
        BY <1>1 DEF Preflight!Headers
    <2>2. /\ DOMAIN seen' = DOMAIN seen /\ seen'.header = header /\ seen'.search = seen.search
          /\ seen'.ada = seen.ada /\ seen'.signature = seen.signature /\ seen'.runtime_signature = seen.runtime_signature
          /\ seen'.cxx = seen.cxx /\ seen'.package = seen.package /\ seen'.version = seen.version
          /\ seen'.module = seen.module /\ seen'.advertised = seen.advertised
        BY <1>0, <2>1, SeenFields
    <2>3. at = "headers" /\ at' \in {"flags", "failed"} /\ (at' = "flags" => header = seen.version)
        BY <2>1 DEF Preflight!On
    <2>4. CASE at' = "failed"
        BY <1>0, <2>2, <2>4, Fails
    <2>5. CASE at' = "flags"
        BY <1>0, <2>2, <2>3, <2>5, ChecksAfter
        DEF PreflightInv, RuntimeFound, AdaProbed, PackageFound, HeadersAgree,
            Preflight!Checks
    <2>6. QED
        BY <2>3, <2>4, <2>5
<1>2. CASE Preflight!Flags
    <2>1. PICK holds \in [Places -> Libraries \cup {None}], qualified \in BOOLEAN :
              /\ Preflight!On("flags", qualified /\ \E l \in Libraries : Preflight!Matches(holds) = {l}, "libraries")
              /\ seen' = [seen EXCEPT !.holds = holds,
                      !.advertised = IF Preflight!Matches(holds) = {} THEN None
                                     ELSE CHOOSE l \in Preflight!Matches(holds) : TRUE]
        BY <1>2 DEF Preflight!Flags
    <2>2. /\ DOMAIN seen' = DOMAIN seen /\ seen'.holds = holds /\ seen'.advertised = IF Preflight!Matches(holds) = {} THEN None
                                ELSE CHOOSE l \in Preflight!Matches(holds) : TRUE
          /\ seen'.search = seen.search /\ seen'.ada = seen.ada /\ seen'.signature = seen.signature
          /\ seen'.runtime_signature = seen.runtime_signature /\ seen'.cxx = seen.cxx /\ seen'.package = seen.package
          /\ seen'.version = seen.version /\ seen'.module = seen.module /\ seen'.header = seen.header
        BY <1>0, <2>1, SeenFields
    <2>3. at = "flags" /\ at' \in {"libraries", "failed"} /\ (at' = "libraries" => \E l \in Libraries : Preflight!Matches(holds) = {l})
        BY <2>1 DEF Preflight!On
    <2>3a. /\ seen'.advertised \in Libraries \cup {None}
           /\ at' = "libraries" => /\ seen'.advertised \in Libraries
                                   /\ Preflight!Matches(holds) = {seen'.advertised}
        <3>1. Preflight!Matches(holds) \subseteq Libraries
            BY DEF Preflight!Matches
        <3>2. ASSUME NEW l \in Libraries, Preflight!Matches(holds) = {l}
              PROVE  seen'.advertised = l
            BY <2>2, <3>2
        <3>3. CASE Preflight!Matches(holds) = {}
            BY <2>2, <2>3, <3>3
        <3>4. CASE Preflight!Matches(holds) # {}
            BY <2>2, <2>3, <3>1, <3>2, <3>4
        <3>5. QED
            BY <3>3, <3>4
    <2>4. CASE at' = "failed"
        BY <1>0, <2>2, <2>3a, <2>4, Fails
    <2>5. CASE at' = "libraries"
        BY <1>0, <2>2, <2>3, <2>3a, <2>5, ChecksAfter
        DEF PreflightInv, RuntimeFound, AdaProbed, PackageFound, HeadersAgree, OneLibrary,
            Preflight!Checks
    <2>6. QED
        BY <2>3, <2>4, <2>5
<1>3. CASE Preflight!Sonames
    <2>1. PICK core \in Releases, module \in Releases, elf \in BOOLEAN :
              /\ Preflight!On("libraries", elf /\ Preflight!Abi(core) = Preflight!Abi(seen.version)
                                            /\ Preflight!Abi(module) = Preflight!Abi(seen.version), "closure")
              /\ seen' = [seen EXCEPT !.sonames = [core |-> core, module |-> module]]
        BY <1>3 DEF Preflight!Sonames
    <2>2. /\ DOMAIN seen' = DOMAIN seen /\ seen'.sonames = [core |-> core, module |-> module] /\ seen'.search = seen.search
          /\ seen'.ada = seen.ada /\ seen'.signature = seen.signature /\ seen'.runtime_signature = seen.runtime_signature
          /\ seen'.cxx = seen.cxx /\ seen'.package = seen.package /\ seen'.version = seen.version
          /\ seen'.module = seen.module /\ seen'.advertised = seen.advertised /\ seen'.header = seen.header
          /\ seen'.holds = seen.holds
        BY <1>0, <2>1, SeenFields
    <2>3. at = "libraries" /\ at' \in {"closure", "failed"} /\ (at' = "closure" => /\ Preflight!Abi(core) = Preflight!Abi(seen.version)
                                 /\ Preflight!Abi(module) = Preflight!Abi(seen.version))
        BY <2>1 DEF Preflight!On
    <2>4. CASE at' = "failed"
        BY <1>0, <2>2, <2>4, Fails
    <2>5. CASE at' = "closure"
        BY <1>0, <2>2, <2>3, <2>5, ChecksAfter
        DEF PreflightInv, RuntimeFound, AdaProbed, PackageFound, HeadersAgree, OneLibrary, SonamesAgree,
            Preflight!Checks
    <2>6. QED
        BY <2>3, <2>4, <2>5
<1>4. CASE Preflight!Closure
    <2>1. seen' = seen /\ at = "closure" /\ at' \in {"configuration", "failed"}
        BY <1>4 DEF Preflight!Closure, Preflight!On
    <2>2. CASE at' = "failed"
        BY <1>0, <2>1, <2>2, Fails
    <2>3. CASE at' = "configuration"
        BY <1>0, <2>1, <2>3, ChecksAfter
        DEF PreflightInv, RuntimeFound, AdaProbed, PackageFound, HeadersAgree, OneLibrary,
            SonamesAgree, Preflight!Checks
    <2>4. QED
        BY <2>1, <2>2, <2>3
<1>5. QED
    BY <1>1, <1>2, <1>3, <1>4

(* The checks of the configuration and of Core.                               *)
LEMMA CoreChecks ==
    ASSUME PreflightInv,
           Preflight!Configuration \/ Preflight!Projects \/ Preflight!Archives \/ Preflight!Alis
    PROVE  PreflightInv'
<1>0. /\ at \in Preflight!Checks /\ DOMAIN seen = DOMAIN Preflight!Unseen
      /\ seen.ada \in Compilers \cup {None} /\ seen.cxx \in Compilers \cup {None}
      /\ seen.advertised \in Libraries \cup {None}
    BY DEF PreflightInv
<1>1. CASE Preflight!Configuration
    <2>1. PICK id \in Compilers, names \in BOOLEAN :
              /\ Preflight!On("configuration", names, "projects")
              /\ seen' = [seen EXCEPT !.cxx = id]
        BY <1>1 DEF Preflight!Configuration
    <2>2. /\ DOMAIN seen' = DOMAIN seen /\ seen'.cxx = id /\ seen'.search = seen.search
          /\ seen'.ada = seen.ada /\ seen'.signature = seen.signature /\ seen'.runtime_signature = seen.runtime_signature
          /\ seen'.package = seen.package /\ seen'.version = seen.version /\ seen'.module = seen.module
          /\ seen'.advertised = seen.advertised /\ seen'.header = seen.header /\ seen'.holds = seen.holds
          /\ seen'.sonames = seen.sonames
        BY <1>0, <2>1, SeenFields
    <2>3. at = "configuration" /\ at' \in {"projects", "failed"}
        BY <2>1 DEF Preflight!On
    <2>4. CASE at' = "failed"
        BY <1>0, <2>2, <2>4, Fails
    <2>5. CASE at' = "projects"
        BY <1>0, <2>2, <2>3, <2>5, ChecksAfter
        DEF PreflightInv, RuntimeFound, AdaProbed, PackageFound, HeadersAgree, OneLibrary, SonamesAgree, CxxProbed,
            Preflight!Checks
    <2>6. QED
        BY <2>3, <2>4, <2>5
<1>2. CASE Preflight!Projects
    <2>1. PICK paths \in SUBSET Paths, built \in BOOLEAN :
              /\ Preflight!On("projects", built /\ paths \subseteq Roots \cup Allowed, "archives")
              /\ seen' = [seen EXCEPT !.paths = paths]
        BY <1>2 DEF Preflight!Projects
    <2>2. /\ DOMAIN seen' = DOMAIN seen /\ seen'.paths = paths /\ seen'.search = seen.search
          /\ seen'.ada = seen.ada /\ seen'.signature = seen.signature /\ seen'.runtime_signature = seen.runtime_signature
          /\ seen'.cxx = seen.cxx /\ seen'.package = seen.package /\ seen'.version = seen.version
          /\ seen'.module = seen.module /\ seen'.advertised = seen.advertised /\ seen'.header = seen.header
          /\ seen'.holds = seen.holds /\ seen'.sonames = seen.sonames
        BY <1>0, <2>1, SeenFields
    <2>3. at = "projects" /\ at' \in {"archives", "failed"} /\ (at' = "archives" => paths \subseteq Roots \cup Allowed)
        BY <2>1 DEF Preflight!On
    <2>4. CASE at' = "failed"
        BY <1>0, <2>2, <2>4, Fails
    <2>5. CASE at' = "archives"
        BY <1>0, <2>2, <2>3, <2>5, ChecksAfter
        DEF PreflightInv, RuntimeFound, AdaProbed, PackageFound, HeadersAgree, OneLibrary, SonamesAgree, CxxProbed, PathsInside,
            Preflight!Checks
    <2>6. QED
        BY <2>3, <2>4, <2>5
<1>3. CASE Preflight!Archives
    <2>1. PICK ids \in SUBSET Compilers, elf \in BOOLEAN :
              /\ Preflight!On("archives", elf /\ ids # {} /\ ids \subseteq Preflight!Identities, "alis")
              /\ seen' = [seen EXCEPT !.archives = ids]
        BY <1>3 DEF Preflight!Archives
    <2>2. /\ DOMAIN seen' = DOMAIN seen /\ seen'.archives = ids /\ seen'.search = seen.search
          /\ seen'.ada = seen.ada /\ seen'.signature = seen.signature /\ seen'.runtime_signature = seen.runtime_signature
          /\ seen'.cxx = seen.cxx /\ seen'.package = seen.package /\ seen'.version = seen.version
          /\ seen'.module = seen.module /\ seen'.advertised = seen.advertised /\ seen'.header = seen.header
          /\ seen'.holds = seen.holds /\ seen'.sonames = seen.sonames /\ seen'.paths = seen.paths
        BY <1>0, <2>1, SeenFields
    <2>3. at = "archives" /\ at' \in {"alis", "failed"} /\ (at' = "alis" => ids \subseteq Preflight!Identities)
        BY <2>1 DEF Preflight!On
    <2>4. CASE at' = "failed"
        BY <1>0, <2>2, <2>4, Fails
    <2>5. CASE at' = "alis"
        BY <1>0, <2>2, <2>3, <2>5, ChecksAfter
        DEF PreflightInv, RuntimeFound, AdaProbed, PackageFound, HeadersAgree, OneLibrary, SonamesAgree, CxxProbed, PathsInside, ArchivesAgree, Preflight!Identities,
            Preflight!Checks
    <2>6. QED
        BY <2>3, <2>4, <2>5
<1>4. CASE Preflight!Alis
    <2>1. PICK found \in SUBSET Signatures :
              /\ Preflight!On("alis", found = {seen.signature}, "passed")
              /\ seen' = [seen EXCEPT !.alis = found]
        BY <1>4 DEF Preflight!Alis
    <2>2. /\ DOMAIN seen' = DOMAIN seen /\ seen'.alis = found /\ seen'.search = seen.search
          /\ seen'.ada = seen.ada /\ seen'.signature = seen.signature /\ seen'.runtime_signature = seen.runtime_signature
          /\ seen'.cxx = seen.cxx /\ seen'.package = seen.package /\ seen'.version = seen.version
          /\ seen'.module = seen.module /\ seen'.advertised = seen.advertised /\ seen'.header = seen.header
          /\ seen'.holds = seen.holds /\ seen'.sonames = seen.sonames /\ seen'.paths = seen.paths
          /\ seen'.archives = seen.archives
        BY <1>0, <2>1, SeenFields
    <2>3. at = "alis" /\ at' \in {"passed", "failed"} /\ (at' = "passed" => found = {seen.signature})
        BY <2>1 DEF Preflight!On
    <2>4. CASE at' = "failed"
        BY <1>0, <2>2, <2>4, Fails
    <2>5. CASE at' = "passed"
        BY <1>0, <2>2, <2>3, <2>5, ChecksAfter
        DEF PreflightInv, RuntimeFound, AdaProbed, PackageFound, HeadersAgree, OneLibrary, SonamesAgree, CxxProbed, PathsInside, ArchivesAgree, AlisAgree,
            Preflight!Checks
    <2>6. QED
        BY <2>3, <2>4, <2>5
<1>5. QED
    BY <1>1, <1>2, <1>3, <1>4

LEMMA PassedIsOneTarget ==
    ASSUME Preflight!PreflightAssumption, PreflightInv
    PROVE  Preflight!OneTarget
<1>1. at = "passed" =>
          /\ RuntimeFound /\ AdaProbed /\ PackageFound /\ HeadersAgree /\ OneLibrary
          /\ SonamesAgree /\ CxxProbed /\ PathsInside /\ ArchivesAgree /\ AlisAgree
    BY ChecksAfter DEF PreflightInv
<1>2. Preflight!TypeOK
    BY <1>1 DEF PreflightInv, Preflight!TypeOK, AdaProbed, PackageFound, OneLibrary,
       SonamesAgree, CxxProbed, PathsInside, ArchivesAgree, AlisAgree,
       Preflight!PreflightAssumption
<1>3. Preflight!DefaultRuntime /\ Preflight!OneToolchain /\ Preflight!CoreContained
    BY <1>1 DEF RuntimeFound, AdaProbed, PathsInside, ArchivesAgree, AlisAgree,
       Preflight!DefaultRuntime, Preflight!OneToolchain, Preflight!CoreContained
<1>4. Preflight!OneOpenCV
    BY <1>1 DEF PackageFound, HeadersAgree, SonamesAgree, Preflight!OneOpenCV
<1>5. Preflight!LinksWhatWasExamined
    BY <1>1 DEF OneLibrary, Preflight!Matches, Preflight!LinksWhatWasExamined
<1>6. QED
    BY <1>2, <1>3, <1>4, <1>5 DEF Preflight!OneTarget

(* The preflight by itself.                                                   *)
LEMMA PreflightSound ==
    ASSUME Preflight!PreflightAssumption
    PROVE  Preflight!Spec => []Preflight!OneTarget
<1>1. PreflightInv /\ [Preflight!Next]_Preflight!vars => PreflightInv'
    <2>1. ASSUME PreflightInv, UNCHANGED Preflight!vars PROVE PreflightInv'
        <3>1. at' = at /\ seen' = seen
            BY <2>1 DEF Preflight!vars
        <3>2. QED
            BY <2>1, <3>1 DEF PreflightInv, RuntimeFound, AdaProbed, PackageFound, HeadersAgree,
               OneLibrary, SonamesAgree, CxxProbed, PathsInside, ArchivesAgree, AlisAgree
    <2>2. QED
        BY <2>1, FirstChecks, LibraryChecks, CoreChecks DEF Preflight!Next
<1>2. PreflightInv => Preflight!OneTarget
    BY PassedIsOneTarget
<1>3. QED
    BY <1>1, <1>2, PreflightInitially, PTL DEF Preflight!Spec

-----------------------------------------------------------------------------
(* The trace of a build.                                                      *)
(* The lines read so far are the target's, and what was counted was compiled  *)
(* by one of them.                                                            *)
TraceInv ==
    /\ Trace!TypeOK /\ commands < line
    /\ \A i \in 1 .. line - 1 : Trace!Checked(trace[i])
    /\ commands > 0 => \E i \in 1 .. line - 1 : Trace!Runs(trace[i]) /\ trace[i].compiles
    /\ verdict = "passed" => line > Len(trace) /\ commands > 0

LEMMA TraceLines ==
    ASSUME Trace!TypeOK
    PROVE  /\ Len(trace) \in Nat /\ line \in Nat /\ commands \in Nat
           /\ line >= 1 /\ line <= Len(trace) + 1
           /\ \A i \in 1 .. Len(trace) : trace[i] \in Trace!Command
<1>1. trace \in Seq(Trace!Command) /\ line \in 1 .. Len(trace) + 1 /\ commands \in 0 .. Len(trace)
    BY DEF Trace!TypeOK
<1>2. QED
    BY <1>1

LEMMA TraceInitially ==
    ASSUME Trace!TraceAssumption, Trace!Init
    PROVE  TraceInv
<1>1. trace \in Seq(Trace!Command) /\ line = 1 /\ commands = 0 /\ verdict \in {"reading", "failed"}
    BY DEF Trace!TraceAssumption, Trace!Init
<1>2. Len(trace) \in Nat
    BY <1>1
<1>3. Trace!TypeOK
    BY <1>1, <1>2 DEF Trace!TypeOK
<1>4. 1 .. line - 1 = {}
    BY <1>1
<1>5. QED
    BY <1>1, <1>3, <1>4 DEF TraceInv

LEMMA TraceStep ==
    ASSUME TraceInv, [Trace!Next]_Trace!vars
    PROVE  TraceInv'
<1>0. /\ Trace!TypeOK /\ Len(trace) \in Nat /\ line \in Nat /\ commands \in Nat
      /\ line >= 1 /\ line <= Len(trace) + 1 /\ commands < line
    BY TraceLines DEF TraceInv
<1>1. CASE Trace!ReadLine
    <2>1. /\ verdict = "reading" /\ line <= Len(trace) /\ Trace!Checked(trace[line])
          /\ line' = line + 1 /\ trace' = trace /\ verdict' = verdict
          /\ commands' = IF Trace!Runs(trace[line]) /\ trace[line].compiles
                         THEN commands + 1 ELSE commands
        BY <1>1 DEF Trace!ReadLine, Trace!Runs
    <2>2. \A i \in 1 .. line' - 1 : i \in 1 .. line - 1 \/ i = line
        BY <1>0, <2>1
    <2>3. \A i \in 1 .. line' - 1 : Trace!Checked(trace'[i])
        BY <2>1, <2>2 DEF TraceInv
    <2>4. commands' > 0 => \E i \in 1 .. line' - 1 : Trace!Runs(trace'[i]) /\ trace'[i].compiles
        <3>1. line \in 1 .. line' - 1 /\ 1 .. line - 1 \subseteq 1 .. line' - 1
            BY <1>0, <2>1
        <3>2. CASE Trace!Runs(trace[line]) /\ trace[line].compiles
            BY <2>1, <3>1, <3>2
        <3>3. CASE ~ (Trace!Runs(trace[line]) /\ trace[line].compiles)
            BY <2>1, <3>1, <3>3 DEF TraceInv
        <3>4. QED
            BY <3>2, <3>3
    <2>5. commands' \in 0 .. Len(trace) /\ commands' < line' /\ line' \in 1 .. Len(trace) + 1
        BY <1>0, <2>1
    <2>6. Trace!TypeOK'
        BY <1>0, <2>1, <2>5 DEF Trace!TypeOK
    <2>7. QED
        BY <2>1, <2>3, <2>4, <2>5, <2>6 DEF TraceInv
<1>2. CASE Trace!Refuse \/ Trace!Finish
    <2>1. /\ UNCHANGED <<trace, commands, line>> /\ verdict' \in {"passed", "failed"}
          /\ verdict' = "passed" => line > Len(trace) /\ commands > 0
        BY <1>2 DEF Trace!Refuse, Trace!Finish
    <2>2. Trace!TypeOK'
        BY <1>0, <2>1 DEF Trace!TypeOK
    <2>3. QED
        BY <2>1, <2>2 DEF TraceInv
<1>3. CASE UNCHANGED Trace!vars
    <2>1. UNCHANGED <<trace, commands, verdict, line>>
        BY <1>3 DEF Trace!vars
    <2>2. Trace!TypeOK'
        BY <1>0, <2>1 DEF Trace!TypeOK
    <2>3. QED
        BY <2>1, <2>2 DEF TraceInv
<1>4. QED
    BY <1>1, <1>2, <1>3 DEF Trace!Next

(* The trace by itself.                                                       *)
LEMMA TraceSound ==
    ASSUME Trace!TraceAssumption
    PROVE  Trace!Spec => []Trace!TraceIsTheTargets
<1>1. ASSUME TraceInv PROVE Trace!TraceIsTheTargets
    <2>1. Trace!TypeOK
        BY <1>1 DEF TraceInv
    <2>0. SUFFICES ASSUME verdict = "passed"
                   PROVE  /\ Trace!PassedTraceIsTheTargets
                          /\ Trace!OnlyApprovedLibraries /\ Trace!HostByItsName
        BY <2>1 DEF Trace!TraceIsTheTargets, Trace!PassedTraceIsTheTargets,
                    Trace!OnlyApprovedLibraries, Trace!HostByItsName
    <2>2. /\ \A c \in Trace!Ran : Trace!Checked(c) /\ Trace!Runs(c) /\ c \in Trace!Command
          /\ \E c \in Trace!Ran : c.compiles
        <3>1. 1 .. line - 1 = 1 .. Len(trace)
            BY <1>1, <2>0, <2>1, TraceLines DEF TraceInv
        <3>2. QED
            BY <1>1, <2>0, <2>1, <3>1, TraceLines DEF TraceInv, Trace!Ran
    <2>3. Trace!PassedTraceIsTheTargets
        <3>1. ASSUME NEW c \in Trace!Ran
              PROVE  /\ c.program \in TargetTools
                     /\ KindOf[c.program.name] = "gnat" => c.program \in AdaTools
            <4>1. c.program \in Trace!Program /\ Trace!ToolChecked(c.program)
                BY <2>2 DEF Trace!Checked, Trace!Command
            <4>2. /\ {AdaCompiler, CxxCompiler} \subseteq TargetTools
                  /\ \A p \in Trace!Program : p.name \in Prefixed =>
                         /\ p.dir = AdaCompiler.dir => p \in TargetTools /\ p \in AdaTools
                         /\ p.dir = CxxCompiler.dir => p \in TargetTools
                BY DEF Trace!TraceAssumption
            <4>3. QED
                BY <4>1, <4>2 DEF Trace!ToolChecked
        <3>2. QED
            BY <2>2, <3>1 DEF Trace!PassedTraceIsTheTargets
    <2>4. ASSUME NEW c \in Trace!Ran, NEW w \in c.words
          PROVE  Trace!Approves(w) /\ Trace!NotHost(w)
        BY <2>2 DEF Trace!Checked, Trace!WordChecked
    <2>5. Trace!OnlyApprovedLibraries
        <3>1. ASSUME NEW c \in Trace!Ran, NEW w \in c.words, w.flag = "-L", w.joined,
                     \/ Trace!Inside(w.dir, Trace!InstalledRoots)
                     \/ Trace!Inside(Canonical[w.dir], Trace!InstalledRoots)
              PROVE  /\ Canonical[w.dir] = w.dir
                     /\ Canonical[w.dir] \in Trace!InstalledLibraries
            BY <2>4, <3>1 DEF Trace!Approves, Trace!InstalledLibrary
        <3>2. QED
            BY <3>1 DEF Trace!OnlyApprovedLibraries
    <2>6. Trace!HostByItsName
        BY <2>4 DEF Trace!NotHost, Trace!InstalledLibrary, Trace!HostByItsName
    <2>7. QED
        BY <2>3, <2>5, <2>6
<1>2. Trace!Init => TraceInv
    BY TraceInitially
<1>3. TraceInv /\ [Trace!Next]_Trace!vars => TraceInv'
    BY TraceStep
<1>4. QED
    BY <1>1, <1>2, <1>3, PTL DEF Trace!Spec

-----------------------------------------------------------------------------
(* The directories of the loader's configuration.                            *)
(* A set of naturals that is not empty has a least element, and one that has  *)
(* 0 and the successor of each of its elements is all of them.                *)
NatLT == {p \in Nat \X Nat : p[1] < p[2]}

LEMMA LeastNatural ==
    ASSUME NEW S \in SUBSET Nat, S # {}
    PROVE  \E m \in S : \A n \in S : m <= n
<1>1. IsWellFoundedOn(NatLT, Nat)
    BY NatLessThanWellFounded, Zenon DEF OpToRel, NatLT
<1>2. PICK m \in S : \A n \in S : ~ (<<n, m>> \in NatLT)
    BY <1>1, WFMin
<1>3. ASSUME NEW n \in S PROVE m <= n
    <2>1. n \in Nat /\ m \in Nat
        OBVIOUS
    <2>2. <<n, m>> \in NatLT <=> n < m
        BY <2>1 DEF NatLT
    <2>3. QED
        BY <1>2, <2>1, <2>2
<1>4. QED
    BY <1>3

LEMMA AllNaturals ==
    ASSUME NEW S \in SUBSET Nat, 0 \in S, \A n \in S : n + 1 \in S
    PROVE  \A n \in Nat : n \in S
<1>1. SUFFICES ASSUME Nat \ S # {} PROVE FALSE
    OBVIOUS
<1>2. PICK m \in Nat \ S : \A n \in Nat \ S : m <= n
    BY <1>1, LeastNatural
<1>3. m # 0 /\ m - 1 \in Nat
    BY <1>2
<1>4. m - 1 \in S
    BY <1>2, <1>3
<1>5. QED
    BY <1>2, <1>3, <1>4

-----------------------------------------------------------------------------
(* FlattenSeq is a recursion over a sequence of sequences: it has a value,    *)
(* one only, and what it makes of two parts is the two results in a row.      *)
Flattens(f, s, n) ==
    f = [i \in 1 .. n |-> IF i = 1 THEN s[i] ELSE f[i - 1] \o s[i]]

LEMMA FlattenExists ==
    ASSUME NEW s, NEW n \in Nat
    PROVE  \E f : Flattens(f, s, n)
<1> DEFINE S == {m \in Nat : \E f : Flattens(f, s, m)}
<1>1. 0 \in S
    <2>1. Flattens(<< >>, s, 0)
        BY DEF Flattens
    <2> QED
        BY <2>1
<1>2. ASSUME NEW m \in S PROVE m + 1 \in S
    <2>1. PICK f : Flattens(f, s, m)
        OBVIOUS
    <2> DEFINE next(i) == IF i = 1 THEN s[i] ELSE f[i - 1] \o s[i]
               g == [i \in 1 .. m + 1 |-> next(i)]
    <2>2. \A i \in 1 .. m : f[i] = next(i)
        BY <2>1 DEF Flattens
    <2>3. \A i \in 1 .. m + 1 : i # 1 => i - 1 \in 1 .. m
        OBVIOUS
    <2>4. \A i \in 1 .. m : g[i] = next(i)
        OBVIOUS
    <2>5. \A i \in 1 .. m : g[i] = f[i]
        BY <2>2, <2>4
    <2>6. \A i \in 1 .. m + 1 :
              next(i) = IF i = 1 THEN s[i] ELSE g[i - 1] \o s[i]
        <3> HIDE DEF g
        <3> QED
            BY <2>3, <2>5
    <2>7. g = [i \in 1 .. m + 1 |-> IF i = 1 THEN s[i] ELSE g[i - 1] \o s[i]]
        <3> DEFINE h == [i \in 1 .. m + 1 |-> IF i = 1 THEN s[i] ELSE g[i - 1] \o s[i]]
        <3> SUFFICES g = h
            OBVIOUS
        <3>1. g = [i \in 1 .. m + 1 |-> next(i)]
            OBVIOUS
        <3> HIDE DEF g, next
        <3> QED
            BY <2>6, <3>1
    <2>8. Flattens(g, s, m + 1)
        BY <2>7, Zenon DEF Flattens
    <2> QED
        BY <2>8
<1>3. n \in S
    BY <1>1, <1>2, AllNaturals
<1> QED
    BY <1>3

LEMMA FlattenOnce ==
    ASSUME NEW s, NEW t, NEW n \in Nat, NEW m \in Nat, NEW f, NEW g,
           Flattens(f, s, n), Flattens(g, t, m),
           NEW k \in Nat, k <= n, k <= m, \A i \in 1 .. k : s[i] = t[i]
    PROVE  \A i \in 1 .. k : f[i] = g[i]
<1> DEFINE S == {i \in 1 .. k : f[i] # g[i]}
<1>1. SUFFICES ASSUME S # {} PROVE FALSE
    OBVIOUS
<1>2. PICK j \in S : \A i \in S : j <= i
    <2>1. S \in SUBSET Nat
        OBVIOUS
    <2> HIDE DEF S
    <2> QED
        BY <1>1, <2>1, LeastNatural
<1>3. j \in 1 .. k /\ j \in 1 .. n /\ j \in 1 .. m /\ s[j] = t[j]
    OBVIOUS
<1>4. f[j] = IF j = 1 THEN s[j] ELSE f[j - 1] \o s[j]
    BY <1>3 DEF Flattens
<1>5. g[j] = IF j = 1 THEN t[j] ELSE g[j - 1] \o t[j]
    BY <1>3 DEF Flattens
<1>6. j # 1 => j - 1 \in 1 .. k /\ j - 1 \notin S
    BY <1>2
<1>7. j # 1 => f[j - 1] = g[j - 1]
    BY <1>6
<1>8. f[j] = g[j]
    BY <1>3, <1>4, <1>5, <1>7, Zenon
<1> QED
    BY <1>8

LEMMA FlattenIs ==
    ASSUME NEW s, NEW n \in Nat \ {0}, Len(s) = n
    PROVE  \E f : Flattens(f, s, n) /\ Loader!FlattenSeq(s) = f[n]
<1> DEFINE f == CHOOSE f : Flattens(f, s, Len(s))
<1>1. Loader!FlattenSeq(s) = f[Len(s)]
    BY DEF Loader!FlattenSeq, Flattens
<1>2. Flattens(f, s, Len(s))
    BY FlattenExists
<1> QED
    BY <1>1, <1>2

LEMMA LastOfSeq ==
    ASSUME NEW E, NEW s \in Seq(E), NEW n \in Nat, Len(s) = n + 1
    PROVE  \E r \in Seq(E), e \in E : s = Append(r, e) /\ Len(r) = n
<1>1. s # << >>
    BY EmptySeq
<1>2. PICK r \in Seq(E), e \in E : s = Append(r, e)
    BY <1>1, SequenceEmptyOrAppend
<1>3. Len(s) = Len(r) + 1 /\ Len(r) \in Nat
    BY <1>2, AppendProperties
<1> QED
    BY <1>2, <1>3

LEMMA FlattenLonger ==
    ASSUME NEW s, NEW t, NEW n \in Nat \ {0}, NEW m \in Nat, m = n + 1,
           Len(s) = n, Len(t) = m, \A i \in 1 .. n : s[i] = t[i]
    PROVE  Loader!FlattenSeq(t) = Loader!FlattenSeq(s) \o t[m]
<1>1. PICK f : Flattens(f, s, n) /\ Loader!FlattenSeq(s) = f[n]
    BY FlattenIs
<1>2. PICK g : Flattens(g, t, m) /\ Loader!FlattenSeq(t) = g[m]
    BY FlattenIs
<1>3. Flattens(f, s, n) /\ Flattens(g, t, m)
    BY <1>1, <1>2
<1>4. n \in Nat /\ n <= n /\ n <= m
    OBVIOUS
<1>5. \A i \in 1 .. n : f[i] = g[i]
    BY <1>3, <1>4, FlattenOnce
<1>6. g[m] = IF m = 1 THEN t[m] ELSE g[m - 1] \o t[m]
    <2>1. m \in 1 .. m
        OBVIOUS
    <2> QED
        BY <1>3, <2>1 DEF Flattens
<1>7. m # 1 /\ m - 1 = n /\ n \in 1 .. n
    OBVIOUS
<1> QED
    BY <1>1, <1>2, <1>5, <1>6, <1>7

LEMMA FlattenOne ==
    ASSUME NEW t, NEW n \in Nat \ {0}, n = 1, Len(t) = n
    PROVE  Loader!FlattenSeq(t) = t[n]
<1>1. PICK g : Flattens(g, t, n) /\ Loader!FlattenSeq(t) = g[n]
    BY FlattenIs
<1>2. Flattens(g, t, n) /\ n \in 1 .. n
    BY <1>1
<1>3. g[n] = t[n]
    BY <1>2 DEF Flattens
<1> QED
    BY <1>1, <1>3

LEMMA FlattenEmpty == Loader!FlattenSeq(<< >>) = << >>
    BY DEF Loader!FlattenSeq

LEMMA FlattenAppend ==
    ASSUME NEW D, NEW s \in Seq(Seq(D)), NEW e \in Seq(D), Loader!FlattenSeq(s) \in Seq(D)
    PROVE  Loader!FlattenSeq(Append(s, e)) = Loader!FlattenSeq(s) \o e
<1> DEFINE t == Append(s, e)
           n == Len(s)
<1>1. /\ n \in Nat /\ Len(t) = n + 1 /\ t[n + 1] = e
      /\ \A i \in 1 .. n : t[i] = s[i]
    BY AppendProperties
<1> HIDE DEF t
<1>2. CASE n = 0
    <2>1. s = << >>
        BY <1>1, <1>2, EmptySeq
    <2>2. Loader!FlattenSeq(t) = e
        <3>1. ASSUME NEW m \in Nat \ {0}, m = 1 PROVE Loader!FlattenSeq(t) = e
            <4>1. Len(t) = m /\ t[m] = e
                BY <1>1, <1>2, <3>1
            <4> QED
                BY <3>1, <4>1, FlattenOne
        <3> QED
            BY <3>1
    <2>3. << >> \o e = e
        OBVIOUS
    <2> QED
        BY <2>1, <2>2, <2>3, FlattenEmpty DEF t
<1>3. CASE n # 0
    <2>1. ASSUME NEW m, m = n + 1
          PROVE  Loader!FlattenSeq(t) = Loader!FlattenSeq(s) \o t[m]
        <3>1. /\ n \in Nat \ {0} /\ m \in Nat /\ Len(s) = n /\ Len(t) = m
              /\ \A i \in 1 .. n : s[i] = t[i]
            BY <1>1, <1>3, <2>1
        <3> HIDE DEF n
        <3> QED
            BY <2>1, <3>1, FlattenLonger
    <2> QED
        BY <1>1, <2>1 DEF t
<1> QED
    BY <1>2, <1>3

LEMMA FlattenType ==
    ASSUME NEW D
    PROVE  \A s \in Seq(Seq(D)) : Loader!FlattenSeq(s) \in Seq(D)
<1> DEFINE S == {n \in Nat : \A s \in Seq(Seq(D)) :
                     Len(s) = n => Loader!FlattenSeq(s) \in Seq(D)}
<1>1. 0 \in S
    <2>1. ASSUME NEW s \in Seq(Seq(D)), Len(s) = 0
          PROVE  Loader!FlattenSeq(s) \in Seq(D)
        <3>1. s = << >>
            BY <2>1, EmptySeq
        <3>2. << >> \in Seq(D)
            OBVIOUS
        <3> QED
            BY <3>1, <3>2, FlattenEmpty, Zenon
    <2> QED
        BY <2>1
<1>2. ASSUME NEW n \in S PROVE n + 1 \in S
    <2>1. ASSUME NEW s \in Seq(Seq(D)), Len(s) = n + 1
          PROVE  Loader!FlattenSeq(s) \in Seq(D)
        <3>1. PICK r \in Seq(Seq(D)), e \in Seq(D) : s = Append(r, e) /\ Len(r) = n
            BY <2>1, LastOfSeq
        <3>2. Len(r) = n
            BY <3>1
        <3>3. Loader!FlattenSeq(r) \in Seq(D)
            BY <3>2
        <3>4. Loader!FlattenSeq(s) = Loader!FlattenSeq(r) \o e
            BY <3>1, <3>3, FlattenAppend
        <3> QED
            BY <3>3, <3>4
    <2> QED
        BY <2>1
<1>3. \A n \in Nat : n \in S
    <2>1. S \in SUBSET Nat
        OBVIOUS
    <2> HIDE DEF S
    <2> QED
        BY <1>1, <1>2, <2>1, AllNaturals
<1> QED
    BY <1>3, LenProperties

LEMMA FlattenConcat ==
    ASSUME NEW D, NEW s \in Seq(Seq(D))
    PROVE  \A t \in Seq(Seq(D)) :
               Loader!FlattenSeq(s \o t) = Loader!FlattenSeq(s) \o Loader!FlattenSeq(t)
<1> DEFINE S == {n \in Nat : \A t \in Seq(Seq(D)) : Len(t) = n =>
                     Loader!FlattenSeq(s \o t) = Loader!FlattenSeq(s) \o Loader!FlattenSeq(t)}
<1>0. \A t \in Seq(Seq(D)) : Loader!FlattenSeq(t) \in Seq(D)
    BY FlattenType
<1>1. 0 \in S
    <2>1. ASSUME NEW t \in Seq(Seq(D)), Len(t) = 0
          PROVE  Loader!FlattenSeq(s \o t) = Loader!FlattenSeq(s) \o Loader!FlattenSeq(t)
        <3>1. t = << >> /\ s \o t = s
            BY <2>1, EmptySeq, ConcatEmptySeq
        <3>2. Loader!FlattenSeq(s) \o << >> = Loader!FlattenSeq(s)
            BY <1>0, ConcatEmptySeq
        <3> QED
            BY <3>1, <3>2, FlattenEmpty
    <2> QED
        BY <2>1
<1>2. ASSUME NEW n \in S PROVE n + 1 \in S
    <2>1. ASSUME NEW t \in Seq(Seq(D)), Len(t) = n + 1
          PROVE  Loader!FlattenSeq(s \o t) = Loader!FlattenSeq(s) \o Loader!FlattenSeq(t)
        <3>1. PICK r \in Seq(Seq(D)), e \in Seq(D) : t = Append(r, e) /\ Len(r) = n
            BY <2>1, LastOfSeq
        <3>2. Len(r) = n
            BY <3>1
        <3>3. Loader!FlattenSeq(s \o r) = Loader!FlattenSeq(s) \o Loader!FlattenSeq(r)
            BY <3>2
        <3>4. s \o t = Append(s \o r, e) /\ s \o r \in Seq(Seq(D))
            BY <3>1
        <3>5. Loader!FlattenSeq(s \o t) = Loader!FlattenSeq(s \o r) \o e
            BY <1>0, <3>4, FlattenAppend
        <3>6. Loader!FlattenSeq(t) = Loader!FlattenSeq(r) \o e
            BY <1>0, <3>1, FlattenAppend
        <3>7. (Loader!FlattenSeq(s) \o Loader!FlattenSeq(r)) \o e
                  = Loader!FlattenSeq(s) \o (Loader!FlattenSeq(r) \o e)
            BY <1>0, ConcatAssociative
        <3> QED
            BY <3>3, <3>5, <3>6, <3>7
    <2> QED
        BY <2>1
<1>3. \A n \in Nat : n \in S
    <2>1. S \in SUBSET Nat
        OBVIOUS
    <2> HIDE DEF S
    <2> QED
        BY <1>1, <1>2, <2>1, AllNaturals
<1> QED
    BY <1>3, LenProperties

-----------------------------------------------------------------------------
(* What is named by a line, by lines, and by a file at a depth, given what    *)
(* the files named by includes give.                                          *)
GivesLine(l, T) ==
    IF Loader!IsInclude(l)
    THEN Loader!FlattenSeq([j \in 1 .. Len(l.include) |-> T[l.include[j]]])
    ELSE <<l.dir>>

GivesLines(ls, T) == Loader!FlattenSeq([i \in 1 .. Len(ls) |-> GivesLine(ls[i], T)])

Level(R, d) ==
    [f \in ConfFiles |-> IF d = 0 \/ f \notin sysroot.file THEN << >>
                         ELSE GivesLines(sysroot.lines[f], R[d - 1])]

ReadsTo(R, n) == R = [d \in 0 .. n |-> Level(R, d)]

ConfLines == Loader!Include \cup Loader!Directory

LEMMA LevelOf ==
    ASSUME NEW R, NEW Q, NEW d, d # 0 => R[d - 1] = Q[d - 1]
    PROVE  Level(R, d) = Level(Q, d)
<1>1. CASE d = 0
    BY <1>1, Zenon DEF Level
<1>2. CASE d # 0
    <2>1. R[d - 1] = Q[d - 1]
        BY <1>2
    <2> QED
        BY <2>1 DEF Level
<1> QED
    BY <1>1, <1>2

LEMMA ReadsExist ==
    ASSUME NEW n \in Nat
    PROVE  \E R : ReadsTo(R, n)
<1> DEFINE S == {m \in Nat : \E R : ReadsTo(R, m)}
<1>1. 0 \in S
    <2> DEFINE R == [d \in 0 .. 0 |-> Level(<< >>, d)]
    <2>1. \A d \in 0 .. 0 : Level(<< >>, d) = Level(R, d)
        <3>1. ASSUME NEW d \in 0 .. 0 PROVE Level(<< >>, d) = Level(R, d)
            <4>1. d = 0
                OBVIOUS
            <4> HIDE DEF R
            <4> QED
                BY <4>1, LevelOf, Zenon
        <3> QED
            BY <3>1
    <2>2. R = [d \in 0 .. 0 |-> Level(R, d)]
        <3> DEFINE h == [d \in 0 .. 0 |-> Level(R, d)]
        <3> SUFFICES R = h
            OBVIOUS
        <3>1. R = [d \in 0 .. 0 |-> Level(<< >>, d)]
            OBVIOUS
        <3> HIDE DEF R
        <3> QED
            BY <2>1, <3>1
    <2>3. ReadsTo(R, 0)
        BY <2>2, Zenon DEF ReadsTo
    <2> QED
        BY <2>3
<1>2. ASSUME NEW m \in S PROVE m + 1 \in S
    <2>1. PICK R : ReadsTo(R, m)
        OBVIOUS
    <2> DEFINE Q == [d \in 0 .. m + 1 |-> Level(R, d)]
    <2>2. \A d \in 0 .. m : R[d] = Level(R, d)
        BY <2>1 DEF ReadsTo
    <2>3. \A d \in 0 .. m : Q[d] = R[d]
        BY <2>2
    <2>4. ASSUME NEW d \in 0 .. m + 1 PROVE Level(R, d) = Level(Q, d)
        <3>1. d # 0 => R[d - 1] = Q[d - 1]
            <4>1. d # 0 => d - 1 \in 0 .. m
                OBVIOUS
            <4> HIDE DEF Q
            <4> QED
                BY <2>3, <4>1
        <3> HIDE DEF Q
        <3> QED
            BY <3>1, LevelOf
    <2>5. Q = [d \in 0 .. m + 1 |-> Level(Q, d)]
        <3> DEFINE h == [d \in 0 .. m + 1 |-> Level(Q, d)]
        <3> SUFFICES Q = h
            OBVIOUS
        <3>1. Q = [d \in 0 .. m + 1 |-> Level(R, d)]
            OBVIOUS
        <3> HIDE DEF Q
        <3> QED
            BY <2>4, <3>1
    <2>6. ReadsTo(Q, m + 1)
        BY <2>5, Zenon DEF ReadsTo
    <2> QED
        BY <2>6
<1>3. n \in S
    <2>1. S \in SUBSET Nat
        OBVIOUS
    <2> HIDE DEF S
    <2> QED
        BY <1>1, <1>2, <2>1, AllNaturals
<1> QED
    BY <1>3

LEMMA ReadsAre ==
    ASSUME MaxDepth \in Nat
    PROVE  \A d \in 0 .. MaxDepth + 1 : Loader!Reads[d] = Level(Loader!Reads, d)
<1> DEFINE n == MaxDepth + 1
           Q == CHOOSE R : ReadsTo(R, n)
<1>1. n \in Nat
    OBVIOUS
<1>2. ReadsTo(Q, n)
    <2> HIDE DEF n
    <2> QED
        BY <1>1, ReadsExist
<1>3. Loader!Reads = Q
    BY DEF Loader!Reads, ReadsTo, Level, GivesLines, GivesLine
<1>4. ReadsTo(Loader!Reads, n)
    BY <1>2, <1>3
<1>5. ASSUME NEW R, ReadsTo(R, n)
      PROVE  \A d \in 0 .. n : R[d] = Level(R, d)
    BY <1>5 DEF ReadsTo
<1> QED
    BY <1>4, <1>5

LEMMA ConsIs ==
    ASSUME NEW E, NEW e \in E, NEW t \in Seq(E), NEW s \in Seq(E),
           Len(s) = Len(t) + 1, s[1] = e, \A i \in 1 .. Len(t) : s[i + 1] = t[i]
    PROVE  s = <<e>> \o t
<1> DEFINE u == <<e>> \o t
<1>1. Len(t) \in Nat
    OBVIOUS
<1>2. /\ u \in Seq(E) /\ Len(u) = Len(t) + 1
      /\ \A i \in 1 .. Len(t) + 1 : u[i] = IF i <= 1 THEN e ELSE t[i - 1]
    OBVIOUS
<1> HIDE DEF u
<1>3. ASSUME NEW i \in 1 .. Len(s) PROVE s[i] = u[i]
    <2>1. CASE i = 1
        BY <1>1, <1>2, <2>1
    <2>2. CASE i # 1
        <3>1. i - 1 \in 1 .. Len(t)
            BY <1>1, <2>2
        <3>2. s[i] = t[i - 1]
            BY <3>1
        <3> QED
            BY <1>1, <1>2, <2>2, <3>2
    <2> QED
        BY <2>1, <2>2
<1>4. s = u
    BY <1>2, <1>3, SeqEqual
<1> QED
    BY <1>4 DEF u

LEMMA LineIs ==
    ASSUME NEW l \in ConfLines
    PROVE  /\ Loader!IsInclude(l) => l.include \in Seq(ConfFiles)
           /\ ~ Loader!IsInclude(l) => l.dir \in SearchDirs
    BY DEF ConfLines, Loader!Include, Loader!Directory, Loader!IsInclude

LEMMA GivesDirs ==
    ASSUME NEW T \in [ConfFiles -> Seq(SearchDirs)]
    PROVE  /\ \A l \in ConfLines : GivesLine(l, T) \in Seq(SearchDirs)
           /\ \A ls \in Seq(ConfLines) :
                  /\ [i \in 1 .. Len(ls) |-> GivesLine(ls[i], T)] \in Seq(Seq(SearchDirs))
                  /\ GivesLines(ls, T) \in Seq(SearchDirs)
<1>1. ASSUME NEW l \in ConfLines PROVE GivesLine(l, T) \in Seq(SearchDirs)
    <2>1. CASE Loader!IsInclude(l)
        <3> DEFINE s == [j \in 1 .. Len(l.include) |-> T[l.include[j]]]
        <3>1. l.include \in Seq(ConfFiles)
            BY <2>1, LineIs
        <3>2. s \in Seq(Seq(SearchDirs))
            <4>1. Len(l.include) \in Nat /\ \A j \in 1 .. Len(l.include) : l.include[j] \in ConfFiles
                BY <3>1
            <4> QED
                BY <4>1
        <3>3. Loader!FlattenSeq(s) \in Seq(SearchDirs)
            <4> HIDE DEF s
            <4> QED
                BY <3>2, FlattenType
        <3> QED
            BY <2>1, <3>3, Zenon DEF GivesLine
    <2>2. CASE ~ Loader!IsInclude(l)
        <3>1. <<l.dir>> \in Seq(SearchDirs)
            BY <2>2, LineIs
        <3> QED
            BY <2>2, <3>1, Zenon DEF GivesLine
    <2> QED
        BY <2>1, <2>2
<1>2. ASSUME NEW ls \in Seq(ConfLines)
      PROVE  /\ [i \in 1 .. Len(ls) |-> GivesLine(ls[i], T)] \in Seq(Seq(SearchDirs))
             /\ GivesLines(ls, T) \in Seq(SearchDirs)
    <2> DEFINE s == [i \in 1 .. Len(ls) |-> GivesLine(ls[i], T)]
    <2>1. Len(ls) \in Nat /\ \A i \in 1 .. Len(ls) : GivesLine(ls[i], T) \in Seq(SearchDirs)
        BY <1>1
    <2>2. s \in Seq(Seq(SearchDirs))
        BY <2>1
    <2>3. Loader!FlattenSeq(s) \in Seq(SearchDirs)
        <3> HIDE DEF s
        <3> QED
            BY <2>2, FlattenType
    <2> QED
        BY <2>2, <2>3 DEF GivesLines
<1> QED
    BY <1>1, <1>2

(* The first line of a file gives its directories before the others do.       *)
LEMMA GivesFirst ==
    ASSUME NEW T \in [ConfFiles -> Seq(SearchDirs)], NEW ls \in Seq(ConfLines), ls # << >>
    PROVE  GivesLines(ls, T) = GivesLine(ls[1], T) \o GivesLines(Tail(ls), T)
<1> DEFINE s == [i \in 1 .. Len(ls) |-> GivesLine(ls[i], T)]
           t == [i \in 1 .. Len(Tail(ls)) |-> GivesLine(Tail(ls)[i], T)]
           e == GivesLine(ls[1], T)
<1>1. /\ Tail(ls) \in Seq(ConfLines) /\ Len(ls) \in Nat \ {0}
      /\ Len(Tail(ls)) = Len(ls) - 1
      /\ \A i \in 1 .. Len(Tail(ls)) : Tail(ls)[i] = ls[i + 1]
    BY EmptySeq, HeadTailProperties
<1>2. ls[1] \in ConfLines
    BY <1>1
<1>3. /\ s \in Seq(Seq(SearchDirs)) /\ t \in Seq(Seq(SearchDirs))
      /\ e \in Seq(SearchDirs)
    BY <1>1, <1>2, GivesDirs
<1>4. s = <<e>> \o t
    <2>1. Len(s) = Len(ls) /\ Len(t) = Len(ls) - 1
        BY <1>1
    <2>2. \A i \in 1 .. Len(ls) : s[i] = GivesLine(ls[i], T)
        OBVIOUS
    <2>3. \A i \in 1 .. Len(ls) - 1 : t[i] = GivesLine(ls[i + 1], T)
        BY <1>1
    <2> HIDE DEF s, t
    <2>4. e = GivesLine(ls[1], T)
        OBVIOUS
    <2> HIDE DEF e
    <2>5. s[1] = e /\ \A i \in 1 .. Len(t) : s[i + 1] = t[i]
        BY <1>1, <2>1, <2>2, <2>3, <2>4
    <2>6. Len(s) = Len(t) + 1
        BY <1>1, <2>1
    <2> QED
        BY <1>3, <2>5, <2>6, ConsIs
<1>5. Loader!FlattenSeq(<<e>>) = e
    <2> HIDE DEF e
    <2>1. ASSUME NEW m \in Nat \ {0}, m = 1 PROVE Loader!FlattenSeq(<<e>>) = e
        <3>1. Len(<<e>>) = m /\ <<e>>[m] = e
            BY <2>1
        <3> QED
            BY <2>1, <3>1, FlattenOne
    <2> QED
        BY <2>1
<1>6. Loader!FlattenSeq(s) = e \o Loader!FlattenSeq(t)
    <2> HIDE DEF s, t, e
    <2>1. <<e>> \in Seq(Seq(SearchDirs))
        BY <1>3
    <2>2. Loader!FlattenSeq(<<e>> \o t) = Loader!FlattenSeq(<<e>>) \o Loader!FlattenSeq(t)
        BY <1>3, <2>1, FlattenConcat
    <2> QED
        BY <1>4, <1>5, <2>2
<1> QED
    BY <1>6, Zenon DEF GivesLines

LEMMA ReadsType ==
    ASSUME MaxDepth \in Nat, sysroot \in Loader!Sysroot
    PROVE  \A d \in 0 .. MaxDepth + 1 : Loader!Reads[d] \in [ConfFiles -> Seq(SearchDirs)]
<1>1. \A f \in ConfFiles : sysroot.lines[f] \in Seq(ConfLines)
    BY DEF Loader!Sysroot, ConfLines
<1> DEFINE S == {d \in Nat : d <= MaxDepth + 1 =>
                     Loader!Reads[d] \in [ConfFiles -> Seq(SearchDirs)]}
<1>2. 0 \in S
    <2>1. 0 \in 0 .. MaxDepth + 1
        OBVIOUS
    <2>2. Loader!Reads[0] = Level(Loader!Reads, 0)
        BY <2>1, ReadsAre
    <2>3. Loader!Reads[0] \in [ConfFiles -> Seq(SearchDirs)]
        BY <2>2 DEF Level
    <2> QED
        BY <2>3
<1>3. ASSUME NEW d \in S PROVE d + 1 \in S
    <2>1. SUFFICES ASSUME d + 1 <= MaxDepth + 1
                   PROVE  Loader!Reads[d + 1] \in [ConfFiles -> Seq(SearchDirs)]
        OBVIOUS
    <2>2. Loader!Reads[d] \in [ConfFiles -> Seq(SearchDirs)]
        BY <2>1
    <2>3. d + 1 \in 0 .. MaxDepth + 1 /\ d + 1 - 1 = d /\ d + 1 # 0
        BY <2>1
    <2>4. Loader!Reads[d + 1] = Level(Loader!Reads, d + 1)
        BY <2>3, ReadsAre
    <2>5. \A f \in ConfFiles : GivesLines(sysroot.lines[f], Loader!Reads[d]) \in Seq(SearchDirs)
        BY <1>1, <2>2, GivesDirs
    <2>6. Level(Loader!Reads, d + 1) \in [ConfFiles -> Seq(SearchDirs)]
        BY <2>3, <2>5 DEF Level
    <2> QED
        BY <2>4, <2>6
<1>4. \A n \in Nat : n \in S
    <2>1. S \in SUBSET Nat
        OBVIOUS
    <2> HIDE DEF S
    <2> QED
        BY <1>2, <1>3, <2>1, AllNaturals
<1> QED
    BY <1>4

-----------------------------------------------------------------------------
(* The stack: what is left of a file that is being read, and of them all, the *)
(* top of the stack first.                                                    *)
FrameType ==
    {r \in [depth : Nat, lines : Seq(ConfLines)] :
        r.depth <= MaxDepth + 1 /\ (r.lines # << >> => r.depth <= MaxDepth)}

Left(r) == GivesLines(r.lines, Loader!Reads[MaxDepth - r.depth])
Lefts(s) == [i \in 1 .. Len(s) |-> Left(s[Len(s) + 1 - i])]
Unread(s) == Loader!FlattenSeq(Lefts(s))

LEMMA NothingLeft ==
    ASSUME NEW r, r.lines = << >>
    PROVE  Left(r) = << >>
<1>1. ASSUME NEW T PROVE GivesLines(<< >>, T) = << >>
    <2>1. [i \in 1 .. Len(<< >>) |-> GivesLine(<< >>[i], T)] = << >>
        OBVIOUS
    <2> QED
        BY <2>1, FlattenEmpty, Zenon DEF GivesLines
<1> QED
    BY <1>1, Zenon DEF Left

LEMMA ReadsBelow ==
    ASSUME MaxDepth \in Nat, sysroot \in Loader!Sysroot, NEW d \in Nat, d <= MaxDepth
    PROVE  Loader!Reads[MaxDepth - d] \in [ConfFiles -> Seq(SearchDirs)]
<1>1. MaxDepth - d \in 0 .. MaxDepth + 1
    OBVIOUS
<1> QED
    BY <1>1, ReadsType

LEMMA LeftType ==
    ASSUME MaxDepth \in Nat, sysroot \in Loader!Sysroot
    PROVE  /\ \A r \in FrameType : Left(r) \in Seq(SearchDirs)
           /\ \A s \in Seq(FrameType) :
                  /\ Lefts(s) \in Seq(Seq(SearchDirs))
                  /\ Unread(s) \in Seq(SearchDirs)
<1>1. ASSUME NEW r \in FrameType PROVE Left(r) \in Seq(SearchDirs)
    <2>1. r.lines \in Seq(ConfLines) /\ r.depth \in Nat
        BY DEF FrameType
    <2>2. CASE r.lines = << >>
        <3>1. << >> \in Seq(SearchDirs)
            OBVIOUS
        <3> QED
            BY <2>2, <3>1, NothingLeft
    <2>3. CASE r.lines # << >>
        <3>1. Loader!Reads[MaxDepth - r.depth] \in [ConfFiles -> Seq(SearchDirs)]
            BY <2>1, <2>3, ReadsBelow DEF FrameType
        <3> QED
            BY <2>1, <3>1, GivesDirs DEF Left
    <2> QED
        BY <2>2, <2>3
<1>2. ASSUME NEW s \in Seq(FrameType)
      PROVE  Lefts(s) \in Seq(Seq(SearchDirs)) /\ Unread(s) \in Seq(SearchDirs)
    <2>1. Len(s) \in Nat /\ \A i \in 1 .. Len(s) : s[Len(s) + 1 - i] \in FrameType
        OBVIOUS
    <2>2. \A i \in 1 .. Len(s) : Left(s[Len(s) + 1 - i]) \in Seq(SearchDirs)
        BY <1>1, <2>1
    <2>3. Lefts(s) \in Seq(Seq(SearchDirs))
        BY <2>1, <2>2 DEF Lefts
    <2> QED
        BY <2>3, FlattenType DEF Unread
<1> QED
    BY <1>1, <1>2

LEMMA UnreadConcat ==
    ASSUME MaxDepth \in Nat, sysroot \in Loader!Sysroot,
           NEW s \in Seq(FrameType), NEW t \in Seq(FrameType)
    PROVE  Unread(s \o t) = Unread(t) \o Unread(s)
<1>1. /\ s \o t \in Seq(FrameType) /\ Len(s \o t) = Len(s) + Len(t)
      /\ Len(s) \in Nat /\ Len(t) \in Nat
      /\ \A i \in 1 .. Len(s) + Len(t) :
             (s \o t)[i] = IF i <= Len(s) THEN s[i] ELSE t[i - Len(s)]
    BY ConcatProperties
<1> DEFINE l == Lefts(s \o t)
           a == Lefts(t)
           b == Lefts(s)
           c == a \o b
<1>2. l \in Seq(Seq(SearchDirs)) /\ a \in Seq(Seq(SearchDirs)) /\ b \in Seq(Seq(SearchDirs))
    BY <1>1, LeftType
<1>3. Len(l) = Len(s) + Len(t) /\ Len(a) = Len(t) /\ Len(b) = Len(s)
    BY <1>1 DEF Lefts
<1>4. \A i \in 1 .. Len(s) + Len(t) : l[i] = Left((s \o t)[Len(s) + Len(t) + 1 - i])
    BY <1>1 DEF Lefts
<1>5. \A i \in 1 .. Len(t) : a[i] = Left(t[Len(t) + 1 - i])
    BY <1>1 DEF Lefts
<1>6. \A i \in 1 .. Len(s) : b[i] = Left(s[Len(s) + 1 - i])
    BY <1>1 DEF Lefts
<1> HIDE DEF l, a, b
<1>7. /\ c \in Seq(Seq(SearchDirs)) /\ Len(c) = Len(t) + Len(s)
      /\ \A i \in 1 .. Len(t) + Len(s) : c[i] = IF i <= Len(t) THEN a[i] ELSE b[i - Len(t)]
    <2>1. \A E : a \in Seq(E) /\ b \in Seq(E) =>
              /\ c \in Seq(E) /\ Len(c) = Len(a) + Len(b)
              /\ \A i \in 1 .. Len(a) + Len(b) : c[i] = IF i <= Len(a) THEN a[i] ELSE b[i - Len(a)]
        BY ConcatProperties
    <2> HIDE DEF c
    <2> QED
        BY <1>2, <1>3, <2>1
<1> HIDE DEF c
<1>8. ASSUME NEW i \in 1 .. Len(s) + Len(t) PROVE l[i] = c[i]
    <2>1. CASE i <= Len(t)
        <3>1. /\ i \in 1 .. Len(t) /\ i \in 1 .. Len(t) + Len(s)
              /\ Len(s) + Len(t) + 1 - i \in 1 .. Len(s) + Len(t)
              /\ ~ (Len(s) + Len(t) + 1 - i <= Len(s))
              /\ Len(s) + Len(t) + 1 - i - Len(s) = Len(t) + 1 - i
            BY <1>1, <2>1
        <3>2. (s \o t)[Len(s) + Len(t) + 1 - i] = t[Len(t) + 1 - i]
            BY <1>1, <3>1
        <3> QED
            BY <1>4, <1>5, <1>7, <2>1, <3>1, <3>2
    <2>2. CASE ~ (i <= Len(t))
        <3>1. /\ i - Len(t) \in 1 .. Len(s) /\ i \in 1 .. Len(t) + Len(s)
              /\ Len(s) + Len(t) + 1 - i \in 1 .. Len(s) + Len(t)
              /\ Len(s) + Len(t) + 1 - i <= Len(s)
              /\ Len(s) + 1 - (i - Len(t)) = Len(s) + Len(t) + 1 - i
            BY <1>1, <2>2
        <3>2. (s \o t)[Len(s) + Len(t) + 1 - i] = s[Len(s) + Len(t) + 1 - i]
            BY <1>1, <3>1
        <3>3. b[i - Len(t)] = Left(s[Len(s) + Len(t) + 1 - i])
            BY <1>6, <3>1
        <3> QED
            BY <1>4, <1>7, <2>2, <3>1, <3>2, <3>3
    <2> QED
        BY <2>1, <2>2
<1>9. l = c
    <2>1. Len(l) = Len(c)
        BY <1>1, <1>3, <1>7
    <2>2. \A i \in 1 .. Len(l) : l[i] = c[i]
        BY <1>3, <1>8
    <2> QED
        BY <1>2, <1>7, <2>1, <2>2, SeqEqual
<1>10. Loader!FlattenSeq(c) = Loader!FlattenSeq(a) \o Loader!FlattenSeq(b)
    BY <1>2, FlattenConcat DEF c
<1> QED
    BY <1>9, <1>10, Zenon DEF Unread, l, a, b

LEMMA UnreadOne ==
    ASSUME NEW r
    PROVE  Unread(<<r>>) = Left(r)
<1> DEFINE l == Lefts(<<r>>)
<1>1. ASSUME NEW m \in Nat \ {0}, m = 1 PROVE Loader!FlattenSeq(l) = Left(r)
    <2>1. Len(l) = m /\ l[m] = Left(r)
        BY <1>1 DEF Lefts
    <2> HIDE DEF l
    <2> QED
        BY <1>1, <2>1, FlattenOne
<1> QED
    BY <1>1 DEF Unread

LEMMA FrameIs ==
    ASSUME MaxDepth \in Nat, sysroot \in Loader!Sysroot,
           NEW f \in ConfFiles, NEW d \in Nat, d <= MaxDepth + 1
    PROVE  /\ Loader!Frame(f, d) \in FrameType
           /\ Left(Loader!Frame(f, d)) = Loader!Reads[MaxDepth + 1 - d][f]
<1> DEFINE r == Loader!Frame(f, d)
<1>1. /\ r.depth = d
      /\ r.lines = IF d > MaxDepth \/ f \notin sysroot.file THEN << >> ELSE sysroot.lines[f]
    BY DEF Loader!Frame
<1>2. r = [depth |-> r.depth, lines |-> r.lines]
    BY DEF Loader!Frame
<1>3. sysroot.lines[f] \in Seq(ConfLines) /\ << >> \in Seq(ConfLines)
    BY DEF Loader!Sysroot, ConfLines
<1> HIDE DEF r
<1>4. r.lines \in Seq(ConfLines) /\ (r.lines # << >> => d <= MaxDepth)
    BY <1>1, <1>3
<1>5. r \in FrameType
    BY <1>1, <1>2, <1>4 DEF FrameType
<1>6. Loader!Reads[MaxDepth + 1 - d] = Level(Loader!Reads, MaxDepth + 1 - d)
    <2>1. MaxDepth + 1 - d \in 0 .. MaxDepth + 1
        OBVIOUS
    <2> QED
        BY <2>1, ReadsAre
<1>7. CASE d > MaxDepth \/ f \notin sysroot.file
    <2>1. r.lines = << >>
        BY <1>1, <1>7
    <2>2. MaxDepth + 1 - d = 0 \/ f \notin sysroot.file
        BY <1>7
    <2>3. Level(Loader!Reads, MaxDepth + 1 - d)[f] = << >>
        BY <2>2 DEF Level
    <2> QED
        BY <1>5, <1>6, <2>1, <2>3, NothingLeft DEF r
<1>8. CASE ~ (d > MaxDepth) /\ f \in sysroot.file
    <2>1. r.lines = sysroot.lines[f]
        BY <1>1, <1>8
    <2>2. MaxDepth + 1 - d # 0 /\ MaxDepth + 1 - d - 1 = MaxDepth - d
        BY <1>8
    <2>3. Level(Loader!Reads, MaxDepth + 1 - d)[f]
              = GivesLines(sysroot.lines[f], Loader!Reads[MaxDepth - d])
        BY <1>8, <2>2 DEF Level
    <2> QED
        BY <1>1, <1>5, <1>6, <2>1, <2>3 DEF r, Left
<1> QED
    BY <1>7, <1>8

LEMMA FramesAre ==
    ASSUME MaxDepth \in Nat, sysroot \in Loader!Sysroot,
           NEW l \in Seq(ConfFiles), NEW d \in Nat, d <= MaxDepth
    PROVE  /\ Loader!Frames(l, d) \in Seq(FrameType)
           /\ Unread(Loader!Frames(l, d)) =
                  Loader!FlattenSeq([j \in 1 .. Len(l) |-> Loader!Reads[MaxDepth - d][l[j]]])
<1> DEFINE s == Loader!Frames(l, d)
           p == [j \in 1 .. Len(l) |-> Loader!Reads[MaxDepth - d][l[j]]]
<1>1. Len(l) \in Nat /\ \A i \in 1 .. Len(l) : l[i] \in ConfFiles /\ l[Len(l) + 1 - i] \in ConfFiles
    OBVIOUS
<1>2. d + 1 \in Nat /\ d + 1 <= MaxDepth + 1 /\ MaxDepth + 1 - (d + 1) = MaxDepth - d
    OBVIOUS
<1>3. \A f \in ConfFiles :
          /\ Loader!Frame(f, d + 1) \in FrameType
          /\ Left(Loader!Frame(f, d + 1)) = Loader!Reads[MaxDepth - d][f]
    BY <1>2, FrameIs
<1>4. s = [i \in 1 .. Len(l) |-> Loader!Frame(l[Len(l) + 1 - i], d + 1)]
    BY DEF Loader!Frames
<1> HIDE DEF s
<1>5. s \in Seq(FrameType) /\ Len(s) = Len(l)
    BY <1>1, <1>3, <1>4
<1>6. ASSUME NEW i \in 1 .. Len(l) PROVE Left(s[Len(l) + 1 - i]) = p[i]
    <2>1. Len(l) + 1 - i \in 1 .. Len(l) /\ Len(l) + 1 - (Len(l) + 1 - i) = i
        BY <1>1
    <2>2. s[Len(l) + 1 - i] = Loader!Frame(l[i], d + 1)
        BY <1>4, <2>1
    <2> QED
        BY <1>1, <1>3, <2>2
<1>7. Lefts(s) = [i \in 1 .. Len(l) |-> Left(s[Len(l) + 1 - i])]
    BY <1>5, Zenon DEF Lefts
<1>8. Lefts(s) = p
    <2>1. p = [i \in 1 .. Len(l) |-> p[i]]
        OBVIOUS
    <2> HIDE DEF p
    <2> QED
        BY <1>6, <1>7, <2>1
<1> QED
    BY <1>5, <1>8, Zenon DEF Unread, s

-----------------------------------------------------------------------------
(* The first directory of a path that has a file.                             *)
LEMMA LeastIs ==
    ASSUME NEW S \in SUBSET Nat, NEW m \in S, \A n \in S : m <= n
    PROVE  (CHOOSE i \in S : \A j \in S : i <= j) = m
<1> DEFINE c == CHOOSE i \in S : \A j \in S : i <= j
<1>1. c \in S /\ \A j \in S : c <= j
    OBVIOUS
<1> HIDE DEF c
<1>2. c \in Nat /\ m \in Nat /\ c <= m /\ m <= c
    BY <1>1
<1> QED
    BY <1>2 DEF c

LEMMA NoneHas ==
    ASSUME NEW s, NEW has, \A i \in 1 .. Len(s) : s[i] \notin has
    PROVE  Loader!FirstOf(s, has) = << >>
    BY DEF Loader!FirstOf

LEMMA FirstHas ==
    ASSUME NEW s, NEW has, Len(s) \in Nat, NEW m \in 1 .. Len(s), s[m] \in has,
           \A i \in 1 .. Len(s) : s[i] \in has => m <= i
    PROVE  Loader!FirstOf(s, has) = <<s[m]>>
<1> DEFINE S == {i \in 1 .. Len(s) : s[i] \in has}
           c == CHOOSE i \in S : \A j \in S : i <= j
<1>1. S \in SUBSET Nat /\ m \in S /\ \A n \in S : m <= n
    OBVIOUS
<1>2. S # {}
    BY <1>1
<1>3. Loader!FirstOf(s, has) = <<s[c]>>
    BY <1>2, Zenon DEF Loader!FirstOf
<1>4. c = m
    <2> HIDE DEF S
    <2> QED
        BY <1>1, LeastIs
<1> QED
    BY <1>3, <1>4

LEMMA FirstOfAppend ==
    ASSUME NEW D, NEW s \in Seq(D), NEW e \in D, NEW has
    PROVE  /\ Loader!FirstOf(s, has) = << >> <=> \A i \in 1 .. Len(s) : s[i] \notin has
           /\ Loader!FirstOf(Append(s, e), has) =
                  IF \E i \in 1 .. Len(s) : s[i] \in has THEN Loader!FirstOf(s, has)
                  ELSE IF e \in has THEN <<e>> ELSE << >>
<1> DEFINE t == Append(s, e)
           S == {i \in 1 .. Len(s) : s[i] \in has}
<1>1. /\ Len(s) \in Nat /\ Len(t) = Len(s) + 1 /\ t[Len(s) + 1] = e
      /\ \A i \in 1 .. Len(s) : t[i] = s[i]
    BY AppendProperties
<1> HIDE DEF t
<1>2. CASE \E i \in 1 .. Len(s) : s[i] \in has
    <2>1. PICK m \in S : \A i \in S : m <= i
        <3>1. S \in SUBSET Nat /\ S # {}
            BY <1>2
        <3> HIDE DEF S
        <3> QED
            BY <3>1, LeastNatural
    <2>2. m \in 1 .. Len(s) /\ s[m] \in has /\ \A i \in 1 .. Len(s) : s[i] \in has => m <= i
        BY <2>1
    <2>3. Loader!FirstOf(s, has) = <<s[m]>>
        BY <1>1, <2>2, FirstHas
    <2>4. /\ Len(t) \in Nat /\ m \in 1 .. Len(t) /\ t[m] \in has /\ t[m] = s[m]
          /\ \A i \in 1 .. Len(t) : t[i] \in has => m <= i
        BY <1>1, <2>2
    <2>5. Loader!FirstOf(t, has) = <<t[m]>>
        BY <2>4, FirstHas
    <2>6. <<s[m]>> # << >>
        OBVIOUS
    <2> QED
        BY <1>2, <2>3, <2>4, <2>5, <2>6 DEF t
<1>3. CASE \A i \in 1 .. Len(s) : s[i] \notin has
    <2>1. Loader!FirstOf(s, has) = << >>
        BY <1>3, NoneHas
    <2>2. e \in has => Loader!FirstOf(t, has) = <<e>>
        <3>1. ASSUME NEW m, m = Len(s) + 1, e \in has PROVE Loader!FirstOf(t, has) = <<e>>
            <4>1. /\ Len(t) \in Nat /\ m \in 1 .. Len(t) /\ t[m] = e
                  /\ \A i \in 1 .. Len(t) : t[i] \in has => m <= i
                BY <1>1, <1>3, <3>1
            <4> QED
                BY <3>1, <4>1, FirstHas
        <3> QED
            BY <3>1
    <2>3. e \notin has => Loader!FirstOf(t, has) = << >>
        <3>1. e \notin has => \A i \in 1 .. Len(t) : t[i] \notin has
            BY <1>1, <1>3
        <3> QED
            BY <3>1, NoneHas
    <2> QED
        BY <1>3, <2>1, <2>2, <2>3 DEF t
<1> QED
    BY <1>2, <1>3

-----------------------------------------------------------------------------
(* The walk through the configuration: what was read and what is left to read *)
(* is what ld.so.conf names; then what was chosen finds what the entries that *)
(* were chosen from would find.                                               *)
SameSearches(past) ==
    \A has \in SUBSET sysroot.exists :
        Loader!FirstOf(directories, has) = Loader!FirstOf(past, has)

Chosen ==
    \E past \in Seq(SearchDirs) : past \o entries = Loader!Named /\ SameSearches(past)

LoaderInv ==
    /\ sysroot \in ConfSysroots /\ stack \in Seq(FrameType)
    /\ entries \in Seq(SearchDirs) /\ directories \in Seq(SearchDirs)
    /\ reading \in {"reading", "choosing", "failed", "done"}
    /\ reading = "reading" =>
           entries \o Unread(stack) = Loader!Reads[MaxDepth + 1][ConfRoot] /\ directories = << >>
    /\ reading # "reading" => stack = << >>
    /\ reading \in {"choosing", "done"} => Chosen
    /\ reading = "done" => entries = << >>

LEMMA LoaderConstants ==
    ASSUME Loader!LoaderAssumption
    PROVE  /\ MaxDepth \in Nat /\ ConfRoot \in ConfFiles
           /\ \A s \in ConfSysroots : s \in Loader!Sysroot
           /\ DefaultDirs \in Seq(SearchDirs)
    BY DEF Loader!LoaderAssumption

LEMMA RootReads ==
    ASSUME Loader!LoaderAssumption, sysroot \in ConfSysroots
    PROVE  Loader!Reads[MaxDepth + 1][ConfRoot] \in Seq(SearchDirs)
<1>1. MaxDepth \in Nat /\ ConfRoot \in ConfFiles /\ sysroot \in Loader!Sysroot
    BY LoaderConstants
<1>2. MaxDepth + 1 \in 0 .. MaxDepth + 1
    BY <1>1
<1>3. Loader!Reads[MaxDepth + 1] \in [ConfFiles -> Seq(SearchDirs)]
    BY <1>1, <1>2, ReadsType
<1> QED
    BY <1>1, <1>3

LEMMA ReadsStay ==
    ASSUME sysroot' = sysroot
    PROVE  /\ Loader!Reads' = Loader!Reads
           /\ Loader!Named' = Loader!Named
           /\ \A s : Unread(s)' = Unread(s)
<1>1. Loader!Reads' = Loader!Reads
    BY DEF Loader!Reads
<1>2. Loader!Named' = Loader!Named
    BY <1>1 DEF Loader!Named
<1>3. \A s : Unread(s)' = Unread(s)
    BY <1>1 DEF Unread, Lefts, Left
<1> QED
    BY <1>1, <1>2, <1>3

LEMMA LoaderInitially ==
    ASSUME Loader!LoaderAssumption, Loader!Init
    PROVE  LoaderInv
<1>1. /\ sysroot \in ConfSysroots /\ stack = <<Loader!Frame(ConfRoot, 0)>>
      /\ entries = << >> /\ directories = << >> /\ reading = "reading"
    BY DEF Loader!Init
<1>2. MaxDepth \in Nat /\ ConfRoot \in ConfFiles /\ sysroot \in Loader!Sysroot
    BY <1>1, LoaderConstants
<1>3. /\ Loader!Frame(ConfRoot, 0) \in FrameType
      /\ Left(Loader!Frame(ConfRoot, 0)) = Loader!Reads[MaxDepth + 1][ConfRoot]
    <2>1. 0 \in Nat /\ 0 <= MaxDepth + 1 /\ MaxDepth + 1 - 0 = MaxDepth + 1
        BY <1>2
    <2> QED
        BY <1>2, <2>1, FrameIs
<1>4. Unread(stack) = Loader!Reads[MaxDepth + 1][ConfRoot]
    BY <1>1, <1>3, UnreadOne
<1>5. entries \o Unread(stack) = Loader!Reads[MaxDepth + 1][ConfRoot]
    <2>1. Unread(stack) \in Seq(SearchDirs)
        BY <1>1, <1>4, RootReads
    <2> QED
        BY <1>1, <1>4, <2>1, ConcatEmptySeq
<1>6. stack \in Seq(FrameType) /\ entries \in Seq(SearchDirs) /\ directories \in Seq(SearchDirs)
    BY <1>1, <1>3
<1> QED
    BY <1>1, <1>5, <1>6 DEF LoaderInv

LEMMA TopOfStack ==
    ASSUME MaxDepth \in Nat, sysroot \in Loader!Sysroot, stack \in Seq(FrameType), stack # << >>
    PROVE  /\ Loader!Below \in Seq(FrameType) /\ Loader!Top \in FrameType
           /\ Unread(stack) = Left(Loader!Top) \o Unread(Loader!Below)
<1> DEFINE n == Len(stack)
           r == Loader!Top
           b == Loader!Below
<1>1. n \in Nat \ {0}
    BY EmptySeq
<1>2. r = stack[n] /\ b = SubSeq(stack, 1, n - 1)
    BY DEF Loader!Top, Loader!Below
<1>3. r \in FrameType
    BY <1>1, <1>2
<1>4. b \in Seq(FrameType) /\ Len(b) = n - 1 /\ \A i \in 1 .. n - 1 : b[i] = stack[i]
    <2>1. 1 \in Int /\ n - 1 \in Int /\ \A i \in 1 .. n - 1 : stack[i] \in FrameType
        BY <1>1
    <2>2. /\ b \in Seq(FrameType)
          /\ Len(b) = IF 1 <= n - 1 THEN n - 1 - 1 + 1 ELSE 0
          /\ \A i \in 1 .. n - 1 - 1 + 1 : b[i] = stack[1 + i - 1]
        BY <1>2, <2>1, SubSeqProperties
    <2> HIDE DEF b, n
    <2> QED
        BY <1>1, <2>2
<1> HIDE DEF b, r, n
<1>5. stack = b \o <<r>>
    <2> DEFINE u == b \o <<r>>
    <2>1. <<r>> \in Seq(FrameType) /\ Len(<<r>>) = 1 /\ <<r>>[1] = r
        BY <1>3
    <2>2. /\ u \in Seq(FrameType) /\ Len(u) = n
          /\ \A i \in 1 .. n : u[i] = IF i <= n - 1 THEN b[i] ELSE r
        BY <1>1, <1>3, <1>4
    <2> HIDE DEF u
    <2>3. ASSUME NEW i \in 1 .. n PROVE stack[i] = u[i]
        BY <1>1, <1>2, <1>4, <2>2
    <2>4. Len(stack) = n
        BY DEF n
    <2>5. stack = u
        BY <2>2, <2>3, <2>4, SeqEqual
    <2> QED
        BY <2>5 DEF u
<1>6. Unread(b \o <<r>>) = Unread(<<r>>) \o Unread(b)
    <2>1. <<r>> \in Seq(FrameType)
        BY <1>3
    <2> QED
        BY <1>4, <2>1, UnreadConcat
<1> QED
    BY <1>3, <1>4, <1>5, <1>6, UnreadOne DEF b, r

LEMMA ReturnStep ==
    ASSUME Loader!LoaderAssumption, LoaderInv, Loader!Return
    PROVE  LoaderInv'
<1>1. /\ reading = "reading" /\ stack # << >> /\ Loader!Top.lines = << >>
      /\ stack' = Loader!Below /\ UNCHANGED <<sysroot, entries, directories, reading>>
    BY DEF Loader!Return
<1>2. MaxDepth \in Nat /\ sysroot \in Loader!Sysroot
    BY LoaderConstants DEF LoaderInv
<1>3. /\ Loader!Below \in Seq(FrameType)
      /\ Unread(stack) = Left(Loader!Top) \o Unread(Loader!Below)
    BY <1>1, <1>2, TopOfStack DEF LoaderInv
<1>4. Unread(stack) = Unread(Loader!Below)
    <2>1. Left(Loader!Top) = << >>
        BY <1>1, NothingLeft
    <2>2. Unread(Loader!Below) \in Seq(SearchDirs)
        BY <1>2, <1>3, LeftType
    <2> QED
        BY <1>3, <2>1, <2>2, ConcatEmptySeq
<1>5. Unread(stack)' = Unread(stack)
    <2>1. \A s : Unread(s)' = Unread(s)
        BY <1>1, ReadsStay
    <2> QED
        BY <1>1, <1>4, <2>1
<1>6. Loader!Reads' = Loader!Reads
    BY <1>1, ReadsStay
<1> QED
    BY <1>1, <1>3, <1>5, <1>6 DEF LoaderInv

(* One line: what it gives comes before what is left of its file, and the     *)
(* files it includes are read before that.                                    *)
LEMMA LineStep ==
    ASSUME Loader!LoaderAssumption, LoaderInv, Loader!Line
    PROVE  LoaderInv'
<1> DEFINE r == Loader!Top
           l == r.lines[1]
           q == [r EXCEPT !.lines = Tail(@)]
           T == Loader!Reads[MaxDepth - r.depth]
           b == Loader!Below
<1>1. /\ reading = "reading" /\ stack # << >> /\ r.lines # << >>
      /\ UNCHANGED <<sysroot, directories, reading>>
    BY DEF Loader!Line
<1>2. \/ /\ Loader!IsInclude(l) /\ entries' = entries
         /\ stack' = Append(b, q) \o Loader!Frames(l.include, r.depth)
      \/ /\ ~ Loader!IsInclude(l) /\ entries' = Append(entries, l.dir)
         /\ stack' = Append(b, q)
    BY DEF Loader!Line, Loader!Advanced
<1>3. MaxDepth \in Nat /\ sysroot \in Loader!Sysroot
    BY LoaderConstants DEF LoaderInv
<1>4. /\ b \in Seq(FrameType) /\ r \in FrameType
      /\ Unread(stack) = Left(r) \o Unread(b)
    BY <1>1, <1>3, TopOfStack DEF LoaderInv
<1> HIDE DEF r, b
<1>5. /\ r.lines \in Seq(ConfLines) /\ r.depth \in Nat /\ r.depth <= MaxDepth
      /\ r \in [depth : Nat, lines : Seq(ConfLines)]
    BY <1>1, <1>4 DEF FrameType
<1>6. T \in [ConfFiles -> Seq(SearchDirs)]
    BY <1>3, <1>5, ReadsBelow
<1>7. Tail(r.lines) \in Seq(ConfLines) /\ l \in ConfLines
    BY <1>1, <1>5, EmptySeq, HeadTailProperties
<1>8. /\ q \in FrameType /\ q.depth = r.depth /\ q.lines = Tail(r.lines)
    <2>1. q.depth = r.depth /\ q.lines = Tail(r.lines)
        BY <1>5
    <2>2. q \in [depth : Nat, lines : Seq(ConfLines)]
        BY <1>5, <1>7
    <2> HIDE DEF q
    <2> QED
        BY <1>3, <1>5, <2>1, <2>2 DEF FrameType
<1>9. Left(r) = GivesLine(l, T) \o Left(q)
    <2>1. GivesLines(r.lines, T) = GivesLine(l, T) \o GivesLines(Tail(r.lines), T)
        BY <1>1, <1>5, <1>6, GivesFirst
    <2>2. Left(q) = GivesLines(Tail(r.lines), T)
        BY <1>8, Zenon DEF Left
    <2>3. Left(r) = GivesLines(r.lines, T)
        BY Zenon DEF Left
    <2> QED
        BY <2>1, <2>2, <2>3
<1> HIDE DEF q
<1>10. /\ Append(b, q) \in Seq(FrameType)
       /\ Unread(Append(b, q)) = Left(q) \o Unread(b)
    <2>1. Append(b, q) = b \o <<q>> /\ <<q>> \in Seq(FrameType)
        BY <1>4, <1>8, AppendIsConcat, AppendProperties
    <2>2. Unread(b \o <<q>>) = Unread(<<q>>) \o Unread(b)
        BY <1>3, <1>4, <2>1, UnreadConcat
    <2>3. Append(b, q) \in Seq(FrameType)
        BY <1>4, <1>8, AppendProperties
    <2>4. Unread(<<q>>) = Left(q)
        BY UnreadOne
    <2> QED
        BY <2>1, <2>2, <2>3, <2>4, Zenon
<1>11. /\ GivesLine(l, T) \in Seq(SearchDirs) /\ Left(q) \in Seq(SearchDirs)
       /\ Unread(b) \in Seq(SearchDirs) /\ entries \in Seq(SearchDirs)
    BY <1>3, <1>4, <1>6, <1>7, <1>8, GivesDirs, LeftType DEF LoaderInv
<1> HIDE DEF l, T
<1>12. Unread(stack) = GivesLine(l, T) \o (Left(q) \o Unread(b))
    <2>1. (GivesLine(l, T) \o Left(q)) \o Unread(b)
              = GivesLine(l, T) \o (Left(q) \o Unread(b))
        BY <1>11, ConcatAssociative
    <2> QED
        BY <1>4, <1>9, <2>1
<1>13. CASE Loader!IsInclude(l)
    <2>1. l.include \in Seq(ConfFiles)
        BY <1>7, <1>13, LineIs
    <2>2. /\ Loader!Frames(l.include, r.depth) \in Seq(FrameType)
          /\ Unread(Loader!Frames(l.include, r.depth)) = GivesLine(l, T)
        <3>1. GivesLine(l, T) = Loader!FlattenSeq([j \in 1 .. Len(l.include) |-> T[l.include[j]]])
            BY <1>13, Zenon DEF GivesLine
        <3> QED
            BY <1>3, <1>5, <2>1, <3>1, FramesAre DEF T
    <2>3. /\ stack' = Append(b, q) \o Loader!Frames(l.include, r.depth)
          /\ entries' = entries
        BY <1>2, <1>13 DEF l, q
    <2>4. /\ stack' \in Seq(FrameType)
          /\ Unread(Append(b, q) \o Loader!Frames(l.include, r.depth))
                 = GivesLine(l, T) \o (Left(q) \o Unread(b))
        <3>1. Unread(Append(b, q) \o Loader!Frames(l.include, r.depth))
                  = Unread(Loader!Frames(l.include, r.depth)) \o Unread(Append(b, q))
            BY <1>3, <1>10, <2>2, UnreadConcat
        <3> QED
            BY <1>10, <2>2, <2>3, <3>1, ConcatProperties
    <2>5. Unread(stack)' = Unread(stack)
        <3>1. \A s : Unread(s)' = Unread(s)
            BY <1>1, ReadsStay
        <3> QED
            BY <1>12, <2>3, <2>4, <3>1
    <2>6. Loader!Reads' = Loader!Reads
        BY <1>1, ReadsStay
    <2> QED
        BY <1>1, <2>3, <2>4, <2>5, <2>6 DEF LoaderInv
<1>14. CASE ~ Loader!IsInclude(l)
    <2>1. l.dir \in SearchDirs /\ GivesLine(l, T) = <<l.dir>>
        BY <1>7, <1>14, LineIs DEF GivesLine
    <2>2. stack' = Append(b, q) /\ entries' = Append(entries, l.dir)
        BY <1>2, <1>14 DEF l, q
    <2>3. entries' \in Seq(SearchDirs) /\ entries' = entries \o <<l.dir>>
        BY <1>11, <2>1, <2>2, AppendIsConcat
    <2>4. Unread(stack)' = Left(q) \o Unread(b)
        <3>1. \A s : Unread(s)' = Unread(s)
            BY <1>1, ReadsStay
        <3> QED
            BY <1>10, <2>2, <3>1
    <2>5. entries \o Unread(stack) = entries' \o (Left(q) \o Unread(b))
        <3>1. Left(q) \o Unread(b) \in Seq(SearchDirs)
            BY <1>11, ConcatProperties
        <3>2. entries \o (<<l.dir>> \o (Left(q) \o Unread(b)))
                  = (entries \o <<l.dir>>) \o (Left(q) \o Unread(b))
            BY <1>11, <2>1, <3>1, ConcatAssociative
        <3> QED
            BY <1>12, <2>1, <2>3, <3>2
    <2>6. Loader!Reads' = Loader!Reads
        BY <1>1, ReadsStay
    <2> QED
        BY <1>1, <1>10, <2>2, <2>3, <2>4, <2>5, <2>6 DEF LoaderInv
<1> QED
    BY <1>13, <1>14

LEMMA AddDefaultsStep ==
    ASSUME Loader!LoaderAssumption, LoaderInv, Loader!AddDefaults
    PROVE  LoaderInv'
<1>1. /\ reading = "reading" /\ stack = << >> /\ entries' = entries \o DefaultDirs
      /\ reading' = "choosing" /\ UNCHANGED <<sysroot, stack, directories>>
    BY DEF Loader!AddDefaults
<1>2. entries \in Seq(SearchDirs) /\ DefaultDirs \in Seq(SearchDirs) /\ directories = << >>
    BY <1>1, LoaderConstants DEF LoaderInv
<1>3. entries = Loader!Reads[MaxDepth + 1][ConfRoot]
    <2>1. Unread(<< >>) = << >>
        <3>1. Lefts(<< >>) = << >>
            BY DEF Lefts
        <3> QED
            BY <3>1, FlattenEmpty DEF Unread
    <2>2. entries \o << >> = entries
        BY <1>2, ConcatEmptySeq
    <2> QED
        BY <1>1, <2>1, <2>2 DEF LoaderInv
<1>4. entries' = Loader!Named /\ Loader!Named' = Loader!Named
    <2>1. entries' = Loader!Named
        BY <1>1, <1>3 DEF Loader!Named
    <2>2. Loader!Named' = Loader!Named
        BY <1>1, ReadsStay
    <2> QED
        BY <2>1, <2>2
<1>5. entries' \in Seq(SearchDirs)
    BY <1>1, <1>2, ConcatProperties
<1>6. Chosen'
    <2>1. << >> \in Seq(SearchDirs) /\ << >> \o entries' = Loader!Named'
        BY <1>4, <1>5, ConcatEmptySeq
    <2>2. SameSearches(<< >>)'
        BY <1>1, <1>2 DEF SameSearches
    <2> QED
        BY <2>1, <2>2 DEF Chosen
<1> QED
    BY <1>1, <1>5, <1>6 DEF LoaderInv

LEMMA ChooseStep ==
    ASSUME Loader!LoaderAssumption, LoaderInv, Loader!Choose
    PROVE  LoaderInv'
<1> DEFINE e == Head(entries)
<1>1. /\ reading = "choosing" /\ entries # << >> /\ entries' = Tail(entries)
      /\ directories' = IF e \in sysroot.exists /\ e \notin Loader!Elements(directories)
                        THEN Append(directories, e) ELSE directories
      /\ UNCHANGED <<sysroot, stack, reading>>
    BY DEF Loader!Choose
<1>2. entries \in Seq(SearchDirs) /\ directories \in Seq(SearchDirs)
    BY DEF LoaderInv
<1>3. e \in SearchDirs /\ entries' \in Seq(SearchDirs) /\ entries = <<e>> \o entries'
    <2>1. /\ e \in SearchDirs /\ entries' \in Seq(SearchDirs)
          /\ Len(entries') = Len(entries) - 1
          /\ \A i \in 1 .. Len(entries') : entries'[i] = entries[i + 1]
        BY <1>1, <1>2, HeadTailProperties
    <2>2. entries[1] = e /\ Len(entries) = Len(entries') + 1
        BY <1>1, <1>2, <2>1
    <2> HIDE DEF e
    <2> QED
        BY <1>2, <2>1, <2>2, ConsIs
<1> HIDE DEF e
<1>4. directories' \in Seq(SearchDirs)
    BY <1>1, <1>2, <1>3, AppendProperties
<1>5. PICK past \in Seq(SearchDirs) : past \o entries = Loader!Named /\ SameSearches(past)
    BY <1>1 DEF LoaderInv, Chosen
<1>6. /\ Append(past, e) \in Seq(SearchDirs)
      /\ Append(past, e) \o entries' = Loader!Named'
    <2>1. Append(past, e) \in Seq(SearchDirs)
        BY <1>3, AppendProperties
    <2>2. Append(past, e) = past \o <<e>> /\ <<e>> \in Seq(SearchDirs)
        BY <1>3, AppendIsConcat
    <2>3. (past \o <<e>>) \o entries' = past \o (<<e>> \o entries')
        BY <1>3, <2>2, ConcatAssociative
    <2>4. Append(past, e) \o entries' = Loader!Named
        BY <1>3, <1>5, <2>2, <2>3
    <2>5. Loader!Named' = Loader!Named
        BY <1>1, ReadsStay
    <2> QED
        BY <2>1, <2>4, <2>5
<1>7. ASSUME NEW has \in SUBSET sysroot.exists
      PROVE  Loader!FirstOf(directories', has) = Loader!FirstOf(Append(past, e), has)
    <2>1. Loader!FirstOf(directories, has) = Loader!FirstOf(past, has)
        BY <1>5 DEF SameSearches
    <2>2. /\ Loader!FirstOf(past, has) = << >> <=> \A i \in 1 .. Len(past) : past[i] \notin has
          /\ Loader!FirstOf(Append(past, e), has) =
                 IF \E i \in 1 .. Len(past) : past[i] \in has THEN Loader!FirstOf(past, has)
                 ELSE IF e \in has THEN <<e>> ELSE << >>
        BY <1>3, FirstOfAppend
    <2>3. /\ Loader!FirstOf(directories, has) = << >> <=>
                 \A i \in 1 .. Len(directories) : directories[i] \notin has
          /\ Loader!FirstOf(Append(directories, e), has) =
                 IF \E i \in 1 .. Len(directories) : directories[i] \in has
                 THEN Loader!FirstOf(directories, has)
                 ELSE IF e \in has THEN <<e>> ELSE << >>
        BY <1>2, <1>3, FirstOfAppend
    <2>4. CASE e \in sysroot.exists /\ e \notin Loader!Elements(directories)
        <3>1. directories' = Append(directories, e)
            BY <1>1, <2>4
        <3> QED
            BY <2>1, <2>2, <2>3, <3>1
    <2>5. CASE e \notin sysroot.exists
        <3>1. directories' = directories /\ e \notin has
            BY <1>1, <2>5
        <3> QED
            BY <2>1, <2>2, <3>1
    <2>6. CASE e \in Loader!Elements(directories)
        <3>1. directories' = directories
            BY <1>1, <2>6
        <3>2. e \in has => \E i \in 1 .. Len(directories) : directories[i] \in has
            BY <2>6 DEF Loader!Elements
        <3> QED
            BY <2>1, <2>2, <2>3, <3>1, <3>2
    <2> QED
        BY <2>4, <2>5, <2>6
<1>8. Chosen'
    <2>1. \A p : SameSearches(p)' <=>
              \A has \in SUBSET sysroot'.exists :
                  Loader!FirstOf(directories', has) = Loader!FirstOf(p, has)
        BY DEF SameSearches
    <2>2. \A has \in SUBSET sysroot'.exists :
              Loader!FirstOf(directories', has) = Loader!FirstOf(Append(past, e), has)
        BY <1>1, <1>7
    <2>3. \E p \in Seq(SearchDirs) : p \o entries' = Loader!Named' /\ SameSearches(p)'
        BY <1>6, <2>1, <2>2, Zenon
    <2> QED
        BY <2>3, Zenon DEF Chosen
<1> QED
    BY <1>1, <1>3, <1>4, <1>8 DEF LoaderInv

LEMMA ChosenStays ==
    ASSUME UNCHANGED <<sysroot, entries, directories>>
    PROVE  Chosen' <=> Chosen
<1>1. Loader!Named' = Loader!Named
    BY ReadsStay
<1>2. \A p : SameSearches(p)' <=> SameSearches(p)
    BY DEF SameSearches
<1> QED
    BY <1>1, <1>2 DEF Chosen

LEMMA LoaderStep ==
    ASSUME Loader!LoaderAssumption, LoaderInv, [Loader!Next]_(Loader!vars)
    PROVE  LoaderInv'
<1>1. CASE Loader!Return
    BY <1>1, ReturnStep
<1>2. CASE Loader!Line
    BY <1>2, LineStep
<1>3. CASE Loader!AddDefaults
    BY <1>3, AddDefaultsStep
<1>4. CASE Loader!Choose
    BY <1>4, ChooseStep
<1>5. CASE Loader!Refuse
    BY <1>5 DEF Loader!Refuse, LoaderInv
<1>6. CASE Loader!Finish
    <2>1. /\ reading = "choosing" /\ entries = << >> /\ reading' = "done"
          /\ UNCHANGED <<sysroot, stack, entries, directories>>
        BY <1>6 DEF Loader!Finish
    <2>2. Chosen'
        BY <2>1, ChosenStays DEF LoaderInv
    <2> QED
        BY <2>1, <2>2 DEF LoaderInv
<1>7. CASE UNCHANGED Loader!vars
    <2>1. UNCHANGED <<sysroot, stack, entries, directories, reading>>
        BY <1>7 DEF Loader!vars
    <2>2. Chosen' <=> Chosen
        BY <2>1, ChosenStays
    <2>3. Loader!Reads' = Loader!Reads /\ Unread(stack)' = Unread(stack)
        <3>1. Loader!Reads' = Loader!Reads /\ \A s : Unread(s)' = Unread(s)
            BY <2>1, ReadsStay
        <3> QED
            BY <2>1, <3>1
    <2> QED
        BY <2>1, <2>2, <2>3 DEF LoaderInv
<1> QED
    BY <1>1, <1>2, <1>3, <1>4, <1>5, <1>6, <1>7 DEF Loader!Next

LEMMA LoaderInvSearches ==
    ASSUME Loader!LoaderAssumption, LoaderInv
    PROVE  Loader!LoaderSearches
<1>1. sysroot \in Loader!Sysroot
    BY LoaderConstants DEF LoaderInv
<1>2. ASSUME NEW i \in 1 .. Len(stack)
      PROVE  /\ stack[i].depth \in Nat /\ stack[i].depth <= MaxDepth + 1
             /\ \A j \in 1 .. Len(stack[i].lines) : stack[i].lines[j] \in ConfLines
    <2>1. stack[i] \in FrameType
        BY DEF LoaderInv
    <2>2. stack[i].lines \in Seq(ConfLines)
        BY <2>1 DEF FrameType
    <2> QED
        BY <2>1, <2>2 DEF FrameType
<1>3. Loader!Elements(entries) \cup Loader!Elements(directories) \subseteq SearchDirs
    BY DEF LoaderInv, Loader!Elements
<1>4. Loader!TypeOK
    BY <1>1, <1>2, <1>3 DEF LoaderInv, Loader!TypeOK, ConfLines
<1>5. Loader!DepthLimited
    BY <1>2 DEF Loader!DepthLimited
<1>6. Loader!SearchesAgree
    <2>1. SUFFICES ASSUME reading = "done", NEW has \in SUBSET sysroot.exists
                   PROVE  Loader!FirstOf(directories, has) = Loader!FirstOf(Loader!Named, has)
        BY DEF Loader!SearchesAgree
    <2>2. PICK past \in Seq(SearchDirs) : past \o entries = Loader!Named /\ SameSearches(past)
        BY <2>1 DEF LoaderInv, Chosen
    <2>3. past = Loader!Named
        BY <2>1, <2>2, ConcatEmptySeq DEF LoaderInv
    <2> QED
        BY <2>2, <2>3 DEF SameSearches
<1> QED
    BY <1>4, <1>5, <1>6 DEF Loader!LoaderSearches

(* The configuration by itself.                                               *)
LEMMA LoaderSound ==
    ASSUME Loader!LoaderAssumption
    PROVE  Loader!Spec => []Loader!LoaderSearches
<1>1. Loader!Init => LoaderInv
    BY LoaderInitially
<1>2. LoaderInv /\ [Loader!Next]_(Loader!vars) => LoaderInv'
    BY LoaderStep
<1>3. LoaderInv => Loader!LoaderSearches
    BY LoaderInvSearches
<1> QED
    BY <1>1, <1>2, <1>3, PTL DEF Loader!Spec

-----------------------------------------------------------------------------
(* The parts beside each other: a behaviour of CrossGeometry is one of the    *)
(* part that was chosen, so what is proved of each part holds of it.          *)
LEMMA PartsChosen ==
    /\ PartsInit => /\ part = "preflight" => Preflight!Init
                    /\ part = "trace" => Trace!Init
                    /\ part = "loader" => Loader!Init
                    /\ part = "workspace" => Workspace!Init
    /\ [PartsNext]_partsVars =>
           /\ part' = part
           /\ part = "preflight" => [Preflight!Next]_(Preflight!vars)
           /\ part = "trace" => [Trace!Next]_(Trace!vars)
           /\ part = "loader" => [Loader!Next]_(Loader!vars)
           /\ part = "workspace" => [Workspace!Next]_(Workspace!vars)
BY DEF PartsInit, PartsNext, partsVars, preflightVars, traceVars, loaderVars, workspaceVars,
       Preflight!vars, Trace!vars, Loader!vars, Workspace!vars

(* Whatever the tools and files answer, a preflight that passes has examined  *)
(* one target: one runtime, one toolchain, one OpenCV and one installation of *)
(* Core (validate, core_prefix).                                              *)
THEOREM PreflightOneTarget == PartsSpec => []OneTarget
<1> DEFINE Here == part = "preflight"
<1>1. PartsInit => (Here => Preflight!Init)
    BY PartsChosen
<1>2. [PartsNext]_partsVars => /\ Here => [Preflight!Next]_(Preflight!vars) /\ Here'
                               /\ ~ Here => ~ Here'
    BY PartsChosen
<1>3. Preflight!Spec => []Preflight!OneTarget
    BY PreflightSound, CrossGeometryAssumption
<1>4. (Here => Preflight!OneTarget) => OneTarget
    BY DEF OneTarget
<1> HIDE DEF Here
<1> QED
    BY <1>1, <1>2, <1>3, <1>4, PTL DEF PartsSpec, Preflight!Spec

(* What a trace that passes ran does build for the target, and its linker     *)
(* searched no directory of an installation but the approved ones, whatever   *)
(* the commands, however the directories are spelled and wherever the         *)
(* spellings lead (check_trace).                                              *)
THEOREM TraceOfTheTarget == PartsSpec => []TraceIsTheTargets
<1> DEFINE Here == part = "trace"
<1>1. PartsInit => (Here => Trace!Init)
    BY PartsChosen
<1>2. [PartsNext]_partsVars => /\ Here => [Trace!Next]_(Trace!vars) /\ Here'
                               /\ ~ Here => ~ Here'
    BY PartsChosen
<1>3. Trace!Spec => []Trace!TraceIsTheTargets
    BY TraceSound, CrossGeometryAssumption
<1>4. (Here => Trace!TraceIsTheTargets) => TraceIsTheTargets
    BY DEF TraceIsTheTargets
<1> HIDE DEF Here
<1> QED
    BY <1>1, <1>2, <1>3, <1>4, PTL DEF PartsSpec, Trace!Spec

(* Whatever ld.so.conf includes, itself too, and wherever a library is, the   *)
(* directories that loader_directories lists find it where the configuration, *)
(* read MaxDepth includes deep, says it is.                                   *)
THEOREM LoaderSearchesAll == PartsSpec => []LoaderSearches
<1> DEFINE Here == part = "loader"
<1>1. PartsInit => (Here => Loader!Init)
    BY PartsChosen
<1>2. [PartsNext]_partsVars => /\ Here => [Loader!Next]_(Loader!vars) /\ Here'
                               /\ ~ Here => ~ Here'
    BY PartsChosen
<1>3. Loader!Spec => []Loader!LoaderSearches
    BY LoaderSound, CrossGeometryAssumption
<1>4. (Here => Loader!LoaderSearches) => LoaderSearches
    BY DEF LoaderSearches
<1> HIDE DEF Here
<1> QED
    BY <1>1, <1>2, <1>3, <1>4, PTL DEF PartsSpec, Loader!Spec

(* Whatever others edit, commit, replace and put back, however many attempts  *)
(* name the workspace and wherever each stops: its evidence is of one         *)
(* author's build of exactly the source it names, in both languages, by       *)
(* compilers of releases it records, and the Ada of a verified one is by the  *)
(* very compiler it records, unless that was put back (workspace,             *)
(* check_outputs, --verify-built).                                            *)
THEOREM WorkspaceEvidence == PartsSpec => []EvidenceEarned
<1> DEFINE Here == part = "workspace"
<1>1. PartsInit => (Here => Workspace!Init)
    BY PartsChosen
<1>2. [PartsNext]_partsVars => /\ Here => [Workspace!Next]_(Workspace!vars) /\ Here'
                               /\ ~ Here => ~ Here'
    BY PartsChosen
<1>3. Workspace!Spec => []Workspace!EvidenceEarned
    BY WorkspaceSound, CrossGeometryAssumption
<1>4. (Here => Workspace!EvidenceEarned) => EvidenceEarned
    BY DEF EvidenceEarned
<1> HIDE DEF Here
<1> QED
    BY <1>1, <1>2, <1>3, <1>4, PTL DEF PartsSpec, Workspace!Spec
=============================================================================
