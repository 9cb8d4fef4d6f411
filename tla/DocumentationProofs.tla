------------------------ MODULE DocumentationProofs ------------------------
(***************************************************************************)
(* What the checks of the documentation establish: PolicySelection, and    *)
(* the ratchet on warnings and the coverage check, each by itself and then *)
(* as the parts of MCDocs.                                                 *)
(*                                                                         *)
(* On a protected main, for any declarations, any number of requests and   *)
(* commits, what a deployment publishes extends what the one before        *)
(* published.  The invariant compares the site with main: main may run     *)
(* ahead of the site by any number of merges whose checks are cancelled or *)
(* never end, and each of them extends the main its request was checked    *)
(* against, because a branch that contains main was checked after main     *)
(* took its place.                                                         *)
(***************************************************************************)
EXTENDS PolicySelection, MCDocs, FiniteSetTheorems, TLAPS

(* What a content keeps of an older one; unlike Compatible it composes. *)
Follows(old, new) ==
    /\ new.verifier = old.verifier
    /\ old.version \in Nat /\ new.version \in Nat /\ old.version <= new.version
    /\ \A d \in ToSet(new.decls) \ ToSet(old.decls) : d.name \in Additions
    /\ Grown(old.decls, new.decls)
    /\ \A d \in ToSet(old.decls) :
           EarlierOverloads(new.decls, d) = EarlierOverloads(old.decls, d)

Contents == [verifier : Verifiers \cup {NoVerifier},
             decls : Seq(Declarations), version : Versions]

RepositoryOK ==
    /\ commits \in Seq(ToSet(commits))
    /\ Len(commits) >= 1
    /\ \A c \in Shas : /\ commits[c].ancestors \subseteq 1 .. c
                       /\ commits[c].parents \in Seq(Shas)
                       /\ commits[c].content \in Contents

RefsOK ==
    /\ main \in Shas /\ site \in Shas
    /\ requests \in [Requests -> [head : Shas \cup {None}, fork : Shas \cup {None},
                                  passed : BOOLEAN]]
    /\ \A p \in Requests : requests[p].head \in Shas => requests[p].fork \in Shas

(* The check in progress is main's: a push takes the place of every other. *)
RunIsMain == run /= None => run.candidate = main

(* A branch that contains main was cut from it, or updated to it, since    *)
(* main took its place; and so a check of it passed against this main.     *)
CheckedAgainstMain ==
    \A p \in Requests :
        LET r == requests[p] IN
        (r.head /= None /\ Ancestor(main, r.head)) =>
            /\ r.fork = main
            /\ r.passed /\ HasPolicy(main) => CandidateRules(main, r.head)

MainFollowsSite ==
    HasPolicy(site) => Follows(commits[site].content, commits[main].content)

IInv == RepositoryOK /\ RefsOK /\ RunIsMain /\ CheckedAgainstMain /\ MainFollowsSite
----------------------------------------------------------------------------
(* Position finds the place of a declaration that is there. *)
LEMMA PositionFacts ==
    ASSUME NEW s \in Seq(Declarations), NEW d \in ToSet(s)
    PROVE  Position(s, d) \in DOMAIN s /\ Position(s, d) \in Int /\ s[Position(s, d)] = d
<1>1. PICK i \in DOMAIN s : s[i] = d
  BY DEF ToSet
<1>2. Position(s, d) \in DOMAIN s /\ s[Position(s, d)] = d
  BY <1>1 DEF Position
<1>3. DOMAIN s = 1 .. Len(s)
  OBVIOUS
<1> QED
  BY <1>2, <1>3

(* A compatible candidate grows, and renumbers no published overload. *)
LEMMA CompatibleGrows ==
    ASSUME NEW a \in Seq(Declarations), NEW b \in Seq(Declarations), Compatible(a, b)
    PROVE  /\ Grown(a, b)
           /\ \A d \in ToSet(a) : EarlierOverloads(b, d) = EarlierOverloads(a, d)
<1>1. ToSet(a) \subseteq ToSet(b)
  BY DEF Compatible, ToSet
<1>2. ASSUME NEW d \in ToSet(a), NEW e \in ToSet(a), Before(a, d, e)
      PROVE  Before(b, d, e)
  <2>1. /\ Position(a, d) \in DOMAIN a /\ a[Position(a, d)] = d
        /\ Position(a, e) \in DOMAIN a /\ a[Position(a, e)] = e
    BY PositionFacts
  <2>2. Position(a, d) < Position(a, e)
    BY <1>2 DEF Before
  <2> QED
    BY <2>1, <2>2 DEF Compatible, Before
<1>3. ASSUME NEW d \in ToSet(a), NEW e \in ToSet(a), Before(b, e, d)
      PROVE  Before(a, e, d)
  <2>1. /\ Position(a, d) \in Int /\ a[Position(a, d)] = d
        /\ Position(a, e) \in Int /\ a[Position(a, e)] = e
    BY PositionFacts
  <2>2. /\ Position(b, d) \in Int /\ Position(b, e) \in Int
    BY <1>1, PositionFacts
  <2>3. Position(b, e) < Position(b, d)
    BY <1>3 DEF Before
  <2>4. ~(Position(a, d) < Position(a, e))
    BY <1>2, <2>2, <2>3 DEF Before
  <2>5. Position(a, d) /= Position(a, e)
    BY <2>1, <2>2, <2>3
  <2> QED
    BY <2>1, <2>4, <2>5 DEF Before
<1>4. ASSUME NEW d \in ToSet(a), NEW e \in ToSet(b), e \notin ToSet(a), e.name = d.name
      PROVE  ~Before(b, e, d)
  <2>1. /\ Position(b, e) \in DOMAIN b /\ Position(b, e) \in Int /\ b[Position(b, e)] = e
        /\ Position(b, d) \in Int
    BY <1>1, PositionFacts
  <2>2. PICK k \in DOMAIN a : a[k] = d
    BY DEF ToSet
  <2>3. Position(b, e) > Position(b, a[k])
    BY <1>4, <2>1, <2>2 DEF Compatible
  <2> QED
    BY <2>1, <2>2, <2>3 DEF Before
<1>5. ASSUME NEW d \in ToSet(a)
      PROVE  EarlierOverloads(b, d) = EarlierOverloads(a, d)
  BY <1>1, <1>2, <1>3, <1>4 DEF EarlierOverloads
<1> QED
  BY <1>1, <1>2, <1>5 DEF Grown

LEMMA FollowsTransitive ==
    ASSUME NEW a, NEW b, NEW c, Follows(a, b), Follows(b, c)
    PROVE  Follows(a, c)
BY DEF Follows, Grown

LEMMA FollowsReflexive ==
    ASSUME NEW a, a.version \in Nat
    PROVE  Follows(a, a)
BY DEF Follows, Grown

(* Appending a commit leaves the others where they are. *)
LEMMA AppendFacts ==
    ASSUME NEW s, s \in Seq(ToSet(s)), NEW x
    PROVE  /\ Append(s, x) \in Seq(ToSet(Append(s, x)))
           /\ Len(s) \in Nat /\ Len(Append(s, x)) = Len(s) + 1
           /\ DOMAIN s = 1 .. Len(s) /\ DOMAIN Append(s, x) = 1 .. Len(s) + 1
           /\ \A i \in DOMAIN s : Append(s, x)[i] = s[i]
           /\ Append(s, x)[Len(s) + 1] = x
<1> DEFINE T == ToSet(s) \cup {x}
<1>1. s \in Seq(T) /\ x \in T
  OBVIOUS
<1>2. Append(s, x) \in Seq(T) /\ Len(Append(s, x)) = Len(s) + 1 /\ Len(s) \in Nat
  BY <1>1
<1>3. DOMAIN s = 1 .. Len(s) /\ DOMAIN Append(s, x) = 1 .. Len(s) + 1
  BY <1>1, <1>2
<1>4. /\ \A i \in DOMAIN s : Append(s, x)[i] = s[i]
      /\ Append(s, x)[Len(s) + 1] = x
  BY <1>1, <1>2, <1>3
<1>5. \A i \in DOMAIN Append(s, x) : Append(s, x)[i] \in ToSet(Append(s, x))
  BY DEF ToSet
<1> QED
  BY <1>2, <1>3, <1>4, <1>5
----------------------------------------------------------------------------
(* What an author or a merge makes of declarations is declarations. *)
LEMMA EditsTyped ==
    ASSUME NEW s \in Seq(Declarations), NEW t \in Edits(s)
    PROVE  t \in Seq(Declarations)
<1>1. CASE \E i \in 1 .. Len(s) + 1, d \in Declarations : t = InsertAt(s, i, d)
  <2>1. PICK i \in 1 .. Len(s) + 1, d \in Declarations : t = InsertAt(s, i, d)
    BY <1>1
  <2>2. SubSeq(s, 1, i - 1) \in Seq(Declarations) /\ SubSeq(s, i, Len(s)) \in Seq(Declarations)
    OBVIOUS
  <2>3. <<d>> \in Seq(Declarations)
    OBVIOUS
  <2> QED
    BY <2>1, <2>2, <2>3 DEF InsertAt
<1>2. CASE \E i \in DOMAIN s : t = RemoveAt(s, i)
  <2>1. PICK i \in DOMAIN s : t = RemoveAt(s, i)
    BY <1>2
  <2>2. SubSeq(s, 1, i - 1) \in Seq(Declarations) /\ SubSeq(s, i + 1, Len(s)) \in Seq(Declarations)
    OBVIOUS
  <2> QED
    BY <2>1, <2>2 DEF RemoveAt
<1>3. CASE \E i \in DOMAIN s, d \in Declarations : t = [s EXCEPT ![i] = d]
  BY <1>3
<1>4. CASE \E i \in 1 .. Len(s) - 1 : t = [s EXCEPT ![i] = s[i + 1], ![i + 1] = s[i]]
  <2>1. PICK i \in 1 .. Len(s) - 1 : t = [s EXCEPT ![i] = s[i + 1], ![i + 1] = s[i]]
    BY <1>4
  <2>2. s[i] \in Declarations /\ s[i + 1] \in Declarations
    OBVIOUS
  <2> QED
    BY <2>1, <2>2
<1> QED
  BY <1>1, <1>2, <1>3, <1>4 DEF Edits

LEMMA ChangesTyped ==
    ASSUME NEW c \in Contents, NEW d \in Changes(c)
    PROVE  d \in Contents
<1>1. CASE \E s \in Edits(c.decls) : d = [c EXCEPT !.decls = s]
  BY <1>1, EditsTyped DEF Contents
<1>2. CASE \E v \in Verifiers \cup {NoVerifier} : d = [c EXCEPT !.verifier = v]
  BY <1>2 DEF Contents
<1>3. CASE \E v \in Versions : d = [c EXCEPT !.version = v]
  BY <1>3 DEF Contents
<1> QED
  BY <1>1, <1>2, <1>3 DEF Changes

LEMMA MergedTyped ==
    ASSUME NEW o, NEW a \in Seq(Declarations), NEW b \in Seq(Declarations),
           NEW s \in MergedDecls(o, a, b)
    PROVE  s \in Seq(Declarations)
<1> DEFINE names == {d \in ToSet(a) \cup ToSet(b) :
                         (d \in ToSet(a) <=> d \in ToSet(b)) \/ d \notin ToSet(o)}
<1>1. CASE s = a \/ s = b
  BY <1>1
<1>2. CASE s \in SetToSeqs(names)
  <2>1. names \subseteq Declarations
    BY DEF ToSet
  <2>2. Cardinality(names) \in Nat
    BY <2>1, FS_Subset, FS_CardinalityType, PolicySelectionAssumption
  <2>3. s \in [1 .. Cardinality(names) -> names]
    BY <1>2 DEF SetToSeqs
  <2> DEFINE n == Cardinality(names)
  <2>4. n \in Nat /\ s \in [1 .. n -> Declarations]
    BY <2>1, <2>2, <2>3
  <2> HIDE DEF n
  <2> QED
    BY <2>4
<1> QED
  BY <1>1, <1>2 DEF MergedDecls
LEMMA MergesTyped ==
    ASSUME NEW o \in Shas, NEW a \in Shas, NEW b \in Shas, RepositoryOK,
           NEW c \in Merges(o, a, b)
    PROVE  c \in Contents
<1> DEFINE x == commits[o].content
           y == commits[a].content
           z == commits[b].content
<1>1. x \in Contents /\ y \in Contents /\ z \in Contents
  BY DEF RepositoryOK
<1>2. PICK v \in Either(x.verifier, y.verifier, z.verifier),
           s \in MergedDecls(x.decls, y.decls, z.decls),
           w \in Either(x.version, y.version, z.version) :
               c = [verifier |-> v, decls |-> s, version |-> w]
  BY DEF Merges
<1>3. s \in Seq(Declarations)
  BY <1>1, MergedTyped DEF Contents
<1>4. v \in {y.verifier, z.verifier} /\ w \in {y.version, z.version}
  BY DEF Either
<1> QED
  BY <1>1, <1>2, <1>3, <1>4 DEF Contents

(* The merge of a branch that contains main holds what the branch holds. *)
LEMMA MergeOfUpToDate ==
    ASSUME NEW a \in Shas, NEW b \in Shas, NEW c \in Merges(a, a, b)
    PROVE  /\ c.verifier = commits[b].content.verifier
           /\ c.decls = commits[b].content.decls
           /\ c.version = commits[b].content.version
BY DEF Merges, Either, MergedDecls

(* What a checked candidate keeps of the main it was checked against. *)
LEMMA RulesFollow ==
    ASSUME RepositoryOK, NEW a \in Shas, NEW b \in Shas, CandidateRules(a, b)
    PROVE  Follows(commits[a].content, commits[b].content)
<1>1. commits[a].content.decls \in Seq(Declarations) /\ commits[b].content.decls \in Seq(Declarations)
  BY DEF RepositoryOK, Contents
<1>2. /\ commits[a].content.version \in Nat /\ commits[b].content.version \in Nat
      /\ commits[a].content.version <= commits[b].content.version
  <2> DEFINE v == commits[a].content.version
             w == commits[b].content.version
  <2>1. v \in Versions /\ w \in Versions
    BY DEF RepositoryOK, Contents
  <2>2. w = v \/ <<v, w>> \in VersionTransitions
    BY DEF CandidateRules, CompatibleRoot
  <2>3. Versions \subseteq Nat /\ \A t \in VersionTransitions : t[1] < t[2]
    BY PolicySelectionAssumption
  <2> HIDE DEF v, w
  <2>4. v \in Nat /\ w \in Nat /\ v <= w
    BY <2>1, <2>2, <2>3
  <2> QED
    BY <2>4 DEF v, w
<1>3. \A d \in ToSet(commits[b].content.decls) \ ToSet(commits[a].content.decls) :
          d.name \in Additions
  BY <1>1 DEF CandidateRules, Compatible, ToSet
<1> QED
  BY <1>1, <1>2, <1>3, CompatibleGrows DEF CandidateRules, Follows
----------------------------------------------------------------------------
(* A new commit descends from commits that are there. *)
LEMMA CommitTyped ==
    ASSUME RepositoryOK, NEW parents \in Seq(Shas), NEW content \in Contents
    PROVE  /\ Commit(parents, content).parents = parents
           /\ Commit(parents, content).content = content
           /\ Commit(parents, content).ancestors \subseteq 1 .. Len(commits) + 1
<1>1. Len(commits) \in Nat /\ Shas = 1 .. Len(commits)
  BY AppendFacts DEF RepositoryOK, Shas
<1>2. ToSet(parents) \subseteq Shas
  BY DEF ToSet
<1>3. \A c \in Shas : commits[c].ancestors \subseteq 1 .. Len(commits) + 1
  BY <1>1 DEF RepositoryOK
<1> QED
  BY <1>1, <1>2, <1>3 DEF Commit

LEMMA AppendRepository ==
    ASSUME RepositoryOK, NEW x, x.parents \in Seq(Shas), x.content \in Contents,
           x.ancestors \subseteq 1 .. Len(commits) + 1,
           commits' = Append(commits, x)
    PROVE  /\ RepositoryOK'
           /\ Shas \subseteq Shas' /\ Len(commits) + 1 \in Shas' \ Shas
           /\ Len(commits) \in Nat /\ Shas = 1 .. Len(commits)
           /\ \A c \in Shas : commits'[c] = commits[c]
           /\ commits'[Len(commits) + 1] = x
<1>1. /\ commits' \in Seq(ToSet(commits'))
      /\ Len(commits) \in Nat /\ Len(commits') = Len(commits) + 1
      /\ Shas = 1 .. Len(commits) /\ Shas' = 1 .. Len(commits) + 1
      /\ \A c \in Shas : commits'[c] = commits[c]
      /\ commits'[Len(commits) + 1] = x
  BY AppendFacts DEF RepositoryOK, Shas
<1>2. Seq(Shas) \subseteq Seq(Shas')
  <2>1. Shas \subseteq Shas'
    BY <1>1
  <2> QED
    BY <2>1
<1>3. ASSUME NEW c \in Shas'
      PROVE  /\ commits'[c].ancestors \subseteq 1 .. c
             /\ commits'[c].parents \in Seq(Shas')
             /\ commits'[c].content \in Contents
  <2>1. CASE c \in Shas
    BY <1>1, <1>2, <2>1 DEF RepositoryOK
  <2>2. CASE c = Len(commits) + 1
    BY <1>1, <1>2, <2>2
  <2> QED
    BY <1>1, <2>1, <2>2
<1>4. Len(commits') >= 1
  BY <1>1 DEF RepositoryOK
<1> QED
  BY <1>1, <1>3, <1>4 DEF RepositoryOK

(* No branch contains a main that did not exist when the branch was last   *)
(* written.                                                                *)
LEMMA NewMainIsNoAncestor ==
    ASSUME RepositoryOK, NEW c \in Shas, NEW n \in Int, n > Len(commits)
    PROVE  n \notin commits[c].ancestors
<1>1. Len(commits) \in Nat /\ Shas = 1 .. Len(commits)
  BY AppendFacts DEF RepositoryOK, Shas
<1> QED
  BY <1>1 DEF RepositoryOK
----------------------------------------------------------------------------
LEMMA InitIInv == Init => IInv
<1> SUFFICES ASSUME Init PROVE IInv
  OBVIOUS
<1>1. PICK content \in FirstContents :
          commits = <<[parents |-> << >>, ancestors |-> {1}, content |-> content]>>
  BY DEF Init
<1> DEFINE first == [parents |-> << >>, ancestors |-> {1}, content |-> content]
<1>2. /\ first.parents = << >> /\ first.ancestors = {1}
      /\ first.content \in Contents
  BY PolicySelectionAssumption DEF Contents
<1>3. commits = <<first>>
  BY <1>1
<1> HIDE DEF first
<1>4. /\ Len(commits) = 1 /\ commits \in Seq({first})
      /\ commits[1] = first /\ Shas = {1}
  <2>1. Len(<<first>>) = 1 /\ <<first>> \in Seq({first}) /\ <<first>>[1] = first
    OBVIOUS
  <2>2. DOMAIN <<first>> = {1}
    OBVIOUS
  <2> QED
    BY <1>3, <2>1, <2>2 DEF Shas
<1>a. ToSet(commits) = {first}
  BY <1>4 DEF ToSet, Shas
<1>b. << >> \in Seq(Shas) /\ 1 \in 1 .. 1
  OBVIOUS
<1>c. \A c \in Shas : /\ commits[c].ancestors \subseteq 1 .. c
                      /\ commits[c].parents \in Seq(Shas)
                      /\ commits[c].content \in Contents
  BY <1>2, <1>4, <1>b
<1>d. RepositoryOK
  BY <1>4, <1>a, <1>c DEF RepositoryOK
<1>5. main = 1 /\ site = 1 /\ run = None /\ requests = [p \in Requests |-> Closed]
  BY DEF Init
<1>6. RefsOK /\ RunIsMain /\ CheckedAgainstMain
  BY <1>4, <1>5 DEF RefsOK, RunIsMain, CheckedAgainstMain, Closed
<1>7. MainFollowsSite
  <2>1. commits[1].content.version \in Nat
    BY <1>2, <1>4, PolicySelectionAssumption DEF Contents
  <2> QED
    BY <1>5, <2>1, FollowsReflexive DEF MainFollowsSite
<1> QED
  BY <1>d, <1>6, <1>7 DEF IInv

(* A branch is written: main and the site stay. *)
LEMMA WrittenIInv ==
    ASSUME IInv, NEW p \in Requests, NEW x, NEW fork \in Shas,
           x.parents \in Seq(Shas), x.content \in Contents,
           x.ancestors \subseteq 1 .. Len(commits) + 1,
           main \in x.ancestors => fork = main,
           commits' = Append(commits, x),
           requests' = [requests EXCEPT ![p] =
                           [head |-> Len(commits) + 1, passed |-> FALSE, fork |-> fork]],
           UNCHANGED <<main, run, site>>
    PROVE  IInv'
<1>1. /\ RepositoryOK'
      /\ Shas \subseteq Shas' /\ Len(commits) + 1 \in Shas'
      /\ \A c \in Shas : commits'[c] = commits[c]
      /\ commits'[Len(commits) + 1] = x
  BY AppendRepository DEF IInv
<1>2. RefsOK'
  BY <1>1 DEF IInv, RefsOK
<1>3. RunIsMain'
  BY DEF IInv, RunIsMain
<1>4. CheckedAgainstMain'
  <2> SUFFICES ASSUME NEW q \in Requests,
                      requests'[q].head /= None, Ancestor(main, requests[q].head)'
               PROVE  /\ requests'[q].fork = main
                      /\ requests'[q].passed /\ HasPolicy(main)'
                            => CandidateRules(main, requests[q].head)'
    BY DEF CheckedAgainstMain
  <2>1. CASE q = p
    BY <1>1, <2>1 DEF Ancestor, IInv, RefsOK
  <2>2. CASE q /= p
    <3>1. requests'[q] = requests[q] /\ requests[q].head \in Shas /\ main \in Shas
      BY <2>2 DEF IInv, RefsOK
    <3>2. commits'[main] = commits[main] /\ commits'[requests[q].head] = commits[requests[q].head]
      BY <1>1, <3>1
    <3> QED
      BY <3>1, <3>2 DEF IInv, CheckedAgainstMain, Ancestor, HasPolicy, CandidateRules
  <2> QED
    BY <2>1, <2>2
<1>5. MainFollowsSite'
  BY <1>1 DEF IInv, RefsOK, MainFollowsSite, HasPolicy
<1> QED
  BY <1>1, <1>2, <1>3, <1>4, <1>5 DEF IInv

LEMMA AuthorIInv ==
    ASSUME IInv, NEW p \in Requests, Author(p)
    PROVE  IInv'
<1> DEFINE r == requests[p]
           onto == IF r.head = None THEN main ELSE r.head
           fork == IF r.head = None THEN main ELSE r.fork
<1>1. PICK content \in Changes(commits[onto].content) :
          /\ commits' = Append(commits, Commit(<<onto>>, content))
          /\ requests' = [requests EXCEPT ![p] =
                [head |-> Len(commits) + 1, passed |-> FALSE, fork |-> fork]]
  BY DEF Author
<1>2. onto \in Shas
  BY DEF IInv, RefsOK
<1>3. content \in Contents
  BY <1>2, ChangesTyped DEF IInv, RepositoryOK
<1>4. <<onto>> \in Seq(Shas)
  BY <1>2
<1> DEFINE x == Commit(<<onto>>, content)
<1>5. /\ x.parents \in Seq(Shas) /\ x.content \in Contents
      /\ x.ancestors \subseteq 1 .. Len(commits) + 1
  BY <1>3, <1>4, CommitTyped DEF IInv
<1>6. x.ancestors = commits[onto].ancestors \cup {Len(commits) + 1}
  BY DEF Commit, ToSet
<1>7. Len(commits) + 1 \notin Shas
  BY AppendFacts DEF IInv, RepositoryOK, Shas
<1>8. main \in x.ancestors => fork = main
  BY <1>6, <1>7 DEF IInv, RefsOK, CheckedAgainstMain, Ancestor
<1>9. fork \in Shas
  BY DEF IInv, RefsOK
<1> QED
  BY <1>1, <1>5, <1>8, <1>9, WrittenIInv DEF Author

LEMMA UpdateIInv ==
    ASSUME IInv, NEW p \in Requests, Update(p)
    PROVE  IInv'
<1> DEFINE r == requests[p]
<1>1. PICK content \in Merges(r.fork, main, r.head) :
          commits' = Append(commits, Commit(<<r.head, main>>, content))
  BY DEF Update
<1>2. r.head \in Shas /\ main \in Shas
  BY DEF Update, IInv, RefsOK
<1>3. content \in Contents
  BY <1>2, MergesTyped DEF IInv, RefsOK
<1>4. <<r.head, main>> \in Seq(Shas)
  BY <1>2
<1> DEFINE x == Commit(<<r.head, main>>, content)
<1>5. /\ x.parents \in Seq(Shas) /\ x.content \in Contents
      /\ x.ancestors \subseteq 1 .. Len(commits) + 1
  BY <1>3, <1>4, CommitTyped DEF IInv
<1>6. requests' = [requests EXCEPT ![p] =
                       [head |-> Len(commits) + 1, passed |-> FALSE, fork |-> main]]
  BY DEF Update
<1> QED
  BY <1>1, <1>2, <1>5, <1>6, WrittenIInv DEF Update

LEMMA CheckIInv ==
    ASSUME IInv, NEW p \in Requests, Check(p)
    PROVE  IInv'
<1> DEFINE r == requests[p]
<1>1. UNCHANGED <<commits, main, run, site>>
  BY DEF Check
<1>2. requests' = [requests EXCEPT ![p].passed = Passes("pull_request", main, r.head)]
  BY DEF Check
<1>3. Passes("pull_request", main, r.head) \in BOOLEAN
  BY DEF Passes
<1>4. RefsOK'
  BY <1>1, <1>2, <1>3 DEF IInv, RefsOK, Shas
<1>5. Passes("pull_request", main, r.head) /\ HasPolicy(main) => CandidateRules(main, r.head)
  BY DEF Passes, Selected
<1>6. CheckedAgainstMain'
  <2> SUFFICES ASSUME NEW q \in Requests,
                      requests'[q].head /= None, Ancestor(main, requests[q].head)'
               PROVE  /\ requests'[q].fork = main
                      /\ requests'[q].passed /\ HasPolicy(main)'
                            => CandidateRules(main, requests[q].head)'
    BY <1>1 DEF CheckedAgainstMain
  <2>1. /\ requests'[q].head = requests[q].head /\ requests'[q].fork = requests[q].fork
        /\ q /= p => requests'[q].passed = requests[q].passed
        /\ q = p => requests'[q].passed = Passes("pull_request", main, r.head)
    BY <1>2 DEF IInv, RefsOK
  <2>2. Ancestor(main, requests[q].head) /\ (HasPolicy(main)' <=> HasPolicy(main))
    BY <1>1, <2>1 DEF Ancestor, HasPolicy
  <2>3. requests[q].fork = main
        /\ (requests[q].passed /\ HasPolicy(main) => CandidateRules(main, requests[q].head))
    BY <2>1, <2>2 DEF IInv, CheckedAgainstMain
  <2>4. CandidateRules(main, requests[q].head)' <=> CandidateRules(main, requests[q].head)
    BY <1>1, <2>1 DEF CandidateRules
  <2> QED
    BY <1>5, <2>1, <2>2, <2>3, <2>4
<1> QED
  BY <1>1, <1>4, <1>6 DEF IInv, RepositoryOK, RunIsMain, MainFollowsSite, Shas, HasPolicy----------------------------------------------------------------------------
(* Main takes a branch: it must follow the main before. *)
LEMMA PushedIInv ==
    ASSUME IInv, NEW p \in Requests,
           RepositoryOK', Shas \subseteq Shas', main' \in Shas', main' > Len(commits),
           \A c \in Shas : commits'[c] = commits[c],
           HasPolicy(main) => Follows(commits[main].content, commits'[main'].content),
           requests' = [requests EXCEPT ![p] = Closed],
           run' /= None => run'.candidate = main',
           site' = site
    PROVE  IInv'
<1>1. RefsOK'
  BY DEF IInv, RefsOK, Closed
<1>2. RunIsMain'
  BY DEF RunIsMain
<1>3. main' \in Int
  BY AppendFacts DEF RepositoryOK, Shas
<1>4. CheckedAgainstMain'
  <2> SUFFICES ASSUME NEW q \in Requests, requests'[q].head /= None
               PROVE  ~Ancestor(main, requests[q].head)'
    BY DEF CheckedAgainstMain
  <2>1. q /= p /\ requests'[q] = requests[q] /\ requests[q].head \in Shas
    BY DEF IInv, RefsOK, Closed
  <2>2. main' \notin commits[requests[q].head].ancestors
    BY <1>3, <2>1, NewMainIsNoAncestor DEF IInv
  <2> QED
    BY <2>1, <2>2 DEF Ancestor
<1>5. MainFollowsSite'
  <2> SUFFICES ASSUME HasPolicy(site)'
               PROVE  Follows(commits'[site].content, commits'[main'].content)
    BY DEF MainFollowsSite
  <2>1. site \in Shas /\ commits'[site] = commits[site] /\ HasPolicy(site)
    BY DEF IInv, RefsOK, HasPolicy
  <2>2. Follows(commits[site].content, commits[main].content)
    BY <2>1 DEF IInv, MainFollowsSite
  <2>3. HasPolicy(main)
    BY <2>1, <2>2 DEF HasPolicy, Follows
  <2> QED
    BY <2>1, <2>2, <2>3, FollowsTransitive
<1> QED
  BY <1>1, <1>2, <1>4, <1>5 DEF IInv

(* On a protected main the branch a request may merge was checked against  *)
(* main, so its content follows main's.                                    *)
LEMMA MayMergeFollows ==
    ASSUME IInv, Protected, NEW p \in Requests, MayMerge(p)
    PROVE  /\ requests[p].head \in Shas /\ main \in Shas /\ requests[p].fork = main
           /\ HasPolicy(main) =>
                  Follows(commits[main].content, commits[requests[p].head].content)
<1>1. requests[p].head \in Shas /\ main \in Shas
  BY DEF MayMerge, IInv, RefsOK
<1>2. /\ requests[p].fork = main
      /\ HasPolicy(main) => CandidateRules(main, requests[p].head)
  BY DEF MayMerge, IInv, CheckedAgainstMain
<1> QED
  BY <1>1, <1>2, RulesFollow DEF IInv

LEMMA MergedIInv ==
    ASSUME IInv, Protected, NEW p \in Requests, MayMerge(p),
           NEW parents \in Seq(Shas),
           NEW content \in Merges(requests[p].fork, main, requests[p].head),
           commits' = Append(commits, Commit(parents, content)),
           Push(Len(commits) + 1),
           requests' = [requests EXCEPT ![p] = Closed],
           UNCHANGED site
    PROVE  IInv'
<1> DEFINE head == requests[p].head
           x == Commit(parents, content)
<1>1. /\ head \in Shas /\ main \in Shas /\ requests[p].fork = main
      /\ HasPolicy(main) => Follows(commits[main].content, commits[head].content)
  BY MayMergeFollows
<1>2. content \in Contents
  BY <1>1, MergesTyped DEF IInv
<1>3. /\ x.parents \in Seq(Shas) /\ x.content = content
      /\ x.ancestors \subseteq 1 .. Len(commits) + 1
  BY <1>2, CommitTyped DEF IInv
<1>4. /\ RepositoryOK'
      /\ Shas \subseteq Shas' /\ Len(commits) + 1 \in Shas' /\ Len(commits) \in Nat
      /\ \A c \in Shas : commits'[c] = commits[c]
      /\ commits'[Len(commits) + 1] = x
  BY <1>2, <1>3, AppendRepository DEF IInv
<1>5. /\ content.verifier = commits[head].content.verifier
      /\ content.decls = commits[head].content.decls
      /\ content.version = commits[head].content.version
  BY <1>1, MergeOfUpToDate
<1>6. HasPolicy(main) => Follows(commits[main].content, content)
  BY <1>1, <1>5 DEF Follows
<1>7. main' = Len(commits) + 1 /\ run'.candidate = main'
  BY DEF Push
<1>8. main' > Len(commits) /\ main' \in Shas' /\ commits'[main'].content = content
  BY <1>3, <1>4, <1>7
<1> QED
  BY <1>4, <1>6, <1>7, <1>8, PushedIInv

LEMMA MergeCommitIInv ==
    ASSUME IInv, Protected, NEW p \in Requests, MergeCommit(p)
    PROVE  IInv'
<1>1. PICK content \in Merges(requests[p].fork, main, requests[p].head) :
          commits' = Append(commits, Commit(<<main, requests[p].head>>, content))
  BY DEF MergeCommit
<1>2. MayMerge(p) /\ Push(Len(commits) + 1) /\ UNCHANGED site
      /\ requests' = [requests EXCEPT ![p] = Closed]
  BY DEF MergeCommit
<1>3. <<main, requests[p].head>> \in Seq(Shas)
  BY <1>2, MayMergeFollows
<1> QED
  BY <1>1, <1>2, <1>3, MergedIInv

LEMMA SquashIInv ==
    ASSUME IInv, Protected, NEW p \in Requests, Squash(p)
    PROVE  IInv'
<1>1. PICK content \in Merges(requests[p].fork, main, requests[p].head) :
          commits' = Append(commits, Commit(<<main>>, content))
  BY DEF Squash
<1>2. MayMerge(p) /\ Push(Len(commits) + 1) /\ UNCHANGED site
      /\ requests' = [requests EXCEPT ![p] = Closed]
  BY DEF Squash
<1>3. <<main>> \in Seq(Shas)
  BY <1>2, MayMergeFollows
<1> QED
  BY <1>1, <1>2, <1>3, MergedIInv

(* A rebase makes two commits: the second holds what the branch holds, and *)
(* is main, whatever the first holds.                                      *)
LEMMA RebaseIInv ==
    ASSUME IInv, Protected, NEW p \in Requests, Rebase(p)
    PROVE  IInv'
<1> DEFINE head == requests[p].head
           first == commits[head].parents[1]
           one == Commit(<<main>>, commits[first].content)
           two == [parents |-> <<Len(commits) + 1>>,
                   content |-> commits[head].content,
                   ancestors |-> one.ancestors \cup {Len(commits) + 2}]
           middle == Append(commits, one)
<1>1. /\ MayMerge(p) /\ Len(commits[head].parents) = 1
      /\ commits' = Append(middle, two)
      /\ Push(Len(commits) + 2) /\ UNCHANGED site
      /\ requests' = [requests EXCEPT ![p] = Closed]
  BY DEF Rebase
<1>2. /\ head \in Shas /\ main \in Shas
      /\ HasPolicy(main) => Follows(commits[main].content, commits[head].content)
  BY <1>1, MayMergeFollows, Zenon
<1>3. first \in Shas /\ commits[first].content \in Contents
  <2>1. commits[head].parents \in Seq(Shas)
    BY <1>2 DEF IInv, RepositoryOK
  <2>2. ASSUME NEW S, NEW s \in Seq(S), Len(s) = 1
        PROVE  s[1] \in S
    <3>1. DOMAIN s = 1 .. Len(s) /\ \A i \in DOMAIN s : s[i] \in S
      OBVIOUS
    <3>2. 1 \in DOMAIN s
      BY <2>2, <3>1
    <3> QED
      BY <3>1, <3>2
  <2>3. first \in Shas
    <3> HIDE DEF head
    <3> QED
      BY <1>1, <2>1, <2>2
  <2> QED
    BY <2>3 DEF IInv, RepositoryOK
<1>4. <<main>> \in Seq(Shas) /\ commits[head].content \in Contents
  <2>1. \A c \in Shas : commits[c].content \in Contents
    BY DEF IInv, RepositoryOK
  <2> HIDE DEF head
  <2> QED
    BY <1>2, <2>1
<1>5. /\ one.parents = <<main>> /\ one.content \in Contents
      /\ one.ancestors \subseteq 1 .. Len(commits) + 1
  BY <1>3, <1>4, CommitTyped DEF IInv
<1> HIDE DEF one
<1>6. /\ two.parents = <<Len(commits) + 1>> /\ two.content = commits[head].content
      /\ two.ancestors = one.ancestors \cup {Len(commits) + 2}
  OBVIOUS
<1> HIDE DEF two
<1>7. /\ Len(commits) \in Nat /\ Shas = 1 .. Len(commits)
      /\ middle \in Seq(ToSet(middle))
      /\ Len(middle) = Len(commits) + 1
      /\ \A c \in Shas : middle[c] = commits[c]
      /\ middle[Len(commits) + 1] = one
  BY AppendFacts DEF IInv, RepositoryOK, Shas
<1> HIDE DEF middle
<1>8. /\ commits' \in Seq(ToSet(commits')) /\ Len(commits') = Len(commits) + 2
      /\ Shas' = 1 .. Len(commits) + 2
      /\ \A c \in 1 .. Len(commits) + 1 : commits'[c] = middle[c]
      /\ commits'[Len(commits) + 2] = two
  <2>1. /\ Append(middle, two) \in Seq(ToSet(Append(middle, two)))
        /\ Len(Append(middle, two)) = Len(middle) + 1
        /\ DOMAIN Append(middle, two) = 1 .. Len(middle) + 1
        /\ DOMAIN middle = 1 .. Len(middle)
        /\ \A i \in DOMAIN middle : Append(middle, two)[i] = middle[i]
        /\ Append(middle, two)[Len(middle) + 1] = two
    BY <1>7, AppendFacts
  <2>2. Len(middle) + 1 = Len(commits) + 2
    BY <1>7
  <2> QED
    BY <1>1, <1>7, <2>1, <2>2 DEF Shas
<1>9. /\ \A c \in Shas : commits'[c] = commits[c]
      /\ commits'[Len(commits) + 1] = one
      /\ Shas \subseteq Shas'
  BY <1>7, <1>8
<1>10. Seq(Shas) \subseteq Seq(Shas') /\ <<Len(commits) + 1>> \in Seq(Shas')
  <2>1. Len(commits) + 1 \in Shas'
    BY <1>7, <1>8
  <2> QED
    BY <1>9, <2>1
<1>11. ASSUME NEW c \in Shas'
       PROVE  /\ commits'[c].ancestors \subseteq 1 .. c
              /\ commits'[c].parents \in Seq(Shas')
              /\ commits'[c].content \in Contents
  <2>1. CASE c \in Shas
    BY <1>9, <1>10, <2>1 DEF IInv, RepositoryOK
  <2>2. CASE c = Len(commits) + 1
    BY <1>4, <1>5, <1>9, <1>10, <2>2
  <2>3. CASE c = Len(commits) + 2
    <3>1. commits'[c] = two
      BY <1>8, <2>3
    <3>2. two.ancestors \subseteq 1 .. c
      BY <1>5, <1>6, <1>7, <2>3
    <3> QED
      BY <1>4, <1>6, <1>10, <3>1, <3>2
  <2> QED
    BY <1>7, <1>8, <2>1, <2>2, <2>3
<1>12. RepositoryOK'
  <2>1. Len(commits') >= 1
    BY <1>7, <1>8
  <2> QED
    BY <1>8, <1>11, <2>1 DEF RepositoryOK
<1>13. main' = Len(commits) + 2 /\ run'.candidate = main'
  BY <1>1 DEF Push
<1>14. main' > Len(commits) /\ main' \in Shas'
       /\ commits'[main'].content = commits[head].content
  BY <1>6, <1>7, <1>8, <1>13
<1>15. HasPolicy(main) => Follows(commits[main].content, commits'[main'].content)
  BY <1>2, <1>14, Zenon
<1>16. /\ requests' = [requests EXCEPT ![p] = Closed] /\ site' = site
       /\ run' /= None => run'.candidate = main'
  BY <1>1, <1>13
<1> HIDE DEF head, first
<1> QED
  BY <1>9, <1>12, <1>14, <1>15, <1>16, PushedIInv, Zenon

LEMMA DispatchIInv ==
    ASSUME IInv, Dispatch
    PROVE  IInv'
<1>1. UNCHANGED <<commits, main, requests, site>> /\ run'.candidate = main
  BY DEF Dispatch
<1> QED
  BY <1>1 DEF IInv, RepositoryOK, RefsOK, RunIsMain, CheckedAgainstMain, MainFollowsSite,
              Shas, HasPolicy, Ancestor, CandidateRules

LEMMA FinishIInv ==
    ASSUME IInv, Finish
    PROVE  IInv'
<1>1. UNCHANGED <<commits, main, requests>> /\ run' = None /\ (site' = site \/ site' = main)
  BY DEF Finish, IInv, RunIsMain
<1>2. RepositoryOK' /\ RefsOK' /\ RunIsMain' /\ CheckedAgainstMain'
  BY <1>1 DEF IInv, RepositoryOK, RefsOK, RunIsMain, CheckedAgainstMain,
              Shas, HasPolicy, Ancestor, CandidateRules
<1>3. commits[main].content.version \in Nat
  BY PolicySelectionAssumption DEF IInv, RepositoryOK, RefsOK, Contents
<1>4. MainFollowsSite'
  BY <1>1, <1>3, FollowsReflexive DEF IInv, MainFollowsSite, HasPolicy
<1> QED
  BY <1>2, <1>4 DEF IInv

LEMMA StepIInv ==
    ASSUME Protected, IInv, [Next]_vars
    PROVE  IInv'
<1>1. CASE \E p \in Requests : \/ Author(p) \/ Update(p) \/ Check(p)
                               \/ MergeCommit(p) \/ Squash(p) \/ Rebase(p)
  BY <1>1, AuthorIInv, UpdateIInv, CheckIInv, MergeCommitIInv, SquashIInv, RebaseIInv
<1>2. CASE Dispatch \/ Finish
  BY <1>2, DispatchIInv, FinishIInv
<1>3. CASE UNCHANGED vars
  BY <1>3 DEF vars, IInv, RepositoryOK, RefsOK, RunIsMain, CheckedAgainstMain,
              MainFollowsSite, Shas, HasPolicy, Ancestor, CandidateRules
<1> QED
  BY <1>1, <1>2, <1>3 DEF Next

(* The invariant holds throughout: the site is an ancestor in content of    *)
(* main, and a check that passed still speaks of the main it will join.     *)
THEOREM Invariance == ASSUME Protected PROVE Spec => []IInv
<1>1. Init => IInv
  BY InitIInv
<1>2. IInv /\ [Next]_vars => IInv'
  BY StepIInv
<1> QED
  BY <1>1, <1>2, PTL DEF Spec

(* A step that deploys deploys main, and main follows the site. *)
LEMMA DeploymentFollows ==
    ASSUME IInv, [Next]_vars, site' /= site, HasPolicy(site)
    PROVE  Follows(commits[site].content, commits'[site'].content)
<1>1. Finish
  BY DEF Next, vars, Author, Update, Check, MergeCommit, Squash, Rebase, Dispatch
<1>2. commits' = commits /\ site' = main
  BY <1>1 DEF Finish, IInv, RunIsMain
<1>3. Follows(commits[site].content, commits[main].content)
  BY Zenon DEF IInv, MainFollowsSite
<1> QED
  BY <1>2, <1>3, Zenon

(* DeploymentsGrow: on a protected main, a deployment over the site of a   *)
(* policy keeps every declaration it had, in its order, and the overloads  *)
(* that it is numbered after.                                              *)
THEOREM GrowthTheorem == ASSUME Protected PROVE Spec => DeploymentsGrow
<1>1. IInv /\ [Next]_vars =>
        [site' /= site /\ HasPolicy(site) =>
           LET old == Published(site)
               new == commits'[site'].content.decls IN
           /\ Grown(old, new)
           /\ \A d \in ToSet(old) :
                  EarlierOverloads(new, d) = EarlierOverloads(old, d)]_vars
  BY DeploymentFollows DEF Follows, Published
<1> QED
  BY <1>1, Invariance, PTL DEF Spec, DeploymentsGrow

(* OnlyReviewedChanges: and adds approved names, at no older version, by   *)
(* the same verifier.                                                      *)
THEOREM ReviewTheorem == ASSUME Protected PROVE Spec => OnlyReviewedChanges
<1>1. IInv /\ [Next]_vars =>
        [site' /= site /\ HasPolicy(site) =>
           LET old == commits[site].content
               new == commits'[site'].content IN
           /\ \A d \in ToSet(new.decls) \ ToSet(old.decls) : d.name \in Additions
           /\ old.version <= new.version
           /\ new.verifier = old.verifier]_vars
  BY DeploymentFollows DEF Follows
<1> QED
  BY <1>1, Invariance, PTL DEF Spec, OnlyReviewedChanges

-----------------------------------------------------------------------------
(* The ratchet on GNATdoc's warnings.                                         *)
LogLines == Identities \cup {"text", "misshaped", "unlocated"}
BaselineLines == Identities \cup {"malformed", "blank"}

(* A fresh log that can be read has the warnings of the present sources; what *)
(* was accepted is the baseline, counted, and the baseline never has more     *)
(* than what somebody was shown when it was written, and added since.         *)
RatchetInv ==
    /\ sources \in Ratchet!Bags /\ reviewed \in Ratchet!Bags
    /\ byHand \in [Identities -> Nat]
    /\ log \in Seq(LogLines) /\ Ratchet!Bag(log) \in Ratchet!Bags
    /\ baseline \in Seq(BaselineLines)
    /\ fresh \in BOOLEAN /\ published \in BOOLEAN
    /\ exit \in {"none", "passed", "failed"}
    /\ steps \in 0 .. MaxSteps
    /\ fresh /\ Ratchet!Readable(log) => Ratchet!Bag(log) = sources
    /\ Ratchet!Within(Ratchet!Bag(baseline), Ratchet!Room)
    /\ \/ accepted = << >>
       \/ accepted = <<Ratchet!Bag(baseline)>> /\ Ratchet!Bag(baseline) \in Ratchet!Bags
    /\ published => sources = Ratchet!Clean

(* How often a line occurs in a sequence of lines, and in its changes.        *)
LEMMA CountIs ==
    ASSUME NEW l, NEW i
    PROVE  Ratchet!Count(l, i) = Cardinality({n \in DOMAIN l : l[n] = i})
<1>1. \A S : Ratchet!Cardinality(S) = Cardinality(S)
    BY Zenon DEF Ratchet!Cardinality, Cardinality
<1>2. QED
    BY <1>1 DEF Ratchet!Count

LEMMA CountIsNat ==
    ASSUME NEW S, NEW l \in Seq(S), NEW i
    PROVE  Ratchet!Count(l, i) \in Nat
<1> DEFINE C == {n \in DOMAIN l : l[n] = i}
<1>1. C \subseteq 1 .. Len(l) /\ Len(l) \in Nat
    OBVIOUS
<1>2. IsFiniteSet(C)
    <2>1. IsFiniteSet(1 .. Len(l))
        BY <1>1, FS_Interval
    <2>2. QED
        BY <1>1, <2>1, FS_Subset
<1>3. Cardinality(C) \in Nat
    BY <1>2, FS_CardinalityType
<1>4. QED
    BY <1>3, CountIs

LEMMA CountOfFewer ==
    ASSUME NEW S, NEW l \in Seq(S), NEW T, NEW k \in Seq(T), NEW i,
           \A n \in DOMAIN k : k[n] = i => n \in DOMAIN l /\ l[n] = i
    PROVE  Ratchet!Count(k, i) <= Ratchet!Count(l, i)
<1> DEFINE C == {n \in DOMAIN l : l[n] = i}
           D == {n \in DOMAIN k : k[n] = i}
<1>1. D \subseteq C
    OBVIOUS
<1>2. IsFiniteSet(C)
    <2>1. C \subseteq 1 .. Len(l) /\ Len(l) \in Nat
        OBVIOUS
    <2>2. IsFiniteSet(1 .. Len(l))
        BY <2>1, FS_Interval
    <2>3. QED
        BY <2>1, <2>2, FS_Subset
<1>3. Cardinality(D) <= Cardinality(C)
    BY <1>1, <1>2, FS_Subset
<1>4. QED
    BY <1>3, CountIs

LEMMA CountOfPrefix ==
    ASSUME NEW S, NEW l \in Seq(S), NEW n \in 0 .. Len(l), NEW i
    PROVE  /\ SubSeq(l, 1, n) \in Seq(S)
           /\ Ratchet!Count(SubSeq(l, 1, n), i) <= Ratchet!Count(l, i)
<1> DEFINE k == SubSeq(l, 1, n)
<1>1. k \in Seq(S) /\ Len(k) = n /\ (\A m \in 1 .. n : k[m] = l[m])
    OBVIOUS
<1>2. \A m \in DOMAIN k : k[m] = i => m \in DOMAIN l /\ l[m] = i
    BY <1>1
<1>3. QED
    <2> HIDE DEF k
    <2>1. k \in Seq(S)
        BY <1>1
    <2>2. Ratchet!Count(k, i) <= Ratchet!Count(l, i)
        BY <1>2, <2>1, CountOfFewer
    <2>3. QED
        BY <2>1, <2>2 DEF k

LEMMA CountOfAppend ==
    ASSUME NEW S, NEW l \in Seq(S), NEW x, NEW i, x # i
    PROVE  Ratchet!Count(Append(l, x), i) = Ratchet!Count(l, i)
<1>1. {n \in DOMAIN Append(l, x) : Append(l, x)[n] = i} = {n \in DOMAIN l : l[n] = i}
    <2>1. Append(l, x) \in Seq(S \cup {x})
        OBVIOUS
    <2>2. /\ Len(Append(l, x)) = Len(l) + 1 /\ Append(l, x)[Len(l) + 1] = x
          /\ \A n \in 1 .. Len(l) : Append(l, x)[n] = l[n]
        OBVIOUS
    <2>3. QED
        BY <2>1, <2>2
<1>2. QED
    BY <1>1, CountIs

LEMMA CountOfAppended ==
    ASSUME NEW S, NEW l \in Seq(S), NEW i
    PROVE  Ratchet!Count(Append(l, i), i) = Ratchet!Count(l, i) + 1
<1> DEFINE C == {n \in DOMAIN l : l[n] = i}
           D == {n \in DOMAIN Append(l, i) : Append(l, i)[n] = i}
<1>1. Len(l) \in Nat /\ DOMAIN l = 1 .. Len(l) /\ DOMAIN Append(l, i) = 1 .. Len(l) + 1
    OBVIOUS
<1>2. Append(l, i)[Len(l) + 1] = i /\ \A n \in 1 .. Len(l) : Append(l, i)[n] = l[n]
    OBVIOUS
<1>3. D = C \cup {Len(l) + 1} /\ Len(l) + 1 \notin C
    BY <1>1, <1>2
<1>4. IsFiniteSet(C)
    <2>1. C \subseteq 1 .. Len(l) /\ IsFiniteSet(1 .. Len(l))
        BY <1>1, FS_Interval
    <2>2. QED
        BY <2>1, FS_Subset
<1>5. Cardinality(D) = Cardinality(C) + 1
    <2> HIDE DEF C, D
    <2>1. QED
        BY <1>3, <1>4, FS_AddElement
<1>6. QED
    BY <1>5, CountIs

LEMMA CountOfPrepend ==
    ASSUME NEW S, NEW l \in Seq(S), NEW x, NEW i, x # i
    PROVE  Ratchet!Count(<<x>> \o l, i) = Ratchet!Count(l, i)
<1> DEFINE k == <<x>> \o l
           C == {n \in DOMAIN l : l[n] = i}
           D == {n \in DOMAIN k : k[n] = i}
           f == [n \in C |-> n + 1]
<1>1. /\ k \in Seq(S \cup {x}) /\ Len(k) = Len(l) + 1 /\ k[1] = x
      /\ \A n \in 1 .. Len(l) : k[n + 1] = l[n]
    OBVIOUS
<1>2. f \in Bijection(C, D)
    <2> HIDE DEF k
    <2>1. f \in [C -> D]
        BY <1>1
    <2>2. \A m, n \in C : f[m] = f[n] => m = n
        OBVIOUS
    <2>3. \A n \in D : n - 1 \in C /\ f[n - 1] = n
        BY <1>1
    <2>4. f \in Injection(C, D)
        BY <2>1, <2>2 DEF Injection, IsInjective
    <2>5. f \in Surjection(C, D)
        BY <2>1, <2>3 DEF Surjection
    <2>6. QED
        BY <2>4, <2>5 DEF Bijection
<1>3. IsFiniteSet(C)
    <2>1. C \subseteq 1 .. Len(l) /\ Len(l) \in Nat
        OBVIOUS
    <2>2. IsFiniteSet(1 .. Len(l))
        BY <2>1, FS_Interval
    <2>3. QED
        BY <2>1, <2>2, FS_Subset
<1>4. Cardinality(C) = Cardinality(D)
    <2>1. C \in SUBSET C
        OBVIOUS
    <2>2. QED
        BY <1>2, <1>3, FS_Bijection DEF ExistsBijection
<1>5. QED
    BY <1>4, CountIs

(* The logs GNATdoc may print have no more warnings than the sources deserve, *)
(* and a log that can be read has them all.                                   *)
LEMMA BagIs ==
    ASSUME NEW l, NEW i \in Identities
    PROVE  /\ DOMAIN Ratchet!Bag(l) = Identities
           /\ Ratchet!Bag(l)[i] = Ratchet!Count(l, i)
BY DEF Ratchet!Bag

LEMMA FewerInBag ==
    ASSUME NEW bag \in Ratchet!Bags, NEW l,
           \A i \in Identities : Ratchet!Count(l, i) \in Nat /\ Ratchet!Count(l, i) <= bag[i],
           MaxCount \in Nat
    PROVE  Ratchet!Bag(l) \in Ratchet!Bags
<1>1. \A i \in Identities : bag[i] \in 0 .. MaxCount
    BY DEF Ratchet!Bags
<1>2. \A i \in Identities : Ratchet!Count(l, i) \in 0 .. MaxCount
    BY <1>1
<1>3. QED
    BY <1>2 DEF Ratchet!Bags, Ratchet!Bag

LEMMA ListingIs ==
    ASSUME NEW bag \in Ratchet!Bags, NEW l \in Ratchet!Listings(bag)
    PROVE  /\ l \in Seq(Identities)
           /\ Ratchet!Bag(l) = bag
           /\ \A i \in Identities : Ratchet!Count(l, i) = bag[i]
<1>1. \E n \in 0 .. MaxCount * Ratchet!Cardinality(Identities) : l \in [1 .. n -> Identities]
    BY DEF Ratchet!Listings
<1>2. l \in Seq(Identities)
    BY <1>1
<1>3. Ratchet!Bag(l) = bag
    BY DEF Ratchet!Listings
<1>4. QED
    BY <1>2, <1>3, BagIs

LEMMA LogIs ==
    ASSUME Ratchet!RatchetAssumption,
           NEW bag \in Ratchet!Bags, NEW l \in Ratchet!Logs(bag)
    PROVE  /\ l \in Seq(LogLines)
           /\ Ratchet!Bag(l) \in Ratchet!Bags
           /\ Ratchet!Readable(l) => Ratchet!Bag(l) = bag
<1> DEFINE Others == {"text", "misshaped", "unlocated"}
<1>0. MaxCount \in Nat /\ Others \cap Identities = {}
    BY DEF Ratchet!RatchetAssumption
<1>1. ASSUME NEW k \in Seq(LogLines),
             \A i \in Identities : Ratchet!Count(k, i) = bag[i]
      PROVE  Ratchet!Bag(k) = bag /\ Ratchet!Bag(k) \in Ratchet!Bags
    <2>1. Ratchet!Bag(k) = bag
        BY <1>1 DEF Ratchet!Bag, Ratchet!Bags
    <2>2. QED
        BY <2>1
<1>2. CASE l \in Ratchet!Listings(bag)
    <2>1. l \in Seq(Identities) /\ Ratchet!Bag(l) = bag
        BY <1>2, ListingIs
    <2>2. l \in Seq(LogLines)
        BY <2>1 DEF LogLines
    <2>3. QED
        BY <2>1, <2>2
<1>3. ASSUME NEW k \in Ratchet!Listings(bag), NEW other \in Others, l = <<other>> \o k
      PROVE  /\ l \in Seq(LogLines)
             /\ Ratchet!Bag(l) = bag /\ Ratchet!Bag(l) \in Ratchet!Bags
    <2>1. k \in Seq(LogLines) /\ \A i \in Identities : Ratchet!Count(k, i) = bag[i]
        <3>1. k \in Seq(Identities) /\ \A i \in Identities : Ratchet!Count(k, i) = bag[i]
            BY ListingIs
        <3>2. QED
            BY <3>1 DEF LogLines
    <2>2. other \in LogLines /\ \A i \in Identities : other # i
        BY <1>0 DEF LogLines
    <2>3. l \in Seq(LogLines)
        BY <1>3, <2>1, <2>2
    <2>4. \A i \in Identities : Ratchet!Count(l, i) = Ratchet!Count(k, i)
        BY <1>3, <2>1, <2>2, CountOfPrepend
    <2>5. QED
        BY <1>1, <2>1, <2>3, <2>4
<1>4. ASSUME NEW k \in Ratchet!Listings(bag), l = Append(k, "text")
      PROVE  /\ l \in Seq(LogLines)
             /\ Ratchet!Bag(l) = bag /\ Ratchet!Bag(l) \in Ratchet!Bags
    <2>1. k \in Seq(LogLines) /\ \A i \in Identities : Ratchet!Count(k, i) = bag[i]
        <3>1. k \in Seq(Identities) /\ \A i \in Identities : Ratchet!Count(k, i) = bag[i]
            BY ListingIs
        <3>2. QED
            BY <3>1 DEF LogLines
    <2>2. "text" \in LogLines /\ \A i \in Identities : "text" # i
        BY <1>0 DEF LogLines
    <2>3. l \in Seq(LogLines)
        BY <1>4, <2>1, <2>2
    <2>4. \A i \in Identities : Ratchet!Count(l, i) = Ratchet!Count(k, i)
        BY <1>4, <2>1, <2>2, CountOfAppend
    <2>5. QED
        BY <1>1, <2>1, <2>3, <2>4
<1>5. ASSUME NEW k \in Ratchet!Listings(bag), NEW n \in DOMAIN k,
             NEW other \in {"misshaped", "unlocated"}, l = [k EXCEPT ![n] = other]
      PROVE  /\ l \in Seq(LogLines)
             /\ Ratchet!Bag(l) \in Ratchet!Bags /\ ~ Ratchet!Readable(l)
    <2>1. k \in Seq(Identities) /\ \A i \in Identities : Ratchet!Count(k, i) = bag[i]
        BY ListingIs
    <2>2. other \in LogLines /\ \A i \in Identities : other # i
        BY <1>0 DEF LogLines
    <2>3. l \in Seq(LogLines) /\ DOMAIN l = DOMAIN k /\ l[n] = other
        BY <1>5, <2>1, <2>2 DEF LogLines
    <2>4. ASSUME NEW i \in Identities
          PROVE  Ratchet!Count(l, i) \in Nat /\ Ratchet!Count(l, i) <= bag[i]
        <3>1. \A m \in DOMAIN l : l[m] = i => m \in DOMAIN k /\ k[m] = i
            BY <1>5, <2>2, <2>3
        <3>2. QED
            BY <2>1, <2>3, <3>1, CountOfFewer, CountIsNat
    <2>5. ~ Ratchet!Readable(l)
        <3>1. other \in Ratchet!ToSet(l)
            BY <2>3 DEF Ratchet!ToSet
        <3>2. QED
            BY <3>1 DEF Ratchet!Readable
    <2>6. QED
        BY <2>3, <2>4, <2>5, <1>0, FewerInBag
<1>6. QED
    <2>1. \/ l \in Ratchet!Listings(bag)
          \/ \E k \in Ratchet!Listings(bag), other \in Others : l = <<other>> \o k
          \/ \E k \in Ratchet!Listings(bag) : l = Append(k, "text")
          \/ \E k \in Ratchet!Listings(bag) : \E n \in DOMAIN k, other \in {"misshaped", "unlocated"} :
                 l = [k EXCEPT ![n] = other]
        BY DEF Ratchet!Logs
    <2>2. QED
        BY <2>1, <1>2, <1>3, <1>4, <1>5

(* A strict check that passes has read the log, and the log and the baseline  *)
(* are one bag.                                                               *)
LEMMA StrictIsEqual ==
    ASSUME NEW l \in Seq(LogLines), baseline \in Seq(BaselineLines),
           Ratchet!Code(l, TRUE) = "passed"
    PROVE  Ratchet!Readable(l) /\ Ratchet!Bag(l) = Ratchet!Bag(baseline)
<1>1. Ratchet!Readable(l) /\ Ratchet!Added(l) = {} /\ Ratchet!Removed(l) = {}
    BY DEF Ratchet!Code
<1>2. ASSUME NEW i \in Identities
      PROVE  Ratchet!Count(l, i) = Ratchet!Count(baseline, i)
    <2>1. Ratchet!Count(l, i) \in Nat /\ Ratchet!Count(baseline, i) \in Nat
        BY CountIsNat
    <2>2. ~ (Ratchet!Count(l, i) > Ratchet!Count(baseline, i))
        BY <1>1 DEF Ratchet!Added
    <2>3. ~ (Ratchet!Count(baseline, i) > Ratchet!Count(l, i))
        BY <1>1 DEF Ratchet!Removed
    <2>4. QED
        BY <2>1, <2>2, <2>3
<1>3. QED
    BY <1>1, <1>2 DEF Ratchet!Bag

LEMMA RatchetInit ==
    ASSUME Ratchet!RatchetAssumption, Ratchet!Init
    PROVE  RatchetInv
<1>1. PICK l \in Ratchet!Listings(sources) : log = l
    BY DEF Ratchet!Init
<1>2. sources \in Ratchet!Bags
    BY DEF Ratchet!Init
<1>3. /\ log \in Seq(Identities) /\ Ratchet!Bag(log) = sources
      /\ \A i \in Identities : Ratchet!Count(log, i) = sources[i]
    BY <1>1, <1>2, ListingIs
<1>4. log \in Seq(LogLines) /\ baseline \in Seq(BaselineLines)
    BY <1>3 DEF Ratchet!Init, LogLines, BaselineLines
<1>5. Ratchet!Within(Ratchet!Bag(baseline), Ratchet!Room) /\ byHand \in [Identities -> Nat]
    <2>1. \A i \in Identities : sources[i] \in Int
        BY <1>2 DEF Ratchet!Bags
    <2>2. baseline = log /\ reviewed = sources /\ byHand = Ratchet!Clean
        BY <1>3 DEF Ratchet!Init
    <2>3. QED
        BY <1>3, <2>1, <2>2 DEF Ratchet!Within, Ratchet!Room, Ratchet!Clean
<1>6. MaxSteps \in Nat
    BY DEF Ratchet!RatchetAssumption
<1>7. /\ fresh = TRUE /\ published = FALSE
      /\ reviewed = sources /\ exit = "none" /\ accepted = << >> /\ steps = 0
    BY <1>3 DEF Ratchet!Init
<1>8. steps \in 0 .. MaxSteps
    BY <1>6, <1>7
<1>11. fresh \in BOOLEAN /\ published \in BOOLEAN
    BY <1>7, Zenon
<1>9. Ratchet!Bag(log) \in Ratchet!Bags /\ reviewed \in Ratchet!Bags
    BY <1>2, <1>3, <1>7
<1>10. QED
    BY <1>2, <1>3, <1>4, <1>5, <1>7, <1>8, <1>11, <1>9 DEF RatchetInv

LEMMA EditKeeps ==
    ASSUME Ratchet!RatchetAssumption, RatchetInv, Ratchet!Edit
    PROVE  RatchetInv'
<1>1. sources' \in Ratchet!Bags
    <2> DEFINE B == [Identities -> 0 .. MaxCount]
    <2>1. sources \in B /\ MaxCount \in Nat
        BY DEF RatchetInv, Ratchet!Bags, Ratchet!RatchetAssumption
    <2>2. PICK i \in Identities :
              \/ sources[i] < MaxCount /\ sources' = [sources EXCEPT ![i] = @ + 1]
              \/ sources[i] > 0 /\ sources' = [sources EXCEPT ![i] = @ - 1]
              \/ \E j \in Identities \ {i} :
                    /\ sources[i] > 0 /\ sources[j] < MaxCount
                    /\ sources' = [sources EXCEPT ![i] = @ - 1, ![j] = @ + 1]
        BY DEF Ratchet!Edit
    <2>3. sources' \in B
        BY <2>1, <2>2
    <2>4. QED
        BY <2>3 DEF Ratchet!Bags
<1>2. /\ steps' \in 0 .. MaxSteps
      /\ UNCHANGED <<log, baseline, reviewed, byHand, exit, accepted>>
      /\ fresh' = FALSE /\ published' = FALSE
    BY DEF Ratchet!Edit, RatchetInv, Ratchet!RatchetAssumption
<1>3. QED
    BY <1>1, <1>2 DEF RatchetInv, Ratchet!Readable, Ratchet!ToSet, Ratchet!Bag,
                      Ratchet!Count, Ratchet!Within, Ratchet!Room, Ratchet!Bags, Ratchet!Clean

(* What an edit by hand does to the baseline.                                 *)
LEMMA Emptied ==
    ASSUME Ratchet!RatchetAssumption, RatchetInv, NEW n \in DOMAIN baseline,
           baseline' = [baseline EXCEPT ![n] = "blank"]
    PROVE  /\ baseline' \in Seq(BaselineLines)
           /\ \A i \in Identities : Ratchet!Count(baseline', i) <= Ratchet!Count(baseline, i)
           /\ baseline[n] \notin Identities =>
                  \A i \in Identities : Ratchet!Count(baseline', i) = Ratchet!Count(baseline, i)
<1>1. "blank" \in BaselineLines /\ \A i \in Identities : i # "blank"
    BY DEF BaselineLines, Ratchet!RatchetAssumption
<1>2. baseline \in Seq(BaselineLines)
    BY DEF RatchetInv
<1>3. /\ baseline' \in Seq(BaselineLines) /\ DOMAIN baseline' = DOMAIN baseline
      /\ \A m \in DOMAIN baseline : baseline'[m] = IF m = n THEN "blank" ELSE baseline[m]
    BY <1>1, <1>2
<1>4. ASSUME NEW i \in Identities
      PROVE  Ratchet!Count(baseline', i) <= Ratchet!Count(baseline, i)
    <2>1. \A m \in DOMAIN baseline' : baseline'[m] = i => m \in DOMAIN baseline /\ baseline[m] = i
        BY <1>1, <1>3
    <2>2. QED
        BY <1>2, <1>3, <2>1, CountOfFewer
<1>5. ASSUME NEW i \in Identities, baseline[n] \notin Identities
      PROVE  Ratchet!Count(baseline', i) = Ratchet!Count(baseline, i)
    <2>1. {m \in DOMAIN baseline' : baseline'[m] = i} = {m \in DOMAIN baseline : baseline[m] = i}
        BY <1>1, <1>3, <1>5
    <2>2. QED
        BY <2>1, CountIs
<1>6. QED
    BY <1>3, <1>4, <1>5

LEMMA EditBaselineKeeps ==
    ASSUME Ratchet!RatchetAssumption, RatchetInv, Ratchet!EditBaseline
    PROVE  RatchetInv' /\ accepted' = << >>
<1>1. /\ steps' \in 0 .. MaxSteps /\ accepted' = << >>
      /\ UNCHANGED <<sources, log, fresh, reviewed, exit, published>>
    BY DEF Ratchet!EditBaseline, RatchetInv, Ratchet!RatchetAssumption
<1>2. /\ \A i \in Identities : /\ Ratchet!Count(baseline, i) \in Nat
                                /\ reviewed[i] \in Nat /\ byHand[i] \in Nat
                                /\ Ratchet!Count(baseline, i) <= reviewed[i] + byHand[i]
      /\ baseline \in Seq(BaselineLines) /\ byHand \in [Identities -> Nat]
    <2>1. \A i \in Identities : reviewed[i] \in Nat
        BY DEF RatchetInv, Ratchet!Bags
    <2>2. baseline \in Seq(BaselineLines) /\ byHand \in [Identities -> Nat]
        BY DEF RatchetInv
    <2>3. \A i \in Identities : Ratchet!Count(baseline, i) \in Nat
        BY <2>2, CountIsNat
    <2>4. \A i \in Identities : Ratchet!Count(baseline, i) <= reviewed[i] + byHand[i]
        BY BagIs DEF RatchetInv, Ratchet!Within, Ratchet!Room
    <2>5. QED
        BY <2>1, <2>2, <2>3, <2>4
<1>3. /\ baseline' \in Seq(BaselineLines) /\ byHand' \in [Identities -> Nat]
      /\ \A i \in Identities : Ratchet!Count(baseline', i) <= reviewed[i] + byHand'[i]
    <2>1. CASE \E j \in Identities : /\ baseline' = Append(baseline, j)
                                     /\ byHand' = [byHand EXCEPT ![j] = @ + 1]
        <3>1. PICK j \in Identities : /\ baseline' = Append(baseline, j)
                                      /\ byHand' = [byHand EXCEPT ![j] = @ + 1]
            BY <2>1
        <3>2. byHand' \in [Identities -> Nat]
            BY <1>2, <3>1
        <3>3. baseline' \in Seq(BaselineLines)
            BY <1>2, <3>1 DEF BaselineLines
        <3>4. ASSUME NEW i \in Identities
              PROVE  Ratchet!Count(baseline', i) <= reviewed[i] + byHand'[i]
            <4>1. CASE i = j
                <5>1. Ratchet!Count(baseline', i) = Ratchet!Count(baseline, i) + 1
                    BY <1>2, <3>1, <4>1, CountOfAppended
                <5>2. byHand'[i] = byHand[i] + 1
                    BY <1>2, <3>1, <4>1
                <5>3. QED
                    BY <1>2, <5>1, <5>2
            <4>2. CASE i # j
                <5>1. Ratchet!Count(baseline', i) = Ratchet!Count(baseline, i)
                    BY <1>2, <3>1, <4>2, CountOfAppend
                <5>2. byHand'[i] = byHand[i]
                    BY <1>2, <3>1, <4>2
                <5>3. QED
                    BY <1>2, <5>1, <5>2
            <4>3. QED
                BY <4>1, <4>2
        <3>5. QED
            BY <3>2, <3>3, <3>4
    <2>2. CASE \E n \in DOMAIN baseline : /\ baseline' = [baseline EXCEPT ![n] = "blank"]
                                          /\ byHand' = byHand
        <3>1. /\ baseline' \in Seq(BaselineLines) /\ byHand' = byHand
              /\ \A i \in Identities : Ratchet!Count(baseline', i) <= Ratchet!Count(baseline, i)
            BY <2>2, Emptied
        <3>2. \A i \in Identities : Ratchet!Count(baseline', i) \in Nat
            BY <3>1, CountIsNat
        <3>3. QED
            BY <1>2, <3>1, <3>2
    <2>3. QED
        BY <2>1, <2>2 DEF Ratchet!EditBaseline
<1>4. (Ratchet!Within(Ratchet!Bag(baseline), Ratchet!Room))'
    BY <1>1, <1>3 DEF Ratchet!Within, Ratchet!Room, Ratchet!Bag
<1>5. QED
    BY <1>1, <1>3, <1>4 DEF RatchetInv, Ratchet!Readable, Ratchet!ToSet, Ratchet!Bag,
                            Ratchet!Count, Ratchet!Bags, Ratchet!Clean

LEMMA MangleKeeps ==
    ASSUME Ratchet!RatchetAssumption, RatchetInv, Ratchet!Mangle
    PROVE  RatchetInv' /\ accepted' = accepted
<1>1. /\ baseline' \in Seq(BaselineLines)
      /\ \A i \in Identities : Ratchet!Count(baseline', i) = Ratchet!Count(baseline, i)
    <2>1. CASE \E l \in {"malformed", "blank"} : baseline' = Append(baseline, l)
        <3>1. PICK l \in {"malformed", "blank"} : baseline' = Append(baseline, l)
            BY <2>1
        <3>2. l \in BaselineLines /\ \A i \in Identities : l # i
            BY DEF Ratchet!RatchetAssumption, BaselineLines
        <3>3. QED
            BY <3>1, <3>2, CountOfAppend DEF RatchetInv
    <2>2. CASE \E n \in DOMAIN baseline : /\ baseline[n] = "malformed"
                                          /\ baseline' = [baseline EXCEPT ![n] = "blank"]
        <3>1. "malformed" \notin Identities
            BY DEF Ratchet!RatchetAssumption
        <3>2. QED
            BY <2>2, <3>1, Emptied
    <2>3. QED
        BY <2>1, <2>2 DEF Ratchet!Mangle
<1>2. Ratchet!Bag(baseline') = Ratchet!Bag(baseline)
    BY <1>1 DEF Ratchet!Bag
<1>3. /\ steps' \in 0 .. MaxSteps
      /\ UNCHANGED <<sources, log, fresh, reviewed, byHand, exit, accepted, published>>
    BY DEF Ratchet!Mangle, RatchetInv, Ratchet!RatchetAssumption
<1>4. QED
    BY <1>1, <1>2, <1>3 DEF RatchetInv, Ratchet!Readable, Ratchet!ToSet, Ratchet!Within,
                            Ratchet!Room

LEMMA GnatdocKeeps ==
    ASSUME Ratchet!RatchetAssumption, RatchetInv, Ratchet!Gnatdoc
    PROVE  RatchetInv'
<1>1. log' \in Ratchet!Logs(sources) /\ sources \in Ratchet!Bags
    BY DEF Ratchet!Gnatdoc, RatchetInv
<1>2. /\ log' \in Seq(LogLines) /\ Ratchet!Bag(log') \in Ratchet!Bags
      /\ Ratchet!Readable(log') => Ratchet!Bag(log') = sources
    BY <1>1, LogIs
<1>3. fresh' = TRUE /\ UNCHANGED <<sources, baseline, reviewed, byHand, exit, accepted, published, steps>>
    BY DEF Ratchet!Gnatdoc
<1>4. QED
    BY <1>2, <1>3 DEF RatchetInv, Ratchet!Bag, Ratchet!Within, Ratchet!Room, Ratchet!Count, Ratchet!Bags,
                      Ratchet!Clean

LEMMA GnatdocFailsKeeps ==
    ASSUME Ratchet!RatchetAssumption, RatchetInv, Ratchet!GnatdocFails
    PROVE  RatchetInv'
<1>0. PICK l \in Ratchet!Listings(sources) : \E n \in 0 .. Len(l) : log' = SubSeq(l, 1, n)
    BY DEF Ratchet!GnatdocFails
<1>1. PICK n \in 0 .. Len(l) : log' = SubSeq(l, 1, n)
    BY <1>0
<1>2. l \in Seq(Identities) /\ \A i \in Identities : Ratchet!Count(l, i) = sources[i]
    BY ListingIs DEF RatchetInv
<1>3. /\ log' \in Seq(Identities)
      /\ \A i \in Identities : Ratchet!Count(log', i) \in Nat /\ Ratchet!Count(log', i) <= sources[i]
    BY <1>1, <1>2, CountOfPrefix, CountIsNat
<1>4. Ratchet!Bag(log') \in Ratchet!Bags
    BY <1>3, FewerInBag DEF RatchetInv, Ratchet!RatchetAssumption
<1>5. log' \in Seq(LogLines)
    BY <1>3 DEF LogLines
<1>6. /\ fresh' = FALSE /\ exit' = "failed"
      /\ UNCHANGED <<sources, baseline, reviewed, byHand, accepted, published, steps>>
    BY DEF Ratchet!GnatdocFails
<1>7. QED
    BY <1>4, <1>5, <1>6 DEF RatchetInv, Ratchet!Bag, Ratchet!Within, Ratchet!Room, Ratchet!Count, Ratchet!Bags,
                            Ratchet!Clean

(* What a check of a fresh log accepts is the baseline, and all the sources   *)
(* deserve.                                                                   *)
LEMMA AcceptIs ==
    ASSUME Ratchet!RatchetAssumption, RatchetInv,
           NEW l \in Seq(LogLines), NEW strict \in BOOLEAN, Ratchet!Accept(l, strict),
           Ratchet!Readable(l) => Ratchet!Bag(l) = sources
    PROVE  \/ accepted' = accepted
           \/ /\ accepted' = <<Ratchet!Bag(baseline)>>
              /\ Ratchet!Bag(baseline) = sources
<1>1. CASE Ratchet!Code(l, strict) = "passed" /\ strict
    <2>1. Ratchet!Code(l, TRUE) = "passed"
        BY <1>1
    <2>2. Ratchet!Readable(l) /\ Ratchet!Bag(l) = Ratchet!Bag(baseline)
        BY <2>1, StrictIsEqual DEF RatchetInv
    <2>3. QED
        BY <1>1, <2>2 DEF Ratchet!Accept
<1>2. CASE ~ (Ratchet!Code(l, strict) = "passed" /\ strict)
    BY <1>2 DEF Ratchet!Accept
<1>3. QED
    BY <1>1, <1>2

LEMMA CompareKeeps ==
    ASSUME Ratchet!RatchetAssumption, RatchetInv,
           NEW strict \in BOOLEAN, Ratchet!Compare(strict)
    PROVE  /\ RatchetInv'
           /\ \/ accepted' = accepted
              \/ /\ accepted' = <<Ratchet!Bag(baseline)>>
                 /\ Ratchet!Bag(baseline) = sources
           /\ UNCHANGED baseline
<1>1. UNCHANGED <<sources, log, fresh, baseline, reviewed, byHand, published, steps>>
    BY DEF Ratchet!Compare
<1>2. exit' \in {"none", "passed", "failed"}
    BY DEF Ratchet!Compare, Ratchet!Code
<1>3. \/ accepted' = accepted
      \/ /\ accepted' = <<Ratchet!Bag(baseline)>>
         /\ Ratchet!Bag(baseline) = sources
    <2>1. CASE fresh
        <3>1. Ratchet!Accept(log, strict)
            BY <2>1 DEF Ratchet!Compare
        <3>2. QED
            BY <2>1, <3>1, AcceptIs DEF RatchetInv
    <2>2. CASE ~ fresh
        BY <2>2 DEF Ratchet!Compare
    <2>3. QED
        BY <2>1, <2>2
<1>4. RatchetInv'
    BY <1>1, <1>2, <1>3 DEF RatchetInv, Ratchet!Bag, Ratchet!Within, Ratchet!Room, Ratchet!Count,
                            Ratchet!Bags, Ratchet!Clean, Ratchet!Readable, Ratchet!ToSet
<1>5. QED
    BY <1>1, <1>3, <1>4

LEMMA WriteKeeps ==
    ASSUME Ratchet!RatchetAssumption, RatchetInv, Ratchet!WriteBaseline
    PROVE  RatchetInv' /\ (accepted' = << >> \/ UNCHANGED <<accepted, baseline>>)
<1>1. steps' \in 0 .. MaxSteps /\ UNCHANGED <<sources, log, fresh, published>>
    BY DEF Ratchet!WriteBaseline, RatchetInv, Ratchet!RatchetAssumption
<1>2. CASE Ratchet!Readable(log)
    <2>1. /\ reviewed' = Ratchet!Bag(log) /\ byHand' = Ratchet!Clean
          /\ accepted' = << >> /\ exit' = "passed"
          /\ \E l \in Ratchet!Warnings(log) : \E n \in 0 .. Len(l) : baseline' = SubSeq(l, 1, n)
        BY <1>2 DEF Ratchet!WriteBaseline
    <2>0. PICK l \in Ratchet!Listings(Ratchet!Bag(log)) :
              \E n \in 0 .. Len(l) : baseline' = SubSeq(l, 1, n)
        BY <2>1 DEF Ratchet!Warnings
    <2>2. PICK n \in 0 .. Len(l) : baseline' = SubSeq(l, 1, n)
        BY <2>0
    <2>3. l \in Seq(Identities) /\ \A i \in Identities : Ratchet!Count(l, i) = Ratchet!Bag(log)[i]
        BY ListingIs DEF RatchetInv
    <2>4. /\ baseline' \in Seq(Identities)
          /\ \A i \in Identities : Ratchet!Count(baseline', i) <= Ratchet!Bag(log)[i]
        BY <2>2, <2>3, CountOfPrefix
    <2>5. baseline' \in Seq(BaselineLines)
        BY <2>4 DEF BaselineLines
    <2>6. Ratchet!Within(Ratchet!Bag(baseline'), Ratchet!Room') /\ byHand' \in [Identities -> Nat]
        <3>1. \A i \in Identities : Ratchet!Bag(log)[i] \in Nat
            BY DEF RatchetInv, Ratchet!Bags
        <3>2. /\ byHand' \in [Identities -> Nat]
              /\ \A i \in Identities : Ratchet!Room'[i] = Ratchet!Bag(log)[i]
            BY <2>1, <3>1 DEF Ratchet!Room, Ratchet!Clean
        <3>3. QED
            BY <2>4, <3>2, BagIs DEF Ratchet!Within
    <2>7. reviewed' \in Ratchet!Bags
        BY <2>1 DEF RatchetInv
    <2>8. RatchetInv'
        BY <1>1, <2>1, <2>5, <2>6, <2>7
        DEF RatchetInv, Ratchet!Within, Ratchet!Room, Ratchet!Bag, Ratchet!Count, Ratchet!Bags,
            Ratchet!Clean, Ratchet!Readable, Ratchet!ToSet
    <2>9. QED
        BY <2>1, <2>8
<1>3. CASE ~ Ratchet!Readable(log)
    <2>1. exit' = "failed" /\ UNCHANGED <<baseline, reviewed, byHand, accepted>>
        BY <1>3 DEF Ratchet!WriteBaseline
    <2>2. RatchetInv'
        BY <1>1, <2>1 DEF RatchetInv, Ratchet!Within, Ratchet!Room, Ratchet!Bag, Ratchet!Count, Ratchet!Bags,
                          Ratchet!Clean, Ratchet!Readable, Ratchet!ToSet
    <2>3. QED
        BY <2>1, <2>2
<1>4. QED
    BY <1>2, <1>3

LEMMA GenerateKeeps ==
    ASSUME Ratchet!RatchetAssumption, RatchetInv, Ratchet!Generate
    PROVE  /\ RatchetInv'
           /\ \/ accepted' = accepted
              \/ /\ accepted' = <<Ratchet!Bag(baseline)>>
                 /\ Ratchet!Bag(baseline) = sources
           /\ UNCHANGED baseline
<1>1. PICK l \in Ratchet!Logs(sources) :
          /\ log' = l /\ fresh' = TRUE /\ Ratchet!Accept(l, TRUE)
          /\ exit' = IF Ratchet!MayPublish(l) THEN "passed" ELSE "failed"
          /\ published' = Ratchet!MayPublish(l)
    BY DEF Ratchet!Generate
<1>2. UNCHANGED <<sources, baseline, reviewed, byHand, steps>>
    BY DEF Ratchet!Generate
<1>3. /\ l \in Seq(LogLines) /\ Ratchet!Bag(l) \in Ratchet!Bags
      /\ Ratchet!Readable(l) => Ratchet!Bag(l) = sources
    BY LogIs DEF RatchetInv
<1>4. \/ accepted' = accepted
      \/ /\ accepted' = <<Ratchet!Bag(baseline)>>
         /\ Ratchet!Bag(baseline) = sources
    BY <1>1, <1>3, AcceptIs
<1>5. ASSUME Ratchet!MayPublish(l) PROVE sources = Ratchet!Clean
    <2>1. Ratchet!Code(l, TRUE) = "passed" /\ Ratchet!ToSet(baseline) \subseteq {"blank"}
        BY <1>5 DEF Ratchet!MayPublish
    <2>2. sources = Ratchet!Bag(baseline)
        BY <1>3, <2>1, StrictIsEqual DEF RatchetInv
    <2>3. ASSUME NEW i \in Identities PROVE Ratchet!Count(baseline, i) = 0
        <3>1. \A n \in DOMAIN baseline : baseline[n] # i
            BY <2>1 DEF Ratchet!ToSet, Ratchet!RatchetAssumption
        <3>2. {n \in DOMAIN baseline : baseline[n] = i} = {}
            BY <3>1
        <3>3. QED
            BY <3>2, CountIs, FS_EmptySet
    <2>4. QED
        BY <2>2, <2>3 DEF Ratchet!Bag, Ratchet!Clean
<1>6. published' \in BOOLEAN /\ (published' => sources' = Ratchet!Clean)
    BY <1>1, <1>2, <1>5 DEF Ratchet!MayPublish
<1>7. exit' \in {"none", "passed", "failed"}
    BY <1>1
<1>8. RatchetInv'
    BY <1>1, <1>2, <1>3, <1>4, <1>6, <1>7
    DEF RatchetInv, Ratchet!Bag, Ratchet!Within, Ratchet!Room, Ratchet!Count, Ratchet!Bags, Ratchet!Clean
<1>9. QED
    BY <1>2, <1>4, <1>8

(* Every step keeps the invariant; what it accepts is the baseline, and all   *)
(* the sources deserve.                                                       *)
LEMMA RatchetStep ==
    ASSUME Ratchet!RatchetAssumption, RatchetInv, [Ratchet!Next]_Ratchet!vars
    PROVE  /\ RatchetInv'
           /\ \/ accepted' = << >>
              \/ accepted' = accepted
              \/ /\ accepted' = <<Ratchet!Bag(baseline)>>
                 /\ Ratchet!Bag(baseline) = sources
<1>1. CASE UNCHANGED Ratchet!vars
    BY <1>1 DEF RatchetInv, Ratchet!vars, Ratchet!Bag, Ratchet!Within, Ratchet!Room, Ratchet!Count,
                Ratchet!Bags, Ratchet!Clean, Ratchet!Readable, Ratchet!ToSet
<1>2. CASE Ratchet!Edit
    BY <1>2, EditKeeps DEF Ratchet!Edit
<1>3. CASE Ratchet!EditBaseline \/ Ratchet!Mangle
    BY <1>3, EditBaselineKeeps, MangleKeeps
<1>4. CASE Ratchet!Gnatdoc
    BY <1>4, GnatdocKeeps DEF Ratchet!Gnatdoc
<1>5. CASE Ratchet!GnatdocFails
    BY <1>5, GnatdocFailsKeeps DEF Ratchet!GnatdocFails
<1>6. CASE Ratchet!WriteBaseline
    BY <1>6, WriteKeeps
<1>7. CASE Ratchet!Generate
    BY <1>7, GenerateKeeps
<1>8. ASSUME NEW strict \in BOOLEAN, Ratchet!Compare(strict)
      PROVE  /\ RatchetInv'
             /\ \/ accepted' = accepted
                \/ /\ accepted' = <<Ratchet!Bag(baseline)>>
                   /\ Ratchet!Bag(baseline) = sources
    BY <1>8, CompareKeeps
<1>9. QED
    BY <1>1, <1>2, <1>3, <1>4, <1>5, <1>6, <1>7, <1>8 DEF Ratchet!Next

(* The ratchet by itself.                                                     *)
LEMMA RatchetSound ==
    ASSUME Ratchet!RatchetAssumption
    PROVE  Ratchet!Spec => []Ratchet!ReviewedOnly
<1>1. Ratchet!Init => RatchetInv
    BY RatchetInit
<1>2. RatchetInv /\ [Ratchet!Next]_Ratchet!vars => RatchetInv'
    BY RatchetStep
<1>3. RatchetInv => Ratchet!ReviewedOnly
    <2> SUFFICES ASSUME RatchetInv PROVE Ratchet!ReviewedOnly
        OBVIOUS
    <2>2. accepted = << >> \/ accepted[1] \in Ratchet!Bags
        BY DEF RatchetInv
    <2>3. /\ Ratchet!ToSet(log) \subseteq LogLines
          /\ Ratchet!ToSet(baseline) \subseteq BaselineLines
        BY DEF RatchetInv, Ratchet!ToSet
    <2>4. Ratchet!TypeOK
        BY <2>2, <2>3 DEF RatchetInv, Ratchet!TypeOK, LogLines, BaselineLines
    <2>5. Ratchet!PublishedIsClean
        BY DEF RatchetInv, Ratchet!PublishedIsClean
    <2>6. Ratchet!NeverMoreThanReviewed
        BY DEF RatchetInv, Ratchet!NeverMoreThanReviewed
    <2>7. QED
        BY <2>4, <2>5, <2>6 DEF Ratchet!ReviewedOnly
<1>4. QED
    BY <1>1, <1>2, <1>3, PTL DEF Ratchet!Spec

LEMMA RatchetOnlyTightens ==
    ASSUME Ratchet!RatchetAssumption
    PROVE  Ratchet!Spec => Ratchet!NoSilentReturn
<1> DEFINE Holds == accepted' # << >> =>
                        /\ accepted # << >> => accepted'[1] = accepted[1]
                        /\ accepted' # accepted => accepted'[1] = sources
<1>1. Ratchet!Init => RatchetInv
    BY RatchetInit
<1>2. RatchetInv /\ [Ratchet!Next]_Ratchet!vars => RatchetInv'
    BY RatchetStep
<1>3. RatchetInv /\ [Ratchet!Next]_Ratchet!vars => [Holds]_Ratchet!vars
    BY RatchetStep DEF RatchetInv
<1>4. QED
    BY <1>1, <1>2, <1>3, PTL DEF Ratchet!Spec, Ratchet!NoSilentReturn

-----------------------------------------------------------------------------
(* The coverage check.                                                        *)
(* What is expected of a section is what the source declares.                 *)
LEMMA ExpectedIsHeaded ==
    ASSUME NEW d
    PROVE  Coverage!expected_items(d) = Coverage!Headed(d)
<1> DEFINE M == Coverage!Members(d)
           Own == IF M = << >> THEN {} ELSE {<<Coverage!Heading[d.sort], M>>}
           Return == {<<"Return Value", <<"return">>>>}
<1>1. DOMAIN Coverage!Heading = {"function", "procedure", "enum", "record"}
    BY DEF Coverage!Heading
<1>2. CASE d.sort \in DOMAIN Coverage!Heading
    <2>1. {h \in DOMAIN Coverage!Heading : h = d.sort /\ M # << >>}
              = IF M = << >> THEN {} ELSE {d.sort}
        BY <1>2
    <2>2. {<<Coverage!Heading[k], M>> : k \in {h \in DOMAIN Coverage!Heading : h = d.sort /\ M # << >>}}
              = Own
        <3> HIDE DEF M
        <3>1. QED
            BY <2>1
    <2>3. {l \in Return : d.sort = "function"} = IF d.sort = "function" THEN Return ELSE {}
        OBVIOUS
    <2>4. Coverage!Headed(d) = Own \cup IF d.sort = "function" THEN Return ELSE {}
        <3> HIDE DEF Own, Return
        <3>1. QED
            BY <2>2, <2>3 DEF Coverage!Headed, Return
    <2>5. M = IF d.sort = "record" THEN Coverage!Fields(d) ELSE d.members
        BY DEF Coverage!Members, Coverage!Fields
    <2>6. Coverage!Listing(Coverage!Heading[d.sort], M) = Own
        BY DEF Coverage!Listing
    <2>7. Coverage!expected_items(d)
              = Coverage!Listing(Coverage!Heading[d.sort], M)
                \cup IF d.sort = "function" THEN Return ELSE {}
        <3> HIDE DEF M
        <3>1. CASE d.sort = "function"
            <4>1. M = d.members /\ Coverage!Heading[d.sort] = "Parameters"
                BY <3>1, <2>5 DEF Coverage!Heading
            <4>2. QED
                BY <3>1, <4>1 DEF Coverage!expected_items
        <3>2. CASE d.sort = "procedure"
            <4>1. M = d.members /\ Coverage!Heading[d.sort] = "Parameters"
                BY <3>2, <2>5 DEF Coverage!Heading
            <4>2. QED
                BY <3>2, <4>1 DEF Coverage!expected_items
        <3>3. CASE d.sort = "enum"
            <4>1. M = d.members /\ Coverage!Heading[d.sort] = "Enumeration Literal"
                BY <3>3, <2>5 DEF Coverage!Heading
            <4>2. QED
                BY <3>3, <4>1 DEF Coverage!expected_items
        <3>4. CASE d.sort = "record"
            <4>1. M = Coverage!Fields(d) /\ Coverage!Heading[d.sort] = "Record fields"
                BY <3>4, <2>5 DEF Coverage!Heading
            <4>2. QED
                BY <3>4, <4>1 DEF Coverage!expected_items
        <3>5. QED
            BY <1>1, <1>2, <3>1, <3>2, <3>3, <3>4
    <2>8. QED
        BY <2>4, <2>6, <2>7
<1>3. CASE d.sort \notin DOMAIN Coverage!Heading
    <2>1. Coverage!Headed(d) = {}
        BY <1>1, <1>3 DEF Coverage!Headed
    <2>2. Coverage!expected_items(d) = {}
        BY <1>1, <1>3 DEF Coverage!expected_items
    <2>3. QED
        BY <2>1, <2>2
<1>4. QED
    BY <1>2, <1>3

(* A declaration without complaints: its section lists what the source does,  *)
(* and an item is missing exactly when the section does not tell it.          *)
ListedIn(s) == {<<h, Coverage!Names(s.groups[h])>> : h \in Coverage!Lists(s)}
ItemsOf(d) ==
    {<<d.name, "">>} \cup
    UNION {{<<d.name, n>> : n \in Coverage!ToSet(l[2])} : l \in Coverage!Headed(d)}
Tells(s, i) ==
    \/ i[2] = "" /\ s.documented
    \/ \E h \in Coverage!Lists(s) :
           <<i[2], TRUE>> \in Coverage!ToSet(s.groups[h])
ExceptionsTold(s) ==
    "Raised exceptions" \in DOMAIN s.groups =>
        \A e \in Coverage!ToSet(s.groups["Raised exceptions"]) : e[2]

Listed(d, s) == ListedIn(s) = Coverage!Headed(d)

LEMMA PairParts ==
    ASSUME NEW S, NEW R, NEW x \in S \X R
    PROVE  /\ x[2] \in R
           /\ x = <<x[1], x[2]>>
OBVIOUS

LEMMA ListsMeans ==
    ASSUME NEW s, NEW h
    PROVE  h \in Coverage!Lists(s) <=> /\ h \in DOMAIN s.groups
                                       /\ h # "Raised exceptions"
BY Zenon DEF Coverage!Lists

LEMMA HeadedIsPairs ==
    ASSUME NEW d, NEW l \in Coverage!Headed(d)
    PROVE  /\ l = <<l[1], l[2]>>
           /\ l[1] # "Raised exceptions"
<1>1. DOMAIN Coverage!Heading = {"function", "procedure", "enum", "record"}
    BY DEF Coverage!Heading
<1>2. \/ \E k \in DOMAIN Coverage!Heading : l = <<Coverage!Heading[k], Coverage!Members(d)>>
      \/ l = <<"Return Value", <<"return">>>>
    BY DEF Coverage!Headed
<1>3. /\ Coverage!Heading["function"] # "Raised exceptions"
      /\ Coverage!Heading["procedure"] # "Raised exceptions"
      /\ Coverage!Heading["enum"] # "Raised exceptions"
      /\ Coverage!Heading["record"] # "Raised exceptions"
    BY DEF Coverage!Heading
<1>4. ASSUME NEW k \in DOMAIN Coverage!Heading, l = <<Coverage!Heading[k], Coverage!Members(d)>>
      PROVE  /\ l = <<l[1], l[2]>>
             /\ l[1] # "Raised exceptions"
    <2>1. l[1] = Coverage!Heading[k] /\ l[2] = Coverage!Members(d)
        BY <1>4
    <2>2. QED
        BY <1>1, <1>3, <1>4, <2>1, Zenon
<1>5. ASSUME l = <<"Return Value", <<"return">>>>
      PROVE  /\ l = <<l[1], l[2]>>
             /\ l[1] # "Raised exceptions"
    <2>1. l[1] = "Return Value" /\ l[2] = <<"return">>
        BY <1>5
    <2>2. QED
        BY <1>5, <2>1
<1>6. QED
    BY <1>2, <1>4, <1>5, Zenon

LEMMA ListedWithoutComplaint ==
    ASSUME NEW d, NEW s
    PROVE  Coverage!Complaints(d, s) = {}
               <=> /\ ListedIn(s) = Coverage!Headed(d)
                   /\ ExceptionsTold(s)
<1> DEFINE H == Coverage!Headed(d)
           L == Coverage!Lists(s)
           E == {r \in IF "Raised exceptions" \in DOMAIN s.groups
                       THEN Coverage!ToSet(s.groups["Raised exceptions"]) ELSE {} : ~ r[2]}
           U == DOMAIN s.groups \ ({l[1] : l \in H} \cup {"Raised exceptions"})
           W == {k \in H : ~ Coverage!Agrees(s, k)}
<1>1. Coverage!expected_items(d) = H
    BY ExpectedIsHeaded
<1>2. Coverage!Complaints(d, s) = {} <=> U = {} /\ W = {} /\ E = {}
    <2>1. Coverage!Complaints(d, s)
              = {<<"unexpected", d.name, h>> : h \in U}
                \cup {<<"differs", d.name, l[1]>> : l \in W}
                \cup {<<"exception", d.name, e[1]>> : e \in E}
        <3> HIDE DEF H
        <3>1. QED
            BY <1>1, Zenon DEF Coverage!Complaints
    <2>2. QED
        <3> HIDE DEF U, W, E
        <3>1. QED
            BY <2>1
<1>3. E = {} <=> ExceptionsTold(s)
    BY DEF ExceptionsTold
<1>4. U = {} <=> \A h \in L : h \in {l[1] : l \in H}
    <2> HIDE DEF H
    <2>1. \A h : h \in U <=> h \in L /\ h \notin {l[1] : l \in H}
        BY ListsMeans, Zenon
    <2>2. QED
        <3> HIDE DEF U
        <3>1. QED
            BY <2>1
<1>5. ASSUME NEW k \in H
      PROVE  Coverage!Agrees(s, k) <=> k \in ListedIn(s)
    <2>1. k = <<k[1], k[2]>> /\ k[1] # "Raised exceptions"
        BY HeadedIsPairs
    <2>2. k \in ListedIn(s) <=> k[1] \in L /\ k[2] = Coverage!Names(s.groups[k[1]])
        <3>1. ASSUME k \in ListedIn(s)
              PROVE  k[1] \in L /\ k[2] = Coverage!Names(s.groups[k[1]])
            <4>1. PICK h \in L : k = <<h, Coverage!Names(s.groups[h])>>
                BY <3>1, Zenon DEF ListedIn
            <4>2. k[1] = h /\ k[2] = Coverage!Names(s.groups[h])
                BY <4>1
            <4>3. QED
                BY <4>2, Zenon
        <3>2. ASSUME k[1] \in L, k[2] = Coverage!Names(s.groups[k[1]])
              PROVE  k \in ListedIn(s)
            <4>1. k = <<k[1], Coverage!Names(s.groups[k[1]])>>
                BY <2>1, <3>2, Zenon
            <4>2. QED
                BY <3>2, <4>1, Zenon DEF ListedIn
        <3>3. QED
            BY <3>1, <3>2
    <2>3. k[1] \in L <=> k[1] \in DOMAIN s.groups
        BY <2>1, ListsMeans
    <2>4. QED
        BY <2>2, <2>3, Zenon DEF Coverage!Agrees
<1>6. W = {} <=> H \subseteq ListedIn(s)
    <2> HIDE DEF H
    <2>1. QED
        BY <1>5, Zenon
<1>7. ASSUME H \subseteq ListedIn(s)
      PROVE  (\A h \in L : h \in {l[1] : l \in H}) <=> ListedIn(s) \subseteq H
    <2> HIDE DEF H, L
    <2>1. ASSUME NEW h \in L, NEW l \in H, l[1] = h
          PROVE  l = <<h, Coverage!Names(s.groups[h])>>
        <3>1. PICK g \in L : l = <<g, Coverage!Names(s.groups[g])>>
            BY <1>7 DEF ListedIn, L
        <3>2. QED
            BY <2>1, <3>1
    <2>2. ASSUME NEW h \in L
          PROVE  h \in {l[1] : l \in H} <=> <<h, Coverage!Names(s.groups[h])>> \in H
        BY <2>1
    <2>3. QED
        BY <2>2, Zenon DEF ListedIn, L
<1>8. QED
    <2> HIDE DEF H, L, U, W, E
    <2>1. QED
        BY <1>2, <1>3, <1>4, <1>6, <1>7 DEF H

(* The entries of a listing, and the names they are told by.                  *)
LEMMA ListingIsGroup ==
    ASSUME NEW d, NEW s, Coverage!IsSection(s), ListedIn(s) = Coverage!Headed(d),
           NEW l \in Coverage!Headed(d)
    PROVE  /\ l[1] \in Coverage!Lists(s)
           /\ l[2] = Coverage!Names(s.groups[l[1]])
           /\ s.groups[l[1]] \in Seq(STRING \X BOOLEAN)
<1>1. PICK h \in Coverage!Lists(s) : l = <<h, Coverage!Names(s.groups[h])>>
    BY Zenon DEF ListedIn
<1>2. l[1] = h /\ l[2] = Coverage!Names(s.groups[h])
    BY <1>1
<1>3. h \in DOMAIN s.groups
    BY ListsMeans, Zenon
<1>4. s.groups[h] \in Seq(STRING \X BOOLEAN)
    BY <1>3, Zenon DEF Coverage!IsSection
<1>5. QED
    BY <1>2, <1>4, Zenon

LEMMA GroupIsListing ==
    ASSUME NEW d, NEW s, ListedIn(s) = Coverage!Headed(d), NEW h \in Coverage!Lists(s)
    PROVE  \E l \in Coverage!Headed(d) : l[1] = h
<1>1. <<h, Coverage!Names(s.groups[h])>> \in Coverage!Headed(d)
    BY Zenon DEF ListedIn
<1>2. QED
    BY <1>1

LEMMA CellOfGroup ==
    ASSUME NEW g \in Seq(STRING \X BOOLEAN)
    PROVE  /\ DOMAIN Coverage!Names(g) = DOMAIN g
           /\ \A m \in DOMAIN g : /\ g[m][2] \in BOOLEAN
                                  /\ g[m] = <<Coverage!Names(g)[m], g[m][2]>>
           /\ \A e : e \in Coverage!ToSet(g)
                  <=> \E m \in DOMAIN g : e = <<Coverage!Names(g)[m], g[m][2]>>
<1>1. DOMAIN Coverage!Names(g) = DOMAIN g
    BY DEF Coverage!Names
<1>2. ASSUME NEW m \in DOMAIN g
      PROVE  /\ g[m][2] \in BOOLEAN
             /\ g[m] = <<Coverage!Names(g)[m], g[m][2]>>
    <2>1. g[m] \in STRING \X BOOLEAN
        OBVIOUS
    <2>2. Coverage!Names(g)[m] = g[m][1]
        BY DEF Coverage!Names
    <2>3. g[m][2] \in BOOLEAN /\ g[m] = <<g[m][1], g[m][2]>>
        BY <2>1, PairParts, Zenon
    <2>4. QED
        BY <2>2, <2>3, Zenon
<1>3. ASSUME NEW e
      PROVE  e \in Coverage!ToSet(g)
                 <=> \E m \in DOMAIN g : e = <<Coverage!Names(g)[m], g[m][2]>>
    BY <1>2, Zenon DEF Coverage!ToSet
<1>4. QED
    BY <1>1, <1>2, <1>3

LEMMA NameIsNotEmpty ==
    ASSUME NEW d, Coverage!Distinct(d), NEW l \in Coverage!Headed(d), NEW m \in DOMAIN l[2]
    PROVE  l[2][m] # ""
<1>1. l[2][m] \in Coverage!ToSet(l[2])
    BY Zenon DEF Coverage!ToSet
<1>2. QED
    BY <1>1, Zenon DEF Coverage!Distinct

LEMMA NamesAreDistinct ==
    ASSUME NEW d, Coverage!Distinct(d),
           NEW l \in Coverage!Headed(d), NEW k \in Coverage!Headed(d),
           NEW m \in DOMAIN l[2], NEW n \in DOMAIN k[2], l[2][m] = k[2][n]
    PROVE  l = k /\ m = n
<1>1. l[2][m] \in Coverage!ToSet(l[2]) /\ k[2][n] \in Coverage!ToSet(k[2])
    BY Zenon DEF Coverage!ToSet
<1>2. l = k
    <2>1. l # k => Coverage!ToSet(l[2]) \cap Coverage!ToSet(k[2]) = {}
        BY Zenon DEF Coverage!Distinct
    <2>2. QED
        BY <1>1, <2>1
<1>3. m = n
    BY <1>2, Zenon DEF Coverage!Distinct
<1>4. QED
    BY <1>2, <1>3

LEMMA EntriesAreItems ==
    ASSUME NEW d, NEW s, Coverage!IsSection(s), Coverage!Distinct(d),
           ListedIn(s) = Coverage!Headed(d)
    PROVE  /\ {e[1] : e \in Coverage!Entries(d, s)} = ItemsOf(d)
           /\ {e[1] : e \in {f \in Coverage!Entries(d, s) : ~ f[2]}}
                  = {i \in ItemsOf(d) : ~ Tells(s, i)}
<1> DEFINE H == Coverage!Headed(d)
           Name == [l \in H |-> l[2]]
           Told == [l \in H |-> [m \in DOMAIN l[2] |-> s.groups[l[1]][m][2]]]
           Telling == {i \in ItemsOf(d) : Tells(s, i)}
<1>1. ASSUME NEW l \in H
      PROVE  /\ l[1] \in Coverage!Lists(s)
             /\ DOMAIN s.groups[l[1]] = DOMAIN l[2]
             /\ \A m \in DOMAIN l[2] : s.groups[l[1]][m][2] \in BOOLEAN
             /\ \A e : e \in Coverage!ToSet(s.groups[l[1]])
                    <=> \E m \in DOMAIN l[2] : e = <<l[2][m], s.groups[l[1]][m][2]>>
    <2>1. /\ l[1] \in Coverage!Lists(s)
          /\ l[2] = Coverage!Names(s.groups[l[1]])
          /\ s.groups[l[1]] \in Seq(STRING \X BOOLEAN)
        BY ListingIsGroup
    <2> DEFINE g == s.groups[l[1]]
    <2> HIDE DEF g
    <2>2. /\ DOMAIN Coverage!Names(g) = DOMAIN g
          /\ \A m \in DOMAIN g : g[m][2] \in BOOLEAN
          /\ \A e : e \in Coverage!ToSet(g)
                 <=> \E m \in DOMAIN g : e = <<Coverage!Names(g)[m], g[m][2]>>
        <3>1. g \in Seq(STRING \X BOOLEAN)
            BY <2>1 DEF g
        <3>2. QED
            BY <3>1, CellOfGroup, Zenon
    <2>3. QED
        BY <2>1, <2>2, Zenon DEF g
<1>2. ASSUME NEW l \in H, NEW m \in DOMAIN l[2]
      PROVE  Name[l][m] = l[2][m] /\ Told[l][m] = s.groups[l[1]][m][2]
    OBVIOUS
<1>3. \A l \in H : \A m \in DOMAIN l[2] :
          /\ Told[l][m] \in BOOLEAN
          /\ Name[l][m] # ""
    <2>1. ASSUME NEW l \in H, NEW m \in DOMAIN l[2]
          PROVE  /\ Told[l][m] \in BOOLEAN
                 /\ Name[l][m] # ""
        <3>1. l[2][m] # ""
            BY NameIsNotEmpty, Zenon
        <3>2. s.groups[l[1]][m][2] \in BOOLEAN
            BY <1>1, Zenon
        <3>3. QED
            BY <1>2, <3>1, <3>2, Zenon
    <2>2. QED
        BY <2>1, Zenon
<1>4. \A l, k \in H : \A m \in DOMAIN l[2], n \in DOMAIN k[2] :
          Name[l][m] = Name[k][n] => l = k /\ m = n
    <2>1. ASSUME NEW l \in H, NEW k \in H, NEW m \in DOMAIN l[2], NEW n \in DOMAIN k[2],
                 Name[l][m] = Name[k][n]
          PROVE  l = k /\ m = n
        <3>1. l[2][m] = k[2][n]
            BY <1>2, <2>1, Zenon
        <3>2. QED
            BY <3>1, NamesAreDistinct, Zenon
    <2>2. QED
        BY <2>1, Zenon
<1>5. ASSUME NEW x
      PROVE  x \in Coverage!Entries(d, s)
                 <=> \/ x = <<<<d.name, "">>, s.documented>>
                     \/ \E l \in H : \E m \in DOMAIN l[2] :
                            x = <<<<d.name, Name[l][m]>>, Told[l][m]>>
    <2>1. Coverage!expected_items(d) = H
        BY ExpectedIsHeaded, Zenon
    <2>2. ASSUME NEW k \in H PROVE Coverage!Agrees(s, k)
        <3>1. k[1] \in DOMAIN s.groups
            BY <1>1, ListsMeans, Zenon
        <3>2. k[2] = Coverage!Names(s.groups[k[1]])
            BY ListingIsGroup, Zenon
        <3>3. QED
            BY <3>1, <3>2, Zenon DEF Coverage!Agrees
    <2>3. {k \in H : Coverage!Agrees(s, k)} = H
        <3> HIDE DEF H
        <3>1. QED
            BY <2>2
    <2>4. Coverage!Entries(d, s)
              = {<<<<d.name, "">>, s.documented>>}
                \cup UNION {{<<<<d.name, e[1]>>, e[2]>> : e \in Coverage!ToSet(s.groups[l[1]])} : l \in H}
        <3> HIDE DEF H
        <3>1. QED
            BY <2>1, <2>3, Zenon DEF Coverage!Entries, Coverage!Item
    <2>5. ASSUME NEW l \in H
          PROVE  x \in {<<<<d.name, e[1]>>, e[2]>> : e \in Coverage!ToSet(s.groups[l[1]])}
                     <=> \E m \in DOMAIN l[2] : x = <<<<d.name, Name[l][m]>>, Told[l][m]>>
        <3>1. x \in {<<<<d.name, e[1]>>, e[2]>> : e \in Coverage!ToSet(s.groups[l[1]])}
                  <=> \E e \in Coverage!ToSet(s.groups[l[1]]) : x = <<<<d.name, e[1]>>, e[2]>>
            BY Zenon
        <3>2. ASSUME NEW m \in DOMAIN l[2], NEW e, e = <<l[2][m], s.groups[l[1]][m][2]>>
              PROVE  <<<<d.name, e[1]>>, e[2]>> = <<<<d.name, Name[l][m]>>, Told[l][m]>>
            <4>1. e[1] = l[2][m] /\ e[2] = s.groups[l[1]][m][2]
                BY <3>2
            <4>2. QED
                BY <1>2, <4>1, Zenon
        <3>3. \A e : e \in Coverage!ToSet(s.groups[l[1]])
                  <=> \E m \in DOMAIN l[2] : e = <<l[2][m], s.groups[l[1]][m][2]>>
            BY <1>1, Zenon
        <3> HIDE DEF H, Name, Told
        <3>4. ASSUME NEW e \in Coverage!ToSet(s.groups[l[1]]), x = <<<<d.name, e[1]>>, e[2]>>
              PROVE  \E m \in DOMAIN l[2] : x = <<<<d.name, Name[l][m]>>, Told[l][m]>>
            <4>1. PICK m \in DOMAIN l[2] : e = <<l[2][m], s.groups[l[1]][m][2]>>
                BY <3>3, Zenon
            <4>2. x = <<<<d.name, Name[l][m]>>, Told[l][m]>>
                BY <3>2, <3>4, <4>1, Zenon
            <4>3. QED
                BY <4>2, Zenon
        <3>5. ASSUME NEW m \in DOMAIN l[2], x = <<<<d.name, Name[l][m]>>, Told[l][m]>>
              PROVE  \E e \in Coverage!ToSet(s.groups[l[1]]) : x = <<<<d.name, e[1]>>, e[2]>>
            <4> DEFINE e == <<l[2][m], s.groups[l[1]][m][2]>>
            <4>1. e \in Coverage!ToSet(s.groups[l[1]])
                BY <3>3, Zenon
            <4>2. x = <<<<d.name, e[1]>>, e[2]>>
                <5> HIDE DEF e
                <5>1. QED
                    BY <3>2, <3>5, Zenon DEF e
            <4> HIDE DEF e
            <4>3. QED
                BY <4>1, <4>2, Zenon
        <3>6. QED
            BY <3>1, <3>4, <3>5, Zenon
    <2>6. QED
        <3> HIDE DEF H, Name, Told
        <3>1. QED
            BY <2>4, <2>5
<1>6. ASSUME NEW i
      PROVE  i \in ItemsOf(d)
                 <=> \/ i = <<d.name, "">>
                     \/ \E l \in H : \E m \in DOMAIN l[2] : i = <<d.name, Name[l][m]>>
    <2>1. ASSUME NEW l \in H
          PROVE  i \in {<<d.name, n>> : n \in Coverage!ToSet(l[2])}
                     <=> \E m \in DOMAIN l[2] : i = <<d.name, Name[l][m]>>
        <3>1. i \in {<<d.name, n>> : n \in Coverage!ToSet(l[2])}
                  <=> \E m \in DOMAIN l[2] : i = <<d.name, l[2][m]>>
            BY Zenon DEF Coverage!ToSet
        <3>2. QED
            BY <1>2, <3>1, Zenon
    <2> HIDE DEF H, Name
    <2>2. ItemsOf(d) = {<<d.name, "">>}
                       \cup UNION {{<<d.name, n>> : n \in Coverage!ToSet(l[2])} : l \in H}
        BY Zenon DEF ItemsOf, H
    <2>3. QED
        BY <2>1, <2>2
<1>7. \A i \in ItemsOf(d) : i \in Telling
          <=> \/ i[2] = "" /\ s.documented
              \/ \E l \in H : \E m \in DOMAIN l[2] : i[2] = Name[l][m] /\ Told[l][m]
    <2> DEFINE Says(n) == \E h \in Coverage!Lists(s) : <<n, TRUE>> \in Coverage!ToSet(s.groups[h])
               Has(n) == \E l \in H : \E m \in DOMAIN l[2] : n = Name[l][m] /\ Told[l][m]
    <2>1. ASSUME NEW n
          PROVE  Says(n) <=> Has(n)
        <3>1. ASSUME NEW l \in H
              PROVE  <<n, TRUE>> \in Coverage!ToSet(s.groups[l[1]])
                         <=> \E m \in DOMAIN l[2] : n = Name[l][m] /\ Told[l][m]
            <4>1. ASSUME NEW m \in DOMAIN l[2]
                  PROVE  <<n, TRUE>> = <<l[2][m], s.groups[l[1]][m][2]>>
                             <=> n = Name[l][m] /\ Told[l][m]
                <5>1. Told[l][m] \in BOOLEAN
                    BY <1>3, Zenon
                <5> HIDE DEF Told, Name
                <5>2. QED
                    BY <1>2, <5>1
            <4>2. QED
                BY <1>1, <4>1, Zenon
        <3>2. \A h \in Coverage!Lists(s) : \E l \in H : l[1] = h
            BY GroupIsListing, Zenon
        <3>3. \A l \in H : l[1] \in Coverage!Lists(s)
            BY <1>1, Zenon
        <3> HIDE DEF H, Name, Told
        <3>4. QED
            BY <3>1, <3>2, <3>3, Zenon
    <2>2. ASSUME NEW i \in ItemsOf(d)
          PROVE  i \in Telling
                     <=> \/ i[2] = "" /\ s.documented
                         \/ \E l \in H : \E m \in DOMAIN l[2] : i[2] = Name[l][m] /\ Told[l][m]
        <3>1. i \in Telling <=> Tells(s, i)
            BY Zenon
        <3>2. Says(i[2]) <=> Has(i[2])
            <4> HIDE DEF Says, Has
            <4>1. QED
                BY <2>1
        <3> HIDE DEF H, Name, Told, Telling
        <3>3. QED
            BY <3>1, <3>2, Zenon DEF Tells
    <2>3. QED
        BY <2>2, Zenon
<1>8. s.documented \in BOOLEAN
    BY Zenon DEF Coverage!IsSection
<1>9. /\ {e[1] : e \in Coverage!Entries(d, s)} = ItemsOf(d)
      /\ {e[1] : e \in {f \in Coverage!Entries(d, s) : ~ f[2]}}
             = {i \in ItemsOf(d) : i \notin Telling}
    <2> DEFINE Entries == Coverage!Entries(d, s)
               Items == ItemsOf(d)
               me == d.name
               none == ""
               own == s.documented
    <2>6. Telling \subseteq Items
        OBVIOUS
    <2> HIDE DEF H, Name, Told, Telling, Entries, Items, me, none, own
    <2>7. \A x : x \in Entries
               <=> \/ x = <<<<me, none>>, own>>
                   \/ \E l \in H : \E m \in DOMAIN l[2] : x = <<<<me, Name[l][m]>>, Told[l][m]>>
        BY <1>5, Zenon DEF Entries, me, none, own
    <2>8. \A i : i \in Items
               <=> \/ i = <<me, none>>
                   \/ \E l \in H : \E m \in DOMAIN l[2] : i = <<me, Name[l][m]>>
        BY <1>6, Zenon DEF Items, me, none
    <2>9. \A i \in Items : i \in Telling
               <=> \/ i[2] = none /\ own
                   \/ \E l \in H : \E m \in DOMAIN l[2] : i[2] = Name[l][m] /\ Told[l][m]
        BY <1>7, Zenon DEF Items, none, own
    <2>10. /\ own \in BOOLEAN
           /\ \A l \in H : \A m \in DOMAIN l[2] : Told[l][m] \in BOOLEAN /\ Name[l][m] # none
        BY <1>3, <1>8, Zenon DEF own, none
    <2>1. ASSUME NEW e \in Entries
          PROVE  /\ e[1] \in Items
                 /\ ~ e[2] => e[1] \notin Telling
        <3>1. CASE e = <<<<me, none>>, own>>
            <4>1. e[1] = <<me, none>> /\ e[2] = own /\ e[1][2] = none
                BY <3>1
            <4>2. QED
                BY <4>1, <1>4, <2>8, <2>9, <2>10
        <3>2. ASSUME NEW l \in H, NEW m \in DOMAIN l[2], e = <<<<me, Name[l][m]>>, Told[l][m]>>
              PROVE  /\ e[1] \in Items
                     /\ ~ e[2] => e[1] \notin Telling
            <4>1. e[1] = <<me, Name[l][m]>> /\ e[2] = Told[l][m] /\ e[1][2] = Name[l][m]
                BY <3>2
            <4>2. QED
                BY <4>1, <1>4, <2>8, <2>9, <2>10
        <3>3. QED
            BY <2>7, <3>1, <3>2
    <2>2. ASSUME NEW i \in Items
          PROVE  /\ \E e \in Entries : e[1] = i
                 /\ i \notin Telling => \E e \in Entries : e[1] = i /\ ~ e[2]
        <3>1. CASE i = <<me, none>>
            <4> DEFINE e == <<i, own>>
            <4>1. e \in Entries
                BY <2>7, <3>1
            <4>2. e[1] = i /\ e[2] = own /\ i[2] = none
                BY <3>1
            <4>3. own => i \in Telling
                BY <2>9, <4>2
            <4>4. QED
                BY <2>10, <4>1, <4>2, <4>3, Zenon
        <3>2. ASSUME NEW l \in H, NEW m \in DOMAIN l[2], i = <<me, Name[l][m]>>
              PROVE  /\ \E e \in Entries : e[1] = i
                     /\ i \notin Telling => \E e \in Entries : e[1] = i /\ ~ e[2]
            <4> DEFINE e == <<i, Told[l][m]>>
            <4>1. e \in Entries
                BY <2>7, <3>2
            <4>2. e[1] = i /\ e[2] = Told[l][m] /\ i[2] = Name[l][m]
                BY <3>2
            <4>3. Told[l][m] => i \in Telling
                BY <2>9, <4>2
            <4>4. QED
                BY <4>1, <4>2, <4>3, Zenon
        <3>3. QED
            BY <2>8, <3>1, <3>2
    <2>3. {e[1] : e \in Entries} = Items
        BY <2>1, <2>2
    <2>4. {e[1] : e \in {f \in Entries : ~ f[2]}} = {i \in Items : i \notin Telling}
        BY <2>1, <2>2
    <2>5. QED
        BY <2>3, <2>4, Zenon DEF Entries, Items
<1>10. {i \in ItemsOf(d) : i \notin Telling} = {i \in ItemsOf(d) : ~ Tells(s, i)}
    BY Zenon
<1>11. QED
    BY <1>9, <1>10

-----------------------------------------------------------------------------
(* The invariant of the coverage check.                                       *)
AtSection(i) == Coverage!Sections(Coverage!Lines[i])[1]
TopBefore(n) == {i \in Coverage!Top : i < n}
WantedBefore(n) ==
    {<<"package", "">>} \cup UNION {ItemsOf(Coverage!Lines[i]) : i \in TopBefore(n)}
EndOfLines == Len(Coverage!Lines) + 1
Seen == IF phase = "declarations" THEN at ELSE EndOfLines
NamedOnce(n) ==
    \A i, j \in TopBefore(n) : Coverage!Lines[i].name = Coverage!Lines[j].name => i = j

(* What is checked does not change but for the baseline.                      *)
CaseOK ==
    /\ case.lines \in Specifications /\ case.page \in PagesOf(case.lines)
    /\ case.strict \in BOOLEAN /\ case.write \in BOOLEAN
    /\ case = [lines |-> case.lines, page |-> case.page, baseline |-> case.baseline,
               strict |-> case.strict, write |-> case.write]

(* Where the check is.                                                        *)
PhaseOK ==
    /\ phase \in {"package", "declarations", "comments", "verdict",
                  "accepted", "refused", "written"}
    /\ at \in 1 .. EndOfLines
    /\ phase = "package" => at = 1
    /\ phase = "comments" => at <= Coverage!Private
    /\ phase \notin {"package", "declarations", "comments"} /\ errors = {} => at >= Coverage!Private

(* A section was recorded for a declaration that has no other.                *)
SectionsOK ==
    /\ DOMAIN byStart \subseteq Coverage!Top
    /\ \A i \in DOMAIN byStart : /\ Coverage!Single(Coverage!Lines[i])
                                 /\ byStart[i] = AtSection(i)

(* The declarations before Seen are counted; without an error each has its    *)
(* section, which lists its members, and what is missing is not written.      *)
CountedTo(n) ==
    /\ Coverage!Page.present
    /\ TopBefore(n) \subseteq DOMAIN byStart
    /\ \A i \in TopBefore(n) : Listed(Coverage!Lines[i], AtSection(i))
    /\ NamedOnce(n)
    /\ items = WantedBefore(n)
    /\ missing = {w \in items : w \notin Coverage!Written}
Counted ==
    /\ missing \subseteq items
    /\ phase = "package" => items = {} /\ errors = {}
    /\ phase # "package" /\ errors = {} => CountedTo(Seen)

(* The open block is a run of comment lines up to the present one.            *)
BlockOK ==
    /\ block \in Seq(Nat)
    /\ \A k \in 1 .. Len(block) : block[k] \in Coverage!Of("comment")
    /\ phase \in {"package", "declarations"} => block = << >>
    /\ phase = "comments" =>
           /\ Len(block) < at
           /\ \A k \in 1 .. Len(block) : block[k] = at - Len(block) + k - 1
           /\ (at - Len(block)) .. (at - 1) \subseteq Coverage!Of("comment")
           /\ at - Len(block) - 1 \notin Coverage!Of("comment")

(* The blocks that ended before the present line were attached.               *)
Attached ==
    phase \notin {"package", "declarations"} /\ errors = {} =>
        \A b \in Coverage!Blocks : b[2] + 1 < at /\ b[2] + 1 < Coverage!Private
                                       => Coverage!Belongs(b) /\ Coverage!Rendered(b)

(* Nothing is found wrong with the page of a correct GNATdoc.                 *)
NoneWrong ==
    (/\ Coverage!Faithful
     /\ \A b \in Coverage!Blocks : Coverage!Belongs(b)
     /\ NamedOnce(EndOfLines)) => errors = {}

(* The verdict.                                                               *)
Within ==
    /\ missing \subseteq case.baseline
    /\ case.strict => case.baseline \subseteq missing
Judged ==
    /\ phase = "accepted" => errors = {} /\ ~ case.write /\ Within
    /\ phase = "written" => errors = {} /\ case.baseline = missing
    /\ phase = "refused" => errors # {} \/ ~ Within

CoverageInv ==
    /\ CaseOK /\ PhaseOK /\ SectionsOK /\ Counted
    /\ BlockOK /\ Attached /\ NoneWrong /\ Judged

-----------------------------------------------------------------------------
(* A set of naturals that is not empty has a least element.                   *)
NatLT == {p \in Nat \X Nat : p[1] < p[2]}

LEMMA LeastNatural ==
    ASSUME NEW S \in SUBSET Nat, S # {}
    PROVE  \E m \in S : \A n \in S : m <= n
<1>1. IsWellFoundedOn(NatLT, Nat)
    BY NatLessThanWellFounded, Zenon DEF OpToRel, NatLT
<1>2. PICK m \in S : \A n \in S : ~ (<<n, m>> \in NatLT)
    BY <1>1, WFMin
<1>3. ASSUME NEW n \in S PROVE m <= n
    <2>1. n \in Nat /\ m \in Nat
        OBVIOUS
    <2>2. <<n, m>> \in NatLT <=> n < m
        BY <2>1 DEF NatLT
    <2>3. QED
        BY <1>2, <2>1, <2>2
<1>4. QED
    BY <1>3

(* What the assumptions say of the specification and the page.                *)
LEMMA CheckedCase ==
    ASSUME Coverage!CoverageAssumption, CaseOK
    PROVE  /\ Coverage!Lines \in Seq(Coverage!LineType)
           /\ \A i \in DOMAIN Coverage!Lines : Coverage!Distinct(Coverage!Lines[i])
           /\ Coverage!IsPage(Coverage!Page)
<1>1. case.lines \in Specifications /\ case.page \in PagesOf(case.lines)
    BY DEF CaseOK
<1>2. ASSUME NEW l \in Specifications
      PROVE  /\ l \in Seq(Coverage!LineType)
             /\ \A i \in DOMAIN l : Coverage!Distinct(l[i])
             /\ \A p \in PagesOf(l) : Coverage!IsPage(p)
    BY DEF Coverage!CoverageAssumption
<1>3. QED
    BY <1>1, <1>2, Zenon DEF Coverage!Lines, Coverage!Page

LEMMA Layout ==
    ASSUME Coverage!Lines \in Seq(Coverage!LineType)
    PROVE  /\ Len(Coverage!Lines) \in Nat
           /\ DOMAIN Coverage!Lines = 1 .. Len(Coverage!Lines)
           /\ Coverage!Private \in 1 .. EndOfLines
           /\ Coverage!Top = {i \in 1 .. Len(Coverage!Lines) :
                                  Coverage!Lines[i].kind = "decl" /\ i < Coverage!Private}
           /\ \A i \in DOMAIN Coverage!Lines : Coverage!Lines[i].kind \in Coverage!Kinds
<1> DEFINE L == Coverage!Lines
           S == Coverage!Of("private")
<1>1. Len(L) \in Nat /\ DOMAIN L = 1 .. Len(L)
    OBVIOUS
<1>2. S \subseteq 1 .. Len(L)
    BY <1>1 DEF Coverage!Of
<1>3. Coverage!Private \in 1 .. EndOfLines
    <2>1. Coverage!Private = IF S = {} THEN Len(L) + 1 ELSE CHOOSE i \in S : \A j \in S : i <= j
        BY Zenon DEF Coverage!Private, Coverage!First
    <2>2. CASE S = {}
        BY <1>1, <2>1, <2>2 DEF EndOfLines
    <2>3. CASE S # {}
        <3> HIDE DEF S
        <3>1. S \in SUBSET Nat
            BY <1>1, <1>2
        <3>2. \E i \in S : \A j \in S : i <= j
            BY <2>3, <3>1, LeastNatural
        <3>3. Coverage!Private \in S
            BY <2>1, <2>3, <3>2
        <3>4. QED
            BY <1>1, <1>2, <3>3 DEF EndOfLines
    <2>4. QED
        BY <2>2, <2>3
<1>4. Coverage!Top = {i \in 1 .. Len(L) : L[i].kind = "decl" /\ i < Coverage!Private}
    BY <1>1, Zenon DEF Coverage!Top, Coverage!Of
<1>5. ASSUME NEW i \in DOMAIN L PROVE L[i].kind \in Coverage!Kinds
    <2>1. L[i] \in Coverage!LineType
        OBVIOUS
    <2>2. QED
        BY <2>1 DEF Coverage!LineType
<1>6. QED
    BY <1>1, <1>3, <1>4, <1>5

(* Every step leaves what is checked as it is.                                *)
LEMMA CaseStays ==
    ASSUME [Coverage!Next]_Coverage!vars, CaseOK
    PROVE  /\ Coverage!Lines' = Coverage!Lines
           /\ Coverage!Page' = Coverage!Page
           /\ CaseOK'
<1>1. /\ case'.lines = case.lines /\ case'.page = case.page
      /\ case'.strict = case.strict /\ case'.write = case.write
      /\ case' = [lines |-> case'.lines, page |-> case'.page, baseline |-> case'.baseline,
                  strict |-> case'.strict, write |-> case'.write]
    <2>1. CASE UNCHANGED case
        BY <2>1, Zenon DEF CaseOK
    <2>2. CASE case' = [case EXCEPT !.baseline = missing]
        BY <2>2 DEF CaseOK
    <2>3. UNCHANGED case \/ case' = [case EXCEPT !.baseline = missing]
        BY DEF Coverage!Next, Coverage!vars, Coverage!NoPage, Coverage!Description, Coverage!Skip,
               Coverage!Declaration, Coverage!Declared, Coverage!Comment, Coverage!Other,
               Coverage!Commented, Coverage!Main
    <2>4. QED
        BY <2>1, <2>2, <2>3
<1>2. QED
    BY <1>1, Zenon DEF CaseOK, Coverage!Lines, Coverage!Page

(* The properties' words for it, by the operators of this section.            *)
ToldBy(sections, w) == \E s \in Coverage!ToSet(sections) : Tells(s, w)
Holds(sections, b) == \E s \in Coverage!ToSet(sections) : b[1] .. b[2] \subseteq s.text
Right(d, s) == Listed(d, s) /\ ExceptionsTold(s)

LEMMA WantedIs ==
    Coverage!Wanted = {<<"package", "">>} \cup UNION {ItemsOf(Coverage!Lines[i]) : i \in Coverage!Top}
BY Zenon DEF Coverage!Wanted, ItemsOf

LEMMA WrittenIs ==
    Coverage!Written =
        {w \in Coverage!Wanted :
            \/ w = <<"package", "">> /\ Coverage!Page.description # {}
            \/ ToldBy(Coverage!Sections([name |-> w[1]]), w)}
BY Zenon DEF Coverage!Written, ToldBy, Tells

LEMMA RenderedIs ==
    \A b : Coverage!Rendered(b)
        <=> IF Coverage!Leading(b[1], b[2]) \/ Coverage!Opening(b[1], b[2])
            THEN b[1] .. b[2] \subseteq Coverage!Page.description
            ELSE Holds(Coverage!Sections(Coverage!Lines[b[2] + 1]), b)
BY Zenon DEF Coverage!Rendered, Holds

LEMMA FaithfulIs ==
    Coverage!Faithful
        <=> /\ Coverage!Page.present
            /\ \A b \in Coverage!Blocks : Coverage!Belongs(b) => Coverage!Rendered(b)
            /\ \A i \in Coverage!Top : /\ Coverage!Single(Coverage!Lines[i])
                                       /\ Right(Coverage!Lines[i], AtSection(i))
BY Zenon DEF Coverage!Faithful, Right, AtSection, Listed, ListedIn, ExceptionsTold

LEMMA ConstantsStay ==
    ASSUME Coverage!Lines' = Coverage!Lines, Coverage!Page' = Coverage!Page
    PROVE  /\ EndOfLines' = EndOfLines
           /\ Coverage!Private' = Coverage!Private /\ Coverage!Top' = Coverage!Top
           /\ \A i : AtSection(i)' = AtSection(i)
           /\ \A d : Coverage!Sections(d)' = Coverage!Sections(d)
           /\ \A d : Coverage!Single(d)' = Coverage!Single(d)
           /\ \A n : TopBefore(n)' = TopBefore(n) /\ WantedBefore(n)' = WantedBefore(n)
           /\ \A n : NamedOnce(n)' = NamedOnce(n)
           /\ \A kind : Coverage!Of(kind)' = Coverage!Of(kind)
           /\ Coverage!Written' = Coverage!Written /\ Coverage!Blocks' = Coverage!Blocks
           /\ Coverage!Faithful' = Coverage!Faithful
           /\ \A b : /\ Coverage!Belongs(b)' = Coverage!Belongs(b)
                     /\ Coverage!Rendered(b)' = Coverage!Rendered(b)
<1>1. \A kind : Coverage!Of(kind)' = Coverage!Of(kind)
    BY Zenon DEF Coverage!Of
<1>2. EndOfLines' = EndOfLines
    BY Zenon DEF EndOfLines
<1>3. Coverage!Private' = Coverage!Private
    <2>1. Coverage!Private = Coverage!First(Coverage!Of("private"), Len(Coverage!Lines) + 1)
        BY Zenon DEF Coverage!Private
    <2>2. Coverage!Private' = Coverage!First(Coverage!Of("private")', Len(Coverage!Lines') + 1)
        BY Zenon DEF Coverage!Private
    <2>3. QED
        BY <1>1, <2>1, <2>2, Zenon
<1>4. Coverage!Top' = Coverage!Top
    BY <1>1, <1>3, Zenon DEF Coverage!Top
<1>5. ASSUME NEW d
      PROVE  /\ Coverage!Sections(d)' = Coverage!Sections(d)
             /\ Coverage!Single(d)' = Coverage!Single(d)
    BY Zenon DEF Coverage!Sections, Coverage!Single
<1>6. ASSUME NEW i PROVE AtSection(i)' = AtSection(i)
    BY <1>5, Zenon DEF AtSection
<1>7. ASSUME NEW n
      PROVE  /\ TopBefore(n)' = TopBefore(n)
             /\ WantedBefore(n)' = WantedBefore(n)
             /\ NamedOnce(n)' = NamedOnce(n)
    <2>1. TopBefore(n)' = TopBefore(n)
        BY <1>4, Zenon DEF TopBefore
    <2>2. WantedBefore(n)' = WantedBefore(n)
        BY <2>1, Zenon DEF WantedBefore
    <2>3. NamedOnce(n)' = NamedOnce(n)
        BY <2>1, Zenon DEF NamedOnce
    <2>4. QED
        BY <2>1, <2>2, <2>3
<1>8. Coverage!Wanted' = Coverage!Wanted
    <2>1. (Coverage!Wanted = {<<"package", "">>}
               \cup UNION {ItemsOf(Coverage!Lines[i]) : i \in Coverage!Top})'
        BY WantedIs, PTL
    <2>2. QED
        BY <1>4, <2>1, WantedIs, Zenon
<1>9. Coverage!Written' = Coverage!Written
    <2>1. (Coverage!Written =
               {w \in Coverage!Wanted :
                   \/ w = <<"package", "">> /\ Coverage!Page.description # {}
                   \/ ToldBy(Coverage!Sections([name |-> w[1]]), w)})'
        BY WrittenIs, PTL
    <2>2. QED
        <3>1. \A w : ToldBy(Coverage!Sections([name |-> w[1]]), w)'
                         <=> ToldBy(Coverage!Sections([name |-> w[1]]), w)
            BY <1>5, Zenon DEF ToldBy
        <3>2. QED
            BY <1>8, <2>1, <3>1, WrittenIs
<1>10. Coverage!Header' = Coverage!Header
    <2>1. Coverage!Header = Coverage!First(Coverage!Of("package"), 0)
        BY Zenon DEF Coverage!Header
    <2>2. Coverage!Header' = Coverage!First(Coverage!Of("package")', 0)
        BY Zenon DEF Coverage!Header
    <2>3. QED
        BY <1>1, <2>1, <2>2, Zenon
<1>11. \A i, j : Coverage!Blank(i, j)' = Coverage!Blank(i, j)
    BY Zenon DEF Coverage!Blank
<1>12. \A i, j : /\ Coverage!Leading(i, j)' = Coverage!Leading(i, j)
                 /\ Coverage!Opening(i, j)' = Coverage!Opening(i, j)
    BY <1>10, <1>11, Zenon DEF Coverage!Leading, Coverage!Opening
<1>13. Coverage!Blocks' = Coverage!Blocks
    BY <1>1, <1>3, Zenon DEF Coverage!Blocks
<1>14. /\ \A b : Coverage!Belongs(b)' = Coverage!Belongs(b)
       /\ \A b : Coverage!Rendered(b)' = Coverage!Rendered(b)
    <2>1. (\A b : Coverage!Rendered(b)
               <=> IF Coverage!Leading(b[1], b[2]) \/ Coverage!Opening(b[1], b[2])
                   THEN b[1] .. b[2] \subseteq Coverage!Page.description
                   ELSE Holds(Coverage!Sections(Coverage!Lines[b[2] + 1]), b))'
        BY RenderedIs, PTL
    <2>2. \A b : Coverage!Rendered(b)' = Coverage!Rendered(b)
        BY <1>5, <1>12, <2>1, RenderedIs, Zenon
    <2>3. \A b : Coverage!Belongs(b)' = Coverage!Belongs(b)
        BY <1>4, <1>12, Zenon DEF Coverage!Belongs
    <2>4. QED
        BY <2>2, <2>3
<1>15. Coverage!Faithful' = Coverage!Faithful
    <2>1. (Coverage!Faithful
               <=> /\ Coverage!Page.present
                   /\ \A b \in Coverage!Blocks : Coverage!Belongs(b) => Coverage!Rendered(b)
                   /\ \A i \in Coverage!Top : /\ Coverage!Single(Coverage!Lines[i])
                                              /\ Right(Coverage!Lines[i], AtSection(i)))'
        BY FaithfulIs, PTL
    <2>2. QED
        BY <1>4, <1>5, <1>6, <1>13, <1>14, <2>1, FaithfulIs, Zenon
<1>16. QED
    BY <1>1, <1>2, <1>3, <1>4, <1>5, <1>6, <1>7, <1>9, <1>13, <1>14, <1>15, Zenon

-----------------------------------------------------------------------------
(* What counting a declaration does.                                          *)
LEMMA OneSection ==
    ASSUME Coverage!IsPage(Coverage!Page), NEW d, Coverage!Single(d)
    PROVE  /\ Coverage!IsSection(Coverage!Sections(d)[1])
           /\ Coverage!ToSet(Coverage!Sections(d)) = {Coverage!Sections(d)[1]}
<1> DEFINE Q == Coverage!Sections(d)
<1>1. Len(Q) = 1
    BY Zenon DEF Coverage!Single
<1>2. d.name \in DOMAIN Coverage!Page.sections /\ Q = Coverage!Page.sections[d.name]
    <2>1. CASE d.name \notin DOMAIN Coverage!Page.sections
        <3>1. Q = << >>
            BY <2>1, Zenon DEF Coverage!Sections
        <3>2. QED
            BY <1>1, <3>1
    <2>2. QED
        BY <2>1, Zenon DEF Coverage!Sections
<1>3. Q \in Seq(Coverage!ToSet(Q)) /\ \A s \in Coverage!ToSet(Q) : Coverage!IsSection(s)
    BY <1>2, Zenon DEF Coverage!IsPage
<1> HIDE DEF Q
<1>4. DOMAIN Q = {1}
    BY <1>1, <1>3
<1>5. Coverage!ToSet(Q) = {Q[1]}
    BY <1>4, Zenon DEF Coverage!ToSet
<1>6. QED
    BY <1>3, <1>5, Zenon DEF Q

LEMMA ItemsOfNames ==
    ASSUME NEW d
    PROVE  /\ <<d.name, "">> \in ItemsOf(d)
           /\ \A w \in ItemsOf(d) : w[1] = d.name /\ w = <<d.name, w[2]>>
<1>1. <<d.name, "">> \in ItemsOf(d)
    BY Zenon DEF ItemsOf
<1>2. ASSUME NEW w \in ItemsOf(d) PROVE w[1] = d.name /\ w = <<d.name, w[2]>>
    <2>1. \E n : w = <<d.name, n>>
        BY Zenon DEF ItemsOf
    <2>2. QED
        BY <2>1
<1>3. QED
    BY <1>1, <1>2

LEMMA PackageItem ==
    ASSUME NEW w, w[1] # "package"
    PROVE  w # <<"package", "">>
<1>1. <<"package", "">>[1] = "package"
    OBVIOUS
<1>2. QED
    BY <1>1, Zenon

LEMMA WrittenByName ==
    ASSUME Coverage!IsPage(Coverage!Page), NEW i \in Coverage!Top,
           Coverage!Distinct(Coverage!Lines[i]), Coverage!Single(Coverage!Lines[i]),
           NEW w \in ItemsOf(Coverage!Lines[i])
    PROVE  w \in Coverage!Written <=> Tells(AtSection(i), w)
<1> DEFINE d == Coverage!Lines[i]
<1>1. w \in Coverage!Wanted
    BY WantedIs
<1>2. w[1] = d.name
    BY ItemsOfNames, Zenon
<1>3. d.name # "package"
    BY Zenon DEF Coverage!Distinct
<1>4. w # <<"package", "">>
    BY <1>2, <1>3, PackageItem, Zenon
<1>5. Coverage!Sections([name |-> w[1]]) = Coverage!Sections(d)
    <2>1. [name |-> w[1]].name = d.name
        BY <1>2
    <2>2. QED
        BY <2>1, Zenon DEF Coverage!Sections
<1>6. Coverage!ToSet(Coverage!Sections(d)) = {AtSection(i)}
    BY OneSection, Zenon DEF AtSection
<1>7. ToldBy(Coverage!Sections([name |-> w[1]]), w) <=> Tells(AtSection(i), w)
    BY <1>5, <1>6, Zenon DEF ToldBy
<1>8. QED
    BY <1>1, <1>4, <1>7, WrittenIs, Zenon

LEMMA PackageWritten ==
    ASSUME Coverage!IsPage(Coverage!Page)
    PROVE  <<"package", "">> \in Coverage!Written <=> Coverage!Page.description # {}
<1> DEFINE w == <<"package", "">>
<1>1. w \in Coverage!Wanted
    BY WantedIs
<1>2. [name |-> w[1]].name = "package"
    OBVIOUS
<1>3. Coverage!Sections([name |-> w[1]]) = << >>
    BY <1>2, Zenon DEF Coverage!Sections, Coverage!IsPage
<1>4. Coverage!ToSet(<< >>) = {}
    BY DEF Coverage!ToSet
<1>5. ~ ToldBy(Coverage!Sections([name |-> w[1]]), w)
    BY <1>3, <1>4, Zenon DEF ToldBy
<1>6. QED
    <2> HIDE DEF w
    <2>1. w \in Coverage!Written <=> w = <<"package", "">> /\ Coverage!Page.description # {}
        BY <1>1, <1>5, WrittenIs, Zenon
    <2>2. QED
        BY <2>1, Zenon DEF w

LEMMA BeforeNext ==
    ASSUME Coverage!Lines \in Seq(Coverage!LineType), NEW i \in 1 .. Len(Coverage!Lines)
    PROVE  /\ TopBefore(i + 1) = TopBefore(i) \cup IF i \in Coverage!Top THEN {i} ELSE {}
           /\ WantedBefore(i + 1)
                  = WantedBefore(i) \cup IF i \in Coverage!Top THEN ItemsOf(Coverage!Lines[i]) ELSE {}
           /\ i \notin TopBefore(i)
           /\ TopBefore(1) = {}
           /\ TopBefore(EndOfLines) = Coverage!Top
<1>1. Coverage!Top \subseteq 1 .. Len(Coverage!Lines) /\ Len(Coverage!Lines) \in Nat
    BY Layout, Zenon
<1>2. TopBefore(i + 1) = TopBefore(i) \cup IF i \in Coverage!Top THEN {i} ELSE {}
    <2>1. ASSUME NEW j
          PROVE  j \in TopBefore(i + 1) <=> j \in TopBefore(i) \/ (j = i /\ i \in Coverage!Top)
        <3>1. j \in Coverage!Top => j \in Int
            BY <1>1
        <3>2. j \in Int => (j < i + 1 <=> j < i \/ j = i)
            OBVIOUS
        <3>3. ~ (i < i)
            OBVIOUS
        <3>4. QED
            BY <3>1, <3>2, <3>3, Zenon DEF TopBefore
    <2>2. QED
        BY <2>1
<1>3. i \notin TopBefore(i) /\ TopBefore(1) = {} /\ TopBefore(EndOfLines) = Coverage!Top
    <2>1. ASSUME NEW j \in Coverage!Top PROVE ~ (j < 1) /\ j < Len(Coverage!Lines) + 1
        BY <1>1
    <2>2. ~ (i < i)
        OBVIOUS
    <2>3. QED
        BY <2>1, <2>2, Zenon DEF TopBefore, EndOfLines
<1>4. WantedBefore(i + 1)
          = WantedBefore(i) \cup IF i \in Coverage!Top THEN ItemsOf(Coverage!Lines[i]) ELSE {}
    <2>1. CASE i \in Coverage!Top
        <3>1. TopBefore(i + 1) = TopBefore(i) \cup {i}
            BY <1>2, <2>1
        <3>2. QED
            BY <2>1, <3>1 DEF WantedBefore
    <2>2. CASE i \notin Coverage!Top
        <3>1. TopBefore(i + 1) = TopBefore(i)
            BY <1>2, <2>2
        <3>2. QED
            BY <2>2, <3>1 DEF WantedBefore
    <2>3. QED
        BY <2>1, <2>2
<1>5. QED
    BY <1>2, <1>3, <1>4

LEMMA CountedBefore ==
    ASSUME NEW i \in Coverage!Top, Coverage!Distinct(Coverage!Lines[i])
    PROVE  ItemsOf(Coverage!Lines[i]) \cap WantedBefore(i) = {}
               <=> \A j \in TopBefore(i) : Coverage!Lines[j].name # Coverage!Lines[i].name
<1> DEFINE d == Coverage!Lines[i]
<1>1. d.name # "package"
    BY Zenon DEF Coverage!Distinct
<1>2. ASSUME NEW w \in ItemsOf(d), w \in WantedBefore(i)
      PROVE  \E j \in TopBefore(i) : Coverage!Lines[j].name = d.name
    <2>1. w[1] = d.name
        BY ItemsOfNames, Zenon
    <2>2. w # <<"package", "">>
        BY <1>1, <2>1, PackageItem, Zenon
    <2>3. PICK j \in TopBefore(i) : w \in ItemsOf(Coverage!Lines[j])
        BY <1>2, <2>2 DEF WantedBefore
    <2>4. w[1] = Coverage!Lines[j].name
        BY <2>3, ItemsOfNames, Zenon
    <2>5. QED
        BY <2>1, <2>4
<1>3. ASSUME NEW j \in TopBefore(i), Coverage!Lines[j].name = d.name
      PROVE  <<d.name, "">> \in ItemsOf(d) \cap WantedBefore(i)
    <2>1. <<d.name, "">> \in ItemsOf(Coverage!Lines[j])
        BY <1>3, ItemsOfNames, Zenon
    <2>2. <<d.name, "">> \in ItemsOf(d)
        BY ItemsOfNames, Zenon
    <2>3. <<d.name, "">> \in WantedBefore(i)
        BY <2>1 DEF WantedBefore
    <2>4. QED
        BY <2>2, <2>3
<1>4. QED
    BY <1>2, <1>3, Zenon

-----------------------------------------------------------------------------
(* Each part of the invariant is preserved.                                   *)
LEMMA CoverageContext ==
    ASSUME Coverage!CoverageAssumption, CaseOK, [Coverage!Next]_Coverage!vars
    PROVE  /\ Coverage!Lines \in Seq(Coverage!LineType)
           /\ \A i \in DOMAIN Coverage!Lines : Coverage!Distinct(Coverage!Lines[i])
           /\ Coverage!IsPage(Coverage!Page)
           /\ Coverage!Lines' = Coverage!Lines /\ Coverage!Page' = Coverage!Page
           /\ EndOfLines' = EndOfLines /\ EndOfLines = Len(Coverage!Lines) + 1
           /\ Len(Coverage!Lines) \in Nat
           /\ DOMAIN Coverage!Lines = 1 .. Len(Coverage!Lines)
           /\ Coverage!Private' = Coverage!Private /\ Coverage!Private \in 1 .. EndOfLines
           /\ Coverage!Top' = Coverage!Top /\ Coverage!Top \subseteq 1 .. Len(Coverage!Lines)
<1>1. /\ Coverage!Lines \in Seq(Coverage!LineType)
      /\ \A i \in DOMAIN Coverage!Lines : Coverage!Distinct(Coverage!Lines[i])
      /\ Coverage!IsPage(Coverage!Page)
    BY CheckedCase
<1>2. Coverage!Lines' = Coverage!Lines /\ Coverage!Page' = Coverage!Page
    BY CaseStays
<1>3. /\ EndOfLines' = EndOfLines /\ Coverage!Private' = Coverage!Private
      /\ Coverage!Top' = Coverage!Top
    BY <1>2, ConstantsStay
<1>4. /\ Len(Coverage!Lines) \in Nat
      /\ DOMAIN Coverage!Lines = 1 .. Len(Coverage!Lines)
      /\ Coverage!Private \in 1 .. EndOfLines
      /\ Coverage!Top \subseteq 1 .. Len(Coverage!Lines)
    BY <1>1, Layout, Zenon
<1>5. EndOfLines = Len(Coverage!Lines) + 1
    BY DEF EndOfLines
<1>6. QED
    BY <1>1, <1>2, <1>3, <1>4, <1>5

LEMMA PhaseStep ==
    ASSUME Coverage!CoverageAssumption, CaseOK, PhaseOK, [Coverage!Next]_Coverage!vars
    PROVE  PhaseOK'
<1> DEFINE n == Len(Coverage!Lines)
           top == Coverage!Top
           private == Coverage!Private
<1>1. /\ n \in Nat /\ EndOfLines' = n + 1 /\ EndOfLines = n + 1
      /\ private' = private /\ private \in 1 .. n + 1
      /\ top \subseteq 1 .. n
    BY CoverageContext
<1> HIDE DEF n, top, private
<1>2. /\ phase \in {"package", "declarations", "comments", "verdict",
                    "accepted", "refused", "written"}
      /\ at \in 1 .. n + 1
      /\ phase = "package" => at = 1
      /\ phase = "comments" => at <= private
      /\ phase \notin {"package", "declarations", "comments"} /\ errors = {} => at >= private
    BY <1>1 DEF PhaseOK, private
<1>3. SUFFICES /\ phase' \in {"package", "declarations", "comments", "verdict",
                              "accepted", "refused", "written"}
               /\ at' \in 1 .. n + 1
               /\ phase' = "package" => at' = 1
               /\ phase' = "comments" => at' <= private
               /\ phase' \notin {"package", "declarations", "comments"} /\ errors' = {} => at' >= private
    BY <1>1 DEF PhaseOK, private
<1>4. CASE Coverage!NoPage
    BY <1>1, <1>2, <1>4 DEF Coverage!NoPage
<1>5. CASE Coverage!Description
    BY <1>1, <1>2, <1>5 DEF Coverage!Description
<1>6. CASE Coverage!Skip
    BY <1>1, <1>2, <1>6 DEF Coverage!Skip, n
<1>7. CASE Coverage!Declaration
    BY <1>1, <1>2, <1>7 DEF Coverage!Declaration, top
<1>8. CASE Coverage!Declared
    BY <1>1, <1>2, <1>8 DEF Coverage!Declared
<1>9. CASE Coverage!Comment
    BY <1>1, <1>2, <1>9 DEF Coverage!Comment, private
<1>10. CASE Coverage!Other
    BY <1>1, <1>2, <1>10 DEF Coverage!Other, private
<1>11. CASE Coverage!Commented
    BY <1>1, <1>2, <1>11 DEF Coverage!Commented, private
<1>12. CASE Coverage!Main
    BY <1>1, <1>2, <1>12 DEF Coverage!Main, Coverage!Verdict
<1>13. CASE UNCHANGED Coverage!vars
    BY <1>2, <1>13 DEF Coverage!vars
<1>14. QED
    BY <1>4, <1>5, <1>6, <1>7, <1>8, <1>9, <1>10, <1>11, <1>12, <1>13 DEF Coverage!Next

LEMMA SectionsStep ==
    ASSUME Coverage!CoverageAssumption, CaseOK, SectionsOK, [Coverage!Next]_Coverage!vars
    PROVE  SectionsOK'
<1>1. /\ Coverage!Top' = Coverage!Top
      /\ \A i : AtSection(i)' = AtSection(i)
      /\ \A i : Coverage!Single(Coverage!Lines[i])' = Coverage!Single(Coverage!Lines[i])
    BY CaseStays, ConstantsStay, Zenon
<1>2. CASE UNCHANGED byStart
    BY <1>1, <1>2, Zenon DEF SectionsOK
<1>3. ASSUME ~ UNCHANGED byStart, Coverage!Declaration
      PROVE  SectionsOK'
    <2>1. /\ at \in Coverage!Top /\ Coverage!Single(Coverage!Lines[at])
          /\ byStart' = [i \in DOMAIN byStart \cup {at} |->
                             IF i = at THEN AtSection(at) ELSE byStart[i]]
        BY <1>3, Zenon DEF Coverage!Declaration, AtSection
    <2>2. DOMAIN byStart' \subseteq Coverage!Top
        BY <2>1 DEF SectionsOK
    <2>3. ASSUME NEW i \in DOMAIN byStart'
          PROVE  Coverage!Single(Coverage!Lines[i]) /\ byStart'[i] = AtSection(i)
        BY <2>1 DEF SectionsOK
    <2>4. QED
        BY <1>1, <2>2, <2>3, Zenon DEF SectionsOK
<1>4. UNCHANGED byStart \/ Coverage!Declaration
    BY DEF Coverage!Next, Coverage!vars, Coverage!NoPage, Coverage!Description, Coverage!Skip,
           Coverage!Declared, Coverage!Comment, Coverage!Other, Coverage!Commented, Coverage!Main
<1>5. QED
    BY <1>2, <1>3, <1>4

LEMMA BlockStep ==
    ASSUME Coverage!CoverageAssumption, CaseOK, PhaseOK, BlockOK, [Coverage!Next]_Coverage!vars
    PROVE  BlockOK'
<1> DEFINE n == Len(Coverage!Lines)
           comments == Coverage!Of("comment")
           private == Coverage!Private
<1>1. /\ n \in Nat /\ EndOfLines = n + 1 /\ private \in 1 .. n + 1
    BY CoverageContext
<1>2. comments' = comments
    BY CaseStays, ConstantsStay
<1>3. \A i : i \in comments <=> i \in 1 .. n /\ Coverage!Lines[i].kind = "comment"
    BY CoverageContext, Zenon DEF Coverage!Of
<1>4. at \in 1 .. n + 1
    BY <1>1 DEF PhaseOK
<1>5. /\ block \in Seq(Nat)
      /\ \A k \in 1 .. Len(block) : block[k] \in comments
      /\ phase \in {"package", "declarations"} => block = << >>
      /\ phase = "comments" =>
             /\ Len(block) < at
             /\ \A k \in 1 .. Len(block) : block[k] = at - Len(block) + k - 1
             /\ (at - Len(block)) .. (at - 1) \subseteq comments
             /\ at - Len(block) - 1 \notin comments
    BY Zenon DEF BlockOK
<1> HIDE DEF n, comments, private
<1>6. SUFFICES /\ block' \in Seq(Nat)
               /\ \A k \in 1 .. Len(block') : block'[k] \in comments
               /\ phase' \in {"package", "declarations"} => block' = << >>
               /\ phase' = "comments" =>
                      /\ Len(block') < at'
                      /\ \A k \in 1 .. Len(block') : block'[k] = at' - Len(block') + k - 1
                      /\ (at' - Len(block')) .. (at' - 1) \subseteq comments
                      /\ at' - Len(block') - 1 \notin comments
    BY <1>2, Zenon DEF BlockOK, comments
<1>7. CASE Coverage!Comment
    <2>1. /\ phase = "comments" /\ phase' = "comments" /\ at < private /\ at' = at + 1
          /\ Coverage!Lines[at].kind = "comment"
          /\ block' = Append(block, at)
        BY <1>7, Zenon DEF Coverage!Comment, private
    <2>2. at \in 1 .. n
        BY <1>1, <1>4, <2>1
    <2>3. at \in comments
        BY <1>3, <2>1, <2>2
    <2>4. block' \in Seq(Nat) /\ Len(block') = Len(block) + 1 /\ Len(block) \in Nat
        BY <1>5, <2>1, <2>2
    <2>5. ASSUME NEW k \in 1 .. Len(block')
          PROVE  block'[k] = IF k = Len(block) + 1 THEN at ELSE block[k]
        BY <1>5, <2>1, <2>4
    <2>6. ASSUME NEW k \in 1 .. Len(block')
          PROVE  block'[k] \in comments /\ block'[k] = at' - Len(block') + k - 1
        <3>1. CASE k = Len(block) + 1
            <4>1. at' - Len(block') + k - 1 = at
                BY <2>1, <2>2, <2>4, <3>1
            <4>2. QED
                BY <2>3, <2>5, <3>1, <4>1, Zenon
        <3>2. CASE k # Len(block) + 1
            <4>1. k \in 1 .. Len(block)
                BY <2>4, <3>2
            <4>2. at' - Len(block') + k - 1 = at - Len(block) + k - 1
                BY <2>1, <2>2, <2>4, <4>1
            <4>3. block'[k] = block[k]
                BY <2>5, <3>2, Zenon
            <4>4. QED
                BY <1>5, <2>1, <4>1, <4>2, <4>3, Zenon
        <3>3. QED
            BY <3>1, <3>2
    <2>8. (at' - Len(block')) .. (at' - 1) \subseteq comments
        BY <1>5, <2>1, <2>2, <2>3, <2>4
    <2>9. Len(block') < at' /\ at' - Len(block') - 1 \notin comments
        <3>1. at' - Len(block') - 1 = at - Len(block) - 1
            BY <2>1, <2>2, <2>4
        <3>2. QED
            BY <1>5, <2>1, <2>2, <2>4, <3>1
    <2>10. QED
        BY <2>1, <2>4, <2>6, <2>8, <2>9
<1>8. ASSUME block' = << >>, at' \in 1 .. n + 1, phase' = "comments" => at' - 1 \notin comments
      PROVE  /\ block' \in Seq(Nat)
             /\ \A k \in 1 .. Len(block') : block'[k] \in comments
             /\ phase' \in {"package", "declarations"} => block' = << >>
             /\ phase' = "comments" =>
                    /\ Len(block') < at'
                    /\ \A k \in 1 .. Len(block') : block'[k] = at' - Len(block') + k - 1
                    /\ (at' - Len(block')) .. (at' - 1) \subseteq comments
                    /\ at' - Len(block') - 1 \notin comments
    <2>1. Len(block') = 0 /\ block' \in Seq(Nat)
        BY <1>8
    <2>2. at' - Len(block') = at' /\ at' .. (at' - 1) = {}
        <3>1. ASSUME NEW x \in Int PROVE x - 0 = x /\ x .. (x - 1) = {}
            OBVIOUS
        <3>2. at' \in Int
            BY <1>1, <1>8
        <3>3. QED
            BY <2>1, <3>1, <3>2, Zenon
    <2>3. 1 .. Len(block') = {}
        BY <2>1
    <2>4. Len(block') < at'
        BY <1>1, <1>8, <2>1
    <2>5. QED
        BY <1>8, <2>1, <2>2, <2>3, <2>4, Zenon
<1>9. CASE Coverage!Other
    <2>1. /\ phase = "comments" /\ phase' = "comments" /\ at < private /\ at' = at + 1
          /\ Coverage!Lines[at].kind # "comment"
          /\ block' = << >>
        BY <1>9, Zenon DEF Coverage!Other, private
    <2>2. at \in 1 .. n
        BY <1>1, <1>4, <2>1
    <2>3. at' - 1 = at /\ at \notin comments
        BY <1>3, <2>1, <2>2
    <2>4. QED
        BY <1>1, <1>8, <2>1, <2>2, <2>3
<1>10. CASE Coverage!Declared
    <2>1. phase = "declarations" /\ phase' = "comments" /\ at' = 1 /\ block' = block
        BY <1>10, Zenon DEF Coverage!Declared
    <2>2. block' = << >>
        BY <1>5, <2>1
    <2>3. at' - 1 \notin comments
        BY <1>1, <1>3, <2>1
    <2>4. QED
        BY <1>1, <1>8, <2>1, <2>2, <2>3
<1>11. CASE UNCHANGED <<block, at, phase>>
    BY <1>5, <1>11
<1>12. ASSUME UNCHANGED block, phase' # "comments", phase' \in {"package", "declarations"} => block = << >>
       PROVE  /\ block' \in Seq(Nat)
              /\ \A k \in 1 .. Len(block') : block'[k] \in comments
              /\ phase' \in {"package", "declarations"} => block' = << >>
    BY <1>5, <1>12
<1>13. CASE Coverage!NoPage \/ Coverage!Description \/ Coverage!Skip \/ Coverage!Declaration
    BY <1>5, <1>12, <1>13 DEF Coverage!NoPage, Coverage!Description, Coverage!Skip, Coverage!Declaration
<1>14. CASE Coverage!Commented
    BY <1>5, <1>12, <1>14 DEF Coverage!Commented
<1>15. CASE Coverage!Main
    BY <1>5, <1>12, <1>15 DEF Coverage!Main, Coverage!Verdict
<1>16. QED
    BY <1>7, <1>9, <1>10, <1>11, <1>13, <1>14, <1>15 DEF Coverage!Next, Coverage!vars

LEMMA SeenPrimed ==
    ASSUME Coverage!Lines' = Coverage!Lines, Coverage!Top' = Coverage!Top, NEW m, Seen' = m
    PROVE  /\ TopBefore(Seen)' = TopBefore(m)
           /\ WantedBefore(Seen)' = WantedBefore(m)
           /\ NamedOnce(Seen)' = NamedOnce(m)
<1>1. TopBefore(Seen)' = TopBefore(m)
    BY Zenon DEF TopBefore
<1>2. WantedBefore(Seen)' = WantedBefore(m)
    BY <1>1 DEF WantedBefore
<1>3. NamedOnce(Seen)' = NamedOnce(m)
    BY <1>1, Zenon DEF NamedOnce
<1>4. QED
    BY <1>1, <1>2, <1>3

LEMMA CountedToPrimed ==
    ASSUME Coverage!Lines' = Coverage!Lines, Coverage!Page' = Coverage!Page,
           NEW m, Seen' = m,
           Coverage!Page.present,
           TopBefore(m) \subseteq DOMAIN byStart',
           \A i \in TopBefore(m) : Listed(Coverage!Lines[i], AtSection(i)),
           NamedOnce(m),
           items' = WantedBefore(m),
           missing' = {w \in items' : w \notin Coverage!Written}
    PROVE  CountedTo(Seen)'
<1>1. /\ Coverage!Top' = Coverage!Top
      /\ \A i : AtSection(i)' = AtSection(i)
      /\ Coverage!Written' = Coverage!Written
    BY ConstantsStay, Zenon
<1>2. /\ TopBefore(Seen)' = TopBefore(m)
      /\ WantedBefore(Seen)' = WantedBefore(m)
      /\ NamedOnce(Seen)' = NamedOnce(m)
    BY <1>1, SeenPrimed
<1>3. \A i : Listed(Coverage!Lines[i], AtSection(i))' <=> Listed(Coverage!Lines[i], AtSection(i))
    BY <1>1, Zenon DEF Listed
<1>4. QED
    BY <1>1, <1>2, <1>3, Zenon DEF CountedTo

LEMMA CountedDeclaration ==
    ASSUME Coverage!Lines \in Seq(Coverage!LineType), Coverage!IsPage(Coverage!Page),
           \A i \in DOMAIN Coverage!Lines : Coverage!Distinct(Coverage!Lines[i]),
           at \in Coverage!Top, Coverage!Single(Coverage!Lines[at]),
           CountedTo(at), SectionsOK,
           NEW entries, entries = Coverage!Entries(Coverage!Lines[at], AtSection(at)),
           byStart' = [i \in DOMAIN byStart \cup {at} |->
                           IF i = at THEN AtSection(at) ELSE byStart[i]],
           Coverage!Record(entries),
           Coverage!Complaints(Coverage!Lines[at], AtSection(at)) = {},
           Coverage!Duplicates(entries) = {}
    PROVE  /\ TopBefore(at + 1) \subseteq DOMAIN byStart'
           /\ \A i \in TopBefore(at + 1) : Listed(Coverage!Lines[i], AtSection(i))
           /\ NamedOnce(at + 1)
           /\ items' = WantedBefore(at + 1)
           /\ missing' = {w \in items' : w \notin Coverage!Written}
<1> DEFINE d == Coverage!Lines[at]
           s == AtSection(at)
           E == {e[1] : e \in entries}
           M == {e[1] : e \in {f \in entries : ~ f[2]}}
<1>1. at \in 1 .. Len(Coverage!Lines) /\ at \in DOMAIN Coverage!Lines
    BY Layout
<1>2. Coverage!Distinct(d) /\ Coverage!IsSection(s)
    BY <1>1, OneSection, Zenon DEF AtSection
<1>3. ListedIn(s) = Coverage!Headed(d)
    BY ListedWithoutComplaint, Zenon
<1>4. E = ItemsOf(d) /\ M = {i \in ItemsOf(d) : ~ Tells(s, i)}
    BY <1>2, <1>3, EntriesAreItems, Zenon
<1>5. M = {w \in ItemsOf(d) : w \notin Coverage!Written}
    <2>1. \A w \in ItemsOf(d) : w \in Coverage!Written <=> Tells(s, w)
        BY <1>2, WrittenByName, Zenon
    <2>2. QED
        BY <1>4, <2>1, Zenon
<1>6. /\ TopBefore(at + 1) = TopBefore(at) \cup {at}
      /\ WantedBefore(at + 1) = WantedBefore(at) \cup ItemsOf(d)
    BY <1>1, BeforeNext
<1>7. items' = items \cup E /\ missing' = missing \cup M
    BY Zenon DEF Coverage!Record
<1>8. E \cap items = {}
    <2>1. {<<"duplicate", i[1], i[2]>> : i \in E \cap items} = {}
        BY Zenon DEF Coverage!Duplicates
    <2> HIDE DEF E
    <2>2. QED
        BY <2>1
<1> HIDE DEF d, s, E, M
<1>9. items = WantedBefore(at) /\ missing = {w \in items : w \notin Coverage!Written}
    BY Zenon DEF CountedTo
<1>10. items' = WantedBefore(at + 1)
    BY <1>4, <1>6, <1>7, <1>9, Zenon
<1>11. missing' = {w \in items' : w \notin Coverage!Written}
    BY <1>4, <1>5, <1>7, <1>9
<1>12. ASSUME NEW j \in TopBefore(at) PROVE Coverage!Lines[j].name # Coverage!Lines[at].name
    <2>1. ItemsOf(d) \cap WantedBefore(at) = {}
        BY <1>4, <1>8, <1>9
    <2>2. QED
        BY <1>2, <2>1, CountedBefore, Zenon DEF d
<1>13. NamedOnce(at + 1)
    <2>1. NamedOnce(at)
        BY Zenon DEF CountedTo
    <2>2. QED
        BY <1>6, <1>12, <2>1 DEF NamedOnce
<1>14. TopBefore(at + 1) \subseteq DOMAIN byStart'
    <2>1. TopBefore(at) \subseteq DOMAIN byStart
        BY Zenon DEF CountedTo
    <2>2. QED
        BY <1>6, <2>1
<1>15. \A i \in TopBefore(at + 1) : Listed(Coverage!Lines[i], AtSection(i))
    <2>1. \A i \in TopBefore(at) : Listed(Coverage!Lines[i], AtSection(i))
        BY Zenon DEF CountedTo
    <2>2. Listed(Coverage!Lines[at], AtSection(at))
        BY <1>3, Zenon DEF Listed, d, s
    <2>3. QED
        BY <1>6, <2>1, <2>2
<1>16. QED
    BY <1>10, <1>11, <1>13, <1>14, <1>15

LEMMA CountedStep ==
    ASSUME Coverage!CoverageAssumption, CaseOK, PhaseOK, SectionsOK, Counted,
           [Coverage!Next]_Coverage!vars
    PROVE  Counted'
<1> DEFINE n == Len(Coverage!Lines)
<1>1. /\ Coverage!Lines \in Seq(Coverage!LineType)
      /\ \A i \in DOMAIN Coverage!Lines : Coverage!Distinct(Coverage!Lines[i])
      /\ Coverage!IsPage(Coverage!Page)
      /\ Coverage!Lines' = Coverage!Lines /\ Coverage!Page' = Coverage!Page
      /\ EndOfLines' = EndOfLines /\ EndOfLines = n + 1 /\ n \in Nat
      /\ Coverage!Top' = Coverage!Top /\ Coverage!Top \subseteq 1 .. n
    BY CoverageContext
<1>2. at \in 1 .. n + 1
    BY <1>1 DEF PhaseOK
<1> HIDE DEF n
<1>3. ASSUME UNCHANGED <<items, missing, byStart>>, errors' = {} => errors = {},
             phase # "package", phase' # "package",
             TopBefore(Seen) = TopBefore(Seen'), WantedBefore(Seen) = WantedBefore(Seen')
      PROVE  Counted'
    <2>1. missing' \subseteq items'
        BY <1>3 DEF Counted
    <2>2. ASSUME errors' = {} PROVE CountedTo(Seen)'
        <3> DEFINE m == Seen'
        <3>1. CountedTo(Seen)
            BY <1>3, <2>2 DEF Counted
        <3>2. NamedOnce(m)
            BY <1>3, <3>1, Zenon DEF CountedTo, NamedOnce
        <3>3. QED
            <4>1. /\ Coverage!Page.present
                  /\ TopBefore(m) \subseteq DOMAIN byStart'
                  /\ \A i \in TopBefore(m) : Listed(Coverage!Lines[i], AtSection(i))
                  /\ items' = WantedBefore(m)
                  /\ missing' = {w \in items' : w \notin Coverage!Written}
                BY <1>3, <3>1, Zenon DEF CountedTo
            <4> HIDE DEF m
            <4>2. Seen' = m
                BY DEF m
            <4>3. QED
                BY <1>1, <3>2, <4>1, <4>2, CountedToPrimed
    <2>3. QED
        BY <1>3, <2>1, <2>2 DEF Counted
<1>4. CASE Coverage!NoPage
    <2>1. errors' # {} /\ phase' = "verdict" /\ UNCHANGED <<items, missing>>
        BY <1>4 DEF Coverage!NoPage
    <2>2. QED
        BY <2>1 DEF Counted
<1>5. CASE Coverage!Description
    <2> DEFINE w == <<"package", "">>
               entry == <<w, Coverage!Page.description # {}>>
    <2>1. /\ phase = "package" /\ phase' = "declarations" /\ Coverage!Page.present
          /\ at' = at /\ errors' = errors /\ byStart' = byStart
          /\ Coverage!Record({entry})
        BY <1>5, Zenon DEF Coverage!Description, Coverage!Item
    <2>2. at = 1 /\ items = {} /\ errors = {} /\ missing = {}
        BY <2>1 DEF PhaseOK, Counted
    <2>3. TopBefore(1) = {} /\ WantedBefore(1) = {w} /\ NamedOnce(1)
        <3>1. TopBefore(1) = {}
            <4>1. \A j \in Coverage!Top : ~ (j < 1)
                BY <1>1
            <4>2. QED
                BY <4>1, Zenon DEF TopBefore
        <3>2. QED
            BY <3>1 DEF WantedBefore, NamedOnce
    <2>4. entry[1] = w /\ (entry[2] <=> Coverage!Page.description # {})
        OBVIOUS
    <2> HIDE DEF entry
    <2>5. items' = {w}
        BY <2>1, <2>2, <2>4 DEF Coverage!Record
    <2>6. missing' = IF Coverage!Page.description # {} THEN {} ELSE {w}
        <3>1. missing' = {e[1] : e \in {f \in {entry} : ~ f[2]}}
            BY <2>1, <2>2 DEF Coverage!Record
        <3>2. CASE Coverage!Page.description # {}
            <4>1. {f \in {entry} : ~ f[2]} = {}
                BY <2>4, <3>2, Zenon
            <4>2. QED
                BY <3>1, <3>2, <4>1
        <3>3. CASE Coverage!Page.description = {}
            <4>1. {f \in {entry} : ~ f[2]} = {entry}
                BY <2>4, <3>3, Zenon
            <4>2. QED
                BY <2>4, <3>1, <3>3, <4>1
        <3>4. QED
            BY <3>2, <3>3
    <2>7. w \in Coverage!Written <=> Coverage!Page.description # {}
        BY <1>1, PackageWritten, Zenon
    <2> HIDE DEF w
    <2>8. missing' = {x \in items' : x \notin Coverage!Written}
        BY <2>5, <2>6, <2>7
    <2>9. Seen' = 1
        BY <2>1, <2>2 DEF Seen
    <2>10. CountedTo(Seen)'
        BY <1>1, <2>1, <2>3, <2>5, <2>8, <2>9, CountedToPrimed
    <2>11. QED
        BY <2>1, <2>8, <2>10 DEF Counted
<1>6. CASE Coverage!Skip
    <2>1. /\ phase = "declarations" /\ phase' = "declarations" /\ at' = at + 1
          /\ at \notin Coverage!Top /\ at <= n
          /\ UNCHANGED <<byStart, items, missing, errors>>
        BY <1>6 DEF Coverage!Skip, n
    <2>2. Seen = at /\ Seen' = at + 1
        BY <2>1 DEF Seen
    <2>3. TopBefore(at + 1) = TopBefore(at) /\ WantedBefore(at + 1) = WantedBefore(at)
        <3>1. at \in 1 .. Len(Coverage!Lines)
            BY <1>2, <2>1 DEF n
        <3>2. QED
            BY <1>1, <2>1, <3>1, BeforeNext
    <2>4. QED
        BY <1>3, <2>1, <2>2, <2>3
<1>7. CASE Coverage!Declaration
    <2> DEFINE d == Coverage!Lines[at]
               s == AtSection(at)
               entries == Coverage!Entries(d, s)
    <2>1. /\ phase = "declarations" /\ phase' = "declarations" /\ at' = at + 1
          /\ at \in Coverage!Top
          /\ IF ~ Coverage!Single(d)
             THEN /\ errors' = errors \cup {<<"sections", d.name>>}
                  /\ UNCHANGED <<byStart, items, missing>>
             ELSE /\ byStart' = [i \in DOMAIN byStart \cup {at} |->
                                     IF i = at THEN s ELSE byStart[i]]
                  /\ Coverage!Record(entries)
                  /\ errors' = errors \cup Coverage!Complaints(d, s)
                                      \cup Coverage!Duplicates(entries)
        BY <1>7, Zenon DEF Coverage!Declaration, AtSection
    <2>2. CASE ~ Coverage!Single(d)
        <3>1. errors' # {} /\ UNCHANGED <<items, missing>>
            BY <2>1, <2>2
        <3>2. QED
            BY <2>1, <3>1 DEF Counted
    <2>3. CASE Coverage!Single(d)
        <3> HIDE DEF d, s, entries
        <3>1. /\ byStart' = [i \in DOMAIN byStart \cup {at} |->
                                 IF i = at THEN s ELSE byStart[i]]
              /\ Coverage!Record(entries)
              /\ errors' = errors \cup Coverage!Complaints(d, s)
                                  \cup Coverage!Duplicates(entries)
            BY <2>1, <2>3
        <3>2. missing' \subseteq items'
            <4>1. missing \subseteq items
                BY DEF Counted
            <4>2. QED
                BY <3>1, <4>1 DEF Coverage!Record
        <3>3. ASSUME errors' = {} PROVE CountedTo(Seen)'
            <4>1. /\ errors = {} /\ Coverage!Complaints(d, s) = {}
                  /\ Coverage!Duplicates(entries) = {}
                BY <3>1, <3>3
            <4>2. Seen = at /\ Seen' = at + 1
                BY <2>1 DEF Seen
            <4>3. CountedTo(at)
                BY <2>1, <4>1, <4>2 DEF Counted
            <4>4. /\ TopBefore(at + 1) \subseteq DOMAIN byStart'
                  /\ \A i \in TopBefore(at + 1) : Listed(Coverage!Lines[i], AtSection(i))
                  /\ NamedOnce(at + 1)
                  /\ items' = WantedBefore(at + 1)
                  /\ missing' = {w \in items' : w \notin Coverage!Written}
                <5>1. entries = Coverage!Entries(Coverage!Lines[at], AtSection(at))
                    BY DEF entries, d, s
                <5>2. QED
                    BY <1>1, <2>1, <2>3, <3>1, <4>1, <4>3, <5>1, CountedDeclaration, Zenon DEF d, s
            <4>5. Coverage!Page.present
                BY <4>3 DEF CountedTo
            <4>6. QED
                BY <1>1, <4>2, <4>4, <4>5, CountedToPrimed
        <3>4. QED
            BY <2>1, <3>2, <3>3 DEF Counted
    <2>4. QED
        BY <2>2, <2>3
<1>8. CASE Coverage!Declared
    <2>1. /\ phase = "declarations" /\ phase' = "comments" /\ at > n
          /\ UNCHANGED <<byStart, items, missing, errors>>
        BY <1>8 DEF Coverage!Declared, n
    <2>2. Seen' = Seen
        BY <1>1, <1>2, <2>1 DEF Seen
    <2>3. QED
        BY <1>3, <2>1, <2>2
<1>9. ASSUME UNCHANGED <<items, missing, byStart>>, errors' = {} => errors = {},
             phase \in {"comments", "verdict"}, phase' \notin {"package", "declarations"}
      PROVE  Counted'
    <2>1. Seen' = Seen
        BY <1>1, <1>9 DEF Seen
    <2>2. QED
        BY <1>3, <1>9, <2>1
<1>10. CASE Coverage!Comment \/ Coverage!Other \/ Coverage!Commented
    <2>1. /\ UNCHANGED <<items, missing, byStart>> /\ phase = "comments"
          /\ phase' \in {"comments", "verdict"}
        BY <1>10 DEF Coverage!Comment, Coverage!Other, Coverage!Commented
    <2>2. errors' = {} => errors = {}
        BY <1>10 DEF Coverage!Comment, Coverage!Other, Coverage!Commented
    <2>3. QED
        BY <1>9, <2>1, <2>2
<1>11. CASE Coverage!Main
    <2>1. UNCHANGED <<items, missing, byStart, errors>> /\ phase = "verdict" /\ phase' = Coverage!Verdict
        BY <1>11 DEF Coverage!Main
    <2>2. Coverage!Verdict \in {"refused", "written", "accepted"}
        BY <1>11 DEF Coverage!Verdict, CaseOK
    <2>3. QED
        BY <1>9, <2>1, <2>2
<1>12. CASE UNCHANGED Coverage!vars
    <2>1. UNCHANGED <<items, missing, byStart, errors, phase, at>>
        BY <1>12 DEF Coverage!vars
    <2>2. Seen' = Seen
        BY <1>1, <2>1 DEF Seen
    <2>3. CASE phase = "package"
        BY <2>1, <2>3 DEF Counted
    <2>4. CASE phase # "package"
        BY <1>3, <2>1, <2>2, <2>4
    <2>5. QED
        BY <2>3, <2>4
<1>13. QED
    BY <1>4, <1>5, <1>6, <1>7, <1>8, <1>10, <1>11, <1>12 DEF Coverage!Next

(* A run of comments that ends is a block, and is attached where it belongs.  *)
LEMMA BlockMeans ==
    ASSUME NEW b
    PROVE  b \in Coverage!Blocks
               <=> /\ b \in (1 .. Coverage!Private - 1) \X (1 .. Coverage!Private - 1)
                   /\ b[1] <= b[2]
                   /\ b[1] .. b[2] \subseteq Coverage!Of("comment")
                   /\ b[1] - 1 \notin Coverage!Of("comment")
                   /\ b[2] + 1 \notin Coverage!Of("comment")
BY Zenon DEF Coverage!Blocks

LEMMA RunIsBlock ==
    ASSUME Coverage!Private \in Int, at \in Nat \ {0}, at < Coverage!Private,
           at \notin Coverage!Of("comment"),
           block \in Seq(Nat), Len(block) < at,
           \A k \in 1 .. Len(block) : block[k] = at - Len(block) + k - 1,
           (at - Len(block)) .. (at - 1) \subseteq Coverage!Of("comment"),
           at - Len(block) - 1 \notin Coverage!Of("comment")
    PROVE  /\ block # << >> => /\ <<block[1], block[Len(block)]>> \in Coverage!Blocks
                               /\ block[Len(block)] + 1 = at
           /\ \A b \in Coverage!Blocks :
                  b[2] + 1 = at => block # << >> /\ b = <<block[1], block[Len(block)]>>
<1> DEFINE comments == Coverage!Of("comment")
           private == Coverage!Private
           n == Len(block)
           e == at - 1
           s == at - n
<1>1. n \in Nat /\ (block # << >> <=> n > 0)
    OBVIOUS
<1>2. n > 0 => block[1] = s /\ block[n] = e
    BY <1>1
<1>3. s \in Nat /\ e \in Nat /\ s >= 1 /\ e + 1 = at
    BY <1>1
<1>4. s .. e \subseteq comments /\ s - 1 \notin comments /\ e + 1 \notin comments
    BY <1>1, <1>3, Zenon
<1>5. e \in 1 .. private - 1 \/ n = 0
    BY <1>1
<1> HIDE DEF comments, private, n, e, s
<1>6. ASSUME n > 0 PROVE <<s, e>> \in Coverage!Blocks
    <2>1. s <= e
        BY <1>1, <1>6 DEF s, e
    <2>2. <<s, e>> \in (1 .. private - 1) \X (1 .. private - 1)
        BY <1>1, <1>3, <1>5, <1>6, <2>1 DEF private
    <2>3. <<s, e>>[1] = s /\ <<s, e>>[2] = e
        OBVIOUS
    <2>4. QED
        BY <1>4, <2>1, <2>2, <2>3, BlockMeans, Zenon DEF comments, private
<1>7. ASSUME NEW b \in Coverage!Blocks, b[2] + 1 = at
      PROVE  n > 0 /\ b = <<s, e>>
    <2>1. /\ b \in (1 .. private - 1) \X (1 .. private - 1)
          /\ b[1] <= b[2]
          /\ b[1] .. b[2] \subseteq comments
          /\ b[1] - 1 \notin comments
        BY BlockMeans, Zenon DEF comments, private
    <2>2. b = <<b[1], b[2]>> /\ b[1] \in Nat /\ b[1] >= 1 /\ b[2] \in Nat
        BY <2>1 DEF private
    <2>3. b[2] = e
        BY <1>7, <2>2 DEF e
    <2>4. n > 0
        <3>1. SUFFICES ASSUME n = 0 PROVE FALSE
            BY <1>1
        <3>2. s - 1 = e
            BY <3>1 DEF s, e
        <3>3. e \in b[1] .. b[2]
            BY <2>1, <2>2, <2>3
        <3>4. QED
            BY <1>4, <2>1, <3>2, <3>3
    <2>5. ~ (b[1] < s)
        <3>1. SUFFICES ASSUME b[1] < s PROVE FALSE
            OBVIOUS
        <3>2. s - 1 \in b[1] .. b[2]
            BY <1>1, <1>3, <2>2, <2>3, <2>4, <3>1 DEF s, e
        <3>3. QED
            BY <1>4, <2>1, <3>2
    <2>6. ~ (b[1] > s)
        <3>1. SUFFICES ASSUME b[1] > s PROVE FALSE
            OBVIOUS
        <3>2. b[1] - 1 \in s .. e
            BY <1>3, <2>1, <2>2, <2>3, <3>1
        <3>3. QED
            BY <1>4, <2>1, <3>2
    <2>7. b[1] = s
        BY <1>3, <2>2, <2>5, <2>6
    <2>8. QED
        BY <2>2, <2>3, <2>4, <2>7
<1>8. n > 0 => <<block[1], block[n]>> = <<s, e>>
    BY <1>2
<1>9. QED
    BY <1>1, <1>2, <1>3, <1>6, <1>7, <1>8, Zenon DEF n

LEMMA AttachedBelongs ==
    ASSUME Coverage!IsPage(Coverage!Page), SectionsOK, Coverage!Top \subseteq DOMAIN byStart,
           NEW i, NEW j
    PROVE  Coverage!Attach(i, j) = {}
               <=> Coverage!Belongs(<<i, j>>) /\ Coverage!Rendered(<<i, j>>)
<1> DEFINE b == <<i, j>>
           described == Coverage!Leading(i, j) \/ Coverage!Opening(i, j)
<1>1. b[1] = i /\ b[2] = j
    OBVIOUS
<1>2. /\ Coverage!Belongs(b) <=> described \/ j + 1 \in Coverage!Top
      /\ Coverage!Rendered(b) <=> IF described THEN i .. j \subseteq Coverage!Page.description
                                  ELSE Holds(Coverage!Sections(Coverage!Lines[j + 1]), b)
    <2> HIDE DEF b
    <2>1. QED
        BY <1>1, RenderedIs, Zenon DEF Coverage!Belongs
<1>3. ASSUME j + 1 \in Coverage!Top
      PROVE  /\ j + 1 \in DOMAIN byStart
             /\ Holds(Coverage!Sections(Coverage!Lines[j + 1]), b)
                    <=> i .. j \subseteq byStart[j + 1].text
    <2>1. j + 1 \in DOMAIN byStart
        BY <1>3
    <2>2. /\ byStart[j + 1] = AtSection(j + 1)
          /\ Coverage!Single(Coverage!Lines[j + 1])
        BY <2>1, Zenon DEF SectionsOK
    <2>3. Coverage!ToSet(Coverage!Sections(Coverage!Lines[j + 1])) = {AtSection(j + 1)}
        BY <2>2, OneSection, Zenon DEF AtSection
    <2> HIDE DEF b
    <2>4. QED
        BY <1>1, <2>1, <2>2, <2>3, Zenon DEF Holds
<1> HIDE DEF b
<1>4. CASE described
    <2>1. Coverage!Attach(i, j) = IF i .. j \subseteq Coverage!Page.description THEN {}
                                  ELSE {<<"does not render", i>>}
        BY <1>4, Zenon DEF Coverage!Attach
    <2>2. QED
        BY <1>2, <1>4, <2>1 DEF b
<1>5. CASE ~ described /\ j + 1 \in Coverage!Top
    <2>1. Coverage!Attach(i, j) = IF i .. j \subseteq byStart[j + 1].text THEN {}
                                  ELSE {<<"does not render", i>>}
        BY <1>3, <1>5, Zenon DEF Coverage!Attach
    <2>2. QED
        BY <1>2, <1>3, <1>5, <2>1 DEF b
<1>6. CASE ~ described /\ j + 1 \notin Coverage!Top
    <2>1. Coverage!Attach(i, j) = {<<"detached", i>>}
        BY <1>6, Zenon DEF Coverage!Attach
    <2>2. QED
        BY <1>2, <1>6, <2>1 DEF b
<1>7. QED
    BY <1>4, <1>5, <1>6

LEMMA AttachedStep ==
    ASSUME Coverage!CoverageAssumption, CaseOK, PhaseOK, SectionsOK, Counted, BlockOK, Attached,
           [Coverage!Next]_Coverage!vars
    PROVE  Attached'
<1> DEFINE Fine(b) == Coverage!Belongs(b) /\ Coverage!Rendered(b)
           private == Coverage!Private
           blocks == Coverage!Blocks
           comments == Coverage!Of("comment")
<1>1. /\ Coverage!Lines \in Seq(Coverage!LineType) /\ Coverage!IsPage(Coverage!Page)
      /\ Coverage!Lines' = Coverage!Lines /\ Coverage!Page' = Coverage!Page
      /\ DOMAIN Coverage!Lines = 1 .. Len(Coverage!Lines)
      /\ Len(Coverage!Lines) \in Nat /\ EndOfLines = Len(Coverage!Lines) + 1
      /\ private \in 1 .. EndOfLines
    BY CoverageContext
<1>2. /\ private' = private /\ blocks' = blocks
      /\ \A b : Coverage!Belongs(b)' = Coverage!Belongs(b)
      /\ \A b : Coverage!Rendered(b)' = Coverage!Rendered(b)
    BY <1>1, ConstantsStay, Zenon
<1>3. at \in 1 .. EndOfLines /\ private \in Int /\ at \in Int
    BY <1>1 DEF PhaseOK
<1>4. \A b \in blocks : /\ b[2] \in Int /\ b[2] + 1 >= 2
                        /\ b[2] + 1 \notin comments
    <2>1. ASSUME NEW b \in blocks
          PROVE  b[2] \in Int /\ b[2] + 1 >= 2 /\ b[2] + 1 \notin comments
        <3>1. /\ b \in (1 .. private - 1) \X (1 .. private - 1)
              /\ b[2] + 1 \notin comments
            BY BlockMeans, Zenon
        <3> HIDE DEF private, comments
        <3>2. b[2] \in 1 .. private - 1
            BY <3>1
        <3>3. QED
            BY <1>3, <3>1, <3>2
    <2>2. QED
        BY <2>1
<1>5. phase \notin {"package", "declarations"} /\ errors = {} =>
          \A b \in blocks : b[2] + 1 < at /\ b[2] + 1 < private => Fine(b)
    BY Zenon DEF Attached
<1>6. SUFFICES ASSUME phase' \notin {"package", "declarations"}, errors' = {},
                      NEW b \in blocks, b[2] + 1 < at', b[2] + 1 < private
               PROVE  Fine(b)
    <2>1. (\A b \in blocks : b[2] + 1 < at' /\ b[2] + 1 < private => Fine(b))
              => (\A b \in blocks : b[2] + 1 < at /\ b[2] + 1 < private => Fine(b))'
        BY <1>2, Zenon
    <2>2. QED
        BY <2>1, Zenon DEF Attached
<1> HIDE DEF Fine, private, blocks, comments
<1>7. CASE Coverage!Declared
    BY <1>4, <1>6, <1>7 DEF Coverage!Declared
<1>8. CASE Coverage!Comment
    <2>1. /\ phase = "comments" /\ errors = {} /\ at < private /\ at' = at + 1
          /\ Coverage!Lines[at].kind = "comment"
        BY <1>6, <1>8, Zenon DEF Coverage!Comment, private
    <2>2. at \in 1 .. Len(Coverage!Lines)
        BY <1>1, <1>3, <2>1
    <2>3. at \in comments
        BY <1>1, <2>1, <2>2, Zenon DEF comments, Coverage!Of
    <2>4. b[2] + 1 # at
        BY <1>4, <2>3
    <2>5. b[2] + 1 < at
        BY <1>3, <1>4, <1>6, <2>1, <2>4
    <2>6. QED
        BY <1>5, <1>6, <2>1, <2>5
<1>9. CASE Coverage!Other
    <2>1. /\ phase = "comments" /\ at < private /\ at' = at + 1
          /\ Coverage!Lines[at].kind # "comment"
          /\ errors' = IF block = << >> THEN errors
                       ELSE errors \cup Coverage!Attach(block[1], block[Len(block)])
        BY <1>9, Zenon DEF Coverage!Other, private
    <2>2. errors = {} /\ (block # << >> => Coverage!Attach(block[1], block[Len(block)]) = {})
        BY <1>6, <2>1
    <2>3. CASE b[2] + 1 = at
        <3>1. at \in 1 .. Len(Coverage!Lines) /\ at \in Nat \ {0}
            BY <1>1, <1>3, <2>1
        <3>2. at \notin comments
            BY <2>1, Zenon DEF comments, Coverage!Of
        <3>3. block # << >> /\ b = <<block[1], block[Len(block)]>>
            BY <1>3, <2>1, <2>3, <3>1, <3>2, RunIsBlock DEF BlockOK, comments, private, blocks
        <3>4. CountedTo(Seen) /\ Seen = EndOfLines
            BY <2>1, <2>2 DEF Counted, Seen
        <3>5. Coverage!Top \subseteq DOMAIN byStart
            <4>1. TopBefore(EndOfLines) = Coverage!Top
                BY <1>1, <3>1, BeforeNext
            <4>2. QED
                BY <3>4, <4>1 DEF CountedTo
        <3>6. QED
            BY <1>1, <2>2, <3>3, <3>5, AttachedBelongs DEF Fine
    <2>4. CASE b[2] + 1 # at
        <3>1. b[2] + 1 < at
            BY <1>3, <1>4, <1>6, <2>1, <2>4
        <3>2. QED
            BY <1>5, <1>6, <2>1, <2>2, <3>1
    <2>5. QED
        BY <2>3, <2>4
<1>10. CASE Coverage!Commented \/ Coverage!Main \/ UNCHANGED Coverage!vars
    <2>1. at' = at /\ errors' = errors /\ phase \notin {"package", "declarations"}
        BY <1>6, <1>10 DEF Coverage!Commented, Coverage!Main, Coverage!vars
    <2>2. QED
        BY <1>5, <1>6, <2>1
<1>11. CASE Coverage!NoPage
    BY <1>6, <1>11 DEF Coverage!NoPage
<1>12. CASE Coverage!Description \/ Coverage!Skip \/ Coverage!Declaration
    BY <1>6, <1>12 DEF Coverage!Description, Coverage!Skip, Coverage!Declaration
<1>13. QED
    BY <1>7, <1>8, <1>9, <1>10, <1>11, <1>12 DEF Coverage!Next

LEMMA NoneWrongStep ==
    ASSUME Coverage!CoverageAssumption, CaseOK, PhaseOK, SectionsOK, Counted, BlockOK, NoneWrong,
           [Coverage!Next]_Coverage!vars
    PROVE  NoneWrong'
<1>1. /\ Coverage!Lines \in Seq(Coverage!LineType) /\ Coverage!IsPage(Coverage!Page)
      /\ \A i \in DOMAIN Coverage!Lines : Coverage!Distinct(Coverage!Lines[i])
      /\ Coverage!Lines' = Coverage!Lines /\ Coverage!Page' = Coverage!Page
      /\ DOMAIN Coverage!Lines = 1 .. Len(Coverage!Lines)
      /\ Len(Coverage!Lines) \in Nat /\ EndOfLines = Len(Coverage!Lines) + 1
      /\ Coverage!Private \in 1 .. EndOfLines
      /\ EndOfLines' = EndOfLines /\ Coverage!Top' = Coverage!Top
      /\ Coverage!Top \subseteq 1 .. Len(Coverage!Lines)
    BY CoverageContext
<1>2. /\ Coverage!Faithful' = Coverage!Faithful /\ Coverage!Blocks' = Coverage!Blocks
      /\ \A b : Coverage!Belongs(b)' = Coverage!Belongs(b)
      /\ \A m : NamedOnce(m)' = NamedOnce(m)
    BY <1>1, ConstantsStay, Zenon
<1>3. SUFFICES ASSUME Coverage!Faithful, \A b \in Coverage!Blocks : Coverage!Belongs(b),
                      NamedOnce(EndOfLines)
               PROVE  errors' = {}
    <2>1. NamedOnce(EndOfLines)' <=> NamedOnce(EndOfLines)
        BY <1>1, Zenon DEF NamedOnce, TopBefore
    <2>2. QED
        BY <1>2, <2>1, Zenon DEF NoneWrong
<1>4. errors = {}
    BY <1>3, Zenon DEF NoneWrong
<1>5. /\ Coverage!Page.present
      /\ \A b \in Coverage!Blocks : Coverage!Belongs(b) /\ Coverage!Rendered(b)
      /\ \A i \in Coverage!Top : /\ Coverage!Single(Coverage!Lines[i])
                                 /\ Right(Coverage!Lines[i], AtSection(i))
    BY <1>3, FaithfulIs, Zenon
<1>6. CASE Coverage!NoPage
    BY <1>5, <1>6, Zenon DEF Coverage!NoPage
<1>7. CASE Coverage!Declaration
    <2> DEFINE d == Coverage!Lines[at]
               s == AtSection(at)
               entries == Coverage!Entries(d, s)
               E == {e[1] : e \in entries}
    <2>1. phase = "declarations" /\ at \in Coverage!Top /\ Coverage!Single(d)
        BY <1>5, <1>7, Zenon DEF Coverage!Declaration
    <2>2. errors' = errors \cup Coverage!Complaints(d, s) \cup Coverage!Duplicates(entries)
        BY <1>7, <2>1, Zenon DEF Coverage!Declaration, AtSection
    <2>3. Coverage!Distinct(d) /\ Coverage!IsSection(s)
        BY <1>1, <2>1, OneSection, Zenon DEF AtSection
    <2>4. ListedIn(s) = Coverage!Headed(d) /\ ExceptionsTold(s)
        BY <1>5, <2>1, Zenon DEF Right, Listed
    <2>5. Coverage!Complaints(d, s) = {}
        BY <2>4, ListedWithoutComplaint, Zenon
    <2>6. E = ItemsOf(d)
        BY <2>3, <2>4, EntriesAreItems, Zenon
    <2>7. items = WantedBefore(at)
        <3>1. CountedTo(Seen) /\ Seen = at
            BY <1>4, <2>1 DEF Counted, Seen
        <3>2. QED
            BY <3>1, Zenon DEF CountedTo
    <2>8. \A j \in TopBefore(at) : Coverage!Lines[j].name # Coverage!Lines[at].name
        <3>1. at \in 1 .. Len(Coverage!Lines)
            BY <1>1, <2>1
        <3>2. TopBefore(EndOfLines) = Coverage!Top /\ at \notin TopBefore(at)
            BY <1>1, <3>1, BeforeNext
        <3>3. TopBefore(at) \subseteq Coverage!Top
            BY DEF TopBefore
        <3>4. QED
            BY <1>3, <2>1, <3>2, <3>3, Zenon DEF NamedOnce
    <2>9. ItemsOf(d) \cap WantedBefore(at) = {}
        BY <2>1, <2>3, <2>8, CountedBefore, Zenon
    <2>10. E \cap items = {}
        BY <2>6, <2>7, <2>9, Zenon
    <2>11. Coverage!Duplicates(entries) = {}
        <3>1. Coverage!Duplicates(entries) = {<<"duplicate", i[1], i[2]>> : i \in E \cap items}
            BY Zenon DEF Coverage!Duplicates
        <3> HIDE DEF E
        <3>2. QED
            BY <2>10, <3>1
    <2>12. QED
        BY <1>4, <2>2, <2>5, <2>11
<1>8. CASE Coverage!Other
    <2>1. /\ phase = "comments" /\ at < Coverage!Private
          /\ Coverage!Lines[at].kind # "comment"
          /\ errors' = IF block = << >> THEN errors
                       ELSE errors \cup Coverage!Attach(block[1], block[Len(block)])
        BY <1>8, Zenon DEF Coverage!Other
    <2>2. at \in 1 .. Len(Coverage!Lines) /\ at \in Nat \ {0} /\ Coverage!Private \in Int
        BY <1>1, <2>1 DEF PhaseOK
    <2>3. at \notin Coverage!Of("comment")
        BY <2>1, Zenon DEF Coverage!Of
    <2>4. block # << >> => <<block[1], block[Len(block)]>> \in Coverage!Blocks
        BY <2>1, <2>2, <2>3, RunIsBlock DEF BlockOK
    <2>5. Coverage!Top \subseteq DOMAIN byStart
        <3>1. CountedTo(Seen) /\ Seen = EndOfLines
            BY <1>4, <2>1 DEF Counted, Seen
        <3>2. TopBefore(EndOfLines) = Coverage!Top
            BY <1>1, <2>2, BeforeNext
        <3>3. QED
            BY <3>1, <3>2 DEF CountedTo
    <2>6. block # << >> => Coverage!Attach(block[1], block[Len(block)]) = {}
        BY <1>1, <1>5, <2>4, <2>5, AttachedBelongs
    <2>7. QED
        BY <1>4, <2>1, <2>6
<1>9. CASE UNCHANGED errors
    BY <1>4, <1>9
<1>10. QED
    BY <1>6, <1>7, <1>8, <1>9 DEF Coverage!Next, Coverage!vars, Coverage!Description, Coverage!Skip,
           Coverage!Declared, Coverage!Comment, Coverage!Commented, Coverage!Main

LEMMA JudgedStep ==
    ASSUME CaseOK, Judged, [Coverage!Next]_Coverage!vars
    PROVE  Judged'
<1>1. CASE Coverage!Main
    <2>1. /\ UNCHANGED <<missing, errors>> /\ phase' = Coverage!Verdict
          /\ case' = IF Coverage!Verdict = "written" THEN [case EXCEPT !.baseline = missing] ELSE case
        BY <1>1 DEF Coverage!Main
    <2>2. CASE errors # {}
        <3>1. Coverage!Verdict = "refused"
            BY <2>2 DEF Coverage!Verdict
        <3>2. QED
            BY <2>1, <2>2, <3>1 DEF Judged
    <2>3. CASE errors = {} /\ case.write
        <3>1. Coverage!Verdict = "written"
            BY <2>3 DEF Coverage!Verdict
        <3>2. case'.baseline = missing
            <4>1. case' = [case EXCEPT !.baseline = missing]
                BY <2>1, <3>1
            <4>2. QED
                BY <4>1 DEF CaseOK
        <3>3. QED
            BY <2>1, <2>3, <3>1, <3>2 DEF Judged
    <2>4. CASE errors = {} /\ ~ case.write
        <3>1. Coverage!Verdict = IF Within THEN "accepted" ELSE "refused"
            BY <2>4 DEF Coverage!Verdict, Within
        <3>2. case' = case /\ Within' = Within
            <4>1. case' = case
                BY <2>1, <3>1
            <4>2. QED
                BY <2>1, <4>1 DEF Within
        <3>3. QED
            BY <2>1, <2>4, <3>1, <3>2 DEF Judged
    <2>5. case.write \in BOOLEAN
        BY DEF CaseOK
    <2>6. QED
        BY <2>2, <2>3, <2>4, <2>5
<1>2. CASE UNCHANGED Coverage!vars
    BY <1>2, Zenon DEF Coverage!vars, Judged, Within
<1>3. ASSUME Coverage!Next, ~ Coverage!Main
      PROVE  phase' \notin {"accepted", "written", "refused"}
    BY <1>3 DEF Coverage!Next, Coverage!NoPage, Coverage!Description, Coverage!Skip,
           Coverage!Declaration, Coverage!Declared, Coverage!Comment, Coverage!Other,
           Coverage!Commented
<1>4. QED
    BY <1>1, <1>2, <1>3 DEF Judged

-----------------------------------------------------------------------------
(* The whole invariant, and what it says of a check that ended.               *)
LEMMA CoverageInit ==
    ASSUME Coverage!CoverageAssumption, Coverage!Init
    PROVE  CoverageInv
<1>0. PICK l \in Specifications : \E p \in PagesOf(l), b \in Baselines, strict, write \in BOOLEAN :
          case = [lines |-> l, page |-> p, baseline |-> b, strict |-> strict, write |-> write]
    BY Zenon DEF Coverage!Init
<1>1. PICK p \in PagesOf(l), b \in Baselines, strict \in BOOLEAN, write \in BOOLEAN :
          case = [lines |-> l, page |-> p, baseline |-> b, strict |-> strict, write |-> write]
    BY <1>0
<1>2. /\ phase = "package" /\ at = 1
      /\ block = << >> /\ byStart = << >>
      /\ items = {} /\ missing = {} /\ errors = {}
    BY Zenon DEF Coverage!Init
<1>3. CaseOK
    <2>1. /\ case.lines = l /\ case.page = p /\ case.baseline = b
          /\ case.strict = strict /\ case.write = write
        BY <1>1
    <2>2. QED
        BY <1>1, <2>1, Zenon DEF CaseOK
<1>4. PhaseOK
    <2>1. Len(Coverage!Lines) \in Nat
        BY <1>3, CheckedCase, Layout
    <2>2. QED
        BY <1>2, <2>1 DEF PhaseOK, EndOfLines
<1>5. SectionsOK
    BY <1>2 DEF SectionsOK
<1>6. Counted
    BY <1>2 DEF Counted
<1>7. BlockOK
    BY <1>2 DEF BlockOK
<1>8. Attached
    BY <1>2 DEF Attached
<1>9. NoneWrong
    BY <1>2 DEF NoneWrong
<1>10. Judged
    BY <1>2 DEF Judged
<1>11. QED
    BY <1>3, <1>4, <1>5, <1>6, <1>7, <1>8, <1>9, <1>10 DEF CoverageInv

LEMMA CoverageStep ==
    ASSUME Coverage!CoverageAssumption, CoverageInv, [Coverage!Next]_Coverage!vars
    PROVE  CoverageInv'
<1>1. /\ CaseOK /\ PhaseOK /\ SectionsOK /\ Counted
      /\ BlockOK /\ Attached /\ NoneWrong /\ Judged
    BY Zenon DEF CoverageInv
<1>2. CaseOK'
    BY <1>1, CaseStays
<1>3. PhaseOK' /\ SectionsOK'
    BY <1>1, PhaseStep, SectionsStep
<1>4. Counted'
    BY <1>1, CountedStep
<1>5. BlockOK' /\ Attached'
    BY <1>1, BlockStep, AttachedStep
<1>6. NoneWrong' /\ Judged'
    BY <1>1, NoneWrongStep, JudgedStep
<1>7. QED
    BY <1>2, <1>3, <1>4, <1>5, <1>6, Zenon DEF CoverageInv

LEMMA AllBefore ==
    ASSUME Coverage!Lines \in Seq(Coverage!LineType)
    PROVE  /\ TopBefore(EndOfLines) = Coverage!Top
           /\ WantedBefore(EndOfLines) = Coverage!Wanted
<1>1. TopBefore(EndOfLines) = Coverage!Top
    <2>1. Coverage!Top \subseteq 1 .. Len(Coverage!Lines) /\ Len(Coverage!Lines) \in Nat
        BY Layout, Zenon
    <2>2. ASSUME NEW j \in Coverage!Top PROVE j < Len(Coverage!Lines) + 1
        BY <2>1
    <2>3. QED
        BY <2>2, Zenon DEF TopBefore, EndOfLines
<1>2. QED
    BY <1>1, WantedIs, Zenon DEF WantedBefore

LEMMA WithoutAnError ==
    ASSUME Coverage!CoverageAssumption, CoverageInv, errors = {},
           phase \in {"accepted", "refused", "written"}
    PROVE  /\ items = Coverage!Wanted
           /\ missing = Coverage!Wanted \ Coverage!Written
           /\ \A i \in Coverage!Top : /\ Coverage!Single(Coverage!Lines[i])
                                      /\ Listed(Coverage!Lines[i], AtSection(i))
           /\ \A i, j \in Coverage!Top : Coverage!Lines[i].name = Coverage!Lines[j].name => i = j
           /\ \A b \in Coverage!Blocks :
                  b[2] + 1 < Coverage!Private => Coverage!Belongs(b) /\ Coverage!Rendered(b)
<1>1. /\ CaseOK /\ PhaseOK /\ SectionsOK /\ Counted /\ Attached
    BY Zenon DEF CoverageInv
<1>2. Coverage!Lines \in Seq(Coverage!LineType)
    BY <1>1, CheckedCase
<1>3. TopBefore(EndOfLines) = Coverage!Top /\ WantedBefore(EndOfLines) = Coverage!Wanted
    BY <1>2, AllBefore
<1>4. phase \notin {"package", "declarations", "comments"}
    OBVIOUS
<1>5. Seen = EndOfLines
    BY <1>4 DEF Seen
<1>6. CountedTo(EndOfLines)
    BY <1>1, <1>4, <1>5 DEF Counted
<1>7. items = Coverage!Wanted /\ missing = {w \in Coverage!Wanted : w \notin Coverage!Written}
    BY <1>3, <1>6, Zenon DEF CountedTo
<1>8. ASSUME NEW i \in Coverage!Top
      PROVE  /\ Coverage!Single(Coverage!Lines[i])
             /\ Listed(Coverage!Lines[i], AtSection(i))
    BY <1>1, <1>3, <1>6, Zenon DEF CountedTo, SectionsOK
<1>9. \A i, j \in Coverage!Top : Coverage!Lines[i].name = Coverage!Lines[j].name => i = j
    BY <1>3, <1>6, Zenon DEF CountedTo, NamedOnce
<1>10. ASSUME NEW b \in Coverage!Blocks, b[2] + 1 < Coverage!Private
       PROVE  Coverage!Belongs(b) /\ Coverage!Rendered(b)
    <2> DEFINE private == Coverage!Private
               Fine == Coverage!Belongs(b) /\ Coverage!Rendered(b)
    <2>1. b[2] + 1 < at /\ b[2] + 1 < private => Fine
        BY <1>1, <1>4, Zenon DEF Attached
    <2>2. at >= private /\ at \in 1 .. EndOfLines
        BY <1>1, <1>4 DEF PhaseOK
    <2>3. private \in 1 .. EndOfLines /\ Len(Coverage!Lines) \in Nat
        BY <1>2, Layout
    <2>4. b \in (1 .. private - 1) \X (1 .. private - 1)
        BY BlockMeans, Zenon
    <2> HIDE DEF private
    <2>5. b[2] \in Int /\ at \in Int /\ private \in Int
        BY <2>2, <2>3, <2>4 DEF EndOfLines
    <2>6. b[2] + 1 < private
        BY <1>10, Zenon DEF private
    <2>7. b[2] + 1 < at
        <3> HIDE DEF Fine
        <3>1. QED
            BY <2>2, <2>5, <2>6
    <2>8. QED
        BY <2>1, <2>6, <2>7, Zenon
<1>11. QED
    <2>1. missing = Coverage!Wanted \ Coverage!Written
        BY <1>7
    <2>2. QED
        BY <1>7, <1>8, <1>9, <1>10, <2>1, Zenon

LEMMA CoverageTypes ==
    ASSUME Coverage!CoverageAssumption, CoverageInv
    PROVE  Coverage!TypeOK
<1>1. /\ CaseOK /\ PhaseOK /\ SectionsOK /\ Counted /\ BlockOK
    BY Zenon DEF CoverageInv
<1>2. Coverage!Lines \in Seq(Coverage!LineType)
    BY <1>1, CheckedCase
<1>3. \A i \in DOMAIN Coverage!Lines : Coverage!Lines[i].kind \in Coverage!Kinds
    BY <1>2, Layout, Zenon
<1>4. /\ phase \in {"package", "declarations", "comments", "verdict",
                    "accepted", "refused", "written"}
      /\ at \in 1 .. Len(Coverage!Lines) + 1
    BY <1>1, Zenon DEF PhaseOK, EndOfLines
<1>5. Coverage!ToSet(block) \subseteq Coverage!Of("comment")
    <2>1. DOMAIN block = 1 .. Len(block)
        BY <1>1 DEF BlockOK
    <2>2. QED
        BY <1>1, <2>1, Zenon DEF BlockOK, Coverage!ToSet
<1>6. DOMAIN byStart \subseteq Coverage!Top /\ missing \subseteq items
    BY <1>1, Zenon DEF SectionsOK, Counted
<1>7. QED
    BY <1>3, <1>4, <1>5, <1>6, Zenon DEF Coverage!TypeOK

LEMMA CoverageMeans ==
    ASSUME Coverage!CoverageAssumption, CoverageInv
    PROVE  Coverage!PassedIsDocumented
<1>1. /\ CaseOK /\ NoneWrong /\ Judged
    BY Zenon DEF CoverageInv
<1>2. Coverage!Lines \in Seq(Coverage!LineType) /\ Coverage!IsPage(Coverage!Page)
    BY <1>1, CheckedCase
<1>3. Coverage!Passed => errors = {} /\ phase \in {"accepted", "refused", "written"}
    BY <1>1 DEF Coverage!Passed, Judged
<1>4. Coverage!GapsAreTheBaseline
    <2>1. SUFFICES ASSUME Coverage!Passed, case.strict \/ case.write
                   PROVE  Coverage!Wanted \ Coverage!Written = case.baseline
        BY Zenon DEF Coverage!GapsAreTheBaseline
    <2>2. missing = Coverage!Wanted \ Coverage!Written
        BY <1>3, <2>1, WithoutAnError
    <2>3. missing = case.baseline
        <3>1. CASE phase = "accepted"
            BY <1>1, <2>1, <3>1 DEF Judged, Within
        <3>2. CASE phase = "written"
            BY <1>1, <3>2 DEF Judged
        <3>3. QED
            BY <2>1, <3>1, <3>2 DEF Coverage!Passed
    <2>4. QED
        BY <2>2, <2>3, Zenon
<1>5. Coverage!CountedOnce
    <2>1. SUFFICES ASSUME Coverage!Passed
                   PROVE  /\ items = Coverage!Wanted
                          /\ \A i, j \in Coverage!Top :
                                 Coverage!Lines[i].name = Coverage!Lines[j].name => i = j
        BY Zenon DEF Coverage!CountedOnce
    <2>2. QED
        BY <1>3, <2>1, WithoutAnError
<1>6. Coverage!MembersInOrder
    <2>1. SUFFICES ASSUME Coverage!Passed, NEW i \in Coverage!Top,
                          NEW s \in Coverage!ToSet(Coverage!Sections(Coverage!Lines[i]))
                   PROVE  ListedIn(s) = Coverage!Headed(Coverage!Lines[i])
        BY Zenon DEF Coverage!MembersInOrder, ListedIn
    <2>2. /\ Coverage!Single(Coverage!Lines[i])
          /\ Listed(Coverage!Lines[i], AtSection(i))
        BY <1>3, <2>1, WithoutAnError
    <2>3. s = AtSection(i)
        <3>1. Coverage!ToSet(Coverage!Sections(Coverage!Lines[i])) = {AtSection(i)}
            BY <1>2, <2>2, OneSection, Zenon DEF AtSection
        <3>2. QED
            BY <3>1
    <2>4. QED
        BY <2>2, <2>3, Zenon DEF Listed
<1>7. Coverage!EveryBlockRenders
    <2>1. SUFFICES ASSUME Coverage!Passed
                   PROVE  \A b \in Coverage!Blocks :
                              b[2] + 1 < Coverage!Private => Coverage!Belongs(b) /\ Coverage!Rendered(b)
        BY Zenon DEF Coverage!EveryBlockRenders
    <2>2. QED
        BY <1>3, <2>1, WithoutAnError
<1>8. Coverage!NoFalseAlarm
    <2>1. SUFFICES ASSUME phase = "refused", Coverage!Faithful,
                          \A b \in Coverage!Blocks : Coverage!Belongs(b),
                          \A i, j \in Coverage!Top :
                              Coverage!Lines[i].name = Coverage!Lines[j].name => i = j,
                          Coverage!Wanted \ Coverage!Written = case.baseline
                   PROVE  FALSE
        BY Zenon DEF Coverage!NoFalseAlarm
    <2>2. NamedOnce(EndOfLines)
        <3>1. TopBefore(EndOfLines) = Coverage!Top
            BY <1>2, AllBefore
        <3>2. QED
            BY <2>1, <3>1, Zenon DEF NamedOnce
    <2>3. errors = {}
        BY <1>1, <2>1, <2>2, Zenon DEF NoneWrong
    <2>4. missing = case.baseline
        <3>1. missing = Coverage!Wanted \ Coverage!Written
            BY <2>1, <2>3, WithoutAnError
        <3>2. QED
            BY <2>1, <3>1, Zenon
    <2>5. Within
        BY <2>4 DEF Within
    <2>6. ~ Within
        BY <1>1, <2>1, <2>3 DEF Judged
    <2>7. QED
        BY <2>5, <2>6
<1>9. Coverage!TypeOK
    BY CoverageTypes
<1>10. QED
    BY <1>4, <1>5, <1>6, <1>7, <1>8, <1>9, Zenon DEF Coverage!PassedIsDocumented

(* The coverage check by itself.                                              *)
LEMMA CoverageSound ==
    ASSUME Coverage!CoverageAssumption
    PROVE  Coverage!Spec => []Coverage!PassedIsDocumented
<1>1. Coverage!Init => CoverageInv
    BY CoverageInit
<1>2. CoverageInv /\ [Coverage!Next]_Coverage!vars => CoverageInv'
    BY CoverageStep
<1>3. CoverageInv => Coverage!PassedIsDocumented
    BY CoverageMeans
<1>4. QED
    BY <1>1, <1>2, <1>3, PTL DEF Coverage!Spec

-----------------------------------------------------------------------------
(* The three checks as MCDocs composes them.                                  *)

(* For any declarations, however the sources, the baseline and the logs       *)
(* change: a site is only published without a warning, and no check accepts   *)
(* more than --write-baseline was shown and somebody added to the baseline by *)
(* hand (compare_gnatdoc_warnings.py, generate_docs.sh).                      *)
THEOREM RatchetReviewed == PartsSpec => []ReviewedOnly
<1> DEFINE Here == part = "ratchet"
<1>1. PartsInit => (Here => Ratchet!Init)
    BY DEF PartsInit
<1>2. [PartsNext]_partsVars => /\ Here => [Ratchet!Next]_(Ratchet!vars) /\ Here'
                               /\ ~ Here => ~ Here'
    BY DEF PartsNext, partsVars, ratchetVars, Ratchet!vars
<1>3. Ratchet!Spec => []Ratchet!ReviewedOnly
    BY RatchetSound, DocsAssumption
<1>4. (Here => Ratchet!ReviewedOnly) => ReviewedOnly
    BY DEF ReviewedOnly
<1> HIDE DEF Here
<1>5. QED
    BY <1>1, <1>2, <1>3, <1>4, PTL DEF PartsSpec, Ratchet!Spec

(* And between two strict checks that pass, while the identities of the       *)
(* baseline stay, no warning comes, goes, moves or is repeated.               *)
THEOREM RatchetHolds == PartsSpec => NoSilentReturn
<1> DEFINE Here == part = "ratchet"
           Tightens == accepted' # << >> =>
                        /\ accepted # << >> => accepted'[1] = accepted[1]
                        /\ accepted' # accepted => accepted'[1] = sources
<1>1. PartsInit => (Here => Ratchet!Init)
    BY DEF PartsInit
<1>2. [PartsNext]_partsVars => /\ Here => [Ratchet!Next]_(Ratchet!vars) /\ Here'
                               /\ ~ Here => ~ Here'
    BY DEF PartsNext, partsVars, ratchetVars, Ratchet!vars
<1>3. [PartsNext]_partsVars => (~ Here => [Tightens]_(Ratchet!vars))
    BY DEF PartsNext, partsVars, ratchetVars, Ratchet!vars
<1>4. Ratchet!Spec => [][Tightens]_(Ratchet!vars)
    BY RatchetOnlyTightens, DocsAssumption DEF Ratchet!NoSilentReturn
<1> HIDE DEF Here, Tightens
<1>5. PartsSpec => [][Tightens]_(Ratchet!vars)
    BY <1>1, <1>2, <1>3, <1>4, PTL DEF PartsSpec, Ratchet!Spec
<1>6. QED
    BY <1>5 DEF NoSilentReturn, Ratchet!NoSilentReturn, Tightens

(* A coverage check that passes proves the documentation complete but for its *)
(* baseline, whatever the specification, the page and the baseline; and a     *)
(* check of a correct page is refused only for a reason (check_doc_coverage). *)
THEOREM CoverageProves == PartsSpec => []PassedIsDocumented
<1> DEFINE Here == part = "coverage"
<1>1. PartsInit => (Here => Coverage!Init)
    BY DEF PartsInit
<1>2. [PartsNext]_partsVars => /\ Here => [Coverage!Next]_(Coverage!vars) /\ Here'
                               /\ ~ Here => ~ Here'
    BY DEF PartsNext, partsVars, coverageVars, Coverage!vars
<1>3. Coverage!Spec => []Coverage!PassedIsDocumented
    BY CoverageSound, DocsAssumption
<1>4. (Here => Coverage!PassedIsDocumented) => PassedIsDocumented
    BY DEF PassedIsDocumented
<1> HIDE DEF Here
<1>5. QED
    BY <1>1, <1>2, <1>3, <1>4, PTL DEF PartsSpec, Coverage!Spec
=============================================================================
