-------------------------- MODULE PolicySelection --------------------------
(* Which commit's verifier judges which candidate: the selection of a       *)
(* documentation policy from the ancestry of an event                       *)
(* (scripts/select_gnatdoc_policy.py), what the selected verifier compares  *)
(* (additive_gnatdoc_policy.py, validate_gnatdoc_inputs.py), and the        *)
(* workflow around them (.github/workflows/documentation.yml): pull         *)
(* requests are checked against main as it was at their event, main moves   *)
(* on, a push is checked against the commit before it, a newer push cancels *)
(* a running check, and only a check that passes deploys the site.          *)
(*                                                                          *)
(* A commit is its parents, its ancestors and the content the policy tells  *)
(* apart: the verifier's scripts and workflows as one version (NoVerifier:  *)
(* the marker script is absent), the public declarations in their order,    *)
(* and the version of the root manifest.                                    *)
EXTENDS Naturals, Sequences, FiniteSets, SequencesExt

CONSTANTS
    Declarations,      \* the declarations a package may have, [name, code]
    Additions,         \* the names a candidate may add
    Verifiers,         \* versions of scripts and workflows
    NoVerifier,        \* the absence of the marker script
    Versions,          \* versions of the root manifest, in their order
    VersionTransitions,\* the reviewed pairs of manifest versions
    FirstContents,     \* what main may hold when the history starts
    Requests,          \* the pull requests that may be open together
    MaxCommits,        \* bound: commits in the history
    Protected,         \* main only takes checked, up-to-date requests
    None               \* no head, no run

ASSUME PolicySelectionAssumption ==
    /\ NoVerifier \notin Verifiers
    /\ MaxCommits \in Nat \ {0}
    /\ None \notin Nat
    /\ Protected \in BOOLEAN
    /\ IsFiniteSet(Declarations)
    /\ FirstContents \subseteq [verifier : Verifiers \cup {NoVerifier},
                               decls : Seq(Declarations), version : Versions]
    /\ Versions \subseteq Nat
    /\ VersionTransitions \subseteq Versions \X Versions
    /\ \A t \in VersionTransitions : t[1] < t[2]

VARIABLES
    commits,   \* the repository: a sequence of commits, the index is the SHA
    main,      \* refs/heads/main
    requests,  \* each pull request: its head, the main commit it was cut
               \* from or updated to, and whether its last check passed
    run,       \* the check of main in progress: [event, base, candidate]
    site       \* the commit the deployed documentation was generated from

vars == <<commits, main, requests, run, site>>

Shas == DOMAIN commits

Closed == [head |-> None, fork |-> None, passed |-> FALSE]

(***************************************************************************)
(* select: the base of the event, and the policy that judges the candidate *)
(***************************************************************************)
HasPolicy(c) == commits[c].content.verifier /= NoVerifier

Ancestor(b, c) == b \in commits[c].ancestors

(* The literal list of reviewed first-policy bases names the first commit. *)
ReviewedBootstrap(c) == c = 1

ExactBase(event, base, candidate) ==
    /\ event = "push" => /\ commits[candidate].parents /= << >>
                         /\ commits[candidate].parents[1] = base
    /\ Ancestor(base, candidate)

FirstPolicy(event, base, candidate, policy) ==
    LET parents == commits[candidate].parents IN
    /\ ReviewedBootstrap(base)
    /\ IF event = "pull_request"
       THEN policy = candidate
       ELSE /\ Len(parents) = 2 /\ parents[1] = base
            /\ policy = parents[2]
            /\ Ancestor(base, policy)
            /\ commits[policy].content.verifier = commits[candidate].content.verifier
            /\ commits[policy].content.version = commits[candidate].content.version
    /\ HasPolicy(policy)

Selected(event, base, candidate, policy) ==
    /\ ExactBase(event, base, candidate)
    /\ IF HasPolicy(base) THEN policy = base /\ policy /= candidate
                          ELSE FirstPolicy(event, base, candidate, policy)

(***************************************************************************)
(* What the selected verifier requires of a candidate                      *)
(***************************************************************************)
Position(s, d) == CHOOSE i \in DOMAIN s : s[i] = d

\* Mutant: presence and names only.
CompatibleUnordered(old, new) ==
    /\ \A i \in DOMAIN old : old[i] \in ToSet(new)
    /\ \A i \in DOMAIN new : new[i] \notin ToSet(old) => new[i].name \in Additions

\* Mutant: a new overload may go anywhere.
CompatibleByName(old, new) ==
    /\ \A i \in DOMAIN old : old[i] \in ToSet(new)
    /\ \A i, j \in DOMAIN old :
           i < j => Position(new, old[i]) < Position(new, old[j])
    /\ \A i \in DOMAIN new : new[i] \notin ToSet(old) => new[i].name \in Additions

Compatible(old, new) ==
    /\ \A i \in DOMAIN old : old[i] \in ToSet(new)
    /\ \A i, j \in DOMAIN old :
           i < j => Position(new, old[i]) < Position(new, old[j])
    /\ \A i \in DOMAIN new : new[i] \notin ToSet(old) =>
           /\ new[i].name \in Additions
           /\ \A k \in DOMAIN old :
                  old[k].name = new[i].name => i > Position(new, old[k])

\* Mutant: the reviewed transition also backwards.
CompatibleRootEitherWay(reviewed, candidate) ==
    \/ candidate = reviewed
    \/ {<<reviewed, candidate>>, <<candidate, reviewed>>} \cap VersionTransitions /= {}

CompatibleRoot(reviewed, candidate) ==
    candidate = reviewed \/ <<reviewed, candidate>> \in VersionTransitions

\* Mutant: the verifier's own files are not compared.
CandidateRulesSourceOnly(policy, candidate) ==
    LET old == commits[policy].content
        new == commits[candidate].content IN
    /\ CompatibleRoot(old.version, new.version)
    /\ Compatible(old.decls, new.decls)

CandidateRules(policy, candidate) ==
    LET old == commits[policy].content
        new == commits[candidate].content IN
    /\ CompatibleRoot(old.version, new.version)
    /\ new.verifier = old.verifier
    /\ Compatible(old.decls, new.decls)

(* The build job reads the base, not the selected policy: where the base   *)
(* has no preflight its manifest must be the candidate's, byte for byte.   *)
BuildInputs(base, candidate) ==
    LET old == commits[base].content.version
        new == commits[candidate].content.version IN
    IF HasPolicy(base) THEN CompatibleRoot(old, new) ELSE old = new

Passes(event, base, candidate) ==
    /\ BuildInputs(base, candidate)
    /\ \E policy \in Shas : /\ Selected(event, base, candidate, policy)
                            /\ CandidateRules(policy, candidate)

(***************************************************************************)
(* Commits: what an author may change, and what a merge makes of two sides *)
(***************************************************************************)
Commit(parents, content) ==
    [parents |-> parents, content |-> content,
     ancestors |-> (UNION {commits[p].ancestors : p \in ToSet(parents)})
                       \cup {Len(commits) + 1}]

Edits(s) ==
    LET free == Declarations \ ToSet(s) IN
    {InsertAt(s, i, d) : i \in 1 .. Len(s) + 1, d \in free}
    \cup {RemoveAt(s, i) : i \in DOMAIN s}
    \cup {[s EXCEPT ![i] = d] : i \in DOMAIN s, d \in free}
    \cup {[s EXCEPT ![i] = s[i + 1], ![i + 1] = s[i]] : i \in 1 .. Len(s) - 1}

Changes(content) ==
    {[content EXCEPT !.decls = s] : s \in Edits(content.decls)}
    \cup {[content EXCEPT !.verifier = v] : v \in Verifiers \cup {NoVerifier}}
    \cup {[content EXCEPT !.version = v] : v \in Versions}

Either(origin, ours, theirs) ==
    IF ours = origin THEN {theirs}
    ELSE IF theirs = origin THEN {ours} ELSE {ours, theirs}

MergedDecls(origin, ours, theirs) ==
    LET keeps(s, side) == \A i, j \in DOMAIN side :
            (i < j /\ {side[i], side[j]} \subseteq ToSet(s))
                => Position(s, side[i]) < Position(s, side[j])
        names == {d \in ToSet(ours) \cup ToSet(theirs) :
                      (d \in ToSet(ours) <=> d \in ToSet(theirs)) \/ d \notin ToSet(origin)}
    IN IF ours = origin THEN {theirs}
       ELSE IF theirs = origin THEN {ours}
       ELSE {s \in SetToSeqs(names) : keeps(s, ours) /\ keeps(s, theirs)}

Merges(origin, ours, theirs) ==
    LET o == commits[origin].content
        a == commits[ours].content
        b == commits[theirs].content IN
    {[verifier |-> v, decls |-> s, version |-> w] :
        v \in Either(o.verifier, a.verifier, b.verifier),
        s \in MergedDecls(o.decls, a.decls, b.decls),
        w \in Either(o.version, a.version, b.version)}

---------------------------------------------------------------------------
Init == /\ \E content \in FirstContents :
               commits = <<[parents |-> << >>, ancestors |-> {1}, content |-> content]>>
        /\ main = 1
        /\ requests = [p \in Requests |-> Closed]
        /\ run = None
        /\ site = 1

Room(n) == Len(commits) + n <= MaxCommits

(* An author commits a change on a request's branch, cut from main. *)
Author(p) ==
    /\ Room(1)
    /\ LET r == requests[p]
           onto == IF r.head = None THEN main ELSE r.head IN
       \E content \in Changes(commits[onto].content) \ {commits[onto].content} :
           /\ commits' = Append(commits, Commit(<<onto>>, content))
           /\ requests' = [requests EXCEPT ![p] =
                 [head |-> Len(commits) + 1, passed |-> FALSE,
                  fork |-> IF r.head = None THEN main ELSE r.fork]]
    /\ UNCHANGED <<main, run, site>>

(* The branch is brought up to date with a main that has moved. *)
Update(p) ==
    LET r == requests[p] IN
    /\ r.head /= None /\ ~Ancestor(main, r.head) /\ Room(1)
    /\ \E content \in Merges(r.fork, main, r.head) :
           commits' = Append(commits, Commit(<<r.head, main>>, content))
    /\ requests' = [requests EXCEPT ![p] =
                       [head |-> Len(commits) + 1, fork |-> main, passed |-> FALSE]]
    /\ UNCHANGED <<main, run, site>>

(* The pull_request event: the base is main as it is now. *)
Check(p) ==
    LET r == requests[p] IN
    /\ r.head /= None
    /\ requests' = [requests EXCEPT ![p].passed =
                       Passes("pull_request", main, r.head)]
    /\ UNCHANGED <<commits, main, run, site>>

(* Whether main may take a request: always, or with its check passed and   *)
(* its branch containing main, the settings the policy asks for.           *)
MayMerge(p) ==
    /\ requests[p].head /= None
    /\ Protected => requests[p].passed /\ Ancestor(main, requests[p].head)

(* The push event: main is its candidate, the old main its base, and the   *)
(* check of an older push is cancelled.                                    *)
Push(candidate) ==
    /\ main' = candidate
    /\ run' = [event |-> "push", base |-> main, candidate |-> candidate]

MergeCommit(p) ==
    LET r == requests[p] IN
    /\ MayMerge(p) /\ Room(1)
    /\ \E content \in Merges(r.fork, main, r.head) :
           commits' = Append(commits, Commit(<<main, r.head>>, content))
    /\ Push(Len(commits) + 1)
    /\ requests' = [requests EXCEPT ![p] = Closed]
    /\ UNCHANGED site

Squash(p) ==
    LET r == requests[p] IN
    /\ MayMerge(p) /\ Room(1)
    /\ \E content \in Merges(r.fork, main, r.head) :
           commits' = Append(commits, Commit(<<main>>, content))
    /\ Push(Len(commits) + 1)
    /\ requests' = [requests EXCEPT ![p] = Closed]
    /\ UNCHANGED site

(* A branch of two commits on main, rebased: the base of the push is not   *)
(* the candidate's first parent.                                           *)
Rebase(p) ==
    LET r == requests[p]
        first == commits[r.head].parents[1] IN
    /\ MayMerge(p) /\ Room(2)
    /\ first /= main /\ commits[first].parents = <<main>>
    /\ Len(commits[r.head].parents) = 1
    /\ LET one == Commit(<<main>>, commits[first].content)
           two == [parents |-> <<Len(commits) + 1>>,
                   content |-> commits[r.head].content,
                   ancestors |-> one.ancestors \cup {Len(commits) + 2}]
       IN commits' = Append(Append(commits, one), two)
    /\ Push(Len(commits) + 2)
    /\ requests' = [requests EXCEPT ![p] = Closed]
    /\ UNCHANGED site

(* A maintainer starts the workflow by hand on main. *)
Dispatch ==
    /\ commits[main].parents /= << >>
    /\ run' = [event |-> "workflow_dispatch", candidate |-> main,
               base |-> commits[main].parents[1]]
    /\ UNCHANGED <<commits, main, requests, site>>

(* build and current-trust end; deploy needs both. *)
Finish ==
    /\ run /= None
    /\ site' = IF Passes(run.event, run.base, run.candidate)
               THEN run.candidate ELSE site
    /\ run' = None
    /\ UNCHANGED <<commits, main, requests>>

Next == \/ \E p \in Requests : \/ Author(p) \/ Update(p) \/ Check(p)
                               \/ MergeCommit(p) \/ Squash(p) \/ Rebase(p)
        \/ Dispatch
        \/ Finish

Spec == Init /\ [][Next]_vars

---------------------------------------------------------------------------

(* The declarations of a commit; their order; and the overloads that the   *)
(* navigation and the anchors number a declaration by: those of its name   *)
(* that come before it.                                                    *)
Published(c) == commits[c].content.decls

Before(s, d, e) == Position(s, d) < Position(s, e)

EarlierOverloads(s, d) == {e \in ToSet(s) : e.name = d.name /\ Before(s, e, d)}

(* All of old is in new, in the order it had. *)
Grown(old, new) ==
    /\ ToSet(old) \subseteq ToSet(new)
    /\ \A d, e \in ToSet(old) : Before(old, d, e) => Before(new, d, e)

(* A deployment over a site that had a policy keeps every declaration the  *)
(* readers of that site could link to, in its order, whatever pull         *)
(* requests, merges and cancelled checks of main lay between.  And the     *)
(* overloads a published declaration is numbered after never change: a     *)
(* link to the second Compose stays a link to it.                          *)
DeploymentsGrow ==
    [][site' /= site /\ HasPolicy(site) =>
         LET old == Published(site)
             new == commits'[site'].content.decls IN
         /\ Grown(old, new)
         /\ \A d \in ToSet(old) :
                EarlierOverloads(new, d) = EarlierOverloads(old, d)]_vars

(* What is deployed over a policy's site adds approved names only, never   *)
(* at an older version, and is judged by the verifier that judged the      *)
(* site, also when two requests each bring a first policy of their own.    *)
OnlyReviewedChanges ==
    [][site' /= site /\ HasPolicy(site) =>
         LET old == commits[site].content
             new == commits'[site'].content IN
         /\ \A d \in ToSet(new.decls) \ ToSet(old.decls) : d.name \in Additions
         /\ old.version <= new.version
         /\ new.verifier = old.verifier]_vars
============================================================================
