---------------------------- MODULE CrossWorkspace ----------------------------
(* `cross_geometry.py --build WORKSPACE` and `--verify-built`: after the      *)
(* checks of validate, the source is exported into a new directory, the       *)
(* target configuration is put beside it, and a probe, the library and its    *)
(* installation are built there, leaving evidence of how far that got. Two    *)
(* attempts may name the same workspace. Meanwhile the checkout is edited and *)
(* committed to, the compilers of Ada and C++ and the supplied configuration  *)
(* are replaced, a compiler is put back, and an attempt may stop anywhere.    *)
(*                                                                            *)
(* A file's text, an edition of a compiler and a configuration are numbers: a *)
(* replacement has a new one, up to Edits changes in all. An edition has the  *)
(* release it writes into objects and, of Ada, the signature it writes into   *)
(* ALIs; it is known by the digests of probe_ada. Commits hold what was in    *)
(* the checkout. Prebuilt is the text of a file that is a compiled object,    *)
(* LeftOut that of a file the export leaves behind. The sysroot, the runtime  *)
(* and the Core prefix, which nothing here changes, are part of what validate *)
(* has approved.                                                              *)
EXTENDS Integers, FiniteSets, Sequences

CONSTANTS Attempts,   \* the runs of --build that name this workspace
          Files,      \* the files of the source tree
          Edits,      \* how many changes others make
          Release,    \* of each language, the release of each edition
          Signature,  \* the GNAT version in the ALIs of each edition of Ada
          Prebuilt, LeftOut, None

Languages == {"ada", "cxx"}

WorkspaceAssumption ==
    /\ Edits \in Nat
    /\ DOMAIN Release = Languages /\ DOMAIN Signature = 0 .. Edits
    /\ \A l \in Languages : DOMAIN Release[l] = 0 .. Edits
    /\ None \notin Attempts \cup 0 .. Edits

VARIABLES git,       \* whether the source has a .git marker
          source,    \* the checkout's files: their text
          commits,   \* what each commit holds; the last one is HEAD
          compiler,  \* the edition at the path supplied for each language
          restored,  \* whether a compiler of Ada was ever put back
          supplied,  \* the supplied GPR configuration
          changes,   \* how often others have changed something
          pc,        \* what each attempt does next
          settings,  \* what validate has returned to each attempt
          revision,  \* the revision each attempt exports
          author,    \* the attempt that made the workspace, or None
          work       \* the workspace
vars == <<git, source, commits, compiler, restored, supplied, changes, pc, settings,
          revision, author, work>>
others == <<git, source, commits, compiler, restored, supplied, changes>>

Editions == 0 .. Edits
Tree == [Files -> Editions \cup {Prebuilt}]
Export == [Files -> Editions \cup {Prebuilt, LeftOut, None}]
Empty == [f \in Files |-> None]

(* An object is known by what it was made of and by which compiler; one that  *)
(* came with the source was made by none here (Foreign). The settings hold    *)
(* the probe of Ada and one set of releases for both languages.               *)
Object == [lang : Languages, from : Export, by : Editions \cup {None}]
Foreign == [lang |-> "cxx", from |-> Empty, by |-> None]
CompilerReleases == {Release[l][e] : l \in Languages, e \in Editions}
Settings == [ada : Editions, identities : SUBSET CompilerReleases, config : Editions]
Evidence == [qualification : {"CROSS_CONFIGURATION_ONLY", "TARGET_BUILD_INSTALL_ONLY"},
             source_identity : Export, ada : Editions, identities : SUBSET CompilerReleases,
             config : Editions]

Init ==
    /\ git \in BOOLEAN
    /\ source \in [Files -> {0, Prebuilt}]
    /\ commits = <<source>>
    /\ compiler = [l \in Languages |-> 0] /\ restored = FALSE /\ supplied = 0 /\ changes = 0
    /\ pc = [a \in Attempts |-> "validate"]
    /\ settings = [a \in Attempts |-> None]
    /\ revision = [a \in Attempts |-> None]
    /\ author = None
    /\ work = [content |-> Empty, config |-> None, objects |-> {}, evidence |-> None]

-----------------------------------------------------------------------------
(* Others: the source is edited and committed to, a compiler or the           *)
(* configuration is replaced, an earlier edition of a compiler is put back.   *)
Change == changes < Edits /\ changes' = changes + 1

Edit(f) ==
    /\ Change
    /\ source' = [source EXCEPT ![f] = changes + 1]
    /\ UNCHANGED <<git, commits, compiler, restored, supplied>>
    /\ UNCHANGED <<pc, settings, revision, author, work>>

Commit ==
    /\ git /\ source # commits[Len(commits)]
    /\ commits' = Append(commits, source)
    /\ UNCHANGED <<git, source, compiler, restored, supplied, changes>>
    /\ UNCHANGED <<pc, settings, revision, author, work>>

ReplaceCompiler(l) ==
    /\ Change
    /\ compiler' = [compiler EXCEPT ![l] = changes + 1]
    /\ UNCHANGED <<git, source, commits, restored, supplied>>
    /\ UNCHANGED <<pc, settings, revision, author, work>>

PutBack(l, e) ==
    /\ Change /\ e < compiler[l]
    /\ compiler' = [compiler EXCEPT ![l] = e]
    /\ restored' = (restored \/ l = "ada")
    /\ UNCHANGED <<git, source, commits, supplied>>
    /\ UNCHANGED <<pc, settings, revision, author, work>>

ReplaceConfiguration ==
    /\ Change
    /\ supplied' = changes + 1
    /\ UNCHANGED <<git, source, commits, compiler, restored>>
    /\ UNCHANGED <<pc, settings, revision, author, work>>

-----------------------------------------------------------------------------
At(a, place) == pc[a] = place
Go(a, place) == pc' = [pc EXCEPT ![a] = place]

(* validate: the compilers are probed and the configuration examined; the     *)
(* settings keep Ada's probe, the releases of both and the configuration.     *)
Probed ==
    [ada |-> compiler["ada"], config |-> supplied,
     identities |-> {Release["ada"][compiler["ada"]], Release["cxx"][compiler["cxx"]]}]
Validate(a) ==
    /\ At(a, "validate")
    /\ settings' = [settings EXCEPT ![a] = Probed]
    /\ Go(a, "unused")
    /\ UNCHANGED <<others, revision, author, work>>

Unused(a) ==
    /\ At(a, "unused") /\ author = None
    /\ Go(a, IF git THEN "clean" ELSE "create")
    /\ UNCHANGED <<others, settings, revision, author, work>>

(* export_source of a Git checkout: its status is empty; then HEAD is read;   *)
(* then the directory is made, which fails when there is one; then what HEAD  *)
(* was is archived.                                                           *)
Clean(a) ==
    /\ At(a, "clean") /\ source = commits[Len(commits)]
    /\ Go(a, "head")
    /\ UNCHANGED <<others, settings, revision, author, work>>

ReadHead(a) ==
    /\ At(a, "head")
    /\ revision' = [revision EXCEPT ![a] = Len(commits)]
    /\ Go(a, "create")
    /\ UNCHANGED <<others, settings, author, work>>

\* MUTANT of Create: an existing directory is used.
CreateOver(a) ==
    /\ At(a, "create")
    /\ author' = a
    /\ Go(a, "export")
    /\ UNCHANGED <<others, settings, revision, work>>

Create(a) ==
    /\ At(a, "create") /\ author = None
    /\ author' = a
    /\ Go(a, "export")
    /\ UNCHANGED <<others, settings, revision, work>>

\* MUTANT of Archive: HEAD is archived, whatever it is by now.
ArchiveHead(a) ==
    /\ At(a, "export") /\ git
    /\ work' = [work EXCEPT !.content = commits[Len(commits)]]
    /\ Go(a, "prebuilt")
    /\ UNCHANGED <<others, settings, revision, author>>

Archive(a) ==
    /\ At(a, "export") /\ git
    /\ work' = [work EXCEPT !.content = commits[revision[a]]]
    /\ Go(a, "prebuilt")
    /\ UNCHANGED <<others, settings, revision, author>>

(* export_source of a plain tree: one file is copied at a time, generated     *)
(* files are left behind, and the identity is that of the copies.             *)
Missing == {f \in Files : work.content[f] = None}
CopyOne(a, f) ==
    /\ At(a, "export") /\ ~ git
    /\ f \in Missing
    /\ work' = [work EXCEPT !.content[f] = IF source[f] = Prebuilt THEN LeftOut ELSE source[f]]
    /\ UNCHANGED <<others, pc, settings, revision, author>>

Identify(a) ==
    /\ At(a, "export") /\ ~ git /\ Missing = {}
    /\ revision' = [revision EXCEPT ![a] = work.content]
    /\ Go(a, "prebuilt")
    /\ UNCHANGED <<others, settings, author, work>>

\* MUTANT of NoPrebuilt: compiled objects in the export go unnoticed.
NoPrebuiltSkipped(a) ==
    /\ At(a, "prebuilt")
    /\ Go(a, "configure")
    /\ UNCHANGED <<others, settings, revision, author, work>>

NoPrebuilt(a) ==
    /\ At(a, "prebuilt")
    /\ \A f \in Files : work.content[f] # Prebuilt
    /\ Go(a, "configure")
    /\ UNCHANGED <<others, settings, revision, author, work>>

(* workspace: the supplied configuration is copied; the first evidence claims *)
(* the configuration only.                                                    *)
Identity(a) == IF git THEN commits[revision[a]] ELSE revision[a]
Configure(a) ==
    /\ At(a, "configure")
    /\ work' = [work EXCEPT !.config = supplied]
    /\ Go(a, "evidence")
    /\ UNCHANGED <<others, settings, revision, author>>

Claim(a, qualification) ==
    [qualification |-> qualification, source_identity |-> Identity(a),
     ada |-> settings[a].ada, identities |-> settings[a].identities,
     config |-> settings[a].config]
FirstEvidence(a) ==
    /\ At(a, "evidence")
    /\ work' = [work EXCEPT !.evidence = Claim(a, "CROSS_CONFIGURATION_ONLY")]
    /\ Go(a, "probe")
    /\ UNCHANGED <<others, settings, revision, author>>

(* The builds: the probe, whose trace is checked; the library's objects, each *)
(* made by the compiler of its language that is there by then. A file that is *)
(* an object counts among them.                                               *)
Probe(a) ==
    /\ At(a, "probe")
    /\ Go(a, "build")
    /\ UNCHANGED <<others, settings, revision, author, work>>

Compile(a, l) ==
    /\ At(a, "build")
    /\ work' = [work EXCEPT !.objects = @ \cup
                   {[lang |-> l, from |-> work.content, by |-> compiler[l]]}]
    /\ UNCHANGED <<others, pc, settings, revision, author>>

Built(a) ==
    /\ At(a, "build")
    /\ \A l \in Languages : \E o \in work.objects : o.lang = l
    /\ work' = [work EXCEPT !.objects = @ \cup
                   {Foreign : f \in {g \in Files : work.content[g] = Prebuilt}}]
    /\ Go(a, "outputs")
    /\ UNCHANGED <<others, settings, revision, author>>

(* check_outputs: the release recorded in an object is one of those given,    *)
(* and an ALI has the signature of Ada's probe. Two editions that share both  *)
(* are not told apart, nor is an object that was made elsewhere by one of     *)
(* them.                                                                      *)
KnownRelease(o, s) == o.by # None => Release[o.lang][o.by] \in s.identities
KnownSignature(o, s) ==
    o.by # None /\ o.lang = "ada" => Signature[o.by] = Signature[s.ada]
CheckOutputs(s) == \A o \in work.objects : KnownRelease(o, s) /\ KnownSignature(o, s)

\* MUTANT of Outputs: the signatures of the ALIs are not compared.
OutputsReleases(a) ==
    /\ At(a, "outputs")
    /\ \A o \in work.objects : KnownRelease(o, settings[a])
    /\ Go(a, "install")
    /\ UNCHANGED <<others, settings, revision, author, work>>

Outputs(a) ==
    /\ At(a, "outputs")
    /\ CheckOutputs(settings[a])
    /\ Go(a, "install")
    /\ UNCHANGED <<others, settings, revision, author, work>>

Install(a) ==
    /\ At(a, "install")
    /\ Go(a, "qualify")
    /\ UNCHANGED <<others, settings, revision, author, work>>

FinalEvidence(a) ==
    /\ At(a, "qualify")
    /\ work' = [work EXCEPT !.evidence = Claim(a, "TARGET_BUILD_INSTALL_ONLY")]
    /\ Go(a, "built")
    /\ UNCHANGED <<others, settings, revision, author>>

\* MUTANT of VerifyBuilt: the fresh probe is made and not compared.
VerifyProbed(a) ==
    /\ At(a, "built")
    /\ Go(a, "verified")
    /\ UNCHANGED <<others, settings, revision, author, work>>

(* --verify-built, a later process with the evidence's settings: a fresh      *)
(* probe of Ada must equal the recorded one, and the outputs are checked      *)
(* again. The C++ compiler is not probed.                                     *)
VerifyBuilt(a) ==
    /\ At(a, "built")
    /\ compiler["ada"] = work.evidence.ada
    /\ CheckOutputs(work.evidence)
    /\ Go(a, "verified")
    /\ UNCHANGED <<others, settings, revision, author, work>>

(* Any check, tool or write fails, or the process is killed; nothing is       *)
(* removed.                                                                   *)
Stop(a) ==
    /\ pc[a] \notin {"verified", "stopped"}
    /\ Go(a, "stopped")
    /\ UNCHANGED <<others, settings, revision, author, work>>

Attempt(a) ==
    \/ Validate(a) \/ Unused(a) \/ Clean(a) \/ ReadHead(a) \/ Create(a) \/ Archive(a)
    \/ \E f \in Files : CopyOne(a, f)
    \/ Identify(a) \/ NoPrebuilt(a) \/ Configure(a) \/ FirstEvidence(a)
    \/ Probe(a) \/ Built(a) \/ Outputs(a) \/ Install(a) \/ FinalEvidence(a)
    \/ \E l \in Languages : Compile(a, l)
    \/ VerifyBuilt(a) \/ Stop(a)

Next ==
    \/ \E f \in Files : Edit(f)
    \/ Commit \/ ReplaceConfiguration
    \/ \E l \in Languages : ReplaceCompiler(l)
    \/ \E l \in Languages, e \in Editions : PutBack(l, e)
    \/ \E a \in Attempts : Attempt(a)

Spec == Init /\ [][Next]_vars

-----------------------------------------------------------------------------
Stages == {"validate", "unused", "clean", "head", "create", "export", "prebuilt",
           "configure", "evidence", "probe", "build", "outputs", "install",
           "qualify", "built", "verified", "stopped"}
Inside == Stages \ {"validate", "unused", "clean", "head", "create", "stopped"}

\* Types: every attempt is at a place of the script, with settings of the
\* configuration.
TypeOK ==
    /\ git \in BOOLEAN
    /\ source \in Tree /\ commits \in Seq(Tree)
    /\ compiler \in [Languages -> Editions] /\ restored \in BOOLEAN
    /\ supplied \in Editions /\ changes \in Editions
    /\ pc \in [Attempts -> Stages]
    /\ settings \in [Attempts -> Settings \cup {None}]
    /\ DOMAIN revision = Attempts
    /\ \A a \in Attempts : revision[a] # None =>
           IF git THEN revision[a] \in 1 .. Len(commits) ELSE revision[a] \in Export
    /\ author \in Attempts \cup {None}
    /\ work \in [content : Export, config : Editions \cup {None},
                objects : SUBSET Object, evidence : Evidence \cup {None}]

(* The export's identity: whatever is edited and committed between the clean  *)
(* status, the reading of HEAD, the archive and the copies, the evidence      *)
(* names exactly the content that was built, as a commit or by its digest.    *)
IdentityNamesContent ==
    work.evidence # None => work.evidence.source_identity = work.content

(* A workspace has one author: two attempts that both found it absent never   *)
(* both write into it.                                                        *)
OneAuthor == \A a \in Attempts : pc[a] \in Inside => author = a

(* Evidence of an installation: what it rests on was compiled here, of both   *)
(* languages, from the source it names, by compilers of releases it records   *)
(* and, what is Ada, by one with the signature of the one it records.         *)
InstallationEarned ==
    work.evidence # None
    /\ work.evidence.qualification = "TARGET_BUILD_INSTALL_ONLY" =>
        /\ \A l \in Languages : \E o \in work.objects : o.lang = l
        /\ \A o \in work.objects :
               /\ o.by # None /\ o.from = work.evidence.source_identity
               /\ Release[o.lang][o.by] \in work.evidence.identities
               /\ o.lang = "ada" => Signature[o.by] = Signature[work.evidence.ada]

(* --verify-built rules out that the compiler of Ada was replaced, even by    *)
(* one of its release and signature, at any moment since it was validated,    *)
(* unless it was put back: all Ada that was built is by the compiler the      *)
(* evidence records. Of C++ it knows the release only.                        *)
VerifiedCompiler ==
    \A a \in Attempts : pc[a] = "verified" /\ ~ restored =>
        \A o \in work.objects : o.lang = "ada" => o.by = work.evidence.ada

(* What the evidence of a workspace says is true of what was built in it.     *)
EvidenceEarned ==
    /\ TypeOK /\ IdentityNamesContent /\ OneAuthor
    /\ InstallationEarned /\ VerifiedCompiler

=============================================================================
