---------------------------- MODULE CrossInstall ----------------------------
(***************************************************************************)
(* scripts/cross_install_geometry.py: attempts to install Geometry for a   *)
(* target into a prefix that may be Core's own, that other programs write  *)
(* into, and that two attempts may share.  An attempt checks the prefix,   *)
(* selects a compiler configuration, builds and installs into a staging    *)
(* directory, publishes that without replacing anything, links consumers   *)
(* against it, with their logs in the prefix, and only then removes its    *)
(* workspace.  With --qualify it links again, also from copies, and        *)
(* records in the prefix what passed.  Any step may fail or be the last    *)
(* before a crash; nothing is undone.                                      *)
(***************************************************************************)
EXTENDS Integers, Sequences, FiniteSets

CONSTANTS
    Attempts,       \* runs of the script, at once or one after another
    Qualifying,     \* those with --qualify
    Entries,        \* staged files: sorted(staged.rglob("*")): parents before children
    Directories,    \* the entries that are directories
    Guarded,        \* the paths of prefix_safety that must not exist
    Above(_),       \* a path and its parents, within the prefix
    Prefixes,       \* what the prefix may hold at first, all of it "core"'s
    MaxFaults,      \* bound: failures, crashes and writes of others
    None            \* no value

Staged == {Entries[n] : n \in 1 .. Len(Entries)}

\* What is written into share/doc/opencv_geometry/cross-TARGET after the
\* publication: directories of logs, each with its logs as one file, and
\* dispositions.txt.
LogDirectories == {"consumers-installed", "qualification-installed",
                   "qualification-relocated"}

LateFiles == {"consumers-installed/log", "qualification-installed/log",
              "qualification-relocated/log", "dispositions"}

\* What --qualify copies before the dispositions, in its order.
Records == <<"qualification-installed", "qualification-installed/log",
             "qualification-relocated", "qualification-relocated/log">>

Late == LogDirectories \cup LateFiles

Paths == Staged \cup Late

Owners == Attempts \cup {"core", "other"}

Contents == [state : {"absent", "directory", "link", "partial", "whole"},
             owner : Owners \cup {None}]

Absent == [state |-> "absent", owner |-> None]
File(state, owner) == [state |-> state, owner |-> owner]

Candidates == {"missing", "incompatible", "outside", "valid"}

ASSUME InstallAssumption ==
    /\ Entries \in Seq(STRING) /\ MaxFaults \in Nat
    /\ Directories \subseteq Staged /\ Guarded \subseteq Staged
    /\ Staged \cap Late = {} /\ Staged \ Directories # {}
    /\ Qualifying \subseteq Attempts
    /\ \A m, n \in 1 .. Len(Entries) : Entries[m] = Entries[n] => m = n
    /\ {"core", "other", None} \cap Attempts = {}
    /\ None \notin {"PASS", "FAIL", "core"}
    /\ \A p \in Paths : p \in Above(p) /\ Above(p) \subseteq Paths
    /\ Prefixes \subseteq [Paths -> Contents]
    /\ Above("dispositions") \cap LogDirectories = {}
    /\ Above("consumers-installed/log") \cap LogDirectories = {"consumers-installed"}
    /\ \A n \in {2, 4} : Above(Records[n]) \cap LogDirectories = {Records[n - 1]}
    /\ \A f \in Prefixes : \A p \in Paths : f[p] = Absent \/ f[p].owner = "core"

VARIABLES
    fs,             \* the prefix
    candidates,     \* Core's configurations, in the order they are tried
    pc, at,         \* where an attempt is, and its next entry or record
    selected,       \* the configuration: None, "override", "core", "generated"
    workspace,      \* does the mkdtemp directory exist
    links,          \* consumer links that passed: "installed", "again", "moved"
    dispositions,   \* the dispositions of qualify's evidence: None, "PASS" or "FAIL"
    faults

vars == <<fs, candidates, pc, at, selected, workspace, links, dispositions,
          faults>>

Ended == {"passed", "failed", "crashed"}

Init ==
    /\ fs \in Prefixes
    /\ candidates \in Candidates \X Candidates
    /\ pc = [i \in Attempts |-> "new"] /\ at = [i \in Attempts |-> 1]
    /\ selected = [i \in Attempts |-> None]
    /\ workspace = [i \in Attempts |-> FALSE]
    /\ links = [i \in Attempts |-> {}]
    /\ dispositions = [i \in Attempts |-> None]
    /\ faults = 0

Go(i, from, to) == pc[i] = from /\ pc' = [pc EXCEPT ![i] = to]
-----------------------------------------------------------------------------
(* Before anything is written to the prefix.                               *)

\* prefix_safety looks for the directory that Late is in, too.
GuardedAbsent == \A p \in Guarded \cup Late : fs[p] = Absent

\* Under --qualify there may be no prefix at all.
PrefixSafe(i) ==
    /\ GuardedAbsent
    /\ i \in Qualifying => \A p \in Paths : fs[p] = Absent

Start(i) ==
    /\ PrefixSafe(i)
    /\ Go(i, "new", "checked") /\ workspace' = [workspace EXCEPT ![i] = TRUE]
    /\ UNCHANGED <<fs, candidates, at, selected, links, dispositions, faults>>

\* prefix_safety again, now that the workspace is known.
SafeAgain(i) ==
    /\ GuardedAbsent /\ Go(i, "checked", "safe")
    /\ UNCHANGED <<fs, candidates, at, selected, workspace, links, dispositions,
                   faults>>

\* OPENCV_CROSS_GPR_CONFIG names a configuration; qualification refuses that.
Override(i) ==
    /\ i \notin Qualifying /\ Go(i, "safe", "configured")
    /\ selected' = [selected EXCEPT ![i] = "override"]
    /\ UNCHANGED <<fs, candidates, at, workspace, links, dispositions, faults>>

\* The first candidate that check_configuration takes, if any is looked at.
Usable(i) ==
    {n \in {1, 2} : /\ i \notin Qualifying /\ candidates[n] \in {"outside", "valid"}
                    /\ n = 2 => candidates[1] \notin {"outside", "valid"}}

\* Mutant: a candidate outside of Core's prefix is used.
ConfigureOutside(i) ==
    /\ Go(i, "safe", "configured")
    /\ selected' = [selected EXCEPT ![i] = IF Usable(i) = {} THEN "generated"
                                                             ELSE "core"]
    /\ UNCHANGED <<fs, candidates, at, workspace, links, dispositions, faults>>

\* Mutant: a candidate that does not fit is an error.
ConfigureStrictly(i) ==
    /\ Go(i, "safe", "configured")
    /\ "incompatible" \notin {candidates[1], candidates[2]}
    /\ \A n \in Usable(i) : candidates[n] = "valid"
    /\ selected' = [selected EXCEPT ![i] = IF Usable(i) = {} THEN "generated"
                                                             ELSE "core"]
    /\ UNCHANGED <<fs, candidates, at, workspace, links, dispositions, faults>>

\* configuration() with reuse unless qualifying.  A compatible candidate that
\* lies outside of Core's prefix is an error, not a reason to go on.
Configure(i) ==
    /\ Go(i, "safe", "configured")
    /\ \A n \in Usable(i) : candidates[n] = "valid"
    /\ selected' = [selected EXCEPT ![i] = IF Usable(i) = {} THEN "generated"
                                                             ELSE "core"]
    /\ UNCHANGED <<fs, candidates, at, workspace, links, dispositions, faults>>

\* validate(), workspace("--build") and the checks of the staged installation.
Stage(i) ==
    /\ Go(i, "configured", "checking") /\ at' = [at EXCEPT ![i] = 1]
    /\ UNCHANGED <<fs, candidates, selected, workspace, links, dispositions,
                   faults>>
-----------------------------------------------------------------------------
(* publish.                                                                *)

\* May the entry be published: no link on the way, and nothing there unless
\* both are directories.
Clear(p) ==
    /\ \A q \in Above(p) : fs[q].state # "link"
    /\ \/ fs[p] = Absent
       \/ p \in Directories /\ fs[p].state = "directory"

\* The preflight of one entry; after the last one the creation begins.
Preflight(i) ==
    /\ pc[i] = "checking" /\ at[i] <= Len(Entries) /\ Clear(Entries[at[i]])
    /\ at' = [at EXCEPT ![i] = @ + 1]
    /\ UNCHANGED <<fs, candidates, pc, selected, workspace, links, dispositions,
                   faults>>

Preflighted(i) ==
    /\ at[i] > Len(Entries)
    /\ Go(i, "checking", "creating") /\ at' = [at EXCEPT ![i] = 1]
    /\ UNCHANGED <<fs, candidates, selected, workspace, links, dispositions,
                   faults>>

MakeDirectory(i) ==
    /\ pc[i] = "creating" /\ at[i] <= Len(Entries)
    /\ LET p == Entries[at[i]]
       IN  /\ p \in Directories /\ fs[p].state \in {"absent", "directory", "link"}
           /\ fs' = [fs EXCEPT ![p] = IF @ = Absent THEN File("directory", i)
                                                    ELSE @]
    /\ at' = [at EXCEPT ![i] = @ + 1]
    /\ UNCHANGED <<candidates, pc, selected, workspace, links, dispositions,
                   faults>>

\* Mutant: the file is opened for writing, whatever is there by now.
OpenAnyFile(i) ==
    /\ Go(i, "creating", "copying") /\ at[i] <= Len(Entries)
    /\ Entries[at[i]] \notin Directories
    /\ fs' = [fs EXCEPT ![Entries[at[i]]] = File("partial", i)]
    /\ UNCHANGED <<candidates, at, selected, workspace, links, dispositions,
                   faults>>

\* destination.open("xb"): exclusive creation.
OpenFile(i) ==
    /\ Go(i, "creating", "copying") /\ at[i] <= Len(Entries)
    /\ Entries[at[i]] \notin Directories /\ fs[Entries[at[i]]] = Absent
    /\ fs' = [fs EXCEPT ![Entries[at[i]]] = File("partial", i)]
    /\ UNCHANGED <<candidates, at, selected, workspace, links, dispositions,
                   faults>>

CopyFile(i) ==
    /\ Go(i, "copying", "creating")
    /\ fs' = [fs EXCEPT ![Entries[at[i]]] = File("whole", i)]
    /\ at' = [at EXCEPT ![i] = @ + 1]
    /\ UNCHANGED <<candidates, selected, workspace, links, dispositions, faults>>
-----------------------------------------------------------------------------
(* After publication.  A log is written in one step, whatever is there.    *)

Create(i, p) == fs' = [fs EXCEPT ![p] = File("directory", i)]
Write(i, p) == fs' = [fs EXCEPT ![p] = File("whole", i)]

\* Mutant: the directory may be there.
OpenLogsAnyway(i) ==
    /\ at[i] > Len(Entries) /\ Go(i, "creating", "logging")
    /\ fs' = IF fs["consumers-installed"] = Absent
             THEN [fs EXCEPT !["consumers-installed"] = File("directory", i)]
             ELSE fs
    /\ UNCHANGED <<candidates, at, selected, workspace, links, dispositions,
                   faults>>

\* The consumers' logs directory in the prefix must be new.
OpenLogs(i) ==
    /\ at[i] > Len(Entries) /\ Go(i, "creating", "logging")
    /\ fs["consumers-installed"] = Absent /\ Create(i, "consumers-installed")
    /\ UNCHANGED <<candidates, at, selected, workspace, links, dispositions,
                   faults>>

\* Mutant: the last entry is not waited for.
LinkEarly(i) ==
    /\ at[i] >= Len(Entries) /\ Go(i, "creating", "linked")
    /\ Write(i, "consumers-installed/log")
    /\ links' = [links EXCEPT ![i] = {"installed"}]
    /\ UNCHANGED <<candidates, at, selected, workspace, dispositions, faults>>

\* The independent consumers link against the prefix, and log it there.
Link(i) ==
    /\ Go(i, "logging", "linked") /\ Write(i, "consumers-installed/log")
    /\ links' = [links EXCEPT ![i] = {"installed"}]
    /\ UNCHANGED <<candidates, at, selected, workspace, dispositions, faults>>

\* The workspace is removed; without --qualify that is all.
Clean(i) ==
    /\ Go(i, "linked", IF i \in Qualifying THEN "cleaned" ELSE "passed")
    /\ workspace' = [workspace EXCEPT ![i] = FALSE]
    /\ UNCHANGED <<fs, candidates, at, selected, links, dispositions, faults>>

LinkAgain(i) ==
    /\ ~workspace[i] /\ Go(i, "cleaned", "relinked")
    /\ links' = [links EXCEPT ![i] = @ \cup {"again"}]
    /\ UNCHANGED <<fs, candidates, at, selected, workspace, dispositions, faults>>

\* The links from copies, and the dispositions.
LinkMoved(i) ==
    /\ Go(i, "relinked", "recording") /\ at' = [at EXCEPT ![i] = 1]
    /\ links' = [links EXCEPT ![i] = @ \cup {"moved"}]
    /\ dispositions' = [dispositions EXCEPT ![i] = "PASS"]
    /\ UNCHANGED <<fs, candidates, selected, workspace, faults>>

\* shutil.copytree of the logs of both links: new directories, and files.
CopyLogs(i) ==
    /\ pc[i] = "recording" /\ at[i] <= Len(Records)
    /\ LET p == Records[at[i]]
       IN  \/ p \in LogDirectories /\ fs[p] = Absent /\ Create(i, p)
           \/ p \in LateFiles /\ Write(i, p)
    /\ at' = [at EXCEPT ![i] = @ + 1]
    /\ UNCHANGED <<candidates, pc, selected, workspace, links, dispositions,
                   faults>>

\* Last, shutil.copyfile of the dispositions, over one that is there.
Record(i) ==
    /\ at[i] > Len(Records) /\ Go(i, "recording", "passed")
    /\ Write(i, "dispositions")
    /\ UNCHANGED <<candidates, at, selected, workspace, links, dispositions,
                   faults>>
-----------------------------------------------------------------------------
(* What goes wrong.                                                        *)

\* The step that comes next cannot be taken: a path in the way, or a candidate
\* outside of Core.
Refused(i) ==
    \/ pc[i] = "new" /\ ~PrefixSafe(i)
    \/ pc[i] = "checked" /\ ~GuardedAbsent
    \/ pc[i] = "safe" /\ \E n \in Usable(i) : candidates[n] = "outside"
    \/ /\ pc[i] = "checking" /\ at[i] <= Len(Entries)
       /\ ~Clear(Entries[at[i]])
    \/ /\ pc[i] = "creating" /\ at[i] <= Len(Entries)
       /\ LET p == Entries[at[i]]
          IN  IF p \in Directories THEN fs[p].state \in {"partial", "whole"}
              ELSE fs[p] # Absent
    \/ /\ pc[i] = "creating" /\ at[i] > Len(Entries)
       /\ fs["consumers-installed"] # Absent
    \/ /\ pc[i] = "recording" /\ at[i] <= Len(Records)
       /\ Records[at[i]] \in LogDirectories /\ fs[Records[at[i]]] # Absent

\* Mutant: qualify's handler leaves the dispositions as they are.
RaiseKeeping(i) ==
    /\ pc' = [pc EXCEPT ![i] = "failed"]
    /\ UNCHANGED <<fs, candidates, at, selected, workspace, links, dispositions>>

\* An exception: the workspace and what is in the prefix stay.
Raise(i) ==
    /\ pc' = [pc EXCEPT ![i] = "failed"]
    /\ dispositions' = [dispositions EXCEPT ![i] =
                          IF pc[i] \in {"cleaned", "relinked", "recording"}
                          THEN "FAIL" ELSE @]
    /\ UNCHANGED <<fs, candidates, at, selected, workspace, links>>

Refuse(i) == Refused(i) /\ Raise(i) /\ UNCHANGED faults

\* A tool, a link or a copy fails.
Fail(i) ==
    /\ pc[i] \notin Ended \cup {"new"} /\ faults < MaxFaults
    /\ Raise(i) /\ faults' = faults + 1

Crash(i) ==
    /\ pc[i] \notin Ended \cup {"new"} /\ faults < MaxFaults
    /\ pc' = [pc EXCEPT ![i] = "crashed"] /\ faults' = faults + 1
    /\ UNCHANGED <<fs, candidates, at, selected, workspace, links, dispositions>>

\* Another program installs a file of its own, below directories that it
\* makes where there are none.
OtherWrites(p) ==
    /\ faults < MaxFaults
    /\ fs[p] = Absent /\ p \notin Directories \cup LogDirectories
    /\ \A q \in Above(p) \ {p} : fs[q].state \in {"absent", "directory", "link"}
    /\ fs' = [q \in Paths |->
                IF q = p THEN File("whole", "other")
                ELSE IF q \in Above(p) /\ fs[q] = Absent
                     THEN File("directory", "other") ELSE fs[q]]
    /\ faults' = faults + 1
    /\ UNCHANGED <<candidates, pc, at, selected, workspace, links, dispositions>>

Install(i) ==
    \/ Start(i) \/ SafeAgain(i) \/ Override(i) \/ Configure(i) \/ Stage(i)
    \/ Preflight(i) \/ Preflighted(i)
    \/ MakeDirectory(i) \/ OpenFile(i) \/ CopyFile(i)
    \/ OpenLogs(i) \/ Link(i) \/ Clean(i)
    \/ LinkAgain(i) \/ LinkMoved(i) \/ CopyLogs(i) \/ Record(i)
    \/ Refuse(i)

Next ==
    \/ \E i \in Attempts : Install(i) \/ Fail(i) \/ Crash(i)
    \/ \E p \in Paths : OtherWrites(p)

\* An attempt that is running takes its next step; none need begin.
Fairness == \A i \in Attempts : WF_vars(pc[i] # "new" /\ Install(i))

Spec == Init /\ [][Next]_vars /\ Fairness
-----------------------------------------------------------------------------
Files == Staged \ Directories

\* Types: every attempt is at a step of the script and within its list of
\* entries, and the prefix holds known contents.
TypeOK ==
    /\ fs \in [Paths -> Contents]
    /\ candidates \in Candidates \X Candidates
    /\ pc \in [Attempts -> Ended \cup {"new", "checked", "safe", "configured",
                   "checking", "creating", "copying", "logging", "linked",
                   "cleaned", "relinked", "recording"}]
    /\ at \in [Attempts -> Nat \ {0}]
    /\ selected \in [Attempts -> {None, "override", "core", "generated"}]
    /\ workspace \in [Attempts -> BOOLEAN]
    /\ links \in [Attempts -> SUBSET {"installed", "again", "moved"}]
    /\ dispositions \in [Attempts -> {None, "PASS", "FAIL"}]
    /\ faults \in 0 .. MaxFaults

Published(i) == \A p \in Files : fs[p] = File("whole", i)

\* The logs of an attempt that has passed.
LogsOf(i) == IF i \in Qualifying THEN LateFiles ELSE {"consumers-installed/log"}

\* "PASS" is printed of an installation that is in the prefix, all of it its
\* own and whole, that consumers were linked against, with its own logs beside
\* it, and whose workspace is gone, whatever others did to the prefix
\* meanwhile.
PassMeansInstalled ==
    \A i \in Attempts :
        pc[i] = "passed" =>
            /\ Published(i) /\ "installed" \in links[i] /\ ~workspace[i]
            /\ i \in Qualifying => {"again", "moved"} \subseteq links[i]
            /\ \A p \in LogsOf(i) : fs[p] = File("whole", i)

\* Two installations never mix: while one has files in the prefix, logs
\* included, the other has none, although both may have passed the preflight.
InstallationsDoNotMix ==
    \A i, j \in Attempts : \A p, q \in Files \cup LateFiles :
        fs[p].owner = i /\ fs[q].owner = j => i = j

\* A configuration taken from Core lies in Core, and qualification never
\* takes one.
ConfigurationContained ==
    \A i \in Attempts :
        selected[i] = "core" =>
            /\ i \notin Qualifying
            /\ \E n \in {1, 2} : /\ candidates[n] = "valid"
                                 /\ \A m \in 1 .. n - 1 : candidates[m] # "outside"

\* "Diagnostic workspaces are retained": a failed attempt keeps its workspace
\* unless every gate of the production had succeeded, and its dispositions
\* never say PASS.
FailureKeepsEvidence ==
    \A i \in Attempts :
        pc[i] = "failed" =>
            /\ workspace[i] \/ links[i] # {} \/ selected[i] = None
            /\ dispositions[i] # "PASS"

\* What an installation that ends, well or badly, leaves behind.
InstallationsSound ==
    /\ PassMeansInstalled /\ InstallationsDoNotMix
    /\ ConfigurationContained /\ FailureKeepsEvidence

\* An attempt writes over another program's file: never one that was there
\* before the attempts, never another attempt's, and only a log, of an
\* installation that is all its own, in a directory of logs that it has made
\* itself, or the dispositions.
WritesOver(p) ==
    /\ p \in LateFiles /\ fs[p].owner = "other"
    /\ \E i \in Attempts :
          /\ Published(i) /\ fs'[p] = File("whole", i)
          /\ \A d \in Above(p) \cap LogDirectories : fs[d].owner = i

\* "Existing files are never replaced": once there, a file changes only when
\* the attempt that created it completes it, or when another program has put
\* a file where a log of the attempt goes, since the attempt's last check.
NothingReplaced ==
    [][\A p \in Paths :
          fs[p] # Absent /\ fs'[p] # fs[p] =>
              \/ /\ fs[p].state = "partial" /\ fs'[p].state = "whole"
                 /\ fs'[p].owner = fs[p].owner
              \/ WritesOver(p)]_fs

\* Attempts that share a prefix do not stop each other: if nothing fails and
\* nobody else writes, one that goes ahead on a fresh prefix publishes.
OneSucceeds ==
    (/\ \A p \in Paths : fs[p] = Absent
     /\ "outside" \notin {candidates[1], candidates[2]})
        => [](\A i \in Attempts :
                 pc[i] = "checked"
                     ~> \/ \E j \in Attempts : pc[j] = "passed"
                        \/ faults > 0)
=============================================================================
