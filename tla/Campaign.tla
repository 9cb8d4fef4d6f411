------------------------------ MODULE Campaign ------------------------------
(***************************************************************************)
(* The resumable research campaign of scripts/run_fit_line_3d_research.py: *)
(* one controller replays a corpus, one isolated child per case, appends   *)
(* each outcome to a JSON-lines report, and a later run resumes from what  *)
(* the report holds.  The controller may be killed, or the machine lose    *)
(* power, between any two of its steps; the probe and the corpus may be    *)
(* replaced between two runs.  The file is synced as a whole, so a record  *)
(* left unsynced by a killed run is synced with the next one saved.        *)
(***************************************************************************)
EXTENDS Integers, Sequences, SequencesExt, FiniteSets

CONSTANTS
    CaseCount,      \* cases of the corpus, run in the order 1 .. CaseCount
    Identities,     \* hashes of the probe, the corpus, versions and prefix
    Ends,           \* how a child may end: see ChildEnds
    MaxCrashes      \* bound: crashes and failed writes

CampaignAssumption ==
    /\ CaseCount \in Nat \ {0}
    /\ MaxCrashes \in Nat

VARIABLES
    report,     \* what the report file holds: a sequence of saved records
    exists,     \* does the report file exist?
    pc,         \* what the controller does next
    cursor,     \* the next case of its loop
    done,       \* cases it found in the report when it started
    pending,    \* the record it is about to save
    outcome,    \* how the last run ended
    counted,    \* cases counted by the last summary that was printed
    identity,   \* identity of the probe and corpus that a run would use
    crashes

vars == <<report, exists, pc, cursor, done, pending, outcome, counted,
          identity, crashes>>

Cases == 1 .. CaseCount
Header == 0

\* What the controller observes of a child: it outlived the timeout; its
\* standard error holds a sanitizer report; its status; whether its first
\* record identifies the case, versions and object; whether that object can be
\* hashed; and what its result record says.
ChildEnds ==
    [overran : BOOLEAN, sanitizer : BOOLEAN,
     status : {"signal", "0", "10", "11", "12", "65", "other"},
     identified : BOOLEAN, hashable : BOOLEAN,
     result : {"sound", "nonfinite", "direction", "drift"}]

EndsAssumption == Ends \subseteq ChildEnds

\* A saved record: "whole" with its newline, "bare" without it, or "cut".
Outcomes == {"header", "timeout", "sanitizer", "signal", "return", "exception",
             "malformed", "probe_error", "protocol_error", "nonfinite", "direction"}
Records ==
    [item : Cases \cup {Header}, identity : Identities,
     exit : Outcomes, form : {"whole", "bare", "cut"}, durable : BOOLEAN]

Saved(c, e) == [item |-> c, identity |-> identity, exit |-> e,
                form |-> "whole", durable |-> FALSE]

ChildKind(e) ==
    IF e.overran THEN "timeout"
    ELSE IF e.sanitizer THEN "sanitizer"
    ELSE CASE e.status = "signal"  -> "signal"
           [] e.status = "0"       -> "return"
           [] e.status \in {"10", "11", "12"} -> "exception"
           [] e.status = "65"      -> "malformed"
           [] OTHER                -> "probe_error"

\* ValueError, KeyError, IndexError or TypeError while its output is read.
Drifts(e) == \/ ~e.identified
             \/ ChildKind(e) = "return" /\ e.result = "drift"

\* OSError, which is not caught: the outcome is lost and the run ends.
Aborts(e) == e.identified /\ ~e.hashable

\* Mutant: any outcome of a child that did not identify itself is drift.
RecordedAsDrift(e) ==
    IF Drifts(e) THEN "protocol_error"
    ELSE IF ChildKind(e) = "return" /\ e.result # "sound" THEN e.result
    ELSE ChildKind(e)

\* result['exit'] as it is saved.
Recorded(e) ==
    IF Drifts(e) /\ ChildKind(e) \in {"return", "exception"}
      THEN "protocol_error"
    ELSE IF ~Drifts(e) /\ ChildKind(e) = "return" /\ e.result # "sound"
      THEN e.result
    ELSE ChildKind(e)
-----------------------------------------------------------------------------
(* Reading the file back.  A record after a bare one is on the same line.  *)

Glued(i) == i > 1 /\ report[i - 1].form # "whole"

\* Mutant: lines that do not parse are skipped.
ParsesAnything(from) == TRUE

\* json.loads accepts every line that starts at or after record from.
Parses(from) ==
    \A i \in from .. Len(report) :
        /\ report[i].form # "cut"
        /\ i > from => ~Glued(i)

\* The first record of the second line.
SecondLine ==
    LET ends == {i \in 1 .. Len(report) : report[i].form = "whole"}
    IN  IF ends = {} THEN Len(report) + 1
        ELSE (CHOOSE i \in ends : \A j \in ends : i <= j) + 1

Items(from) == {report[i].item : i \in from .. Len(report)}

Done == Items(2)

\* Mutant: any header is taken.
HeaderFound == Len(report) > 0 /\ report[1].item = Header

IdentityUnchanged == /\ Len(report) > 0
                     /\ report[1].item = Header
                     /\ report[1].identity = identity

\* Mutant: a protocol error is not looked for.
ResumableAfterDrift ==
    /\ Parses(1) /\ IdentityUnchanged
    /\ Cardinality(Done) = Len(report) - 1 /\ Done \subseteq Cases

\* The checks of a run that finds the report file.
Resumable ==
    /\ Parses(1)
    /\ IdentityUnchanged
    /\ Cardinality(Done) = Len(report) - 1 /\ Done \subseteq Cases
    /\ \A i \in 2 .. Len(report) : report[i].exit # "protocol_error"
-----------------------------------------------------------------------------
Init ==
    /\ report = <<>> /\ exists = FALSE /\ pc = "idle" /\ cursor = 1
    /\ done = {} /\ pending = <<>> /\ outcome = "none" /\ counted = {}
    /\ identity \in Identities /\ crashes = 0

Stop(o) == pc' = "idle" /\ outcome' = o /\ pending' = <<>>

\* run(): read the corpus and the report, and open it for appending, which
\* creates it.
Start ==
    /\ pc = "idle"
    /\ cursor' = 1 /\ exists' = TRUE
    /\ done' = IF exists THEN Done ELSE {}
    /\ exists => Resumable
    /\ IF report = <<>>
       THEN pc' = "save" /\ pending' = <<Saved(Header, "header")>>
       ELSE pc' = "cases" /\ pending' = <<>>
    /\ outcome' = "running"
    /\ UNCHANGED <<report, counted, identity, crashes>>

StartRefused ==
    /\ pc = "idle" /\ exists /\ ~Resumable
    /\ Stop("refused")
    /\ UNCHANGED <<report, exists, cursor, done, counted, identity, crashes>>

\* Mutant: the loop does not go on after a case already done.
SkipStuck ==
    /\ pc = "cases" /\ cursor \in done
    /\ UNCHANGED <<report, exists, pc, cursor, done, pending, outcome, counted,
                   identity, crashes>>

Skip ==
    /\ pc = "cases" /\ cursor \in done
    /\ cursor' = cursor + 1
    /\ UNCHANGED <<report, exists, pc, done, pending, outcome, counted,
                   identity, crashes>>

\* Mutant: cases already done are run again.
RunChildAgain(e) ==
    /\ pc = "cases" /\ cursor \in Cases
    /\ IF Aborts(e)
       THEN Stop("aborted") /\ UNCHANGED cursor
       ELSE /\ pc' = "save" /\ pending' = <<Saved(cursor, Recorded(e))>>
            /\ cursor' = cursor + 1 /\ UNCHANGED outcome
    /\ UNCHANGED <<report, exists, done, counted, identity, crashes>>

\* child() returns, killed at its timeout if need be; its output is checked.
RunChild(e) ==
    /\ pc = "cases" /\ cursor \in Cases \ done
    /\ IF Aborts(e)
       THEN Stop("aborted") /\ UNCHANGED cursor
       ELSE /\ pc' = "save" /\ pending' = <<Saved(cursor, Recorded(e))>>
            /\ cursor' = cursor + 1 /\ UNCHANGED outcome
    /\ UNCHANGED <<report, exists, done, counted, identity, crashes>>

\* Mutant: the file is opened for writing, not for appending.
WriteAfresh ==
    /\ pc = "save"
    /\ report' = pending
    /\ pc' = "sync"
    /\ UNCHANGED <<exists, cursor, done, pending, outcome, counted, identity,
                   crashes>>

\* save(): write and flush.
Write ==
    /\ pc = "save"
    /\ report' = report \o pending
    /\ pc' = "sync"
    /\ UNCHANGED <<exists, cursor, done, pending, outcome, counted, identity,
                   crashes>>

AllDurable(s) == [i \in DOMAIN s |-> [s[i] EXCEPT !.durable = TRUE]]

\* Mutant: no fsync.
SyncNothing ==
    /\ pc = "sync"
    /\ pc' = "cases" /\ pending' = <<>>
    /\ UNCHANGED <<report, exists, cursor, done, outcome, counted, identity,
                   crashes>>

\* save(): fsync.  A protocol error ends the run once it is saved.
Sync ==
    /\ pc = "sync"
    /\ report' = AllDurable(report)
    /\ IF Last(report).exit = "protocol_error"
       THEN Stop("drift")
       ELSE pc' = "cases" /\ pending' = <<>> /\ UNCHANGED outcome
    /\ UNCHANGED <<exists, cursor, done, counted, identity, crashes>>

\* Mutants: what this run executed is counted; the header line is counted.
SummaryOfThisRun ==
    /\ pc = "cases" /\ cursor > CaseCount
    /\ Stop("summarised") /\ counted' = Cases \ done
    /\ UNCHANGED <<report, exists, cursor, done, identity, crashes>>

SummaryOfHeader ==
    /\ pc = "cases" /\ cursor > CaseCount
    /\ Stop("summarised") /\ counted' = Items(1)
    /\ UNCHANGED <<report, exists, cursor, done, identity, crashes>>

\* summary(): every line of the report but the first is counted.
Summary ==
    /\ pc = "cases" /\ cursor > CaseCount
    /\ IF Parses(SecondLine)
       THEN Stop("summarised") /\ counted' = Items(SecondLine)
       ELSE Stop("failed") /\ UNCHANGED counted
    /\ UNCHANGED <<report, exists, cursor, done, identity, crashes>>

\* What the file may hold when the controller stops: the write of a record may
\* be cut short.
Written ==
    {report} \cup
    (IF pc = "save"
     THEN {Append(report, [pending[1] EXCEPT !.form = f]) : f \in {"bare", "cut"}}
     ELSE {})

\* The controller is killed, or a write or an fsync fails: what it wrote and did
\* not sync stays readable, and is not durable.
Kill ==
    /\ pc # "idle" /\ crashes < MaxCrashes
    /\ crashes' = crashes + 1
    /\ report' \in Written
    /\ Stop("crashed")
    /\ UNCHANGED <<exists, cursor, done, counted, identity>>

Shortened(f) == CASE f = "whole" -> {"whole", "bare", "cut"}
                  [] f = "bare"  -> {"bare", "cut"}
                  [] OTHER       -> {"cut"}

\* The first k records of s, the last of them in the form f.
Left(s, k, f) ==
    [i \in 1 .. k |-> [s[i] EXCEPT !.durable = TRUE,
                                  !.form = IF i = k THEN f ELSE s[i].form]]

\* The machine stops, whether or not a run is in progress: the file keeps what
\* is durable and any part of the rest from its start. A file of which nothing
\* is left may be gone.
PowerLoss ==
    /\ crashes < MaxCrashes
    /\ crashes' = crashes + 1
    /\ \E s \in Written : \E k \in 0 .. Len(s), f \in {"whole", "bare", "cut"} :
          /\ \A i \in 1 .. Len(s) : s[i].durable => i <= k
          /\ k > 0 => f \in (IF s[k].durable THEN {s[k].form} ELSE Shortened(s[k].form))
          /\ report' = Left(s, k, f)
    /\ exists' \in (IF report' = <<>> THEN {exists, FALSE} ELSE {exists})
    /\ Stop("crashed")
    /\ UNCHANGED <<cursor, done, counted, identity>>

\* Between two runs the probe is rebuilt, or the corpus or a version changes.
Replace ==
    /\ pc = "idle"
    /\ identity' \in Identities \ {identity}
    /\ UNCHANGED <<report, exists, pc, cursor, done, pending, outcome, counted,
                   crashes>>

Controller == Skip \/ (\E e \in Ends : RunChild(e)) \/ Write \/ Sync \/ Summary

Next == Start \/ StartRefused \/ Controller \/ Kill \/ PowerLoss \/ Replace

\* A started run takes its steps: a child returns, if only by its timeout.
\* Nothing makes a person start a run, or a crash happen.
Spec == Init /\ [][Next]_vars /\ WF_vars(Controller)
-----------------------------------------------------------------------------
\* Types: report, cursor and recorded cases are those of the campaign, and at
\* most one record is unsaved.
TypeOK ==
    /\ report \in Seq(Records) /\ exists \in BOOLEAN
    /\ pc \in {"idle", "cases", "save", "sync"}
    /\ cursor \in 1 .. CaseCount + 1
    /\ done \subseteq Cases /\ counted \subseteq Cases
    /\ pending \in Seq(Records) /\ Len(pending) <= 1
    /\ outcome \in {"none", "running", "refused", "aborted", "drift", "failed",
                    "summarised", "crashed"}
    /\ identity \in Identities /\ crashes \in 0 .. MaxCrashes

\* However runs are interrupted and resumed, no case is recorded twice.
NoCaseTwice ==
    \A i, j \in 1 .. Len(report) : report[i].item = report[j].item => i = j

\* Every outcome in a report is that of the probe and corpus its header names,
\* though they are replaced between runs.
OneIdentityPerReport ==
    \A i \in 1 .. Len(report) : /\ report[1].item = Header
                                /\ report[i].identity = report[1].identity

\* A run that has saved an outcome goes on to another child only once the whole
\* report would survive a power loss. What a run finds when it resumes need not:
\* every record is at risk that was written since the last fsync by runs that
\* were killed before theirs, and these are the last ones, one for each kill.
DurableBeforeNextChild ==
    /\ pc = "cases" /\ Done # done => \A i \in 1 .. Len(report) : report[i].durable
    /\ \A i \in 1 .. Len(report) :
          i + crashes + (IF pc = "sync" THEN 1 ELSE 0) <= Len(report) =>
              report[i].durable

\* An interrupted partial record fails loudly: nothing is ever appended to it.
PartialRecordIsLast ==
    \A i \in 1 .. Len(report) : report[i].form = "cut" => i = Len(report)

\* After an outcome that shows the probe's protocol or identity drifted,
\* nothing more is recorded, in this run or in a resumed one.
DriftStopsCampaign ==
    \A i \in 1 .. Len(report) :
        report[i].exit = "protocol_error" => i = Len(report)

\* A crash, a sanitizer report or a timeout is recorded as what it was, even
\* when the child never identified itself.
ProtectionOutcomeKept ==
    \A e \in Ends : RunChild(e) /\ pc' = "save" =>
        LET saved == pending'[1].exit
        IN  /\ e.overran => saved = "timeout"
            /\ ~e.overran /\ e.sanitizer => saved = "sanitizer"
            /\ ~e.overran /\ ~e.sanitizer /\ e.status = "signal"
                  => saved = "signal"

\* What is durable stays in the report, whatever happens to the controller, and
\* no crash of a child is saved as another outcome.
EvidenceKept ==
    [][/\ \A i \in 1 .. Len(report) :
              report[i].durable => i <= Len(report') /\ report'[i] = report[i]
       /\ ProtectionOutcomeKept]_vars

\* A printed summary misses no case, but one glued to a header whose newline
\* was lost.
OnlyHeaderLineMissed ==
    outcome = "summarised" =>
        Cases \ counted \subseteq
            {report[i].item : i \in {j \in 2 .. Len(report) : j < SecondLine}}

\* The report of a campaign, however often it was interrupted, resumed and its
\* probe replaced.
ReportSound ==
    /\ TypeOK /\ NoCaseTwice /\ OneIdentityPerReport /\ DurableBeforeNextChild
    /\ PartialRecordIsLast /\ DriftStopsCampaign /\ OnlyHeaderLineMissed

\* A run ends: it summarises, fails or is stopped, if no crash ends it.
RunEnds == (pc # "idle") ~> (pc = "idle")

\* docs/fit-line-3d-research.md: "An interrupted partial JSON record fails
\* loudly instead of silently discarding prior evidence."  A summary that is
\* printed would then count every case.
SummaryComplete == outcome = "summarised" => counted = Cases
=============================================================================
