---------------------------- MODULE EvidenceRun ----------------------------
(* The two isolation runners of the upstream research:                      *)
(* scripts/run_risk_reassessment.py ("risk") and                            *)
(* run_upstream_reproducers.py ("upstream"), which uses its run_case. Each  *)
(* case runs in a child that leads a process group of its own, under a wall *)
(* time limit that races the child's end; the identity of the library it    *)
(* loaded is read from the lines the child prints first, and only valid     *)
(* identities count as evidence.                                            *)
(*                                                                          *)
(* A line is [key, value]. A child first prints, and flushes together, what *)
(* it knows of itself: compile, runtime and, when it finds the file, object.*)
(* Then its case prints a line of its own and whatever it likes, lines that *)
(* look like identity lines included (an exception's message may hold any). *)
(* It may end anywhere, hang, or leave a helper process in its group.       *)
EXTENDS Integers, Sequences, FiniteSets, SequencesExt, FiniteSetsExt

CONSTANTS
    Selections,     \* what may be selected: sequences of "known" cases,
                    \* "unknown" ones and "malformed" names
    Versions,       \* version numbers of the library
    InPrefix,       \* library files under the intended prefix
    Elsewhere,      \* library files not under it
    Codes,          \* how a child ends by itself: exit codes, -signals
    MaxBody,        \* bound: lines a case prints after the header
    None

VARIABLES
    program,    \* which runner: "risk", "upstream"
    selected,   \* the selected cases
    child,      \* the case's child: its truth, its output, whether it and
                \* its helper run, its return code
    wait,       \* run_case: "waiting", "returned", "late", "killed"
    results,    \* the records, one per finished case, as printed
    report,     \* the --report file: of an earlier run, or the records
    exit        \* None while the runner runs; 0, 2, or 1 for a traceback

vars == <<program, selected, child, wait, results, report, exit>>

IdentityKeys == <<"compile", "runtime", "object">>
Keys == ToSet(IdentityKeys) \cup {"runtime_object"}

Files == InPrefix \cup Elsewhere

Truths == [compile : Versions, runtime : Versions, object : Files \cup {None}]

Lines == [key : Keys \cup {"input"}, value : Versions \cup Files \cup {None}]

Child == [truth : Truths, out : Seq(Lines), code : Codes \cup {None, -9},
          helper : BOOLEAN]

EvidenceRunAssumption ==
    /\ \A s \in Selections : s \in Seq({"known", "unknown", "malformed"})
    /\ InPrefix \cap Elsewhere = {}
    /\ Codes \subseteq Int
    /\ None \notin Versions \cup Files \cup Codes \cup {-9, 0, 1, 2}
    /\ None \notin Child

(***************************************************************************)
(* classify, parse_identity, object_in_prefix                              *)
(***************************************************************************)
Names == [c \in {0, 10, 64} |->
             CASE c = 0 -> "returned" [] c = 10 -> "cv_exception" [] c = 64 -> "usage_error"]

classify(code, late) ==
    IF late THEN "timeout"
    ELSE IF code < 0 THEN "signal"
    ELSE IF code \in DOMAIN Names THEN Names[code] ELSE "exit"

\* Mutant: identity lines count wherever they are.
HeaderAnywhere(out) == SelectSeq(out, LAMBDA l : l.key \in Keys)

Header(out) ==
    LET others == {i \in DOMAIN out : out[i].key \notin Keys}
    IN SubSeq(out, 1, IF others = {} THEN Len(out) ELSE Min(others) - 1)

ValueOf(out, key) ==
    LET at == {i \in DOMAIN Header(out) : Header(out)[i].key = key}
    IN IF at = {} THEN None ELSE Header(out)[Max(at)].value

Malformed(out) == \E i, j \in DOMAIN Header(out) :
                      i /= j /\ Header(out)[i].key = Header(out)[j].key

parse_identity(out) ==
    IF Malformed(out) THEN "identity_malformed"
    ELSE IF \E k \in ToSet(IdentityKeys) : ValueOf(out, k) = None THEN "identity_missing"
    ELSE IF ValueOf(out, "compile") /= ValueOf(out, "runtime") THEN "identity_mismatch"
    ELSE "ok"

object_in_prefix(out) == ValueOf(out, "object") \in InPrefix

ValidEvidence(out) ==
    /\ parse_identity(out) = "ok"
    /\ program = "upstream" => object_in_prefix(out)

(***************************************************************************)
(* The child                                                               *)
(***************************************************************************)
Running == child /= None /\ child.code = None

identity(truth) ==
    LET line(k) == [key |-> k, value |-> truth[k]]
        known == <<line("compile"), line("runtime")>>
    IN IF truth.object = None THEN known ELSE Append(known, line("object"))

OwnLine == [key |-> "input", value |-> None]

BodyLines == {OwnLine}
             \cup [key : {"compile", "runtime"}, value : Versions]
             \cup [key : {"object", "runtime_object"}, value : Files]

Init == /\ program \in {"risk", "upstream"}
        /\ selected \in Selections
        /\ child = None
        /\ wait = "waiting"
        /\ results = << >>
        /\ report = "earlier"
        /\ exit = None

Item == selected[Len(results) + 1]

MoreCases == exit = None /\ child = None /\ Len(results) < Len(selected)

(* Popen, in a new session: the child leads its own process group. *)
Popen ==
    /\ MoreCases
    /\ Item = "malformed" => program = "risk"
    /\ \E truth \in Truths :
           child' = [truth |-> truth, out |-> << >>, code |-> None, helper |-> FALSE]
    /\ UNCHANGED <<program, selected, wait, results, report, exit>>

(* A name that is not reproducer:case, or names no executable, raises: the *)
(* cases before it have run.  The risk runner passes any name on.          *)
BadItem ==
    /\ MoreCases
    /\ Item = "malformed" /\ program = "upstream"
    /\ exit' = 1
    /\ UNCHANGED <<program, selected, child, wait, results, report>>

PrintIdentity ==
    /\ Running /\ child.out = << >>
    /\ child' = [child EXCEPT !.out = identity(child.truth)]
    /\ UNCHANGED <<program, selected, wait, results, report, exit>>

PrintBody ==
    /\ Running /\ child.out /= << >> /\ Item = "known"
    /\ LET own == Len(identity(child.truth)) IN
       /\ Len(child.out) < own + MaxBody
       /\ \E line \in IF Len(child.out) = own THEN {OwnLine} ELSE BodyLines :
              child' = [child EXCEPT !.out = Append(@, line)]
    /\ UNCHANGED <<program, selected, wait, results, report, exit>>

StartHelper ==
    /\ Running /\ ~child.helper
    /\ child' = [child EXCEPT !.helper = TRUE]
    /\ UNCHANGED <<program, selected, wait, results, report, exit>>

(* The child ends, perhaps after the limit and before the kill; a case the *)
(* probe does not know ends with a usage error, after the identity.        *)
ChildEnds ==
    /\ Running
    /\ \E code \in Codes :
           /\ Item = "known" <=> code /= 64
           /\ child' = [child EXCEPT !.code = code]
    /\ UNCHANGED <<program, selected, wait, results, report, exit>>

(***************************************************************************)
(* run_case: the wait, the timeout, the kill of the group, the reading     *)
(***************************************************************************)
WaitReturns ==
    /\ wait = "waiting" /\ child /= None /\ child.code /= None
    /\ wait' = "returned"
    /\ UNCHANGED <<program, selected, child, results, report, exit>>

TimeoutExpires ==
    /\ wait = "waiting" /\ Running
    /\ wait' = "late"
    /\ UNCHANGED <<program, selected, child, results, report, exit>>

\* Mutant: os.kill: the child only.
KilledLeader(c) == [c EXCEPT !.code = IF @ = None THEN -9 ELSE @]

\* Mutant: the group's leader survives.
KilledHelper(c) == [c EXCEPT !.helper = FALSE]

(* os.killpg: the whole group; a code the child ended with stays. *)
Killed(c) == [c EXCEPT !.code = IF @ = None THEN -9 ELSE @, !.helper = FALSE]

KillGroup ==
    /\ wait = "late"
    /\ child' = Killed(child)
    /\ wait' = "killed"
    /\ UNCHANGED <<program, selected, results, report, exit>>

(* What the record should say of the child, and does not know. *)
Sound(truth) == /\ truth.compile = truth.runtime
                /\ truth.object /= None
                /\ program = "upstream" => truth.object \in InPrefix

(* The wait for the dead child returns, and the record is printed; sound   *)
(* and leftover keep what the record does not, for the properties.         *)
Record ==
    /\ wait \in {"returned", "killed"} /\ child.code /= None
    /\ results' = Append(results,
           [outcome |-> classify(child.code, wait = "killed"),
            valid |-> ValidEvidence(child.out),
            sound |-> Sound(child.truth), leftover |-> child.helper])
    /\ child' = None
    /\ wait' = "waiting"
    /\ UNCHANGED <<program, selected, report, exit>>

ExitCode(rows) == IF \E i \in DOMAIN rows : ~rows[i].valid THEN 2 ELSE 0

Finish ==
    /\ exit = None /\ child = None /\ Len(results) = Len(selected)
    /\ report' = IF program = "risk" THEN "this run" ELSE report
    /\ exit' = ExitCode(results)
    /\ UNCHANGED <<program, selected, child, wait, results>>

Runner == \/ Popen \/ BadItem \/ WaitReturns \/ TimeoutExpires
          \/ KillGroup \/ Record \/ Finish

Next == \/ Runner
        \/ PrintIdentity \/ PrintBody \/ StartHelper \/ ChildEnds

(* The runner takes its next step, and the limit of a wait is reached; a   *)
(* child need do nothing.                                                  *)
Spec == Init /\ [][Next]_vars /\ WF_vars(Runner)

---------------------------------------------------------------------------
\* Types: a result is a case that was selected, and a child ends with a code
\* that the harness or the system can give.
TypeOK ==
    /\ Len(results) <= Len(selected)
    /\ \A i \in DOMAIN results : results[i].outcome \in
           {"timeout", "signal", "returned", "cv_exception", "usage_error", "exit"}
    /\ child \in Child \cup {None}
    /\ wait \in {"waiting", "returned", "late", "killed"}
    /\ child = None => wait = "waiting"
    /\ exit \in {None, 0, 1, 2}

(* A run that ends without a complaint has a record of every selected case, *)
(* and each comes from a child whose library was the one meant, at the      *)
(* version it was compiled for: nothing a case prints after its identity    *)
(* stands in for an identity that is absent or wrong.                       *)
CleanExitIsEvidence ==
    exit = 0 => /\ Len(results) = Len(selected)
                /\ \A i \in DOMAIN results : results[i].sound

(* When a case is recorded as a timeout nothing of its process group runs   *)
(* beside the next case, even if its child ended between limit and kill.    *)
TimedOutGroupIsGone ==
    \A i \in DOMAIN results : results[i].outcome = "timeout" => ~results[i].leftover

(* What a run that is over or goes on shows is evidence.                    *)
EvidenceSound == TypeOK /\ CleanExitIsEvidence /\ TimedOutGroupIsGone

(* Every run ends, whatever hangs: the limit, the kill and the wait for the *)
(* killed child get each case over.                                         *)
RunEnds == <>(exit /= None)
============================================================================
