---------------------------- MODULE ProbeVerdict ----------------------------
(***************************************************************************)
(* What scripts/run_min_enclosing_polygon_research.py makes of the         *)
(* children that run_jobs hands it: classify and classify_returned name an *)
(* outcome, checked_outcome replaces it when the wrong code was measured,  *)
(* run_corpus and run_fuzz tally outcomes and expectations, write the      *)
(* report and choose the exit status; main turns some exceptions into a    *)
(* status and lets the others out.  A finished child is a record of what   *)
(* shows of it; the numbers behind a polygon are reduced to which checks   *)
(* fail and which competitors are smaller (see ExactGeometry).             *)
(***************************************************************************)
EXTENDS Integers, Sequences, SequencesExt, FiniteSets, FiniteSetsExt

CONSTANTS
    Cases,          \* the corpus, or the fuzzed iterations
    Expected,       \* Case.expect of the family asked for: [Cases -> kind]
    Behaviours(_),  \* what the child of a case may do, within Children
    None            \* no value

ErrorKinds == {"probe_error", "identity_error", "timeout", "output_limit"}
Exceptions == {"cv_exception", "std_exception", "other_exception"}
Expectable == {"polygon", "polygon_nonminimal", "polygon_invalid", "empty",
               "cv_exception", "crash"}
Kinds == Expectable \cup ErrorKinds \cup Exceptions

VARIABLES
    options,    \* the command line and the probe's manifest
    child,      \* what each case's child did, None before it is finished
    outcome,    \* reporter: the kind each case was given
    tally,      \* [counts, mismatches, unchecked, errors]
    report,     \* the report's lines: "header", a case, "summary"
    status      \* the exit status, None while the runner runs

vars == <<options, child, outcome, tally, report, status>>
-----------------------------------------------------------------------------
(* What the command line may ask, and what check_probe, run_corpus and     *)
(* run_fuzz refuse.                                                        *)

Options ==
    [command : {"run", "fuzz"}, expect : BOOLEAN,
     minimality : {"all", "rectangle", "none"}, oracle : BOOLEAN,
     manifest : {None, "library", "compiled"}, sanitized : BOOLEAN,
     memoryLimit : BOOLEAN, inRange : BOOLEAN]

\* Only run has --expect and the oracle; what the manifest says of sanitizers
\* is read only when there is a memory limit.
CommandLine(o) ==
    /\ o.command = "fuzz" => ~o.expect /\ ~o.oracle
    /\ o.sanitized => o.manifest # None /\ o.memoryLimit

\* inRange: the probe can be run, and --jobs, --case, --iterations and --seed
\* are in range.
ProbeRefused(o) == ~o.inRange \/ (o.memoryLimit /\ o.sanitized)

\* Mutant: expectations are compared whatever the checks.
RefusedByProbe(o) == ProbeRefused(o)

Refused(o) ==
    \/ ProbeRefused(o)
    \/ o.expect /\ (o.minimality # "all" \/ ~o.oracle)
-----------------------------------------------------------------------------
(* Children.  ending is how the process ended; marked: does stderr hold    *)
(* the sanitizer's or the assertion's text; runtime: the object that the   *)
(* runtime record names; echoed: are the points it echoes the case's.      *)
(* garbled: what of its output cannot be used: a number of the result, a   *)
(* point that it echoes, an object it names that is not there to be hashed.*)

Competitors == {"flush_triangle", "minimum_rectangle", "optimum",
                "triangle_oracle"}

\* A returned polygon: does it fail a check, which competitor is smaller, and
\* may that one be used: the hull has at most 64 vertices for the triangle, k
\* is at least 4 for the rectangle, the oracle's triangle encloses exactly.
Polygons ==
    [form : {"polygon"}, flawed : BOOLEAN, smaller : Competitors \cup {None},
     usable : BOOLEAN]

Forms == {"incomplete", "empty", "empty, area", "miscounted", "not finite"}

Outputs == [form : Forms] \cup Polygons

Endings == {"timeout", "SIGXFSZ", "signal", "asan", "ubsan", "exception",
            "other"}

Garbled == {"nothing", "result", "points", "object"}

Unreturned ==
    [ending : Endings, marked : BOOLEAN, truncated : BOOLEAN,
     runtime : {None, "main-executable", "library", "elsewhere"},
     echoed : BOOLEAN, garbled : Garbled]

Returned ==
    [ending : {"returned"}, marked : {FALSE}, truncated : BOOLEAN,
     runtime : {None, "main-executable", "library", "elsewhere"},
     echoed : BOOLEAN, garbled : Garbled, output : Outputs]

Children == Unreturned \cup Returned

VerdictAssumption ==
    /\ IsFiniteSet(Cases) /\ "header" \notin Cases /\ "summary" \notin Cases
    /\ Expected \in [Cases -> Expectable \cup {None}]
    /\ \A c \in Cases : Behaviours(c) \subseteq Children
    /\ None \notin Kinds \cup Competitors \cup Children \cup {0, 1, 2}

\* The kind of the first rule that applies; the rules are tried in order.
FirstOf(rules) ==
    rules[Min({i \in DOMAIN rules : rules[i].when})].kind

Rule(when, kind) == [when |-> when, kind |-> kind]
-----------------------------------------------------------------------------
(* classify_returned, of output whose numbers can be read.                 *)

\* Mutant: the oracle is trusted.
CompetesTrusting(p, o) ==
    CASE p.smaller = "flush_triangle" -> o.minimality = "all" /\ p.usable
      [] p.smaller = "minimum_rectangle" ->
            o.minimality \in {"all", "rectangle"} /\ p.usable
      [] p.smaller = "triangle_oracle" -> o.oracle
      [] OTHER -> p.smaller = "optimum" /\ o.command = "run"

\* Is the smaller competitor one that is computed and compared?
Competes(p, o) ==
    CASE p.smaller = "flush_triangle" -> o.minimality = "all" /\ p.usable
      [] p.smaller = "minimum_rectangle" ->
            o.minimality \in {"all", "rectangle"} /\ p.usable
      [] p.smaller = "triangle_oracle" -> o.oracle /\ p.usable
      [] OTHER -> p.smaller = "optimum" /\ o.command = "run"

ClassifyReturned(p, o) ==
    CASE p.form = "incomplete" -> "probe_error"
      [] p.form = "empty" -> "empty"
      [] p.form \in Forms \ {"incomplete", "empty"} -> "polygon_invalid"
      [] OTHER -> FirstOf(<<Rule(p.flawed, "polygon_invalid"),
                            Rule(Competes(p, o), "polygon_nonminimal"),
                            Rule(TRUE, "polygon")>>)
-----------------------------------------------------------------------------
(* classify and checked_outcome.                                           *)

ReturnedKind(c, o) ==
    IF c.ending = "returned" THEN ClassifyReturned(c.output, o) ELSE None

\* Mutant: the output limit is looked at before the sanitizers' exit statuses.
ClassifyTruncatedFirst(c, o) ==
    FirstOf(<<Rule(c.ending = "timeout", "timeout"),
              Rule(c.ending = "SIGXFSZ", "output_limit"),
              Rule(c.truncated, "output_limit"),
              Rule(c.ending = "signal", "crash"),
              Rule(c.ending \in {"asan", "ubsan"} /\ c.marked, "crash"),
              Rule(c.ending = "exception", "cv_exception"),
              Rule(c.ending # "returned", "probe_error"),
              Rule(TRUE, ReturnedKind(c, o))>>)

Classify(c, o) ==
    FirstOf(<<Rule(c.ending = "timeout", "timeout"),
              Rule(c.ending = "SIGXFSZ", "output_limit"),
              Rule(c.ending = "signal", "crash"),
              Rule(c.ending \in {"asan", "ubsan"} /\ c.marked, "crash"),
              Rule(c.truncated, "output_limit"),
              Rule(c.ending = "exception", "cv_exception"),
              Rule(c.ending # "returned", "probe_error"),
              Rule(TRUE, ReturnedKind(c, o))>>)

UnidentifiedOutcomes == {"timeout", "output_limit", "probe_error"}

\* Was another object measured than the manifest names?  Without a manifest
\* only the runtime record itself is asked for.
IdentityProblem(c, o) ==
    \/ c.runtime = None
    \/ o.manifest = "compiled" /\ c.runtime # "main-executable"
    \/ o.manifest = "library" /\ c.runtime # "library"

\* Mutant: a crash needs no identity either.
CheckedOutcomeButCrashes(c, o) ==
    IF /\ Classify(c, o) \notin UnidentifiedOutcomes \cup {"crash"}
       /\ IdentityProblem(c, o) \/ (o.command = "run" /\ ~c.echoed)
    THEN "identity_error" ELSE Classify(c, o)

\* fuzz passes no points to compare.
CheckedOutcome(c, o) ==
    IF /\ Classify(c, o) \notin UnidentifiedOutcomes
       /\ IdentityProblem(c, o) \/ (o.command = "run" /\ ~c.echoed)
    THEN "identity_error" ELSE Classify(c, o)

\* An exception outcome is whichever of the three its exit status stands for.
KindsOf(c, o) ==
    IF CheckedOutcome(c, o) = "cv_exception" THEN Exceptions
    ELSE {CheckedOutcome(c, o)}
-----------------------------------------------------------------------------
(* Output that raises an exception nobody catches.                         *)

\* A child whose numbers are read: it returned, in full, and has the records
\* that classify_returned asks for.
Read(c) == /\ c.ending = "returned" /\ ~c.truncated
           /\ c.output.form # "incomplete"

\* int, decode_binary32, decode_binary64, Fraction or a missing field raises
\* in classify_returned, or an echoed point without coordinates does in
\* checked_outcome, which reads the points whatever else is wrong.
Undecodable(c, o) ==
    \/ c.garbled = "result" /\ Read(c)
    \/ c.garbled = "points" /\ Classify(c, o) \notin UnidentifiedOutcomes

\* object_identity hashes each object that a runtime record names.
Unhashable(c) == c.garbled = "object" /\ c.runtime # None
-----------------------------------------------------------------------------
\* Mutant: only the kinds that can be expected are counted.
NoTallyOfErrors == [counts |-> [k \in Expectable |-> 0], mismatches |-> 0,
                    unchecked |-> 0, errors |-> 0]

NoTally == [counts |-> [k \in Kinds |-> 0], mismatches |-> 0,
            unchecked |-> 0, errors |-> 0]

Init ==
    /\ options \in {o \in Options : CommandLine(o)}
    /\ child = [c \in Cases |-> None] /\ outcome = [c \in Cases |-> None]
    /\ tally = NoTally /\ report = <<>> /\ status = None

Refuse ==
    /\ status = None /\ report = <<>> /\ Refused(options)
    /\ status' = 2
    /\ UNCHANGED <<options, child, outcome, tally, report>>

Open ==
    /\ status = None /\ report = <<>> /\ ~Refused(options)
    /\ report' = <<"header">>
    /\ UNCHANGED <<options, child, outcome, tally, status>>

\* Mutant: a protection outcome is an error and is not compared or counted.
TallyErrorsApart(t, c, kind) ==
    IF kind \in ErrorKinds THEN [t EXCEPT !.errors = @ + 1]
    ELSE [t EXCEPT !.counts[kind] = @ + 1,
                   !.unchecked = @ + IF options.expect /\ Expected[c] = None
                                     THEN 1 ELSE 0,
                   !.mismatches = @ + IF options.expect /\ Expected[c] # None
                                         /\ Expected[c] # kind
                                      THEN 1 ELSE 0]

Tally(t, c, kind) ==
    [counts |-> [t.counts EXCEPT ![kind] = @ + 1],
     unchecked |-> t.unchecked
        + IF options.expect /\ Expected[c] = None THEN 1 ELSE 0,
     mismatches |-> t.mismatches
        + IF options.expect /\ Expected[c] \notin {None, kind} THEN 1 ELSE 0,
     errors |-> t.errors + IF kind \in ErrorKinds THEN 1 ELSE 0]

\* run_jobs yields the child of c, in any order.
Yields(c) == status = None /\ report # <<>> /\ child[c] = None

\* The case is given a kind and counted.
Count(c, f) ==
    \E k \in KindsOf(f, options) :
        /\ outcome' = [outcome EXCEPT ![c] = k]
        /\ tally' = Tally(tally, c, k)

Finish(c) ==
    /\ Yields(c)
    /\ \E f \in Behaviours(c) :
          /\ ~Undecodable(f, options) /\ ~Unhashable(f)
          /\ child' = [child EXCEPT ![c] = f]
          /\ Count(c, f)
    /\ report' = Append(report, c)
    /\ UNCHANGED <<options, status>>

\* Mutant: what the output raises is caught, and the next child follows.
RaiseCaught(c) ==
    /\ Yields(c)
    /\ \E f \in Behaviours(c) :
          /\ Undecodable(f, options)
          /\ child' = [child EXCEPT ![c] = f]
    /\ UNCHANGED <<options, outcome, tally, report, status>>

\* The child's output raises: before the case is counted, or after it and
\* before its line.  main does not catch it and Python exits with 1.
Raise(c) ==
    /\ Yields(c)
    /\ \E f \in Behaviours(c) :
          /\ child' = [child EXCEPT ![c] = f]
          /\ \/ Undecodable(f, options) /\ UNCHANGED <<outcome, tally>>
             \/ ~Undecodable(f, options) /\ Unhashable(f) /\ Count(c, f)
    /\ status' = 1
    /\ UNCHANGED <<options, report>>

\* The manifest, the corpus or the report cannot be read or written, a child
\* cannot be started, or a case's optimum is zero: uncaught as well.
Break ==
    /\ status = None /\ status' = 1
    /\ UNCHANGED <<options, child, outcome, tally, report>>

\* Mutant: a mismatch decides the status before the errors.
ExitMismatchFirst(t) ==
    IF t.mismatches > 0 THEN 1 ELSE IF t.errors > 0 THEN 2 ELSE 0

Exit(t) == IF t.errors > 0 THEN 2 ELSE IF t.mismatches > 0 THEN 1 ELSE 0

Close ==
    /\ status = None /\ report # <<>> /\ \A c \in Cases : child[c] # None
    /\ report' = Append(report, "summary")
    /\ status' = Exit(tally)
    /\ UNCHANGED <<options, child, outcome, tally>>

Next ==
    \/ Refuse \/ Open \/ Close \/ Break
    \/ \E c \in Cases : Finish(c) \/ Raise(c)

Spec == Init /\ [][Next]_vars
-----------------------------------------------------------------------------
\* Types: an outcome for every case that ran, and counts of them.
TypeOK ==
    /\ options \in Options
    /\ outcome \in [Cases -> Kinds \cup {None}]
    /\ tally \in [counts : [Kinds -> Nat], mismatches : Nat, unchecked : Nat,
                  errors : Nat]
    /\ status \in {None, 0, 1, 2}

Done == {c \in Cases : outcome[c] # None}

\* "A report can never look like an ordinary probe exit": a fatal signal or a
\* sanitizer report that is given an outcome at all is a crash, whatever else
\* the child printed, or an identity error when nothing says which library it
\* was.
MemoryFailuresShow ==
    \A c \in Done :
        \/ child[c].ending = "signal"
        \/ child[c].ending \in {"asan", "ubsan"} /\ child[c].marked
        => outcome[c] = IF IdentityProblem(child[c], options)
                           \/ (options.command = "run" /\ ~child[c].echoed)
                        THEN "identity_error" ELSE "crash"

\* Under a manifest no result, and no crash, of another library or of another
\* input is taken for the one asked for.
MeasuredWhatWasAsked ==
    \A c \in Done :
        outcome[c] \notin ErrorKinds /\ options.manifest # None =>
            /\ child[c].runtime = IF options.manifest = "compiled"
                                  THEN "main-executable" ELSE "library"
            /\ options.command = "run" => child[c].echoed

\* "A smaller competitor proves non-minimality": only a polygon that passed
\* every check, and only a competitor known to enclose the input.
NonminimalIsProved ==
    \A c \in Done :
        outcome[c] = "polygon_nonminimal" =>
            ~child[c].output.flawed /\ child[c].output.smaller # None
                /\ (child[c].output.smaller # "optimum" => child[c].output.usable)

\* "Expectations were recorded with them": a polygon that is as expected is
\* one that no usable competitor beats.
ExpectedPolygonUnbeaten ==
    \A c \in Done :
        /\ options.expect /\ outcome[c] = "polygon" /\ Expected[c] = "polygon"
        /\ child[c].output.smaller # None
        => child[c].output.smaller # "optimum" /\ ~child[c].output.usable

Summarised == report # <<>> /\ Last(report) = "summary"

Measured == \A c \in Cases : outcome[c] \notin ErrorKinds \cup {None}

AsExpected ==
    options.expect => \A c \in Cases : Expected[c] \in {None, outcome[c]}

\* A script that trusts the exit status is not misled by a 0: every case was
\* measured and no expectation failed.  A 1 or a 2 says which of the two it
\* was only beside a report that ends in its summary: without one, 2 is a
\* command line refused before the report was opened, and 1 a traceback,
\* with any number of cases not measured.
StatusTellsAll ==
    status # None =>
        IF Summarised
        THEN status = IF ~Measured THEN 2 ELSE IF ~AsExpected THEN 1 ELSE 0
        ELSE status = 1 \/ (status = 2 /\ Refused(options) /\ report = <<>>)

Lines(c) == Cardinality({i \in DOMAIN report : report[i] = c})

\* The summary's counts are those of the cases above it, and the report holds
\* each of them once; only a run that ends in a traceback may have counted a
\* case of which it says nothing.
SummaryAgrees ==
    /\ \A c \in Done :
          Lines(c) = 1 \/ (Lines(c) = 0 /\ status = 1 /\ ~Summarised)
    /\ \A k \in Kinds :
          tally.counts[k] = Cardinality({c \in Done : outcome[c] = k})
    /\ tally.errors = Cardinality({c \in Done : outcome[c] \in ErrorKinds})

\* What an outcome is called tells what the child did, and of which library.
OutcomesTell ==
    /\ MemoryFailuresShow /\ MeasuredWhatWasAsked
    /\ NonminimalIsProved /\ ExpectedPolygonUnbeaten

\* What the report and the exit status tell is what the outcomes are.
ReportTells == TypeOK /\ StatusTellsAll /\ SummaryAgrees

\* What the runner makes of its children is what they did.
VerdictMeans == OutcomesTell /\ ReportTells
=============================================================================
