------------------------------ MODULE MCPolygon ------------------------------
(* The research on minimum enclosing polygons on small instances. A behaviour *)
(* is one of the runner, of the corpus, of a growing set of input points or   *)
(* of a growing polygon; the variables of the other parts are at rest.        *)
EXTENDS ExactGeometry, TLC

VARIABLES part, options, child, outcome, tally, report, status, text, parser

CONSTANTS Cases, Expected, Behaviours(_), None, Names, Points, Families,
    MaxLines, PerLine, Away

Verdict == INSTANCE ProbeVerdict

Corpus == INSTANCE CorpusFormat

ASSUME PolygonAssumption ==
    Verdict!VerdictAssumption /\ Corpus!CorpusAssumption /\ GeometryAssumption

\* The first case is expected to return a polygon, the second has no
\* expectation, as a corpus has for a family it was not recorded with.
MCExpected == "c1" :> "polygon" @@ "c2" :> None

\* Everything a child can do, garbled output when it measures the library, and
\* beside it one child of each kind of end.
MCBehaviours(c) ==
    IF c = "c1"
    THEN {f \in Verdict!Children : f.garbled = "nothing" \/ f.runtime = "library"}
    ELSE {f \in Verdict!Children :
            /\ ~f.truncated /\ f.echoed /\ f.runtime = "library"
            /\ f.garbled = "nothing"
            /\ f.ending # "returned" => f.ending \in {"timeout", "signal"}
                                        /\ ~f.marked
            /\ f.ending = "returned" =>
                  f.output \in [form : {"empty"}] \cup
                      [form : {"polygon"}, flawed : {FALSE},
                       smaller : {None}, usable : {TRUE}]}

------------------------------------------------------------------------------
verdictVars == <<options, child, outcome, tally, report, status>>
corpusVars == <<text, parser>>
partsVars == <<part, verdictVars, corpusVars, vars>>

VerdictRests == /\ options = Away /\ child = Away /\ outcome = Away
                /\ tally = Away /\ report = Away /\ status = Away
CorpusRests == text = Away /\ parser = Away
GeometryRests == points = Away /\ polygon = Away

PartsInit ==
    \/ part = "verdict" /\ Verdict!Init /\ CorpusRests /\ GeometryRests
    \/ part = "corpus" /\ Corpus!Init /\ VerdictRests /\ GeometryRests
    \/ part = "input" /\ Init /\ VerdictRests /\ CorpusRests
    \/ part = "polygon" /\ Init /\ VerdictRests /\ CorpusRests

PartsNext ==
    /\ UNCHANGED part
    /\ \/ part = "verdict" /\ Verdict!Next /\ UNCHANGED <<corpusVars, vars>>
       \/ part = "corpus" /\ Corpus!Next /\ UNCHANGED <<verdictVars, vars>>
       \/ part = "input" /\ AddPoint /\ UNCHANGED <<verdictVars, corpusVars>>
       \/ part = "polygon" /\ AddVertex /\ UNCHANGED <<verdictVars, corpusVars>>

PartsSpec == PartsInit /\ [][PartsNext]_partsVars

------------------------------------------------------------------------------
(* The name an outcome is given tells what the child did, and of which        *)
(* library; the counts, the report and the exit status are of those outcomes. *)
VerdictMeans == part = "verdict" => Verdict!VerdictMeans

(* A corpus that is read keeps every case, point and expectation.             *)
CorpusKept == part = "corpus" => Corpus!CorpusKept

(* The hull and the competitors of every set of points of the grid are right. *)
CompetitorsSound == part = "input" => HullAndCompetitorsSound

(* Of every polygon with an area, the edge tests decide what it encloses.     *)
EdgeTestsDecideEnclosure == part = "polygon" => EdgeTestsDecide
==============================================================================
