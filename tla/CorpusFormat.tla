---------------------------- MODULE CorpusFormat ----------------------------
(***************************************************************************)
(* parse_corpus of scripts/run_min_enclosing_polygon_research.py: a corpus *)
(* is read a line at a time into cases, and the first line that does not   *)
(* fit stops it.  corpus_entry prints a case for a corpus, as the freeze   *)
(* command does.  A line is a record of its keyword and what follows it;   *)
(* "bad" stands for whatever the keyword's pattern does not match.         *)
(***************************************************************************)
EXTENDS Integers, Sequences, SequencesExt, FiniteSets

CONSTANTS
    Names, Points, Families,    \* tokens that match their patterns
    MaxLines,                   \* bound: case, points and expect lines
    PerLine,                    \* points that corpus_entry puts on a line
    None                        \* no value

VARIABLES
    text,       \* the case, points and expect lines read
    parser      \* current, cases and error

vars == <<text, parser>>

Depths == {"f32", "i32"}
Outcomes == {"polygon", "crash"}    \* two of EXPECTABLE

Lines ==
    [keyword : {"case"}, name : Names \cup {"bad"}]
    \cup [keyword : {"k"}, value : {"3", "bad"}]
    \cup [keyword : {"depth"}, value : Depths \cup {"bad"}]
    \cup [keyword : {"origin"}, value : {"", "text"}]
    \cup [keyword : {"optimum"}, value : {"bad", "no reason", "1 proof"}]
    \cup [keyword : {"expect"}, family : Families \cup {"bad"}, kind : Outcomes]
    \cup [keyword : {"points"}, tokens : {<<p>> : p \in Points \cup {"bad"}}]
    \cup [keyword : {"end", "#", "other"}]

CaseRecords ==
    [name : Names, k : {"3", None}, depth : Depths, origin : {"", "text"},
     optimum : {"1 proof", None}, expect : [Families -> Outcomes \cup {None}],
     points : Seq(Points)]

CorpusAssumption ==
    /\ MaxLines \in Nat /\ PerLine \in Nat \ {0}
    /\ None \notin CaseRecords \cup Outcomes \cup {"3"}

NewCase(name) ==
    [name |-> name, k |-> None, depth |-> "f32", origin |-> "",
     optimum |-> None, expect |-> [f \in Families |-> None], points |-> <<>>]

Start == [current |-> None, cases |-> <<>>, error |-> FALSE]

\* Does the line fit into a case?
Fits(case, l) ==
    CASE l.keyword = "k" -> l.value # "bad" /\ case.k = None
      [] l.keyword = "expect" -> l.family \in Families
                                 /\ case.expect[l.family] = None
      [] l.keyword = "points" -> Range(l.tokens) \subseteq Points
      [] l.keyword = "end" -> case.k # None /\ case.origin # ""
      [] OTHER -> l.keyword \in {"depth", "origin", "optimum"}
                  /\ l.value \notin {"", "bad", "no reason"}

\* Mutant: a line of points replaces those before it.
WithReplaced(case, l) ==
    CASE l.keyword = "k" -> [case EXCEPT !.k = l.value]
      [] l.keyword = "depth" -> [case EXCEPT !.depth = l.value]
      [] l.keyword = "origin" -> [case EXCEPT !.origin = l.value]
      [] l.keyword = "optimum" -> [case EXCEPT !.optimum = l.value]
      [] l.keyword = "expect" -> [case EXCEPT !.expect[l.family] = l.kind]
      [] OTHER -> [case EXCEPT !.points = l.tokens]

\* The case with a line of it read.  (A second origin is appended, a second
\* depth or optimum replaces the first.)
With(case, l) ==
    CASE l.keyword = "k" -> [case EXCEPT !.k = l.value]
      [] l.keyword = "depth" -> [case EXCEPT !.depth = l.value]
      [] l.keyword = "origin" -> [case EXCEPT !.origin = l.value]
      [] l.keyword = "optimum" -> [case EXCEPT !.optimum = l.value]
      [] l.keyword = "expect" -> [case EXCEPT !.expect[l.family] = l.kind]
      [] OTHER -> [case EXCEPT !.points = @ \o l.tokens]

\* Mutant: a name is compared only with the case before.
MayOpenAfterLast(p, l) ==
    /\ p.current = None /\ l.name \in Names
    /\ p.cases # <<>> => Last(p.cases).name # l.name

MayOpen(p, l) ==
    /\ p.current = None /\ l.name \in Names
    /\ \A i \in DOMAIN p.cases : p.cases[i].name # l.name

\* One turn of parse_corpus's loop.
Step(p, l) ==
    IF p.error \/ l.keyword = "#" THEN p
    ELSE IF l.keyword = "case" THEN
        IF MayOpen(p, l) THEN [p EXCEPT !.current = NewCase(l.name)]
        ELSE [p EXCEPT !.error = TRUE]
    ELSE IF p.current = None \/ ~Fits(p.current, l) THEN
        [p EXCEPT !.error = TRUE]
    ELSE IF l.keyword = "end" THEN
        [p EXCEPT !.cases = Append(@, p.current), !.current = None]
    ELSE [p EXCEPT !.current = With(@, l)]

\* parse_corpus of lines that have been printed.
Parsed(lines) ==
    LET after[i \in 0 .. Len(lines)] ==
            IF i = 0 THEN Start ELSE Step(after[i - 1], lines[i])
    IN  after[Len(lines)]

\* Mutant: the depth is never printed.
EntryWithoutDepth(case) ==
    LET lines == (Len(case.points) + PerLine - 1) \div PerLine
        first(i) == (i - 1) * PerLine + 1
        last(i) == IF i = lines THEN Len(case.points) ELSE i * PerLine
    IN  <<[keyword |-> "case", name |-> case.name],
          [keyword |-> "origin", value |-> case.origin],
          [keyword |-> "k", value |-> case.k]>>
        \o [i \in 1 .. lines |-> [keyword |-> "points",
                tokens |-> SubSeq(case.points, first(i), last(i))]]
        \o <<[keyword |-> "end"]>>

\* The lines that corpus_entry prints.
CorpusEntry(case) ==
    LET lines == (Len(case.points) + PerLine - 1) \div PerLine
        first(i) == (i - 1) * PerLine + 1
        last(i) == IF i = lines THEN Len(case.points) ELSE i * PerLine
    IN  <<[keyword |-> "case", name |-> case.name],
          [keyword |-> "origin", value |-> case.origin],
          [keyword |-> "k", value |-> case.k]>>
        \o (IF case.depth = "f32" THEN <<>>
            ELSE <<[keyword |-> "depth", value |-> case.depth]>>)
        \o [i \in 1 .. lines |-> [keyword |-> "points",
                tokens |-> SubSeq(case.points, first(i), last(i))]]
        \o <<[keyword |-> "end"]>>
-----------------------------------------------------------------------------
Init == text = <<>> /\ parser = Start

\* The next line; a parser that has raised reads no more.
ReadLine(l) ==
    /\ ~parser.error
    /\ IF l.keyword \in {"case", "points", "expect"}
       THEN Len(text) < MaxLines /\ text' = Append(text, l)
       ELSE text' = text
    /\ parser' = Step(parser, l)

\* The end of the file, within a case or not.
EndOfFile ==
    /\ ~parser.error /\ parser.current # None
    /\ parser' = [parser EXCEPT !.error = TRUE]
    /\ UNCHANGED text

Next == (\E l \in Lines : ReadLine(l)) \/ EndOfFile

Spec == Init /\ [][Next]_vars
-----------------------------------------------------------------------------
Accepted == ~parser.error /\ parser.current = None

LinesOf(keyword) == {i \in DOMAIN text : text[i].keyword = keyword}

Tokens(l) == IF l.keyword = "points" THEN l.tokens ELSE <<>>

\* In a corpus that is read to its end every case has a name of its own, a k
\* and an origin, and there are as many as the text has case lines.
CasesComplete ==
    Accepted =>
        /\ Len(parser.cases) = Cardinality(LinesOf("case"))
        /\ \A i, j \in DOMAIN parser.cases :
              parser.cases[i].name = parser.cases[j].name => i = j
        /\ \A i \in DOMAIN parser.cases :
              parser.cases[i].k # None /\ parser.cases[i].origin # ""

\* Nothing that a run would measure is dropped or moved to another case: the
\* points of the cases, one after the other, are those of the text, and every
\* expect line is an expectation of one case.
NothingDropped ==
    Accepted =>
        /\ FlattenSeq([i \in DOMAIN parser.cases |-> parser.cases[i].points])
             = FlattenSeq([i \in DOMAIN text |-> Tokens(text[i])])
        /\ Cardinality({e \in (DOMAIN parser.cases) \X Families :
                           parser.cases[e[1]].expect[e[2]] # None})
             = Cardinality(LinesOf("expect"))

\* An entry printed for the corpus is read back as the same case, in its turn.
EntryReadsBack ==
    \A i \in DOMAIN parser.cases :
        LET case == parser.cases[i]
        IN  Parsed(CorpusEntry(case)).cases
              = <<[case EXCEPT !.optimum = None,
                               !.expect = [f \in Families |-> None]]>>

\* Reading and printing a corpus keeps its cases.
CorpusKept == CasesComplete /\ NothingDropped /\ EntryReadsBack
=============================================================================
