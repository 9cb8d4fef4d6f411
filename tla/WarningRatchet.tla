---------------------------- MODULE WarningRatchet ----------------------------
(* The ratchet on GNATdoc's warnings: scripts/compare_gnatdoc_warnings.py, as *)
(* scripts/generate_docs.sh and a developer call it while the sources change. *)
(*                                                                            *)
(* A warning is the identity of its declaration (module DeclarationScan); one *)
(* declaration may have the same warning more than once. The log is what      *)
(* GNATdoc printed last, in any order: warnings, and lines that are text,     *)
(* misshaped (they look like a warning) or unlocated (a warning the sources   *)
(* have no declaration for).                                                  *)
EXTENDS Integers, Sequences, SequencesExt, FiniteSets

CONSTANTS Identities,    \* the declarations, each with one possible warning
          MaxCount,      \* bound on the warnings of one declaration
          MaxSteps       \* bound on the changes made to sources and baseline

RatchetAssumption ==
    /\ MaxCount \in Nat \ {0} /\ MaxSteps \in Nat
    /\ IsFiniteSet(Identities)
    /\ {"text", "misshaped", "unlocated", "malformed", "blank"} \cap Identities = {}

VARIABLES sources,    \* how often each declaration deserves a warning
          log,        \* the lines of the last log
          fresh,      \* it is of the present sources, and complete
          baseline,   \* the lines of docs/gnatdoc-warning-baseline.txt
          reviewed,   \* what the last --write-baseline was asked to write
          byHand,     \* how often each identity was added to it by hand since
          exit,       \* the last exit code, or "none"
          accepted,   \* the warnings at the last strict check that passed since
                      \* the baseline's identities changed, or << >>
          published,  \* a site has been generated from the present sources
          steps
vars == <<sources, log, fresh, baseline, reviewed, byHand, exit, accepted, published, steps>>

Bags == [Identities -> 0 .. MaxCount]
Clean == [i \in Identities |-> 0]
Count(lines, i) == Cardinality({n \in DOMAIN lines : lines[n] = i})
Bag(lines) == [i \in Identities |-> Count(lines, i)]
Within(b, c) == \A i \in Identities : b[i] <= c[i]

(* The logs GNATdoc may print of the sources: their warnings in any order,    *)
(* with at most one other line before or after them, or one warning in a      *)
(* shape or at a place that is not the pinned one.                            *)
Listings(bag) ==
    {l \in UNION {[1 .. n -> Identities] : n \in 0 .. MaxCount * Cardinality(Identities)} :
        Bag(l) = bag}
Logs(bag) ==
    Listings(bag) \cup
    UNION {{<<other>> \o l : other \in {"text", "misshaped", "unlocated"}} \cup {Append(l, "text")}
           \cup {[l EXCEPT ![n] = other] : n \in DOMAIN l, other \in {"misshaped", "unlocated"}} :
               l \in Listings(bag)}

Init ==
    /\ sources \in Bags
    /\ \E l \in Listings(sources) : log = l
    /\ fresh = TRUE
    /\ baseline = log /\ reviewed = Bag(log) /\ byHand = Clean
    /\ exit = "none" /\ accepted = << >> /\ published = FALSE
    /\ steps = 0

-----------------------------------------------------------------------------
(* parse_warnings and identities_from_log: a line that looks like a warning   *)
(* and cannot be read, or placed, is an error; other text is passed over.     *)
\* MUTANT of Readable: what cannot be placed is passed over.
ReadableWarnings(lines) == "misshaped" \notin ToSet(lines)

Readable(lines) == ToSet(lines) \cap {"misshaped", "unlocated"} = {}

(* identities_from_log: the identities of the warnings, each as often as it   *)
(* is in the log; nothing that reads them depends on their order.             *)
Warnings(lines) == Listings(Bag(lines))

(* parse_baseline: blank lines are passed over, all others are identities.    *)
WellFormed(lines) == "malformed" \notin ToSet(lines)

(* compare_identities: repeated occurrences are kept, not merged.             *)
\* MUTANT of Added: an identity counts once.
AddedOnce(current) == {i \in Identities : Count(current, i) > 0 /\ Count(baseline, i) = 0}

Added(current) == {i \in Identities : Count(current, i) > Count(baseline, i)}
Removed(current) == {i \in Identities : Count(baseline, i) > Count(current, i)}

\* MUTANT of Code: a baseline that lists fixed warnings passes.
CodeOfAdded(lines, strict) ==
    IF Readable(lines) /\ WellFormed(baseline) /\ Added(lines) = {} THEN "passed" ELSE "failed"

Code(lines, strict) ==
    IF /\ WellFormed(baseline) /\ Readable(lines)
       /\ Added(lines) = {}
       /\ strict => Removed(lines) = {}
    THEN "passed" ELSE "failed"

Accept(lines, strict) ==
    accepted' = IF Code(lines, strict) = "passed" /\ strict THEN <<Bag(lines)>> ELSE accepted

-----------------------------------------------------------------------------
(* A developer changes the sources: a warning appears or goes, or moves with  *)
(* a changed signature to another identity.                                   *)
Edit ==
    /\ steps < MaxSteps /\ steps' = steps + 1
    /\ \E i \in Identities :
          \/ sources[i] < MaxCount /\ sources' = [sources EXCEPT ![i] = @ + 1]
          \/ sources[i] > 0 /\ sources' = [sources EXCEPT ![i] = @ - 1]
          \/ \E j \in Identities \ {i} :
                /\ sources[i] > 0 /\ sources[j] < MaxCount
                /\ sources' = [sources EXCEPT ![i] = @ - 1, ![j] = @ + 1]
    /\ fresh' = FALSE /\ published' = FALSE
    /\ UNCHANGED <<log, baseline, reviewed, byHand, exit, accepted>>

(* The baseline is a file, which a developer may edit. An identity added by   *)
(* hand is one more that a check lets pass, whether or not it was in any log; *)
(* one taken out leaves an empty line. Either makes another baseline of it.   *)
EditBaseline ==
    /\ steps < MaxSteps /\ steps' = steps + 1
    /\ \/ \E i \in Identities :
             /\ baseline' = Append(baseline, i)
             /\ byHand' = [byHand EXCEPT ![i] = @ + 1]
       \/ \E n \in DOMAIN baseline :
             /\ baseline[n] \in Identities
             /\ baseline' = [baseline EXCEPT ![n] = "blank"]
             /\ byHand' = byHand
    /\ accepted' = << >>
    /\ UNCHANGED <<sources, log, fresh, reviewed, exit, published>>

(* Or an editor leaves a line that is no identity, or puts that right.        *)
Mangle ==
    /\ steps < MaxSteps /\ steps' = steps + 1
    /\ \/ \E l \in {"malformed", "blank"} : baseline' = Append(baseline, l)
       \/ \E n \in DOMAIN baseline :
             baseline[n] = "malformed" /\ baseline' = [baseline EXCEPT ![n] = "blank"]
    /\ UNCHANGED <<sources, log, fresh, reviewed, byHand, exit, accepted, published>>

(* GNATdoc prints a new log; a run that fails may leave part of one.          *)
Gnatdoc ==
    /\ log' \in Logs(sources)
    /\ fresh' = TRUE
    /\ UNCHANGED <<sources, baseline, reviewed, byHand, exit, accepted, published, steps>>

GnatdocFails ==
    /\ log # << >>
    /\ \E l \in Listings(sources) : \E n \in 0 .. Len(l) : log' = SubSeq(l, 1, n)
    /\ fresh' = FALSE /\ exit' = "failed"
    /\ UNCHANGED <<sources, baseline, reviewed, byHand, accepted, published, steps>>

(* The comparison by itself, on whatever log there is.                        *)
Compare(strict) ==
    /\ exit' = Code(log, strict)
    /\ IF fresh THEN Accept(log, strict) ELSE accepted' = accepted
    /\ UNCHANGED <<sources, log, fresh, baseline, reviewed, byHand, published, steps>>

(* --write-baseline: the log's warnings, once they have all been read. The    *)
(* file is written in place, and may stay half-written.                       *)
WriteBaseline ==
    /\ steps < MaxSteps /\ steps' = steps + 1
    /\ IF Readable(log)
       THEN /\ reviewed' = Bag(log) /\ byHand' = Clean
            /\ \E l \in Warnings(log) : \E n \in 0 .. Len(l) : baseline' = SubSeq(l, 1, n)
            /\ accepted' = << >> /\ exit' = "passed"
       ELSE exit' = "failed" /\ UNCHANGED <<baseline, reviewed, byHand, accepted>>
    /\ UNCHANGED <<sources, log, fresh, published>>

(* generate_docs.sh: GNATdoc, then the strict check, then no baseline at all. *)
\* MUTANT of MayPublish: the baselines are no longer looked at.
MayPublishBaseline(lines) == Code(lines, TRUE) = "passed"

MayPublish(lines) == Code(lines, TRUE) = "passed" /\ ToSet(baseline) \subseteq {"blank"}

Generate ==
    /\ \E l \in Logs(sources) :
          /\ log' = l /\ fresh' = TRUE
          /\ Accept(l, TRUE)
          /\ exit' = IF MayPublish(l) THEN "passed" ELSE "failed"
          /\ published' = MayPublish(l)
    /\ UNCHANGED <<sources, baseline, reviewed, byHand, steps>>

Next ==
    \/ Edit \/ EditBaseline \/ Mangle \/ Gnatdoc \/ GnatdocFails \/ WriteBaseline \/ Generate
    \/ \E strict \in BOOLEAN : Compare(strict)

Spec == Init /\ [][Next]_vars

-----------------------------------------------------------------------------
\* Types: warnings are counted by identity, in the log and in the baseline.
TypeOK ==
    /\ sources \in Bags /\ reviewed \in Bags /\ byHand \in [Identities -> Nat]
    /\ ToSet(log) \subseteq Identities \cup {"text", "misshaped", "unlocated"}
    /\ ToSet(baseline) \subseteq Identities \cup {"malformed", "blank"}
    /\ fresh \in BOOLEAN /\ published \in BOOLEAN
    /\ exit \in {"none", "passed", "failed"}
    /\ accepted = << >> \/ accepted[1] \in Bags
    /\ steps \in 0 .. MaxSteps

(* A site is only generated from sources without a warning, whatever the      *)
(* baseline, the log and the earlier checks were.                             *)
PublishedIsClean == published => sources = Clean

(* Of each warning, a check accepts no more than were in the log that the     *)
(* last --write-baseline was given and were added to the baseline by hand     *)
(* since: a half-written or mangled baseline, the order of the log, and a     *)
(* fixed warning make no room for another or for a second one.                *)
Room == [i \in Identities |-> reviewed[i] + byHand[i]]
NeverMoreThanReviewed == accepted # << >> => Within(accepted[1], Room)

(* What is published has no warning; what is accepted somebody has reviewed,  *)
(* or written into the baseline by hand.                                      *)
ReviewedOnly == TypeOK /\ PublishedIsClean /\ NeverMoreThanReviewed

(* Between two strict checks that pass, with neither --write-baseline nor an  *)
(* edit of the baseline's identities in between, no warning comes, goes,      *)
(* moves or is repeated: a fixed one cannot silently return. And a strict     *)
(* check that has just passed on a fresh log saw every warning the sources    *)
(* deserve.                                                                   *)
NoSilentReturn ==
    [][accepted' # << >> =>
           /\ accepted # << >> => accepted'[1] = accepted[1]
           /\ accepted' # accepted => accepted'[1] = sources]_vars

=============================================================================
