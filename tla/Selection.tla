----------------------------- MODULE Selection -----------------------------
(***************************************************************************)
(* The liveness certificate of scripts/run_fit_line_3d_research.py.  A     *)
(* robust fit draws subsets: in each of Rounds rounds it draws outputs of  *)
(* a fixed random sequence, modulo the number of points, until Block       *)
(* residues differ (all of them, when there are fewer points).  The script *)
(* bounds the draws for every count without trying every count: it         *)
(* simulates only the candidates, counts that divide the difference of two *)
(* outputs of one block.                                                   *)
(***************************************************************************)
EXTENDS Integers, Sequences, FiniteSets, SequencesExt, FiniteSetsExt

CONSTANTS
    Outputs,    \* the outputs of the random number generator
    Rounds,     \* 20 in the script
    Block,      \* 10 in the script
    MaxCount    \* MAX_ROBUST_COUNT

ASSUME SelectionAssumption ==
    /\ Outputs \in Seq(Nat)
    /\ Rounds \in Nat /\ Block \in Nat \ {0} /\ MaxCount \in Nat
    /\ Len(Outputs) >= Rounds * Block

VARIABLES n, index, seen, round, status

vars == <<n, index, seen, round, status>>

Distance(a, b) == IF a <= b THEN b - a ELSE a - b

Divides(d, m) == \E k \in 0 .. m : m = d * k

\* Positions of the block that round r consumes if every output is new.
BlockOf(r) == Block * r + 1 .. Block * r + Block

\* Mutant: only neighbouring outputs of a block are compared.
NeighbourCandidates ==
    {d \in 1 .. MaxCount :
        \/ d < Block
        \/ \E r \in 0 .. Rounds - 1 : \E i, j \in BlockOf(r) :
              j = i + 1 /\ Divides(d, Distance(Outputs[i], Outputs[j]))}

\* The counts that certificate() simulates.
Candidates ==
    {d \in 1 .. MaxCount :
        \/ d < Block
        \/ \E r \in 0 .. Rounds - 1 : \E i, j \in BlockOf(r) :
              i < j /\ Divides(d, Distance(Outputs[i], Outputs[j]))}

\* Residues a round needs for count c.
Wanted(c) == IF c < Block THEN c ELSE Block
-----------------------------------------------------------------------------
(* The script's own computations, for TLC.                                 *)

\* rng_outputs: multiply with carry, from a state whose bits are all set.
RngOutputs(base, multiplier, length) ==
    LET step(s) == ((s % base) * multiplier + s \div base) % (base * base)
        state[k \in 0 .. length] ==
            IF k = 0 THEN base * base - 1 ELSE step(state[k - 1])
    IN  [k \in 1 .. length |-> state[k] % base]

\* primes: the sieve, up to last.
Primes(last) ==
    SetToSortSeq({p \in 2 .. last : \A q \in 2 .. p - 1 : p % q # 0},
                 LAMBDA a, b : a < b)

\* Mutant: what is left over after the trial divisions is forgotten.
SmoothDivisors(m, ps) ==
    LET strip(acc, p) ==
            IF p * p > acc.left THEN acc
            ELSE LET e == Max({k \in 0 .. 7 : p ^ k <= acc.left
                                               /\ acc.left % (p ^ k) = 0})
                 IN  [left |-> acc.left \div p ^ e,
                      found |-> {d * p ^ k : d \in acc.found, k \in 0 .. e}]
    IN  FoldLeft(strip, [left |-> m, found |-> {1}], ps).found

\* divisors: trial division by the primes ps; what is left over is a prime.
FactorDivisors(m, ps) ==
    LET strip(acc, p) ==
            IF p * p > acc.left THEN acc
            ELSE LET e == Max({k \in 0 .. 7 : p ^ k <= acc.left
                                               /\ acc.left % (p ^ k) = 0})
                 IN  [left |-> acc.left \div p ^ e,
                      found |-> {d * p ^ k : d \in acc.found, k \in 0 .. e}]
        end == FoldLeft(strip, [left |-> m, found |-> {1}], ps)
    IN  IF end.left > 1 THEN end.found \cup {d * end.left : d \in end.found}
                        ELSE end.found

\* certificate: the candidates, from the divisors that divisors() finds.
FactoredCandidates ==
    1 .. Block - 1 \cup
    UNION {{d \in FactorDivisors(Distance(Outputs[p[1]], Outputs[p[2]]),
                                 Primes(16)) : d <= MaxCount} :
           p \in {q \in (1 .. Rounds * Block) \X (1 .. Rounds * Block) :
               /\ q[1] < q[2]
               /\ (q[1] - 1) \div Block = (q[2] - 1) \div Block}}

\* What the next output does to the round that is being drawn for count c.
AfterOutput(acc, o, c) ==
    LET s == acc.seen \cup {o % c}
    IN  IF acc.round = Rounds THEN acc
        ELSE IF Cardinality(s) = Wanted(c)
        THEN [round |-> acc.round + 1, seen |-> {}, used |-> acc.used + 1]
        ELSE [round |-> acc.round, seen |-> s, used |-> acc.used + 1]

\* selection_draws: the outputs that all rounds consume for count c, or
\* Len(Outputs) + 1 when the prefix is insufficient.
SelectionDraws(c) ==
    LET drawn[i \in 0 .. Len(Outputs)] ==
            IF i = 0 THEN [round |-> 0, seen |-> {}, used |-> 0]
            ELSE AfterOutput(drawn[i - 1], Outputs[i], c)
        end == drawn[Len(Outputs)]
    IN  IF end.round = Rounds THEN end.used ELSE Len(Outputs) + 1

\* Mutant: the counts below Block are not simulated.
DivisorDrawBound ==
    Max({Rounds * Block} \cup
        {SelectionDraws(c) : c \in {d \in Candidates : d > Block}})

\* total_draw_bound.
TotalDrawBound ==
    Max({Rounds * Block} \cup {SelectionDraws(c) : c \in Candidates})
-----------------------------------------------------------------------------
(* The selection itself, one draw at a time, for one count.                *)

Init == /\ n \in 1 .. MaxCount
        /\ index = 0 /\ seen = {} /\ round = 0 /\ status = "drawing"

\* Mutant: the residues of a round are not forgotten for the next one.
EndRoundKeeps ==
    /\ status = "drawing" /\ round < Rounds /\ Cardinality(seen) = Wanted(n)
    /\ round' = round + 1
    /\ UNCHANGED <<n, index, seen, status>>

Draw ==
    /\ status = "drawing" /\ round < Rounds /\ Cardinality(seen) < Wanted(n)
    /\ index < Len(Outputs)
    /\ index' = index + 1
    /\ seen' = seen \cup {Outputs[index + 1] % n}
    /\ UNCHANGED <<n, round, status>>

EndRound ==
    /\ status = "drawing" /\ round < Rounds /\ Cardinality(seen) = Wanted(n)
    /\ round' = round + 1 /\ seen' = {}
    /\ UNCHANGED <<n, index, status>>

Exhausted ==
    /\ status = "drawing" /\ round < Rounds /\ Cardinality(seen) < Wanted(n)
    /\ index = Len(Outputs)
    /\ status' = "insufficient"
    /\ UNCHANGED <<n, index, seen, round>>

Finish ==
    /\ status = "drawing" /\ round = Rounds
    /\ status' = "done"
    /\ UNCHANGED <<n, index, seen, round>>

Next == Draw \/ EndRound \/ Exhausted \/ Finish

Spec == Init /\ [][Next]_vars
-----------------------------------------------------------------------------
\* Types: the draw stays within the generator's prefix.
TypeOK ==
    /\ n \in 1 .. MaxCount /\ index \in 0 .. Len(Outputs)
    /\ seen \subseteq Nat /\ IsFiniteSet(seen)
    /\ round \in 0 .. Rounds
    /\ status \in {"drawing", "insufficient", "done"}

\* "For a noncandidate N>=10 each successive 10-output block is distinct modulo
\* N": a count that certificate() does not simulate consumes exactly one block
\* a round, and the prefix suffices.
NoncandidateSchedule ==
    n \notin Candidates =>
        /\ status # "insufficient"
        /\ status = "done" => index = Block * Rounds

\* The bound computed from the candidates alone bounds every count.
DrawsWithinBound ==
    status = "done" => index <= TotalDrawBound

\* The factorisations that certificate() makes of the differences find every
\* candidate, and nothing else: a missed divisor would leave a count that may
\* depart from the schedule without a simulation.
CandidatesFound == n \in Candidates <=> n \in FactoredCandidates
=============================================================================
