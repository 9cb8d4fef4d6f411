---------------------------- MODULE FitLineProofs ----------------------------
(***************************************************************************)
(* The research on robust line fitting, for every size of it: the argument *)
(* behind certificate(), for any generator, any number of rounds, any      *)
(* block and every count; and the resumable report, for any corpus, any    *)
(* ends of its children, any crashes and any replacements of the probe.    *)
(***************************************************************************)
EXTENDS MCFitLine, SequenceTheorems, WellFoundedInduction, FiniteSetTheorems, TLAPS

-----------------------------------------------------------------------------
(* The certificate: a count that divides no difference of two outputs of   *)
(* one block draws exactly one block in each round.                        *)

LEMMA Quotient ==
    ASSUME NEW d \in Nat \ {0}, NEW k \in Int, d * k >= 0
    PROVE  k \in 0 .. d * k
<1>1. k >= 0
  <2>1. ASSUME k < 0 PROVE FALSE
    <3>1. d * k = (d - 1) * k + k /\ (d - 1) * k <= 0
      BY <2>1
    <3> QED  BY <2>1, <3>1
  <2> QED  BY <2>1
<1>2. d * k = (d - 1) * k + k /\ (d - 1) * k >= 0
  BY <1>1
<1> QED  BY <1>1, <1>2

\* Equal residues make the divisor divide the difference.
LEMMA EqualResidues ==
    ASSUME NEW a \in Nat, NEW b \in Nat, NEW d \in Nat \ {0}, a % d = b % d
    PROVE  Divides(d, Distance(a, b))
<1>1. a = d * (a \div d) + (a % d) /\ a \div d \in Nat
  OBVIOUS
<1>2. b = d * (b \div d) + (b % d) /\ b \div d \in Nat
  OBVIOUS
<1> DEFINE x == a \div d
           y == b \div d
<1>3. CASE a <= b
  <2>1. b - a = d * (y - x) /\ y - x \in Int
    BY <1>1, <1>2
  <2>2. y - x \in 0 .. b - a
    BY <2>1, <1>3, Quotient
  <2> QED  BY <2>1, <2>2, <1>3 DEF Divides, Distance
<1>4. CASE ~(a <= b)
  <2>1. a - b = d * (x - y) /\ x - y \in Int
    BY <1>1, <1>2
  <2>2. x - y \in 0 .. a - b
    BY <2>1, <1>4, Quotient
  <2> QED  BY <2>1, <2>2, <1>4 DEF Divides, Distance
<1> QED  BY <1>3, <1>4

\* What the selection keeps for a count that is not simulated: in this round it
\* has drawn the next outputs of the block, and no residue came twice.
OnSchedule ==
    n \notin Candidates =>
        /\ index = Block * round + Cardinality(seen)
        /\ seen = {Outputs[i] % n : i \in Block * round + 1 .. index}
        /\ status # "insufficient"
        /\ status = "done" => round = Rounds /\ seen = {}

IInv == TypeOK /\ Cardinality(seen) <= Wanted(n) /\ (round = Rounds => seen = {})
               /\ OnSchedule

LEMMA Constants ==
    /\ \A i \in 1 .. Len(Outputs) : Outputs[i] \in Nat
    /\ Rounds \in Nat /\ Block \in Nat \ {0} /\ MaxCount \in Nat
    /\ Len(Outputs) \in Nat
    /\ \A c \in 1 .. MaxCount : Wanted(c) \in 1 .. Block
BY SelectionAssumption DEF Wanted

\* A block of a round lies within the outputs.
LEMMA BlockInOutputs ==
    ASSUME NEW r \in 0 .. Rounds - 1
    PROVE  Block * r + Block <= Len(Outputs) /\ Block * (r + 1) = Block * r + Block
<1>1. Block * (r + 1) = Block * r + Block
  BY Constants
<1>2. Block * Rounds = Block * (r + 1) + Block * (Rounds - (r + 1))
  BY Constants
<1>3. Block * (Rounds - (r + 1)) >= 0
  BY Constants
<1> QED  BY <1>1, <1>2, <1>3, SelectionAssumption

\* For a count that is not a candidate, the outputs of a block differ modulo it.
LEMMA BlockDistinct ==
    ASSUME NEW c \in 1 .. MaxCount, c \notin Candidates,
           NEW r \in 0 .. Rounds - 1, NEW i \in BlockOf(r), NEW j \in BlockOf(r),
           i < j
    PROVE  Outputs[i] % c # Outputs[j] % c
<1>1. Outputs[i] \in Nat /\ Outputs[j] \in Nat
  BY Constants, BlockInOutputs DEF BlockOf
<1>2. ASSUME Outputs[i] % c = Outputs[j] % c PROVE FALSE
  <2>1. Divides(c, Distance(Outputs[i], Outputs[j]))
    <3>1. Outputs[i] \in Nat /\ Outputs[j] \in Nat /\ c \in Nat /\ c > 0
      BY <1>1, Constants
    <3> QED  BY <1>2, <3>1, EqualResidues
  <2>2. \E k, l \in BlockOf(r) : k < l /\ Divides(c, Distance(Outputs[k], Outputs[l]))
    BY <2>1, Zenon
  <2> QED  BY <2>2 DEF Candidates
<1> QED  BY <1>2

LEMMA NoncandidateWantsBlock ==
    ASSUME TypeOK, n \notin Candidates
    PROVE  Wanted(n) = Block
BY Constants DEF TypeOK, Candidates, Wanted

LEMMA InitIInv == Init => IInv
<1> SUFFICES ASSUME Init PROVE IInv
  OBVIOUS
<1>1. Cardinality({}) = 0 /\ IsFiniteSet({})
  BY FS_EmptySet
<1>2. Wanted(n) \in 1 .. Block
  BY Constants DEF Init
<1>3. Block * 0 = 0
  BY Constants
<1> QED  BY <1>1, <1>2, <1>3, Constants DEF Init, IInv, TypeOK, OnSchedule

LEMMA StepIInv == IInv /\ [Next]_vars => IInv'
<1> SUFFICES ASSUME IInv, [Next]_vars PROVE IInv'
  OBVIOUS
<1>t. /\ n \in 1 .. MaxCount /\ index \in 0 .. Len(Outputs) /\ seen \subseteq Nat
      /\ IsFiniteSet(seen) /\ round \in 0 .. Rounds
      /\ Cardinality(seen) \in Nat /\ Wanted(n) \in 1 .. Block
  BY Constants, FS_CardinalityType DEF IInv, TypeOK
<1>c. Rounds \in Nat /\ Block \in Nat \ {0}
  BY Constants
<1>1. CASE Draw
  <2> DEFINE x == Outputs[index + 1] % n
  <2>1. x \in Nat
    BY <1>1, <1>t, Constants DEF Draw
  <2>2. IsFiniteSet(seen') /\ seen' = seen \cup {x} /\ seen' \subseteq Nat
    <3>1. seen' = seen \cup {x}
      BY <1>1 DEF Draw
    <3>2. IsFiniteSet(seen \cup {x})
      BY <1>t, FS_AddElement, Zenon
    <3> HIDE DEF x
    <3> QED  BY <1>t, <2>1, <3>1, <3>2
  <2>3. Cardinality(seen') \in {Cardinality(seen), Cardinality(seen) + 1}
    BY <2>2, <1>t, FS_AddElement
  <2>4. TypeOK' /\ Cardinality(seen') <= Wanted(n)' /\ (round = Rounds => seen = {})'
    BY <1>1, <1>t, <2>2, <2>3 DEF Draw, IInv, TypeOK, Wanted
  <2>5. ASSUME n \notin Candidates PROVE OnSchedule'
    <3>1. /\ index = Block * round + Cardinality(seen)
          /\ seen = {Outputs[i] % n : i \in Block * round + 1 .. index}
      BY <2>5 DEF IInv, OnSchedule
    <3>2. Cardinality(seen) < Block /\ round \in 0 .. Rounds - 1
      BY <1>1, <1>t, <1>c, <2>5, NoncandidateWantsBlock DEF Draw, IInv
    <3>b. Block * round \in Nat
      BY <3>2, <1>c
    <3>3. index + 1 \in BlockOf(round)
      BY <3>1, <3>2, <3>b, <1>t, <1>c DEF BlockOf
    <3>4. \A i \in Block * round + 1 .. index : Outputs[i] % n # x
      <4> SUFFICES ASSUME NEW i \in Block * round + 1 .. index
                   PROVE  Outputs[i] % n # x
        OBVIOUS
      <4>1. i \in BlockOf(round) /\ i < index + 1
        BY <3>3, <3>b, <1>t, <1>c DEF BlockOf
      <4> QED  BY <4>1, <3>2, <3>3, <2>5, <1>t, BlockDistinct
    <3>5. x \notin seen
      BY <3>1, <3>4
    <3>6. Cardinality(seen') = Cardinality(seen) + 1
      BY <3>5, <2>2, <1>t, FS_AddElement
    <3>7. seen' = {Outputs[i] % n : i \in Block * round + 1 .. index + 1}
      <4> DEFINE from == Block * round
      <4>1. from \in Nat /\ index \in Nat /\ from <= index
        BY <3>1, <3>b, <1>t
      <4> HIDE DEF from
      <4>2. from + 1 .. index + 1 = (from + 1 .. index) \cup {index + 1}
        BY <4>1
      <4>3. {Outputs[i] % n : i \in from + 1 .. index + 1}
              = {Outputs[i] % n : i \in from + 1 .. index} \cup {x}
        BY <4>2
      <4> QED  BY <4>3, <3>1, <2>2 DEF from
    <3>8. index' = Block * round + Cardinality(seen') /\ status' = "drawing"
      BY <1>1, <3>1, <3>6, <3>b, <1>t DEF Draw
    <3>9. seen' = {Outputs[i] % n' : i \in Block * round' + 1 .. index'}
      BY <1>1, <3>7 DEF Draw
    <3>10. round' = round
      BY <1>1 DEF Draw
    <3> QED  BY <3>8, <3>9, <3>10 DEF OnSchedule
  <2>6. n' = n
    BY <1>1 DEF Draw
  <2> QED  BY <2>4, <2>5, <2>6 DEF IInv, OnSchedule
<1>2. CASE EndRound
  <2>1. Cardinality({}) = 0 /\ IsFiniteSet({})
    BY FS_EmptySet
  <2>2. TypeOK' /\ Cardinality(seen') <= Wanted(n)' /\ (round = Rounds => seen = {})'
    BY <1>2, <1>t, <1>c, <2>1 DEF EndRound, IInv, TypeOK, Wanted
  <2>3. ASSUME n \notin Candidates PROVE OnSchedule'
    <3>1. index = Block * round + Block /\ round \in 0 .. Rounds - 1
      BY <1>2, <2>3, <1>t, <1>c, NoncandidateWantsBlock
         DEF EndRound, IInv, OnSchedule
    <3>2. Block * (round + 1) = index /\ index \in Nat
      BY <3>1, <1>t, <1>c, BlockInOutputs
    <3>3. {Outputs[i] % n : i \in index + 1 .. index} = {}
      BY <3>2
    <3> QED  BY <1>2, <2>1, <3>2, <3>3 DEF EndRound, OnSchedule
  <2> QED  BY <1>2, <2>2, <2>3 DEF IInv, OnSchedule, EndRound
<1>3. CASE Exhausted
  <2>1. TypeOK' /\ Cardinality(seen') <= Wanted(n)' /\ (round = Rounds => seen = {})'
    BY <1>3 DEF Exhausted, IInv, TypeOK, Wanted
  <2>2. ASSUME n \notin Candidates PROVE FALSE
    <3>1. /\ index = Block * round + Cardinality(seen) /\ Cardinality(seen) < Block
          /\ index = Len(Outputs) /\ round \in 0 .. Rounds - 1
      BY <1>3, <2>2, <1>t, <1>c, NoncandidateWantsBlock
         DEF Exhausted, IInv, OnSchedule
    <3>2. Block * round + Block <= Len(Outputs) /\ Block * round \in Nat
      BY <3>1, <1>c, BlockInOutputs
    <3> QED  BY <3>1, <3>2, <1>t, <1>c
  <2> QED  BY <1>3, <2>1, <2>2 DEF Exhausted, IInv, OnSchedule
<1>4. CASE Finish
  BY <1>4 DEF Finish, IInv, TypeOK, OnSchedule, Wanted
<1>5. CASE UNCHANGED vars
  BY <1>5 DEF vars, IInv, TypeOK, OnSchedule, Wanted
<1> QED  BY <1>1, <1>2, <1>3, <1>4, <1>5 DEF Next

LEMMA SpecIInv == Spec => []IInv
<1>1. Init => IInv
  BY InitIInv
<1>2. IInv /\ [Next]_vars => IInv'
  BY StepIInv
<1> QED  BY <1>1, <1>2, PTL DEF Spec

LEMMA ScheduleOfInv == IInv => NoncandidateSchedule
<1> SUFFICES ASSUME IInv, n \notin Candidates
             PROVE  /\ status # "insufficient"
                    /\ status = "done" => index = Block * Rounds
  BY DEF NoncandidateSchedule
<1>1. Cardinality({}) = 0
  BY FS_EmptySet
<1>2. Block * Rounds \in Int
  BY Constants
<1>3. /\ status # "insufficient" /\ index = Block * round + Cardinality(seen)
      /\ status = "done" => round = Rounds /\ seen = {}
  BY DEF IInv, OnSchedule
<1>4. status = "done" => index = Block * Rounds + 0
  BY <1>1, <1>3
<1> QED  BY <1>2, <1>3, <1>4

\* The step of certificate() that makes its bound one for every count: a count
\* it does not simulate never exhausts the prefix and consumes one block of
\* outputs a round, whatever the generator, the rounds and the block are.
THEOREM Certificate == Spec => []NoncandidateSchedule
BY ScheduleOfInv, SpecIInv, PTL

\* The selection's variables keep their types.
THEOREM SelectionTypes == Spec => []TypeOK
BY SpecIInv, PTL DEF IInv

-----------------------------------------------------------------------------
(* The report of a campaign.                                               *)

\* The first record is the header and no other is one; all are of the header's
\* identity, which is that of the run in progress.
Headed ==
    /\ \A i \in 1 .. Len(report) :
           /\ report[i].item = Campaign!Header <=> i = 1
           /\ report[i].identity = report[1].identity
    /\ Len(report) > 0 => report[1].exit = "header"
    /\ pc # "idle" /\ Len(report) > 0 => report[1].identity = identity

\* Only the last record may be cut, or of drift: cut once the run has ended.
LastOnly ==
    \A i \in 1 .. Len(report) :
        /\ report[i].form = "cut" => i = Len(report) /\ pc = "idle"
        /\ report[i].exit = "protocol_error" => i = Len(report) /\ pc \in {"idle", "sync"}

\* What the report holds at each line of a run: the cases found when the run
\* started and those it has passed, all but the one it is about to save.
Progress ==
    /\ pc = "cases" => Len(report) > 0 /\ Campaign!Done = done \cup 1 .. cursor - 1
    /\ pc = "save" =>
         /\ Len(pending) = 1 /\ pending[1].identity = identity
         /\ pending[1].form = "whole" /\ ~pending[1].durable
         /\ \/ /\ report = <<>> /\ cursor = 1 /\ done = {}
               /\ pending[1].item = Campaign!Header /\ pending[1].exit = "header"
            \/ /\ Len(report) > 0 /\ cursor > 1
               /\ pending[1].item = cursor - 1 /\ cursor - 1 \notin done
               /\ Campaign!Done = done \cup 1 .. cursor - 2
    /\ pc = "sync" => /\ Len(report) > 0 /\ Campaign!Done = done \cup 1 .. cursor - 1
                      /\ report[Len(report)].form = "whole"

CampaignInv ==
    /\ Campaign!TypeOK /\ Campaign!NoCaseTwice
    /\ Headed /\ LastOnly /\ Progress /\ Campaign!DurableBeforeNextChild
    /\ ~exists => report = <<>> /\ pc = "idle"
    /\ outcome = "summarised" => pc = "idle" /\ Campaign!OnlyHeaderLineMissed

\* What an operation that adds one record does to the report.
LEMMA OneMore ==
    ASSUME NEW S, NEW s \in Seq(S), NEW r \in S
    PROVE  /\ Append(s, r) \in Seq(S) /\ Len(Append(s, r)) = Len(s) + 1
           /\ \A i \in 1 .. Len(s) : Append(s, r)[i] = s[i]
           /\ Append(s, r)[Len(s) + 1] = r
           /\ s \o <<r>> = Append(s, r)
OBVIOUS

LEMMA OneElement ==
    ASSUME NEW S, NEW s \in Seq(S), Len(s) = 1
    PROVE  s = <<s[1]>> /\ s[1] \in S
<1>1. DOMAIN s = {1} /\ s = [i \in {1} |-> s[i]]
  <2>1. DOMAIN s = 1 .. Len(s) /\ s = [i \in DOMAIN s |-> s[i]]
    OBVIOUS
  <2> QED  BY <2>1
<1>2. s[1] \in S
  BY <1>1
<1>3. <<s[1]>> = [i \in {1} |-> s[1]]
  OBVIOUS
<1> QED  BY <1>1, <1>2, <1>3

LEMMA CampaignConstants ==
    /\ CaseCount \in Nat \ {0} /\ MaxCrashes \in Nat
    /\ Ends \subseteq Campaign!ChildEnds
BY CampaignAssumption DEF CampaignAssumption, Campaign!CampaignAssumption, Campaign!EndsAssumption

LEMMA AllButLast ==
    ASSUME NEW S, NEW s \in Seq(S), Len(s) > 0
    PROVE  /\ Front(s) \in Seq(S) /\ Len(Front(s)) = Len(s) - 1
           /\ \A i \in 1 .. Len(s) - 1 : Front(s)[i] = s[i]
<1>1. Len(s) \in Nat /\ 1 \in Int /\ Len(s) - 1 \in 0 .. Len(s)
  OBVIOUS
<1>2. Front(s) = [i \in 1 .. Len(s) - 1 |-> s[i]]
  BY <1>1 DEF Front
<1> QED  BY <1>1, <1>2

LEMMA CampaignInitially == Campaign!Init => CampaignInv
<1> SUFFICES ASSUME Campaign!Init PROVE CampaignInv
  OBVIOUS
<1>1. report = <<>> /\ Len(report) = 0 /\ pc = "idle" /\ outcome = "none"
  BY DEF Campaign!Init
<1>2. Campaign!TypeOK
  <2>1. report \in Seq(Campaign!Records) /\ pending \in Seq(Campaign!Records) /\ Len(pending) <= 1
    BY DEF Campaign!Init
  <2>2. cursor \in 1 .. CaseCount + 1 /\ crashes \in 0 .. MaxCrashes
    BY CampaignConstants DEF Campaign!Init
  <2>3. identity \in Identities /\ done \subseteq Campaign!Cases /\ counted \subseteq Campaign!Cases
    BY DEF Campaign!Init
  <2>4. pc \in {"idle", "cases", "save", "sync"} /\ exists \in BOOLEAN
    BY DEF Campaign!Init
  <2>5. QED
    BY <2>1, <2>2, <2>3, <2>4 DEF Campaign!Init, Campaign!TypeOK
<1>3. /\ Campaign!NoCaseTwice /\ Headed /\ LastOnly /\ Progress
      /\ Campaign!DurableBeforeNextChild
  BY <1>1 DEF Campaign!NoCaseTwice, Headed, LastOnly, Progress,
              Campaign!DurableBeforeNextChild
<1> QED  BY <1>1, <1>2, <1>3 DEF CampaignInv

LEMMA CampaignTypes ==
    ASSUME CampaignInv
    PROVE  /\ report \in Seq(Campaign!Records) /\ Len(report) \in Nat
           /\ \A i \in 1 .. Len(report) : report[i] \in Campaign!Records
           /\ cursor \in Int /\ Campaign!Cases = 1 .. CaseCount /\ CaseCount \in Nat
           /\ crashes \in Nat
           /\ Campaign!Header = 0
BY CampaignConstants DEF CampaignInv, Campaign!TypeOK, Campaign!Cases, Campaign!Header

LEMMA SavedType ==
    ASSUME CampaignInv, NEW c \in Campaign!Cases \cup {Campaign!Header}, NEW e \in Campaign!Outcomes
    PROVE  Campaign!Saved(c, e) \in Campaign!Records
<1>1. identity \in Identities
  BY DEF CampaignInv, Campaign!TypeOK
<1> QED  BY <1>1 DEF Campaign!Saved, Campaign!Records

\* Steps that only start, stop or advance a run.
LEMMA StartKeeps ==
    ASSUME CampaignInv, Campaign!Start
    PROVE  CampaignInv'
<1> USE CampaignTypes
<1>1. CASE ~exists
  <2>1. report = <<>> /\ Len(report) = 0
    BY <1>1 DEF CampaignInv
  <2>2. /\ report' = report /\ pc' = "save" /\ done' = {} /\ cursor' = 1 /\ exists'
        /\ pending' = <<Campaign!Saved(Campaign!Header, "header")>>
        /\ outcome' = "running" /\ identity' = identity
    BY <1>1, <2>1 DEF Campaign!Start
  <2>3. Campaign!Saved(Campaign!Header, "header") \in Campaign!Records
    BY SavedType DEF Campaign!Outcomes
  <2>4. Campaign!TypeOK'
    BY <2>1, <2>2, <2>3 DEF CampaignInv, Campaign!TypeOK, Campaign!Start
  <2>5. Progress'
    BY <2>1, <2>2 DEF Progress, Campaign!Saved
  <2> QED  BY <2>1, <2>2, <2>4, <2>5 DEF CampaignInv, Headed, LastOnly, Campaign!NoCaseTwice,
                                         Campaign!DurableBeforeNextChild
<1>2. CASE exists
  <2>1. Campaign!Resumable /\ Len(report) > 0
    BY <1>2 DEF Campaign!Start, Campaign!Resumable, Campaign!IdentityUnchanged
  <2>2. /\ report' = report /\ pc' = "cases" /\ done' = Campaign!Done /\ cursor' = 1 /\ exists'
        /\ pending' = <<>> /\ outcome' = "running" /\ identity' = identity
    BY <1>2, <2>1 DEF Campaign!Start
  <2>3. Campaign!TypeOK'
    BY <2>1, <2>2 DEF CampaignInv, Campaign!TypeOK, Campaign!Start, Campaign!Resumable
  <2>4. LastOnly'
    BY <2>1, <2>2 DEF CampaignInv, LastOnly, Campaign!Start, Campaign!Resumable,
                      Campaign!Parses, Headed
  <2>5. Headed' /\ Campaign!NoCaseTwice'
    BY <2>1, <2>2 DEF CampaignInv, Headed, Campaign!NoCaseTwice, Campaign!Resumable,
                      Campaign!IdentityUnchanged
  <2>6. Progress'
    BY <2>1, <2>2 DEF Progress, Campaign!Done, Campaign!Items
  <2>7. Campaign!DurableBeforeNextChild'
    <3>1. Campaign!Done' = done' /\ crashes' = crashes /\ pc = "idle"
      BY <2>2 DEF Campaign!Start, Campaign!Done, Campaign!Items
    <3> QED  BY <2>2, <3>1 DEF CampaignInv, Campaign!DurableBeforeNextChild
  <2> QED  BY <2>1, <2>2, <2>3, <2>4, <2>5, <2>6, <2>7 DEF CampaignInv
<1> QED  BY <1>1, <1>2

LEMMA StoppedKeeps ==
    ASSUME CampaignInv, UNCHANGED <<report, exists, cursor, done, counted, crashes>>,
           pending' = <<>>, pc' = "idle", outcome' \in {"refused", "aborted", "failed"},
           UNCHANGED identity, pc \in {"idle", "cases"}
    PROVE  CampaignInv'
<1>1. Campaign!TypeOK'
  BY DEF CampaignInv, Campaign!TypeOK
<1>2. Headed' /\ LastOnly' /\ Campaign!NoCaseTwice' /\ Progress'
  BY DEF CampaignInv, Headed, LastOnly, Campaign!NoCaseTwice, Progress
<1>3. Campaign!DurableBeforeNextChild'
  BY DEF CampaignInv, Campaign!DurableBeforeNextChild
<1> QED  BY <1>1, <1>2, <1>3 DEF CampaignInv

LEMMA SkipKeeps ==
    ASSUME CampaignInv, Campaign!Skip
    PROVE  CampaignInv'
<1> USE CampaignTypes
<1>1. Campaign!TypeOK' /\ cursor \in Nat
  BY DEF CampaignInv, Campaign!TypeOK, Campaign!Skip
<1>2. Headed' /\ LastOnly' /\ Campaign!NoCaseTwice'
  BY DEF CampaignInv, Headed, LastOnly, Campaign!NoCaseTwice, Campaign!Skip
<1>3. Progress'
  BY <1>1 DEF CampaignInv, Progress, Campaign!Skip, Campaign!Done, Campaign!Items
<1>4. Campaign!DurableBeforeNextChild'
  <2>1. Campaign!Done' = Campaign!Done
    BY DEF Campaign!Skip, Campaign!Done, Campaign!Items
  <2> QED  BY <2>1 DEF CampaignInv, Campaign!Skip, Campaign!DurableBeforeNextChild
<1> QED  BY <1>1, <1>2, <1>3, <1>4 DEF CampaignInv, Campaign!Skip

LEMMA RecordedType ==
    ASSUME NEW e \in Ends
    PROVE  Campaign!Recorded(e) \in Campaign!Outcomes
<1>1. Campaign!ChildKind(e) \in Campaign!Outcomes
  BY DEF Campaign!ChildKind, Campaign!Outcomes
<1>2. e.result \in {"sound", "nonfinite", "direction", "drift"}
  BY CampaignConstants DEF Campaign!ChildEnds
<1> QED  BY <1>1, <1>2 DEF Campaign!Recorded, Campaign!Drifts, Campaign!Outcomes

LEMMA RunChildKeeps ==
    ASSUME CampaignInv, NEW e \in Ends, Campaign!RunChild(e)
    PROVE  CampaignInv'
<1> USE CampaignTypes
<1>1. CASE Campaign!Aborts(e)
  BY <1>1, StoppedKeeps DEF Campaign!RunChild, Campaign!Stop
<1>2. CASE ~Campaign!Aborts(e)
  <2> DEFINE r == Campaign!Saved(cursor, Campaign!Recorded(e))
  <2>1. /\ pc = "cases" /\ pc' = "save" /\ pending' = <<r>> /\ cursor' = cursor + 1
        /\ UNCHANGED <<report, exists, done, counted, identity, crashes, outcome>>
        /\ cursor \in Campaign!Cases /\ cursor \notin done
    BY <1>2 DEF Campaign!RunChild
  <2>2. r \in Campaign!Records
    BY <2>1, RecordedType, SavedType
  <2>3. Campaign!TypeOK'
    BY <2>1, <2>2 DEF CampaignInv, Campaign!TypeOK
  <2>4. Headed' /\ LastOnly' /\ Campaign!NoCaseTwice'
    BY <2>1 DEF CampaignInv, Headed, LastOnly, Campaign!NoCaseTwice
  <2>5. Progress'
    BY <2>1 DEF CampaignInv, Progress, Campaign!Saved, Campaign!Done, Campaign!Items
  <2>6. Campaign!DurableBeforeNextChild'
    BY <2>1 DEF CampaignInv, Campaign!DurableBeforeNextChild
  <2> QED  BY <2>1, <2>3, <2>4, <2>5, <2>6 DEF CampaignInv
<1> QED  BY <1>1, <1>2

\* The record about to be saved is of no case that is already recorded.
LEMMA PendingIsNew ==
    ASSUME CampaignInv, pc = "save"
    PROVE  /\ pending = <<pending[1]>> /\ pending[1] \in Campaign!Records
           /\ \A i \in 1 .. Len(report) : report[i].item # pending[1].item
           /\ pending[1].item = Campaign!Header <=> report = <<>>
           /\ pending[1].identity = identity
           /\ report = <<>> => pending[1].exit = "header"
<1> USE CampaignTypes
<1>1. /\ Len(pending) = 1 /\ pending \in Seq(Campaign!Records)
      /\ pending = <<pending[1]>> /\ pending[1] \in Campaign!Records
  <2>1. Len(pending) = 1 /\ pending \in Seq(Campaign!Records)
    BY DEF CampaignInv, Campaign!TypeOK, Progress
  <2> QED  BY <2>1, OneElement
<1>2. CASE report = <<>>
  BY <1>1, <1>2 DEF CampaignInv, Progress
<1>3. CASE report # <<>>
  <2>1. /\ Len(report) > 0 /\ cursor > 1 /\ cursor - 1 \notin done
        /\ pending[1].item = cursor - 1 /\ pending[1].identity = identity
        /\ Campaign!Done = done \cup 1 .. cursor - 2
    BY <1>3 DEF CampaignInv, Progress
  <2>2. ASSUME NEW i \in 1 .. Len(report) PROVE report[i].item # cursor - 1
    <3>1. CASE i = 1
      BY <3>1, <2>1 DEF CampaignInv, Headed
    <3>2. CASE i # 1
      BY <3>2, <2>1 DEF Campaign!Done, Campaign!Items
    <3> QED  BY <3>1, <3>2
  <2> QED  BY <1>1, <1>3, <2>1, <2>2
<1> QED  BY <1>2, <1>3

\* The report with one more record, of a new case or the header.
LEMMA MoreRecords ==
    ASSUME CampaignInv, pc = "save", NEW r \in Campaign!Records,
           r.item = pending[1].item, r.identity = pending[1].identity,
           r.exit = pending[1].exit,
           report' = Append(report, r), identity' = identity
    PROVE  /\ Campaign!NoCaseTwice' /\ Headed'
           /\ report' \in Seq(Campaign!Records) /\ Len(report') = Len(report) + 1
           /\ \A i \in 1 .. Len(report) : report'[i] = report[i]
           /\ report'[Len(report) + 1] = r
<1> USE CampaignTypes
<1>1. /\ report' \in Seq(Campaign!Records) /\ Len(report') = Len(report) + 1
      /\ \A i \in 1 .. Len(report) : report'[i] = report[i]
      /\ report'[Len(report) + 1] = r
  BY OneMore
<1>2. Campaign!NoCaseTwice'
  BY <1>1, PendingIsNew DEF CampaignInv, Campaign!NoCaseTwice
<1>3. Headed'
  <2>1. CASE report = <<>>
    BY <2>1, <1>1, PendingIsNew DEF Headed
  <2>2. CASE report # <<>>
    <3>1. Len(report) > 0
      BY <2>2
    <3> QED  BY <3>1, <1>1, PendingIsNew, <2>2 DEF CampaignInv, Headed
  <2> QED  BY <2>1, <2>2
<1> QED  BY <1>1, <1>2, <1>3

LEMMA WriteKeeps ==
    ASSUME CampaignInv, Campaign!Write
    PROVE  CampaignInv'
<1> USE CampaignTypes
<1>1. /\ pc = "save" /\ pc' = "sync"
      /\ UNCHANGED <<exists, cursor, done, pending, outcome, counted, identity, crashes>>
      /\ report' = Append(report, pending[1])
  <2>1. pc = "save" /\ report' = report \o pending
    BY DEF Campaign!Write
  <2>2. pending = <<pending[1]>> /\ pending[1] \in Campaign!Records
    BY <2>1, PendingIsNew
  <2>3. report' = report \o <<pending[1]>>
    BY <2>1, <2>2
  <2>4. report \o <<pending[1]>> = Append(report, pending[1])
    BY <2>2
  <2> QED  BY <2>1, <2>3, <2>4 DEF Campaign!Write
<1> DEFINE r == pending[1]
<1>2. /\ Campaign!NoCaseTwice' /\ Headed'
      /\ report' \in Seq(Campaign!Records) /\ Len(report') = Len(report) + 1
      /\ \A i \in 1 .. Len(report) : report'[i] = report[i]
      /\ report'[Len(report) + 1] = r
  BY <1>1, MoreRecords, PendingIsNew
<1>3. Campaign!TypeOK'
  BY <1>1, <1>2 DEF CampaignInv, Campaign!TypeOK
<1>4. LastOnly'
  BY <1>1, <1>2 DEF CampaignInv, LastOnly, Progress
<1>5. Progress'
  <2>1. CASE report = <<>>
    BY <2>1, <1>1, <1>2 DEF CampaignInv, Progress, Campaign!Done, Campaign!Items
  <2>2. CASE report # <<>>
    <3>1. Campaign!Done' = Campaign!Done \cup {cursor - 1}
      BY <2>2, <1>1, <1>2 DEF CampaignInv, Progress, Campaign!Done, Campaign!Items
    <3> QED  BY <3>1, <2>2, <1>1, <1>2 DEF CampaignInv, Progress
  <2> QED  BY <2>1, <2>2
<1>6. Campaign!DurableBeforeNextChild'
  BY <1>1, <1>2 DEF CampaignInv, Campaign!DurableBeforeNextChild
<1> QED  BY <1>1, <1>2, <1>3, <1>4, <1>5, <1>6 DEF CampaignInv

LEMMA DurableRecords ==
    ASSUME NEW s \in Seq(Campaign!Records)
    PROVE  /\ Campaign!AllDurable(s) \in Seq(Campaign!Records)
           /\ Len(Campaign!AllDurable(s)) = Len(s)
           /\ \A i \in 1 .. Len(s) :
                  LET r == Campaign!AllDurable(s)[i]
                  IN  /\ r.item = s[i].item /\ r.identity = s[i].identity
                      /\ r.exit = s[i].exit /\ r.form = s[i].form /\ r.durable
                      /\ s[i].durable => r = s[i]
<1>1. /\ DOMAIN s = 1 .. Len(s) /\ Len(s) \in Nat
      /\ \A i \in 1 .. Len(s) : s[i] \in Campaign!Records
  OBVIOUS
<1>2. ASSUME NEW i \in 1 .. Len(s)
      PROVE  LET r == [s[i] EXCEPT !.durable = TRUE]
             IN  /\ r \in Campaign!Records
                 /\ r.item = s[i].item /\ r.identity = s[i].identity
                 /\ r.exit = s[i].exit /\ r.form = s[i].form /\ r.durable
                 /\ s[i].durable => r = s[i]
  BY <1>1 DEF Campaign!Records
<1>3. Campaign!AllDurable(s) = [i \in 1 .. Len(s) |-> [s[i] EXCEPT !.durable = TRUE]]
  BY <1>1 DEF Campaign!AllDurable
<1> DEFINE d == [i \in 1 .. Len(s) |-> [s[i] EXCEPT !.durable = TRUE]]
<1>4. d \in Seq(Campaign!Records) /\ Len(d) = Len(s) /\ \A i \in 1 .. Len(s) : d[i] = [s[i] EXCEPT !.durable = TRUE]
  BY <1>1, <1>2
<1> QED  BY <1>2, <1>3, <1>4

LEMMA SyncKeeps ==
    ASSUME CampaignInv, Campaign!Sync
    PROVE  CampaignInv'
<1> USE CampaignTypes
<1>1. /\ pc = "sync" /\ report' = Campaign!AllDurable(report)
      /\ UNCHANGED <<exists, cursor, done, counted, identity, crashes>>
      /\ Len(report) > 0
  BY DEF Campaign!Sync, CampaignInv, Progress
<1>2. /\ report' \in Seq(Campaign!Records) /\ Len(report') = Len(report)
      /\ \A i \in 1 .. Len(report) :
             /\ report'[i].item = report[i].item /\ report'[i].identity = report[i].identity
             /\ report'[i].exit = report[i].exit /\ report'[i].form = report[i].form
             /\ report'[i].durable
  BY <1>1, DurableRecords
<1>3. Campaign!NoCaseTwice'
  BY <1>1, <1>2 DEF CampaignInv, Campaign!NoCaseTwice
<1>4. Campaign!Done' = Campaign!Done /\ Campaign!DurableBeforeNextChild'
  BY <1>2 DEF Campaign!Done, Campaign!Items, Campaign!DurableBeforeNextChild
<1>5. CASE Campaign!Last(report).exit = "protocol_error"
  <2>1. pc' = "idle" /\ pending' = <<>> /\ outcome' = "drift"
    BY <1>5 DEF Campaign!Sync, Campaign!Stop
  <2>2. Campaign!TypeOK'
    BY <1>1, <1>2, <2>1 DEF CampaignInv, Campaign!TypeOK
  <2>3. Headed' /\ LastOnly' /\ Progress'
    BY <1>1, <1>2, <2>1 DEF CampaignInv, Headed, LastOnly, Progress
  <2> QED  BY <1>1, <1>3, <1>4, <2>1, <2>2, <2>3 DEF CampaignInv
<1>6. CASE Campaign!Last(report).exit # "protocol_error"
  <2>1. pc' = "cases" /\ pending' = <<>> /\ outcome' = outcome
    BY <1>6 DEF Campaign!Sync
  <2>2. Campaign!TypeOK'
    BY <1>1, <1>2, <2>1 DEF CampaignInv, Campaign!TypeOK
  <2>3. Headed'
    BY <1>1, <1>2, <2>1 DEF CampaignInv, Headed
  <2>4. LastOnly'
    BY <1>1, <1>2, <2>1, <1>6 DEF CampaignInv, LastOnly, Campaign!Last
  <2>5. Progress'
    BY <1>1, <1>2, <1>4, <2>1 DEF CampaignInv, Progress
  <2> QED  BY <1>1, <1>3, <1>4, <2>1, <2>2, <2>3, <2>4, <2>5 DEF CampaignInv
<1> QED  BY <1>5, <1>6

LEMMA LeastNumber ==
    ASSUME NEW S \in SUBSET Nat, S # {}
    PROVE  \E i \in S : \A j \in S : i <= j
<1> DEFINE Less == {p \in Nat \X Nat : p[1] < p[2]}
<1>1. IsWellFoundedOn(Less, Nat)
  <2>1. OpToRel(<, Nat) = Less
    BY DEF OpToRel
  <2> QED  BY <2>1, NatLessThanWellFounded
<1> HIDE DEF Less
<1>2. PICK i \in S : \A j \in S : <<j, i>> \notin Less
  BY <1>1, WFMin
<1>3. ASSUME NEW j \in S PROVE i <= j
  <2>1. j < i => <<j, i>> \in Less
    BY DEF Less
  <2> QED  BY <1>2, <2>1
<1> QED  BY <1>3

\* A record ends the first line, or there is none but one line.
LEMMA SecondLineAfterFirst ==
    ASSUME CampaignInv
    PROVE  (Campaign!SecondLine \in Nat /\ Campaign!SecondLine > 1) \/ report = <<>>
<1> USE CampaignTypes
<1> DEFINE ends == {i \in 1 .. Len(report) : report[i].form = "whole"}
<1>1. CASE ends = {}
  BY <1>1 DEF Campaign!SecondLine
<1>2. CASE ends # {}
  <2>1. \E i \in ends : \A j \in ends : i <= j
    <3>1. ends \in SUBSET Nat
      OBVIOUS
    <3> QED  BY <1>2, <3>1, LeastNumber
  <2>2. PICK i \in ends : /\ i = CHOOSE k \in ends : \A j \in ends : k <= j
                          /\ \A j \in ends : i <= j
    BY <2>1
  <2>3. Campaign!SecondLine = i + 1
    BY <1>2, <2>2 DEF Campaign!SecondLine
  <2> QED  BY <2>2, <2>3
<1> QED  BY <1>1, <1>2

LEMMA SummaryKeeps ==
    ASSUME CampaignInv, Campaign!Summary
    PROVE  CampaignInv'
<1> USE CampaignTypes
<1>1. /\ pc = "cases" /\ cursor > CaseCount /\ Len(report) > 0
      /\ UNCHANGED <<report, exists, cursor, done, identity, crashes>>
      /\ pc' = "idle" /\ pending' = <<>>
  BY DEF Campaign!Summary, Campaign!Stop, CampaignInv, Progress
<1>2. CASE Campaign!Parses(Campaign!SecondLine)
  <2>1. outcome' = "summarised" /\ counted' = Campaign!Items(Campaign!SecondLine)
    BY <1>2 DEF Campaign!Summary, Campaign!Stop
  <2>2. Campaign!SecondLine \in Nat /\ Campaign!SecondLine > 1
    BY <1>1, SecondLineAfterFirst
  <2>3. counted' \subseteq Campaign!Cases
    BY <2>1, <2>2 DEF CampaignInv, Headed, Campaign!Items, Campaign!Records
  <2>4. Campaign!TypeOK'
    BY <1>1, <2>1, <2>3 DEF CampaignInv, Campaign!TypeOK
  <2>5. Headed' /\ LastOnly' /\ Campaign!NoCaseTwice' /\ Progress'
    BY <1>1 DEF CampaignInv, Headed, LastOnly, Campaign!NoCaseTwice, Progress
  <2>6. Campaign!OnlyHeaderLineMissed'
    <3>1. ASSUME NEW c \in Campaign!Cases, c \notin counted'
          PROVE  \E i \in 2 .. Len(report) : i < Campaign!SecondLine /\ c = report[i].item
      <4>1. c \in Campaign!Done
        BY <1>1, <3>1 DEF CampaignInv, Progress, Campaign!TypeOK
      <4>2. PICK i \in 2 .. Len(report) : c = report[i].item
        BY <4>1 DEF Campaign!Done, Campaign!Items
      <4>3. i < Campaign!SecondLine
        BY <2>1, <2>2, <3>1, <4>2 DEF Campaign!Items
      <4> QED  BY <4>2, <4>3
    <3>2. Campaign!SecondLine' = Campaign!SecondLine
      BY <1>1 DEF Campaign!SecondLine
    <3> QED  BY <1>1, <3>1, <3>2 DEF Campaign!OnlyHeaderLineMissed
  <2>7. Campaign!DurableBeforeNextChild'
    BY <1>1 DEF CampaignInv, Campaign!DurableBeforeNextChild
  <2> QED  BY <1>1, <2>1, <2>4, <2>5, <2>6, <2>7 DEF CampaignInv
<1>3. CASE ~Campaign!Parses(Campaign!SecondLine)
  BY <1>1, <1>3, StoppedKeeps DEF Campaign!Summary, Campaign!Stop
<1> QED  BY <1>2, <1>3

\* A report s of the run in progress or of the next one: no item twice, the header
\* first, one identity, and nothing after a cut record or one of drift.
Fit(s) ==
    /\ s \in Seq(Campaign!Records)
    /\ \A i, j \in 1 .. Len(s) : s[i].item = s[j].item => i = j
    /\ \A i \in 1 .. Len(s) :
           /\ s[i].item = Campaign!Header <=> i = 1
           /\ s[i].identity = s[1].identity
           /\ s[i].form = "cut" => i = Len(s)
           /\ s[i].exit = "protocol_error" => i = Len(s)
    /\ Len(s) > 0 => s[1].exit = "header"

\* What the file holds when the controller stops: the report, or the report and
\* one record that was not synced.
LEMMA WrittenIsFit ==
    ASSUME CampaignInv, NEW s \in Campaign!Written
    PROVE  /\ Fit(s) /\ Len(report) <= Len(s) /\ Len(s) \in Nat
           /\ \A i \in 1 .. Len(report) : s[i] = report[i]
           /\ s # report => pc = "save" /\ Len(s) = Len(report) + 1
<1> USE CampaignTypes
<1>1. CASE s = report
  BY <1>1 DEF CampaignInv, Fit, Headed, LastOnly, Campaign!NoCaseTwice
<1>2. CASE s # report
  <2>1. pc = "save" /\ \E f \in {"bare", "cut"} :
            s = Append(report, [pending[1] EXCEPT !.form = f])
    BY <1>2 DEF Campaign!Written
  <2>2. PICK f \in {"bare", "cut"} : s = Append(report, [pending[1] EXCEPT !.form = f])
    BY <2>1
  <2> DEFINE r == [pending[1] EXCEPT !.form = f]
  <2>3. /\ r \in Campaign!Records /\ r.item = pending[1].item
        /\ r.identity = pending[1].identity /\ r.exit = pending[1].exit
    BY <2>1, PendingIsNew DEF Campaign!Records
  <2> HIDE DEF r
  <2>4. /\ s \in Seq(Campaign!Records) /\ Len(s) = Len(report) + 1
        /\ \A i \in 1 .. Len(report) : s[i] = report[i]
        /\ s[Len(report) + 1] = r
    BY <2>2, <2>3, OneMore DEF r
  <2>5. \A i, j \in 1 .. Len(s) : s[i].item = s[j].item => i = j
    BY <2>1, <2>3, <2>4, PendingIsNew DEF CampaignInv, Campaign!NoCaseTwice
  <2>6. \A i \in 1 .. Len(s) : s[i].form = "cut" \/ s[i].exit = "protocol_error" => i = Len(s)
    BY <2>1, <2>4 DEF CampaignInv, LastOnly
  <2>7. /\ \A i \in 1 .. Len(s) :
               /\ s[i].item = Campaign!Header <=> i = 1
               /\ s[i].identity = s[1].identity
        /\ s[1].exit = "header"
    <3>1. CASE report = <<>>
      BY <2>1, <2>3, <2>4, <3>1, PendingIsNew
    <3>2. CASE report # <<>>
      <4>1. Len(report) > 0
        BY <3>2
      <4> QED  BY <2>1, <2>3, <2>4, <3>2, <4>1, PendingIsNew DEF CampaignInv, Headed
    <3> QED  BY <3>1, <3>2
  <2> QED  BY <2>1, <2>4, <2>5, <2>6, <2>7 DEF Fit
<1> QED  BY <1>1, <1>2

\* What is left of a report is a report, and durable.
LEMMA LeftIsFit ==
    ASSUME NEW s, Fit(s), NEW k \in 0 .. Len(s), NEW f \in {"whole", "bare", "cut"},
           k > 0 /\ s[k].form = "cut" => f = "cut"
    PROVE  /\ Fit(Campaign!Left(s, k, f)) /\ Len(Campaign!Left(s, k, f)) = k
           /\ \A i \in 1 .. k :
                  LET l == Campaign!Left(s, k, f)[i]
                  IN  /\ l.durable
                      /\ s[i].durable /\ (i = k => f = s[i].form) => l = s[i]
<1> DEFINE t == [i \in 1 .. k |-> [s[i] EXCEPT !.durable = TRUE,
                                 !.form = IF i = k THEN f ELSE s[i].form]]
<1>1. Campaign!Left(s, k, f) = t
  BY DEF Campaign!Left
<1>2. s \in Seq(Campaign!Records) /\ \A i \in 1 .. k : i \in 1 .. Len(s) /\ s[i] \in Campaign!Records
  BY DEF Fit
<1>3. ASSUME NEW i \in 1 .. k
      PROVE  /\ t[i] \in Campaign!Records /\ t[i].item = s[i].item
             /\ t[i].identity = s[i].identity /\ t[i].exit = s[i].exit /\ t[i].durable
             /\ i # k => t[i].form = s[i].form
             /\ s[i].durable /\ (i = k => f = s[i].form) => t[i] = s[i]
  BY <1>2 DEF Campaign!Records
<1>4. t \in Seq(Campaign!Records) /\ Len(t) = k
  <2>1. k \in Nat /\ t = [i \in 1 .. k |-> t[i]]
    OBVIOUS
  <2> HIDE DEF t
  <2> QED  BY <1>3, <2>1
<1> HIDE DEF t
<1>5. Fit(t)
  <2>1. \A i, j \in 1 .. k : t[i].item = t[j].item => i = j
    BY <1>2, <1>3 DEF Fit
  <2>2. ASSUME NEW i \in 1 .. k
        PROVE  /\ t[i].item = Campaign!Header <=> i = 1
               /\ t[i].identity = t[1].identity
               /\ t[i].form = "cut" => i = k
               /\ t[i].exit = "protocol_error" => i = k
    <3>1. 1 \in 1 .. k /\ i \in 1 .. Len(s) /\ k <= Len(s)
      BY <1>2
    <3> QED  BY <1>3, <3>1 DEF Fit
  <2>3. k > 0 => t[1].exit = "header"
    <3>1. k > 0 => 1 \in 1 .. k /\ Len(s) > 0
      BY <1>2
    <3> QED  BY <1>3, <3>1 DEF Fit
  <2> QED  BY <1>4, <2>1, <2>2, <2>3 DEF Fit
<1> QED  BY <1>1, <1>3, <1>4, <1>5

\* A report that fits, of a run that a crash has ended.
LEMMA FitKeeps ==
    ASSUME CampaignInv, Fit(report'), pc' = "idle", pending' = <<>>,
           outcome' = "crashed", crashes' = crashes + 1, crashes < MaxCrashes,
           exists' \in BOOLEAN, ~exists' => report' = <<>>,
           UNCHANGED <<cursor, done, counted, identity>>,
           \A i \in 1 .. Len(report') :
               i + crashes + 1 <= Len(report') => report'[i].durable
    PROVE  CampaignInv'
<1> USE CampaignTypes
<1>1. Campaign!TypeOK'
  BY CampaignConstants DEF CampaignInv, Campaign!TypeOK, Fit
<1>2. Campaign!NoCaseTwice' /\ Headed' /\ LastOnly' /\ Progress'
  BY DEF Fit, Campaign!NoCaseTwice, Headed, LastOnly, Progress
<1>3. Campaign!DurableBeforeNextChild'
  BY DEF Campaign!DurableBeforeNextChild
<1> QED  BY <1>1, <1>2, <1>3 DEF CampaignInv

\* A killed run leaves one more record at risk than it found, or none.
LEMMA KillKeeps ==
    ASSUME CampaignInv, Campaign!Kill
    PROVE  CampaignInv'
<1> USE CampaignTypes
<1>1. /\ report' \in Campaign!Written /\ pc # "idle" /\ pc' = "idle"
      /\ outcome' = "crashed" /\ pending' = <<>> /\ crashes' = crashes + 1
      /\ crashes < MaxCrashes /\ UNCHANGED <<exists, cursor, done, counted, identity>>
  BY DEF Campaign!Kill, Campaign!Stop
<1>2. exists /\ exists \in BOOLEAN
  BY <1>1 DEF CampaignInv, Campaign!TypeOK
<1>3. ASSUME NEW i \in 1 .. Len(report'), i + crashes + 1 <= Len(report')
      PROVE  report'[i].durable
  <2>1. /\ Len(report') \in Nat /\ \A j \in 1 .. Len(report) : report'[j] = report[j]
        /\ report' # report => pc = "save" /\ Len(report') = Len(report) + 1
    BY <1>1, WrittenIsFit
  <2>2. i \in 1 .. Len(report) /\ i + crashes + (IF pc = "sync" THEN 1 ELSE 0) <= Len(report)
    BY <1>3, <2>1
  <2> QED  BY <2>1, <2>2 DEF CampaignInv, Campaign!DurableBeforeNextChild
<1>4. Fit(report')
  BY <1>1, WrittenIsFit
<1> QED  BY <1>1, <1>2, <1>3, <1>4, FitKeeps

\* What a power loss leaves is a report, durable, with all that was durable.
LEMMA PowerLossLeaves ==
    ASSUME CampaignInv, Campaign!PowerLoss
    PROVE  /\ Fit(report') /\ \A i \in 1 .. Len(report') : report'[i].durable
           /\ \A i \in 1 .. Len(report) :
                  report[i].durable => i <= Len(report') /\ report'[i] = report[i]
<1> USE CampaignTypes
<1>1. PICK s \in Campaign!Written : \E k \in 0 .. Len(s), f \in {"whole", "bare", "cut"} :
          /\ \A i \in 1 .. Len(s) : s[i].durable => i <= k
          /\ k > 0 => f \in (IF s[k].durable THEN {s[k].form} ELSE Campaign!Shortened(s[k].form))
          /\ report' = Campaign!Left(s, k, f)
  BY DEF Campaign!PowerLoss
<1>2. PICK k \in 0 .. Len(s), f \in {"whole", "bare", "cut"} :
          /\ \A i \in 1 .. Len(s) : s[i].durable => i <= k
          /\ k > 0 => f \in (IF s[k].durable THEN {s[k].form} ELSE Campaign!Shortened(s[k].form))
          /\ report' = Campaign!Left(s, k, f)
  BY <1>1
<1>3. /\ Fit(s) /\ Len(report) <= Len(s) /\ Len(s) \in Nat
      /\ \A i \in 1 .. Len(report) : s[i] = report[i]
  BY WrittenIsFit
<1>4. k > 0 /\ s[k].form = "cut" => f = "cut"
  BY <1>2 DEF Campaign!Shortened
<1>5. /\ Fit(report') /\ Len(report') = k
      /\ \A i \in 1 .. k :
             /\ report'[i].durable
             /\ s[i].durable /\ (i = k => f = s[i].form) => report'[i] = s[i]
  BY <1>2, <1>3, <1>4, LeftIsFit
<1>6. ASSUME NEW i \in 1 .. Len(report), report[i].durable
      PROVE  i <= k /\ report'[i] = report[i]
  <2>1. i \in 1 .. Len(s) /\ s[i] = report[i]
    BY <1>3
  <2>2. i \in 1 .. k
    BY <1>2, <1>6, <2>1
  <2>3. i = k => f = s[i].form
    BY <1>2, <1>6, <2>1, <2>2
  <2> QED  BY <1>5, <1>6, <2>1, <2>2, <2>3
<1> QED  BY <1>5, <1>6

LEMMA PowerLossKeeps ==
    ASSUME CampaignInv, Campaign!PowerLoss
    PROVE  CampaignInv'
<1>1. /\ pc' = "idle" /\ outcome' = "crashed" /\ pending' = <<>>
      /\ crashes' = crashes + 1 /\ crashes < MaxCrashes
      /\ exists' \in (IF report' = <<>> THEN {exists, FALSE} ELSE {exists})
      /\ UNCHANGED <<cursor, done, counted, identity>>
  BY DEF Campaign!PowerLoss, Campaign!Stop
<1>2. ASSUME report' # <<>> PROVE exists
  <2>1. SUFFICES ASSUME ~exists PROVE FALSE
    OBVIOUS
  <2>2. report = <<>> /\ pc = "idle"
    BY <2>1 DEF CampaignInv
  <2>3. Campaign!Written = {<<>>}
    BY <2>2 DEF Campaign!Written
  <2>4. \E k \in 0 .. Len(<<>>), f \in {"whole", "bare", "cut"} :
            report' = Campaign!Left(<<>>, k, f)
    BY <2>3 DEF Campaign!PowerLoss
  <2>5. PICK f \in {"whole", "bare", "cut"} : report' = Campaign!Left(<<>>, 0, f)
    BY <2>4
  <2>6. report' = <<>>
    BY <2>5 DEF Campaign!Left
  <2> QED  BY <1>2, <2>6
<1>3. exists \in BOOLEAN
  BY DEF CampaignInv, Campaign!TypeOK
<1> QED  BY <1>1, <1>2, <1>3, PowerLossLeaves, FitKeeps

LEMMA ReplaceKeeps ==
    ASSUME CampaignInv, Campaign!Replace
    PROVE  CampaignInv'
<1>1. Campaign!TypeOK'
  BY DEF CampaignInv, Campaign!TypeOK, Campaign!Replace
<1>2. Headed' /\ LastOnly' /\ Campaign!NoCaseTwice' /\ Progress'
  BY DEF CampaignInv, Headed, LastOnly, Campaign!NoCaseTwice, Progress, Campaign!Replace
<1>3. Campaign!OnlyHeaderLineMissed => Campaign!OnlyHeaderLineMissed'
  <2>1. report' = report /\ outcome' = outcome /\ counted' = counted
    BY DEF Campaign!Replace
  <2>2. Campaign!SecondLine' = Campaign!SecondLine
    BY <2>1 DEF Campaign!SecondLine
  <2> QED  BY <2>1, <2>2, Zenon DEF Campaign!OnlyHeaderLineMissed, Campaign!Cases
<1>4. Campaign!DurableBeforeNextChild'
  BY DEF CampaignInv, Campaign!Replace, Campaign!DurableBeforeNextChild
<1> QED  BY <1>1, <1>2, <1>3, <1>4 DEF CampaignInv, Campaign!Replace

LEMMA CampaignNext == CampaignInv /\ [Campaign!Next]_Campaign!vars => CampaignInv'
<1> SUFFICES ASSUME CampaignInv, [Campaign!Next]_Campaign!vars PROVE CampaignInv'
  OBVIOUS
<1>1. CASE UNCHANGED Campaign!vars
  <2>1. Campaign!TypeOK' /\ Campaign!NoCaseTwice'
    BY <1>1 DEF CampaignInv, Campaign!TypeOK, Campaign!NoCaseTwice, Campaign!vars
  <2>2. Headed' /\ LastOnly' /\ Progress'
    BY <1>1 DEF CampaignInv, Headed, LastOnly, Progress, Campaign!vars, Campaign!Done, Campaign!Items
  <2>3. Campaign!OnlyHeaderLineMissed => Campaign!OnlyHeaderLineMissed'
    <3>1. report' = report /\ outcome' = outcome /\ counted' = counted
      BY <1>1 DEF Campaign!vars
    <3>2. Campaign!SecondLine' = Campaign!SecondLine
      BY <3>1 DEF Campaign!SecondLine
    <3> QED  BY <3>1, <3>2, Zenon DEF Campaign!OnlyHeaderLineMissed, Campaign!Cases
  <2>4. Campaign!DurableBeforeNextChild'
    BY <1>1 DEF CampaignInv, Campaign!vars, Campaign!DurableBeforeNextChild,
                Campaign!Done, Campaign!Items
  <2> QED  BY <1>1, <2>1, <2>2, <2>3, <2>4 DEF CampaignInv, Campaign!vars
<1>2. CASE Campaign!StartRefused
  BY <1>2, StoppedKeeps DEF Campaign!StartRefused, Campaign!Stop
<1> QED  BY <1>1, <1>2, StartKeeps, SkipKeeps, RunChildKeeps, WriteKeeps, SyncKeeps,
            SummaryKeeps, KillKeeps, PowerLossKeeps, ReplaceKeeps
         DEF Campaign!Next, Campaign!Controller

LEMMA CampaignAlways == Campaign!Spec => []CampaignInv
BY CampaignInitially, CampaignNext, PTL DEF Campaign!Spec

\* However often a campaign is killed, loses power, is resumed and its probe
\* replaced, for any corpus: its report holds no case twice and one identity, a run
\* that saved an outcome has it durable before its next child and what killed runs
\* left at risk is one record for each kill, the report is never continued after a
\* cut record or one of drift, and a printed summary misses at most what shares
\* the header's line.
THEOREM CampaignReport == Campaign!Spec => []ReportSound
<1>1. CampaignInv => ReportSound
  <2> SUFFICES ASSUME CampaignInv PROVE ReportSound
    OBVIOUS
  <2>1. Campaign!OneIdentityPerReport
    BY CampaignTypes DEF CampaignInv, Headed, Campaign!OneIdentityPerReport
  <2>2. Campaign!PartialRecordIsLast /\ Campaign!DriftStopsCampaign
    BY DEF CampaignInv, LastOnly, Campaign!PartialRecordIsLast,
           Campaign!DriftStopsCampaign
  <2>3. Campaign!OnlyHeaderLineMissed
    BY DEF CampaignInv, Campaign!OnlyHeaderLineMissed
  <2> QED  BY <2>1, <2>2, <2>3 DEF CampaignInv, ReportSound, Campaign!ReportSound
<1> QED  BY <1>1, CampaignAlways, PTL

DurableStays ==
    \A i \in 1 .. Len(report) :
        report[i].durable => i <= Len(report') /\ report'[i] = report[i]

LEMMA StepSparesDurable ==
    ASSUME CampaignInv, Campaign!Next
    PROVE  DurableStays
<1> USE CampaignTypes
<1>1. CASE UNCHANGED report
  BY <1>1 DEF DurableStays
<1>2. CASE Campaign!Write
  <2>1. pc = "save" /\ report' = report \o pending /\ pending = <<pending[1]>>
        /\ pending[1] \in Campaign!Records
    BY <1>2, PendingIsNew DEF Campaign!Write
  <2>2. pending \in Seq(Campaign!Records)
    BY DEF CampaignInv, Campaign!TypeOK
  <2> QED  BY <2>1, <2>2 DEF DurableStays
<1>3. CASE Campaign!Sync
  BY <1>3, DurableRecords DEF Campaign!Sync, DurableStays
<1>4. CASE Campaign!Kill
  BY <1>4, WrittenIsFit DEF Campaign!Kill, DurableStays
<1>5. CASE Campaign!PowerLoss
  BY <1>5, PowerLossLeaves DEF DurableStays
<1> QED
  BY <1>1, <1>2, <1>3, <1>4, <1>5
  DEF Campaign!Next, Campaign!Controller, Campaign!Start, Campaign!StartRefused,
      Campaign!Skip, Campaign!RunChild, Campaign!Summary, Campaign!Replace

\* The death of a child is recorded as what it was, whatever else it left.
LEMMA DeathsKept == Campaign!ProtectionOutcomeKept
<1> SUFFICES ASSUME NEW e \in Ends, Campaign!RunChild(e), pc' = "save"
             PROVE  LET saved == pending'[1].exit
                    IN  /\ e.overran => saved = "timeout"
                        /\ ~e.overran /\ e.sanitizer => saved = "sanitizer"
                        /\ ~e.overran /\ ~e.sanitizer /\ e.status = "signal"
                              => saved = "signal"
  BY DEF Campaign!ProtectionOutcomeKept
<1>1. pending'[1].exit = Campaign!Recorded(e)
  BY DEF Campaign!RunChild, Campaign!Stop, Campaign!Saved
<1>2. e.overran \in BOOLEAN /\ e.sanitizer \in BOOLEAN
  BY CampaignConstants DEF Campaign!ChildEnds
<1>3. /\ e.overran => Campaign!ChildKind(e) = "timeout"
      /\ ~e.overran /\ e.sanitizer => Campaign!ChildKind(e) = "sanitizer"
      /\ ~e.overran /\ ~e.sanitizer /\ e.status = "signal" => Campaign!ChildKind(e) = "signal"
  <2>1. CASE e.overran
    <3>1. Campaign!ChildKind(e) = "timeout"
      BY <2>1, Zenon DEF Campaign!ChildKind
    <3> QED  BY <2>1, <3>1
  <2>2. CASE ~e.overran /\ e.sanitizer
    <3>1. Campaign!ChildKind(e) = "sanitizer"
      BY <2>2, Zenon DEF Campaign!ChildKind
    <3> QED  BY <2>2, <3>1
  <2>3. CASE ~e.overran /\ ~e.sanitizer /\ e.status = "signal"
    <3>1. Campaign!ChildKind(e) = "signal"
      BY <2>3, Zenon DEF Campaign!ChildKind
    <3> QED  BY <2>3, <3>1
  <2> QED  BY <1>2, <2>1, <2>2, <2>3
<1>4. Campaign!ChildKind(e) \in {"timeout", "sanitizer", "signal"} =>
          Campaign!Recorded(e) = Campaign!ChildKind(e)
  BY DEF Campaign!Recorded
<1> QED  BY <1>1, <1>3, <1>4

\* Whatever interrupts a campaign, what was durable stays in the report as it
\* was, and no crash of a child is saved as another outcome.
THEOREM CampaignEvidence == Campaign!Spec => EvidenceKept
<1>1. CampaignInv /\ [Campaign!Next]_Campaign!vars =>
          [/\ \A i \in 1 .. Len(report) :
                  report[i].durable => i <= Len(report') /\ report'[i] = report[i]
           /\ Campaign!ProtectionOutcomeKept]_Campaign!vars
  BY StepSparesDurable, DeathsKept DEF DurableStays
<1> QED
  BY <1>1, CampaignAlways, PTL DEF Campaign!Spec, EvidenceKept, Campaign!EvidenceKept
-----------------------------------------------------------------------------
(* The bound of the certificate: what it simulates for a candidate is what *)
(* the selection does.                                                     *)

\* Whatever holds at first and goes on holding from each number to the next.
LEMMA UpTo ==
    ASSUME NEW m \in Nat, NEW S, 0 \in S, \A i \in 0 .. m - 1 : i \in S => i + 1 \in S
    PROVE  \A i \in 0 .. m : i \in S
<1> DEFINE R == {i \in 0 .. m : i \notin S}
<1>1. SUFFICES ASSUME R # {} PROVE FALSE
  OBVIOUS
<1>2. R \in SUBSET Nat
  OBVIOUS
<1>3. PICK k \in R : \A i \in R : k <= i
  <2> HIDE DEF R
  <2> QED  BY <1>1, <1>2, LeastNumber
<1>4. k \in 0 .. m /\ k \notin S /\ k # 0 /\ k - 1 \in 0 .. m - 1
  BY <1>3
<1>5. k - 1 \in S
  BY <1>3, <1>4
<1>6. (k - 1) + 1 = k
  BY <1>4
<1> QED  BY <1>4, <1>5, <1>6

\* The state of the simulation after each output.
Simulation(c, f) ==
    f = [i \in 0 .. Len(Outputs) |->
            IF i = 0 THEN [round |-> 0, seen |-> {}, used |-> 0]
            ELSE AfterOutput(f[i - 1], Outputs[i], c)]

Simulated(c) == CHOOSE f : Simulation(c, f)

LEMMA SimulatedIs ==
    ASSUME NEW c
    PROVE  /\ Simulated(c)[0] = [round |-> 0, seen |-> {}, used |-> 0]
           /\ \A i \in 1 .. Len(Outputs) :
                  Simulated(c)[i] = AfterOutput(Simulated(c)[i - 1], Outputs[i], c)
<1> DEFINE N == Len(Outputs)
           base == [round |-> 0, seen |-> {}, used |-> 0]
           step(x, i) == AfterOutput(x, Outputs[i], c)
           Made(k, f) == f = [i \in 0 .. k |-> IF i = 0 THEN base ELSE step(f[i - 1], i)]
           S == {k \in 0 .. N : \E f : Made(k, f)}
<1>0. N \in Nat
  BY Constants
<1> HIDE DEF N, base, step
<1>1. 0 \in S
  <2>1. Made(0, [i \in 0 .. 0 |-> base])
    OBVIOUS
  <2> HIDE DEF Made
  <2>2. \E f : Made(0, f)
    BY <2>1
  <2> QED  BY <1>0, <2>2
<1>2. ASSUME NEW k \in 0 .. N - 1, k \in S PROVE k + 1 \in S
  <2>1. PICK f : Made(k, f)
    BY <1>2
  <2> DEFINE h == [i \in 0 .. k + 1 |-> IF i = k + 1 THEN step(f[k], k + 1) ELSE f[i]]
  <2>2. k \in Nat /\ k + 1 \in 0 .. N
    BY <1>0
  <2>3. \A i \in 0 .. k : h[i] = f[i]
    BY <2>2
  <2>4. h[k + 1] = step(f[k], k + 1)
    BY <2>2
  <2>5. ASSUME NEW i \in 0 .. k + 1
        PROVE  h[i] = IF i = 0 THEN base ELSE step(h[i - 1], i)
    <3>1. CASE i = k + 1
      <4>1. i # 0 /\ i - 1 = k /\ h[k] = f[k]
        BY <2>2, <2>3, <3>1
      <4> QED  BY <2>4, <3>1, <4>1
    <3>2. CASE i # k + 1
      <4>1. i \in 0 .. k /\ h[i] = f[i]
        BY <2>2, <2>3, <3>2
      <4>2. f[i] = IF i = 0 THEN base ELSE step(f[i - 1], i)
        BY <2>1, <4>1
      <4>3. i # 0 => i - 1 \in 0 .. k /\ h[i - 1] = f[i - 1]
        BY <2>2, <2>3, <4>1
      <4> QED  BY <4>1, <4>2, <4>3
    <3> QED  BY <3>1, <3>2
  <2>6. h = [i \in 0 .. k + 1 |-> h[i]]
    OBVIOUS
  <2> HIDE DEF h
  <2>7. Made(k + 1, h)
    BY <2>5, <2>6
  <2> QED  BY <2>2, <2>7
<1>3. N \in S
  <2> HIDE DEF S
  <2>1. \A i \in 0 .. N : i \in S
    BY <1>0, <1>1, <1>2, UpTo
  <2> QED  BY <1>0, <2>1
<1>4. PICK f : Made(N, f)
  BY <1>3
<1>5. Simulation(c, f)
  BY <1>4 DEF Simulation, N, base, step
<1> DEFINE F == Simulated(c)
<1>6. Simulation(c, F)
  BY <1>5 DEF Simulated
<1> HIDE DEF F
<1>7. F = [i \in 0 .. N |-> IF i = 0 THEN base ELSE step(F[i - 1], i)]
  BY <1>6 DEF Simulation, N, base, step
<1>8. F[0] = base
  BY <1>0, <1>7
<1>9. \A i \in 1 .. N : F[i] = step(F[i - 1], i)
  BY <1>0, <1>7
<1> QED  BY <1>8, <1>9 DEF F, N, base, step

\* The simulation uses one output at a time until its rounds are over.
LEMMA SimulatedUses ==
    ASSUME NEW c
    PROVE  \A i \in 0 .. Len(Outputs) :
              Simulated(c)[i].used \in 0 .. i
<1> DEFINE N == Len(Outputs)   F == Simulated(c)
           S == {i \in 0 .. N : F[i].used \in 0 .. i}
<1>0. N \in Nat
  BY Constants
<1>1. 0 \in S
  BY <1>0, SimulatedIs
<1>2. ASSUME NEW k \in 0 .. N - 1, k \in S PROVE k + 1 \in S
  <2>1. k + 1 \in 1 .. N /\ k + 1 \in 0 .. N /\ (k + 1) - 1 = k /\ k \in Nat
    BY <1>0
  <2>2. F[k + 1] = AfterOutput(F[k], Outputs[k + 1], c)
    BY <2>1, SimulatedIs
  <2>3. F[k].used \in 0 .. k
    BY <1>2
  <2> HIDE DEF F
  <2>4. F[k + 1].used = F[k].used \/ F[k + 1].used = F[k].used + 1
    BY <2>2 DEF AfterOutput
  <2>5. F[k + 1].used \in 0 .. k + 1
    BY <2>1, <2>3, <2>4
  <2> QED  BY <2>1, <2>5
<1> HIDE DEF S
<1>3. \A i \in 0 .. N : i \in S
  BY <1>0, <1>1, <1>2, UpTo
<1> QED  BY <1>3 DEF S

\* The simulation stays where its rounds are over.
LEMMA SimulatedStays ==
    ASSUME NEW c, NEW k \in 0 .. Len(Outputs), Simulated(c)[k].round = Rounds
    PROVE  Simulated(c)[Len(Outputs)] = Simulated(c)[k]
<1> DEFINE N == Len(Outputs)   F == Simulated(c)
           S == {i \in 0 .. N - k : F[k + i] = F[k]}
<1>0. N \in Nat /\ N - k \in Nat /\ k \in Nat
  BY Constants
<1>1. 0 \in S
  BY <1>0
<1>2. ASSUME NEW i \in 0 .. (N - k) - 1, i \in S PROVE i + 1 \in S
  <2>1. i + 1 \in 0 .. N - k /\ k + (i + 1) \in 1 .. N /\ (k + (i + 1)) - 1 = k + i
    BY <1>0
  <2>2. F[k + (i + 1)] = AfterOutput(F[k + i], Outputs[k + (i + 1)], c)
    BY <2>1, SimulatedIs
  <2>3. F[k + i] = F[k]
    BY <1>2
  <2>4. F[k + (i + 1)] = F[k]
    BY <2>2, <2>3 DEF AfterOutput
  <2> QED  BY <2>1, <2>4
<1> HIDE DEF S
<1>3. \A i \in 0 .. N - k : i \in S
  BY <1>0, <1>1, <1>2, UpTo
<1>4. N - k \in S /\ k + (N - k) = N
  BY <1>0, <1>3
<1> QED  BY <1>4 DEF S

\* What the selection has drawn is what the simulation has, which ends a round
\* with its last output.
InStep ==
    Simulated(n)[index] =
        IF Cardinality(seen) = Wanted(n)
        THEN [round |-> round + 1, seen |-> {}, used |-> index]
        ELSE [round |-> round, seen |-> seen, used |-> index]

StepInv == IInv /\ InStep /\ (status = "done" => round = Rounds)

LEMMA StepInvInitially == Init => StepInv
<1> SUFFICES ASSUME Init PROVE InStep /\ status # "done"
  BY InitIInv DEF StepInv
<1>1. Cardinality({}) = 0
  BY FS_EmptySet
<1>2. Wanted(n) \in 1 .. Block
  BY Constants DEF Init
<1>3. Cardinality(seen) # Wanted(n)
  BY <1>1, <1>2, Constants DEF Init
<1>4. Simulated(n)[0] = [round |-> 0, seen |-> {}, used |-> 0]
  BY SimulatedIs
<1> QED  BY <1>3, <1>4 DEF Init, InStep

LEMMA StepInvNext == StepInv /\ [Next]_vars => StepInv'
<1> SUFFICES ASSUME StepInv, [Next]_vars PROVE (InStep /\ (status = "done" => round = Rounds))'
  BY StepIInv DEF StepInv
<1>t. /\ n \in 1 .. MaxCount /\ index \in 0 .. Len(Outputs) /\ seen \subseteq Nat
      /\ IsFiniteSet(seen) /\ round \in 0 .. Rounds
      /\ Cardinality(seen) \in Nat /\ Wanted(n) \in 1 .. Block
  BY Constants, FS_CardinalityType DEF StepInv, IInv, TypeOK
<1>c. Rounds \in Nat /\ Block \in Nat \ {0} /\ Len(Outputs) \in Nat
  BY Constants
<1>1. CASE Draw
  <2> DEFINE o == Outputs[index + 1]   F == Simulated(n)
  <2>1. /\ Cardinality(seen) # Wanted(n) /\ round # Rounds /\ index + 1 \in 1 .. Len(Outputs)
        /\ (index + 1) - 1 = index
    BY <1>1, <1>t, <1>c DEF Draw
  <2>2. F[index] = [round |-> round, seen |-> seen, used |-> index]
    BY <2>1 DEF StepInv, InStep
  <2>3. F[index + 1] = AfterOutput(F[index], o, n)
    BY <2>1, SimulatedIs
  <2>4. AfterOutput(F[index], o, n) =
           IF Cardinality(seen \cup {o % n}) = Wanted(n)
           THEN [round |-> round + 1, seen |-> {}, used |-> index + 1]
           ELSE [round |-> round, seen |-> seen \cup {o % n}, used |-> index + 1]
    BY <2>1, <2>2 DEF AfterOutput
  <2>5. /\ n' = n /\ index' = index + 1 /\ round' = round /\ seen' = seen \cup {o % n}
        /\ status' = "drawing"
    BY <1>1 DEF Draw
  <2>6. Wanted(n)' = Wanted(n)
    BY <2>5
  <2> QED  BY <2>3, <2>4, <2>5, <2>6 DEF InStep
<1>2. CASE EndRound
  <2>1. Simulated(n)[index] = [round |-> round + 1, seen |-> {}, used |-> index]
    BY <1>2 DEF EndRound, StepInv, InStep
  <2>2. Cardinality({}) # Wanted(n)
    <3>1. Cardinality({}) = 0
      BY FS_EmptySet
    <3> QED  BY <1>t, <1>c, <3>1
  <2>3. n' = n /\ index' = index /\ round' = round + 1 /\ seen' = {} /\ status' = "drawing"
    BY <1>2 DEF EndRound
  <2> QED  BY <2>1, <2>2, <2>3 DEF InStep
<1>3. CASE Exhausted
  BY <1>3 DEF Exhausted, StepInv, InStep
<1>4. CASE Finish
  BY <1>4 DEF Finish, StepInv, InStep
<1>5. CASE UNCHANGED vars
  BY <1>5 DEF vars, StepInv, InStep
<1> QED  BY <1>1, <1>2, <1>3, <1>4, <1>5 DEF Next

LEMMA MaxAtLeast ==
    ASSUME NEW m \in Nat, NEW S \in SUBSET (0 .. m), NEW x \in S
    PROVE  x <= Max(S)
<1> DEFINE R == {m - y : y \in S}
           most(v) == \A y \in S : v >= y
<1>1. R \in SUBSET Nat /\ R # {}
  OBVIOUS
<1>2. PICK r \in R : \A z \in R : r <= z
  <2> HIDE DEF R
  <2> QED  BY <1>1, LeastNumber
<1>3. PICK w \in S : r = m - w
  BY <1>2
<1>4. most(w)
  <2>1. ASSUME NEW y \in S PROVE w >= y
    <3>1. m - y \in R
      OBVIOUS
    <3>2. m - w <= m - y
      BY <1>2, <1>3, <3>1
    <3> QED  BY <3>2
  <2> QED  BY <2>1
<1>5. Max(S) = CHOOSE v \in S : most(v)
  BY DEF Max
<1> HIDE DEF most
<1>6. most(Max(S))
  BY <1>3, <1>4, <1>5
<1> QED  BY <1>6 DEF most

LEMMA BoundIsBound ==
    /\ Block * Rounds <= TotalDrawBound
    /\ \A c \in Candidates : SelectionDraws(c) <= TotalDrawBound
<1> DEFINE S == {Rounds * Block} \cup {SelectionDraws(c) : c \in Candidates}
           N == Len(Outputs)
<1>1. N \in Nat /\ N + 1 \in Nat /\ Rounds * Block \in Nat /\ Rounds * Block = Block * Rounds
  BY Constants
<1>2. Rounds * Block \in 0 .. N + 1
  BY <1>1, SelectionAssumption
<1>3. ASSUME NEW c PROVE SelectionDraws(c) \in 0 .. N + 1
  <2> DEFINE e == Simulated(c)[N]
  <2>1. SelectionDraws(c) = IF e.round = Rounds THEN e.used ELSE N + 1
    BY DEF SelectionDraws, Simulated, Simulation
  <2>2. e.used \in 0 .. N
    BY <1>1, SimulatedUses
  <2> HIDE DEF e
  <2> QED  BY <1>1, <2>1, <2>2
<1>4. S \in SUBSET (0 .. N + 1)
  BY <1>2, <1>3
<1>5. TotalDrawBound = Max(S)
  BY DEF TotalDrawBound
<1>6. Rounds * Block \in S /\ \A c \in Candidates : SelectionDraws(c) \in S
  OBVIOUS
<1> HIDE DEF S
<1> QED  BY <1>1, <1>4, <1>5, <1>6, MaxAtLeast

\* What certificate() returns bounds the draws of every count, although it
\* simulates only the candidates, and those it does not simulate draw one block a
\* round, whatever the generator, the rounds, the block and the largest count are.
THEOREM BoundForEveryCount == PartsSpec => []BoundCertified
<1> DEFINE Here == part = "selection"
<1>1. PartsInit => (Here => Init)
  BY DEF PartsInit
<1>2. [PartsNext]_partsVars => /\ Here => [Next]_vars /\ Here'
                               /\ ~ Here => ~ Here'
  BY DEF PartsNext, partsVars
<1>3. StepInv => DrawsWithinBound
  <2> SUFFICES ASSUME StepInv, status = "done" PROVE index <= TotalDrawBound
    BY DEF DrawsWithinBound
  <2>1. /\ round = Rounds /\ seen = {} /\ n \in 1 .. MaxCount /\ index \in 0 .. Len(Outputs)
    BY DEF StepInv, IInv, TypeOK
  <2>2. Cardinality(seen) # Wanted(n)
    <3>1. Cardinality({}) = 0 /\ Wanted(n) \in 1 .. Block
      BY <2>1, FS_EmptySet, Constants
    <3> QED  BY <2>1, <3>1, Constants
  <2>3. Simulated(n)[index] = [round |-> Rounds, seen |-> {}, used |-> index]
    BY <2>1, <2>2 DEF StepInv, InStep
  <2>4. Simulated(n)[Len(Outputs)] = [round |-> Rounds, seen |-> {}, used |-> index]
    BY <2>1, <2>3, SimulatedStays
  <2>5. SelectionDraws(n) = index
    BY <2>4 DEF SelectionDraws, Simulated, Simulation
  <2>6. CASE n \in Candidates
    BY <2>5, <2>6, BoundIsBound
  <2>7. CASE n \notin Candidates
    <3>1. index = Block * Rounds + Cardinality(seen) /\ Cardinality(seen) = 0
      BY <2>1, <2>7, FS_EmptySet DEF StepInv, IInv, OnSchedule
    <3>2. Block * Rounds \in Int
      BY Constants
    <3> QED  BY <3>1, <3>2, BoundIsBound
  <2> QED  BY <2>6, <2>7
<1>4. StepInv => NoncandidateSchedule
  BY ScheduleOfInv DEF StepInv
<1>5. (Here => NoncandidateSchedule /\ DrawsWithinBound) => BoundCertified
  BY DEF BoundCertified
<1> HIDE DEF Here
<1> QED  BY <1>1, <1>2, <1>3, <1>4, <1>5, StepInvInitially, StepInvNext, PTL DEF PartsSpec
=============================================================================
