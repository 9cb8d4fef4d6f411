------------------------------ MODULE MCFitLine ------------------------------
(* The research on robust line fitting on small instances: the campaign, and  *)
(* the certificate that says how far its fits draw. A behaviour is one of the *)
(* campaign or one of a selection; the variables of the other are at rest.    *)
EXTENDS Selection

CONSTANTS CaseCount, Identities, Ends, MaxCrashes, Away
VARIABLES part, report, exists, pc, cursor, done, pending, outcome, counted,
          identity, crashes

Campaign == INSTANCE Campaign

campaignVars == <<report, exists, pc, cursor, done, pending, outcome, counted,
                  identity, crashes>>
partsVars == <<part, vars, campaignVars>>

\* An 8-bit generator of the same form as OpenCV's, with distinct blocks.
MCOutputs == RngOutputs(256, 229, 60)

\* A sound result, one that is not finite, drift of the result and of the
\* identity, an object that cannot be read, and three deaths of a child, two of
\* them before it identifies itself.
MCEnds ==
    LET End(o, s, st, i, h, r) ==
            [overran |-> o, sanitizer |-> s, status |-> st, identified |-> i,
             hashable |-> h, result |-> r]
    IN  {End(FALSE, FALSE, "0", TRUE, TRUE, "sound"),
         End(FALSE, FALSE, "0", TRUE, TRUE, "nonfinite"),
         End(FALSE, FALSE, "0", TRUE, TRUE, "drift"),
         End(FALSE, FALSE, "10", FALSE, TRUE, "drift"),
         End(FALSE, FALSE, "0", TRUE, FALSE, "sound"),
         End(TRUE, TRUE, "signal", FALSE, TRUE, "drift"),
         End(FALSE, TRUE, "signal", TRUE, TRUE, "drift"),
         End(FALSE, FALSE, "signal", FALSE, TRUE, "drift")}

ASSUME CampaignAssumption == Campaign!CampaignAssumption /\ Campaign!EndsAssumption

SelectionRests == n = Away /\ index = Away /\ seen = Away /\ round = Away /\ status = Away

PartsInit ==
    \/ part = "campaign" /\ Campaign!Init /\ SelectionRests
    \/ /\ part = "selection" /\ Init
       /\ Campaign!Init /\ identity = CHOOSE i \in Identities : TRUE

PartsNext ==
    /\ UNCHANGED part
    /\ \/ part = "campaign" /\ Campaign!Next /\ UNCHANGED vars
       \/ part = "selection" /\ Next /\ UNCHANGED campaignVars

PartsSpec ==
    /\ PartsInit /\ [][PartsNext]_partsVars
    /\ WF_partsVars(/\ part = "campaign" /\ Campaign!Controller
                    /\ UNCHANGED <<part, vars>>)

------------------------------------------------------------------------------
(* A resumed report neither repeats, mixes nor passes over an outcome.        *)
ReportSound == Campaign!ReportSound

(* What a child showed is saved as what it was, and stays once it is durable. *)
EvidenceKept == Campaign!EvidenceKept

(* A run that was started ends, if no crash ends it.                          *)
RunEnds == Campaign!RunEnds

(* A count that is no candidate draws one block a round, and the draws of     *)
(* every count stay within the bound of the candidates.                       *)
BoundCertified == part = "selection" => NoncandidateSchedule /\ DrawsWithinBound

(* The factorisations find the candidates, and nothing else.                  *)
DivisorsFound == part = "selection" => CandidatesFound

(* docs/fit-line-3d-research.md: "An interrupted partial JSON record fails    *)
(* loudly instead of silently discarding prior evidence." A summary that is   *)
(* printed would then count every case.                                       *)
SummaryComplete == Campaign!SummaryComplete
==============================================================================
