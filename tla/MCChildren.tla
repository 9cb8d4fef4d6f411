----------------------------- MODULE MCChildren -----------------------------
(* The two ways the research scripts run children, on small instances: the   *)
(* pool of the polygon research and the evidence runners of the upstream     *)
(* research. A behaviour is one of either; the other's variables rest.       *)
EXTENDS ProbePool

VARIABLES part, program, selected, child, wait, results, report, exit

CONSTANTS Selections, Versions, InPrefix, Elsewhere, Codes, MaxBody, None, Away

Evidence == INSTANCE EvidenceRun

ASSUME EvidenceAssumption == Evidence!EvidenceRunAssumption

MCSelections == {<<"known", "known">>, <<"known", "unknown">>, <<"known", "malformed">>}

MCCodes == {0, 10, 64, -11}

-----------------------------------------------------------------------------
evidenceVars == <<program, selected, child, wait, results, report, exit>>
partsVars == <<part, vars, evidenceVars>>

PoolRests ==
    /\ proc = Away /\ overdue = Away /\ pending = Away /\ running = Away
    /\ scan = Away /\ kept = Away /\ victim = Away /\ yielded = << >>
    /\ pc = Away /\ killed = Away

EvidenceRests ==
    /\ program = Away /\ selected = Away /\ child = Away /\ wait = Away
    /\ results = Away /\ report = Away /\ exit = None

PartsInit == \/ part = "pool" /\ Init /\ EvidenceRests
             \/ part = "evidence" /\ Evidence!Init /\ PoolRests

PartsNext ==
    /\ UNCHANGED part
    /\ \/ part = "pool" /\ Next /\ UNCHANGED evidenceVars
       \/ part = "evidence" /\ Evidence!Next /\ UNCHANGED vars

InPool(A) == part = "pool" /\ A /\ UNCHANGED <<part, evidenceVars>>
InEvidence(A) == part = "evidence" /\ A /\ UNCHANGED <<part, vars>>

PartsSpec ==
    /\ PartsInit /\ [][PartsNext]_partsVars
    /\ WF_partsVars(InPool(Generator)) /\ WF_partsVars(InPool(Consumer))
    /\ \A j \in Jobs : WF_partsVars(InPool(Elapse(j)))
    /\ WF_partsVars(InEvidence(Evidence!Runner))

-----------------------------------------------------------------------------
(* The pool loses, repeats and forgets no child, and kills only children.    *)
PoolKeepsChildren == part = "pool" => PoolSound

(* Every job of the pool yields its record, or the consumer gives up.        *)
PoolFinishes == part = "pool" => EveryJobFinishes

(* A clean evidence run rests on the library that was meant, and nothing of  *)
(* a case that timed out runs on.                                            *)
EvidenceSound == part = "evidence" => Evidence!EvidenceSound

(* Every evidence run ends.                                                  *)
EvidenceEnds == part = "evidence" => Evidence!RunEnds
=============================================================================
