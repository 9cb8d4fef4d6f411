-------------------------------- MODULE MCDocs --------------------------------
(* The checks of the documentation on small instances: the scan that files    *)
(* GNATdoc's warnings under declarations, the ratchet on those warnings, and  *)
(* the coverage check. A behaviour is one of one check; the variables of the  *)
(* others rest.                                                               *)
EXTENDS Integers, TLC

CONSTANTS AdaSources, SpelledIn, Specifications, PagesOf(_), Baselines, Identities,
          MaxLines, MaxGap, MaxCount, MaxSteps, Away

VARIABLES part, source, index, stack, pending, found, outcome,
          sources, log, fresh, baseline, reviewed, byHand, exit, accepted, published, steps,
          case, phase, at, block, byStart, items, missing, errors

Texts == INSTANCE AdaTexts
Pages == INSTANCE AdaPages
MCTexts == Texts!Texts
MCSpelledIn == Texts!Spellings
MCSpecifications == Pages!AllSpecifications
MCPagesOf(lines) == Pages!PagesFor(lines)
MCBaselines == Pages!AllBaselines
MCSymmetry == Permutations(Identities)

Scan == INSTANCE DeclarationScan WITH Sources <- AdaSources
Ratchet == INSTANCE WarningRatchet
Coverage == INSTANCE DocCoverage WITH Sources <- Specifications

ASSUME DocsAssumption ==
    Scan!ScanAssumption /\ Ratchet!RatchetAssumption /\ Coverage!CoverageAssumption

-------------------------------------------------------------------------------
scanVars == <<source, index, stack, pending, found, outcome>>
ratchetVars == <<sources, log, fresh, baseline, reviewed, byHand, exit, accepted, published, steps>>
coverageVars == <<case, phase, at, block, byStart, items, missing, errors>>
partsVars == <<part, scanVars, ratchetVars, coverageVars>>

ScanRests == /\ source = Away /\ index = Away /\ stack = Away
             /\ pending = Away /\ found = Away /\ outcome = Away
RatchetRests == /\ sources = Away /\ log = Away /\ fresh = Away /\ baseline = Away
                /\ reviewed = Away /\ byHand = Away /\ exit = Away /\ accepted = << >>
                /\ published = Away /\ steps = Away
CoverageRests == /\ case = Away /\ phase = Away /\ at = Away /\ block = Away
                 /\ byStart = Away /\ items = Away /\ missing = Away /\ errors = Away

PartsInit == \/ part = "scan" /\ Scan!Init /\ RatchetRests /\ CoverageRests
             \/ part = "ratchet" /\ Ratchet!Init /\ ScanRests /\ CoverageRests
             \/ part = "coverage" /\ Coverage!Init /\ ScanRests /\ RatchetRests

PartsNext ==
    /\ UNCHANGED part
    /\ \/ part = "scan" /\ Scan!Next /\ UNCHANGED <<ratchetVars, coverageVars>>
       \/ part = "ratchet" /\ Ratchet!Next /\ UNCHANGED <<scanVars, coverageVars>>
       \/ part = "coverage" /\ Coverage!Next /\ UNCHANGED <<scanVars, ratchetVars>>

PartsSpec == PartsInit /\ [][PartsNext]_partsVars

-------------------------------------------------------------------------------
(* A warning is filed under its own declaration, found by a scan that finds   *)
(* what the Ada text declares.                                                *)
FiledByDeclaration == part = "scan" => Scan!FiledByDeclaration

(* Nothing is published with a warning, nor accepted beyond what was reviewed *)
(* or added to the baseline by hand.                                          *)
ReviewedOnly == part = "ratchet" => Ratchet!ReviewedOnly

(* No warning that was fixed returns between two checks that pass.            *)
NoSilentReturn == Ratchet!NoSilentReturn

(* A coverage check that passes leaves exactly the gaps of its baseline, and  *)
(* refuses no correct page.                                                   *)
PassedIsDocumented == part = "coverage" => Coverage!PassedIsDocumented
===============================================================================
