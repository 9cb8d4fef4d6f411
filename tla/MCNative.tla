------------------------------ MODULE MCNative ------------------------------
(***************************************************************************)
(* Two small parts of the native boundary, each checked alone: part says   *)
(* which one runs, and the variables of the other rest.  NativeBounds has  *)
(* a format of four-bit significands and four binades; ErrorChannel has    *)
(* two tasks.                                                              *)
(***************************************************************************)
EXTENDS NativeBounds, ErrorChannel

CONSTANTS infinite, task1, task2

VARIABLE part

\* Every number is a left coordinate; the top ones lie at zero, at a binade
\* boundary, at an odd significand, and at the end of the range.
MCXCoordinates == Floats \cup {infinite}
MCYCoordinates == {0, -16, 22, Largest}

\* Positive numbers, and the extents that are not.
MCExtents == Magnitudes \cup {-1, infinite}

\* Two messages that differ only after what the buffer holds are one text.
MCCut == [m \in Messages |-> IF m = "long what() again" THEN "long what()" ELSE m]

RestingBounds ==
    /\ bounds = NoLimits /\ factor = 3 /\ phase = "given"
    /\ limits = NoLimits /\ triangle = <<>>

PartsInit ==
    \/ part = "bounds" /\ Init /\ ErrorInit
    \/ part = "errors" /\ RestingBounds /\ ErrorInit

PartsNext ==
    \/ part = "bounds" /\ Next /\ UNCHANGED <<part, errorVars>>
    \/ part = "errors" /\ ErrorNext /\ UNCHANGED <<part, vars>>

PartsSpec == PartsInit /\ [][PartsNext]_<<part, vars, errorVars>>
=============================================================================
