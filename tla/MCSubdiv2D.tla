----------------------------- MODULE MCSubdiv2D -----------------------------
(***************************************************************************)
(* Small instances of Subdiv2D for TLC.                                    *)
(***************************************************************************)
EXTENDS Subdiv2D

\* near, twin and far lie in the large rectangle and outer in none; OpenCV may
\* find twin coincident with near.  The tiny rectangle holds only near, closer
\* than FLT_EPSILON to its super-triangle; huge overflows binary32.
CONSTANTS near, twin, far, spare, outer, nan, tiny, large, huge, largeInt, hugeInt

MCPoints == {near, twin, far, outer}
MCNear == {<<x, x>> : x \in MCPoints} \cup {<<near, twin>>, <<twin, near>>}
MCRects == {tiny, large, huge}
MCRegion == [r \in MCRects |-> CASE r = tiny -> {near}
                                 [] r = large -> {near, twin, far}
                                 [] r = huge -> {}]
MCSuperNear == [r \in MCRects |-> IF r = tiny THEN {near} ELSE {}]

\* A fourth point in the large rectangle, and the storage it would need: with
\* IntMax = 111 the room check refuses the third insertion.
MCMorePoints == MCPoints \cup {spare}
MCMoreNear == MCNear \cup {<<spare, spare>>}
MCMoreRegion == [MCRegion EXCEPT ![large] = @ \cup {spare}]

MCIntRects == {largeInt, hugeInt}
MCAsFloat32 == [r \in MCIntRects |-> IF r = largeInt THEN large ELSE huge]
MCValid == [f \in {3, 6} |-> {tiny, large}]

\* Arrays shorter and longer than a chunk, one of which ends at the last index.
MCBatches ==
    {[first |-> 0, points |-> <<>>],
     [first |-> 1, points |-> <<near, nan>>],
     [first |-> NaturalLast - 2, points |-> <<near, twin, far>>],
     [first |-> 3, points |-> <<twin, outer>>]}

\* Repeated sites, a super-triangle vertex, and one beyond native storage.
MCRequests == {<<>>, <<4>>, <<5, 4, 5>>, <<2>>, <<MaxSlots>>}
=============================================================================
