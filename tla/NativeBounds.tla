---------------------------- MODULE NativeBounds ----------------------------
(***************************************************************************)
(* The binary floating-point arithmetic of a Subdiv2D initialization:      *)
(* Validate_Native_Bounds (src/src/opencv-geometry-subdiv2d.adb) decides   *)
(* which rectangles reach OpenCV, and initialize_float32_compat            *)
(* (src/cpp/opencv_geometry_shim.cpp), like OpenCV's own initDelaunay,     *)
(* computes the bounds and the super-triangle from one it accepted.        *)
(*                                                                         *)
(* The format has few bits but the same rules as binary32: subnormals,     *)
(* rounding to nearest with ties to even, overflow.  A number is an        *)
(* integer count of the smallest subnormal, so every sum and product is    *)
(* exact before it is rounded.                                             *)
(***************************************************************************)
EXTENDS Integers, FiniteSets

CONSTANTS
    Precision,     \* bits of the significand
    MaxExponent,   \* exponent of the last binade; 0 is the first
    NotFinite,     \* an infinity or a NaN
    XCoordinates,  \* values of Bounds.X
    YCoordinates,  \* values of Bounds.Y
    Extents        \* values of Bounds.Width and Bounds.Height

Factors == {3, 6}

TwoTo[n \in Nat] == IF n = 0 THEN 1 ELSE 2 * TwoTo[n - 1]

Significands == 0 .. TwoTo[Precision] - 1
Magnitudes == {m * TwoTo[e] : m \in Significands, e \in 0 .. MaxExponent}
Floats == Magnitudes \cup {-a : a \in Magnitudes}
Largest == (TwoTo[Precision] - 1) * TwoTo[MaxExponent]

ASSUME FormatAssumption ==
    /\ Precision \in Nat /\ Precision >= 4
    /\ MaxExponent \in Nat
    /\ NotFinite \notin Int
    /\ XCoordinates \subseteq Floats \cup {NotFinite}
    /\ YCoordinates \subseteq Floats \cup {NotFinite}
    /\ Extents \subseteq Floats \cup {NotFinite}

VARIABLES
    bounds,     \* the Bounds argument of Reset or Reset_Float32
    factor,     \* the scale of the super-triangle
    phase,      \* "given", "rejected" or "ready"
    limits,     \* native topLeft and bottomRight
    triangle    \* the positions of slots 1, 2 and 3

vars == <<bounds, factor, phase, limits, triangle>>

-----------------------------------------------------------------------------
(* Arithmetic.                                                             *)

Magnitude(z) == IF z < 0 THEN -z ELSE z
Larger(a, b) == IF a >= b THEN a ELSE b

\* The exponent of the binade of z; factors reach three binades higher.
Exponent(z) ==
    CHOOSE e \in 0 .. MaxExponent + 4 :
        /\ Magnitude(z) < TwoTo[Precision + e]
        /\ e > 0 => Magnitude(z) >= TwoTo[Precision + e - 1]

\* The significand nearest to z / 2^e, ties to even.
Nearest(z, e) ==
    LET unit == TwoTo[e]
        q == Magnitude(z) \div unit
        r == Magnitude(z) % unit
    IN  IF 2 * r > unit \/ (2 * r = unit /\ q % 2 = 1) THEN q + 1 ELSE q

\* Float32_Value'Machine of an exact result.
Machine(z) ==
    LET v == Nearest(z, Exponent(z)) * TwoTo[Exponent(z)]
    IN  IF v > Largest THEN NotFinite ELSE IF z < 0 THEN -v ELSE v

Is_Finite(v) == v # NotFinite

\* Mutant: the extent itself, as if advancing once were enough.
BigUnscaled(b, f) == Machine(Larger(b.width, b.height))

Big(b, f) == Machine(f * Larger(b.width, b.height))
Right(b) == Machine(b.x + b.width)
Bottom(b) == Machine(b.y + b.height)

-----------------------------------------------------------------------------
(* Validation and initialization.                                          *)

FiniteFields(b) ==
    Is_Finite(b.x) /\ Is_Finite(b.y) /\ Is_Finite(b.width) /\ Is_Finite(b.height)

Validate_Native_Bounds(b, f) ==
    /\ FiniteFields(b)
    /\ b.width > 0 /\ b.height > 0
    /\ Is_Finite(Big(b, f)) /\ Big(b, f) > 0
    /\ Is_Finite(Right(b)) /\ Is_Finite(Bottom(b))
    /\ Right(b) > b.x /\ Bottom(b) > b.y
    /\ Is_Finite(Machine(b.x + Big(b, f))) /\ Is_Finite(Machine(b.y + Big(b, f)))
    /\ Is_Finite(Machine(b.x - Big(b, f))) /\ Is_Finite(Machine(b.y - Big(b, f)))

Limits(b) == [left |-> b.x, top |-> b.y, right |-> Right(b), bottom |-> Bottom(b)]

\* Mutant: the super-triangle is scaled by the rectangle's width alone.
WidthTriangle(b, f) ==
    LET big == Machine(f * b.width)
    IN  <<[x |-> Machine(b.x + big), y |-> b.y],
          [x |-> b.x, y |-> Machine(b.y + big)],
          [x |-> Machine(b.x - big), y |-> Machine(b.y - big)]>>

SuperTriangle(b, f) ==
    LET big == Big(b, f)
    IN  <<[x |-> Machine(b.x + big), y |-> b.y],
          [x |-> b.x, y |-> Machine(b.y + big)],
          [x |-> Machine(b.x - big), y |-> Machine(b.y - big)]>>

Rejects ==
    /\ phase = "given"
    /\ ~Validate_Native_Bounds(bounds, factor)
    /\ phase' = "rejected"
    /\ UNCHANGED <<bounds, factor, limits, triangle>>

Initializes ==
    /\ phase = "given"
    /\ Validate_Native_Bounds(bounds, factor)
    /\ phase' = "ready"
    /\ limits' = Limits(bounds)
    /\ triangle' = SuperTriangle(bounds, factor)
    /\ UNCHANGED <<bounds, factor>>

NoLimits == [left |-> 0, top |-> 0, right |-> 0, bottom |-> 0]

Init ==
    /\ bounds \in [x : XCoordinates, y : YCoordinates,
                   width : Extents, height : Extents]
    /\ factor \in Factors
    /\ phase = "given"
    /\ limits = NoLimits
    /\ triangle = <<>>

Next == Rejects \/ Initializes

Spec == Init /\ [][Next]_vars

-----------------------------------------------------------------------------
(* Properties.                                                             *)

\* Twice the signed area of the triangle p, q, r, exactly.
Orientation(p, q, r) == (q.x - p.x) * (r.y - p.y) - (q.y - p.y) * (r.x - p.x)

Inside(p) ==
    \A i \in 1 .. 3 : Orientation(triangle[i], triangle[(i % 3) + 1], p) > 0

\* The comment on Validate_Native_Bounds: A is strictly right of the origin,
\* B strictly below, C strictly left and above, and the determinant is
\* positive, for every rectangle accepted with either factor.
SuperTriangleProper ==
    phase = "ready" =>
        /\ triangle[1].x > bounds.x
        /\ triangle[2].y > bounds.y
        /\ triangle[3].x < bounds.x /\ triangle[3].y < bounds.y
        /\ Orientation(triangle[1], triangle[2], triangle[3]) > 0

\* The last coordinate below an upper limit.
Before(v) == CHOOSE u \in Floats : u < v /\ \A t \in Floats : t < v => t <= u

\* No point that insert or locate accepts, which lies in the half-open
\* rectangle, is on or outside the super-triangle: its corners are inside.
BoundsInsideTriangle ==
    phase = "ready" =>
        \A px \in {limits.left, Before(limits.right)},
           py \in {limits.top, Before(limits.bottom)} :
            Inside([x |-> px, y |-> py])

\* The super-triangle is proper and holds every point of the bounds.
SuperTriangleSound == SuperTriangleProper /\ BoundsInsideTriangle
=============================================================================
