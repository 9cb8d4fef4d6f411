--------------------------- MODULE ExactGeometry ---------------------------
(***************************************************************************)
(* The exact checks of scripts/run_min_enclosing_polygon_research.py: the  *)
(* convex hull, the two competitors (the smallest triangle on hull edges   *)
(* and the minimum rectangle) and the test that a returned polygon is      *)
(* convex and encloses the input.  The script computes with rationals; the *)
(* points here are integers, and a quotient is a record [num, den].        *)
(* A set of input points, or a polygon, grows by a point a step.           *)
(***************************************************************************)
EXTENDS Integers, Sequences, SequencesExt, FiniteSets, FiniteSetsExt

CONSTANTS
    Width, Height,  \* the grid 0 .. Width \X 0 .. Height
    MaxVertices     \* bound: vertices of the polygon

GeometryAssumption == Width \in Nat /\ Height \in Nat /\ MaxVertices \in Nat

VARIABLES points, polygon

vars == <<points, polygon>>

Grid == (0 .. Width) \X (0 .. Height)

Cross(o, a, b) ==
    (a[1] - o[1]) * (b[2] - o[2]) - (a[2] - o[2]) * (b[1] - o[1])

Cross2(u, v) == u[1] * v[2] - u[2] * v[1]

Magnitude(x) == IF x < 0 THEN 0 - x ELSE x

After(i, p) == (i % Len(p)) + 1
Before(i, p) == IF i = 1 THEN Len(p) ELSE i - 1

\* Mutant: the closing edge is left out.
TwiceOpenArea(p) ==
    LET total[i \in 0 .. Len(p)] ==
            IF i <= 1 THEN 0 ELSE total[i - 1] + Cross2(p[i - 1], p[i])
    IN  total[Len(p)]

TwiceSignedArea(p) ==
    LET total[i \in 0 .. Len(p)] ==
            IF i = 0 THEN 0 ELSE total[i - 1] + Cross2(p[i], p[After(i, p)])
    IN  total[Len(p)]

Smaller(s, p) == {q \in s : q[1] < p[1] \/ (q[1] = p[1] /\ q[2] < p[2])}

Sorted(s) ==
    [i \in 1 .. Cardinality(s) |->
        CHOOSE p \in s : Cardinality(Smaller(s, p)) = i - 1]

\* Mutant: collinear vertices are kept.
PushKeepsCollinear(stack, p) ==
    LET k == Max({i \in 0 .. Len(stack) :
                    i < 2 \/ Cross(stack[i - 1], stack[i], p) >= 0})
    IN  Append(SubSeq(stack, 1, k), p)

\* One step of the monotone chain: pop while the last turn is not to the left.
Push(stack, p) ==
    LET k == Max({i \in 0 .. Len(stack) :
                    i < 2 \/ Cross(stack[i - 1], stack[i], p) > 0})
    IN  Append(SubSeq(stack, 1, k), p)

Chain(s) ==
    LET stack[i \in 0 .. Len(s)] ==
            IF i = 0 THEN <<>> ELSE Push(stack[i - 1], s[i])
    IN  stack[Len(s)]

ConvexHull(s) ==
    LET unique == Sorted(s)
    IN  IF Len(unique) <= 2 THEN unique
        ELSE Front(Chain(unique)) \o Front(Chain(Reverse(unique)))

-----------------------------------------------------------------------------
(* Competitors.                                                            *)

Less(a, b) == a.num * b.den < b.num * a.den

\* The least of a set of quotients with positive denominators.
Least(s) == CHOOSE a \in s : \A b \in s : ~Less(b, a)

Direction(h, i) == <<h[After(i, h)][1] - h[i][1], h[After(i, h)][2] - h[i][2]>>

Turn(h, i, j) == Cross2(Direction(h, i), Direction(h, j))

\* Where edge lines i and j meet: <<x * w, y * w, w>>.
Corner(h, i, j) ==
    LET w == Turn(h, i, j)
        t == Cross2(<<h[j][1] - h[i][1], h[j][2] - h[i][2]>>, Direction(h, j))
    IN  <<h[i][1] * w + t * Direction(h, i)[1],
          h[i][2] * w + t * Direction(h, i)[2], w>>

Determinant(a, b, c) ==
    a[1] * (b[2] * c[3] - b[3] * c[2]) - a[2] * (b[1] * c[3] - b[3] * c[1])
        + a[3] * (b[1] * c[2] - b[2] * c[1])

\* Mutant: the turn from the last edge back to the first is not looked at.
EdgeTripleOpen(h, e) ==
    /\ e[1] < e[2] /\ e[2] < e[3]
    /\ Turn(h, e[1], e[2]) > 0 /\ Turn(h, e[2], e[3]) > 0
    /\ Turn(h, e[3], e[1]) # 0

\* Three edges whose lines bound a triangle around the hull.
EdgeTriple(h, e) ==
    /\ e[1] < e[2] /\ e[2] < e[3]
    /\ Turn(h, e[1], e[2]) > 0 /\ Turn(h, e[2], e[3]) > 0
    /\ Turn(h, e[3], e[1]) > 0

EdgeTriples(h) ==
    {e \in (1 .. Len(h)) \X (1 .. Len(h)) \X (1 .. Len(h)) : EdgeTriple(h, e)}

TriangleCorners(h, e) ==
    <<Corner(h, e[1], e[2]), Corner(h, e[2], e[3]), Corner(h, e[3], e[1])>>

TwiceTriangleArea(c) ==
    [num |-> Magnitude(Determinant(c[1], c[2], c[3])),
     den |-> c[1][3] * c[2][3] * c[3][3]]

\* Twice flush_triangle_area: a set of at most one quotient.
FlushTriangle(h) ==
    IF Len(h) < 3 \/ EdgeTriples(h) = {} THEN {}
    ELSE {Least({TwiceTriangleArea(TriangleCorners(h, e)) : e \in EdgeTriples(h)})}

Extent(s) == Max(s) - Min(s)

\* The area of the rectangle around h with a side along d.
RectangleAlong(h, d) ==
    [num |-> Extent({h[i][1] * d[1] + h[i][2] * d[2] : i \in DOMAIN h})
               * Extent({Cross2(d, h[i]) : i \in DOMAIN h}),
     den |-> d[1] * d[1] + d[2] * d[2]]

\* Mutant: the closing edge of the hull is left out.
OpenRectangle(h) ==
    IF Len(h) < 3 THEN {}
    ELSE {Least({RectangleAlong(h, Direction(h, i)) : i \in 1 .. Len(h) - 1})}

\* minimum_rectangle_area.
MinimumRectangle(h) ==
    IF Len(h) < 3 THEN {}
    ELSE {Least({RectangleAlong(h, Direction(h, i)) : i \in DOMAIN h})}

-----------------------------------------------------------------------------
(* check_enclosure.                                                        *)

Sign(p) == IF TwiceSignedArea(p) > 0 THEN 1 ELSE -1

VertexTurn(p, i) == Cross(p[Before(i, p)], p[i], p[After(i, p)]) * Sign(p)

\* Mutant: the orientation is taken to be counterclockwise.
ConvexCounterclockwise(p) ==
    /\ TwiceSignedArea(p) # 0
    /\ \A i \in DOMAIN p : VertexTurn(p, i) * Sign(p) >= 0
    /\ Magnitude(TwiceSignedArea(p))
         = Magnitude(TwiceSignedArea(ConvexHull(Range(p))))

Convex(p) ==
    /\ TwiceSignedArea(p) # 0
    /\ \A i \in DOMAIN p : VertexTurn(p, i) >= 0
    /\ Magnitude(TwiceSignedArea(p))
         = Magnitude(TwiceSignedArea(ConvexHull(Range(p))))

\* Mutant: the polygon is taken to be counterclockwise.
OutsideCounterclockwise(p, q) ==
    \E i \in DOMAIN p : /\ p[i] # p[After(i, p)]
                        /\ Cross(p[i], p[After(i, p)], q) < 0

\* Is q outside an edge of p?  An edge of length zero has no outside.
Outside(p, q) ==
    \E i \in DOMAIN p : /\ p[i] # p[After(i, p)]
                        /\ Cross(p[i], p[After(i, p)], q) * Sign(p) < 0

-----------------------------------------------------------------------------

Init == points = {} /\ polygon = <<>>

AddPoint == /\ \E p \in Grid \ points : points' = points \cup {p}
            /\ UNCHANGED polygon

AddVertex == /\ Len(polygon) < MaxVertices
             /\ \E p \in Grid : polygon' = Append(polygon, p)
             /\ UNCHANGED points

Next == AddPoint \/ AddVertex

Spec == Init /\ [][Next]_vars

-----------------------------------------------------------------------------
(* Reference definitions.                                                  *)

\* q lies in the triangle a, b, c, which may be degenerate.
InTriangle(a, b, c, q) ==
    LET d == <<Cross(a, b, q), Cross(b, c, q), Cross(c, a, q)>>
        low(x) == IF x[1] < x[2] THEN x[1] ELSE x[2]
        within(x, y, z, w) == Min({x, y, z}) <= w /\ w <= Max({x, y, z})
    IN  /\ \/ \A i \in 1 .. 3 : d[i] >= 0
           \/ \A i \in 1 .. 3 : d[i] <= 0
        /\ within(a[1], b[1], c[1], q[1]) /\ within(a[2], b[2], c[2], q[2])

\* q is a convex combination of s (Caratheodory).
InConvexHull(q, s) == \E a, b, c \in s : InTriangle(a, b, c, q)

Corners(s) == {p \in s : ~InConvexHull(p, s \ {p})}

\* Types: points of the grid, and a polygon of them.
TypeOK == points \subseteq Grid /\ polygon \in Seq(Grid)

\* The monotone chain finds exactly the points that are no convex combination
\* of the others, once each and counterclockwise.
HullIsExtremePoints ==
    LET h == ConvexHull(points)
    IN  /\ Range(h) = Corners(points) /\ IsInjective(h)
        /\ Len(h) >= 3 => \A i \in DOMAIN h :
              Cross(h[Before(i, h)], h[i], h[After(i, h)]) > 0

\* A triangle that is a competitor encloses every input point, whichever way
\* its corners were computed: beating the polygon then proves something.
FlushTrianglesEnclose ==
    LET h == ConvexHull(points)
    IN  Len(h) >= 3 => \A e \in EdgeTriples(h) : \A q \in points :
           LET c == TriangleCorners(h, e)
               p == <<q[1], q[2], 1>>
           IN  /\ Determinant(c[1], c[2], p) * c[1][3] * c[2][3] >= 0
               /\ Determinant(c[2], c[3], p) * c[2][3] * c[3][3] >= 0
               /\ Determinant(c[3], c[1], p) * c[3][3] * c[1][3] >= 0

\* No enclosing rectangle in any direction is smaller than the one found by
\* trying the directions of the hull's edges (Freeman and Shapira).
RectangleIsMinimum ==
    LET h == ConvexHull(points)
    IN  \A r \in MinimumRectangle(h) :
           \A d \in ((-3 .. 3) \X (0 .. 3)) \ {<<0, 0>>} :
              ~Less(RectangleAlong(h, d), r)

\* A hull passes the script's own test of convexity, in both orientations.
HullPassesCheck ==
    LET h == ConvexHull(points)
    IN  Len(h) >= 3 =>
           /\ Convex(h) /\ Convex(Reverse(h))
           /\ \A q \in points : ~Outside(h, q) /\ ~Outside(Reverse(h), q)

\* What a polygon is compared with is what it should be, and the hull, around
\* which the competitors are drawn, is one that the script would accept.
HullAndCompetitorsSound ==
    /\ TypeOK /\ HullIsExtremePoints /\ FlushTrianglesEnclose
    /\ RectangleIsMinimum /\ HullPassesCheck

\* The vertices of p are all to the left of its edges, or all to the right.
KeepsToOneSide(p) ==
    \/ \A i \in DOMAIN p, v \in Range(p) : Cross(p[i], p[After(i, p)], v) >= 0
    \/ \A i \in DOMAIN p, v \in Range(p) : Cross(p[i], p[After(i, p)], v) <= 0

\* The tests of the edges decide what a polygon with an area encloses, however
\* it turns and whether it crosses itself: a point that is not in the hull of
\* the vertices is outside an edge.  Of a convex polygon, only such a point is.
EdgeTestsDecide ==
    TwiceSignedArea(polygon) # 0 =>
        \A q \in Grid :
           /\ ~InConvexHull(q, Range(polygon)) => Outside(polygon, q)
           /\ KeepsToOneSide(polygon) /\ Outside(polygon, q) =>
                 ~InConvexHull(q, Range(polygon))

\* Two edges of p cross inside both.
CrossesItself(p) ==
    \E i, j \in DOMAIN p :
        /\ Cross(p[i], p[After(i, p)], p[j])
             * Cross(p[i], p[After(i, p)], p[After(j, p)]) < 0
        /\ Cross(p[j], p[After(j, p)], p[i])
             * Cross(p[j], p[After(j, p)], p[After(i, p)]) < 0

\* The comment in check_enclosure: "All turns one way is not enough: a
\* pentagram turns one way too."  The comparison with the area of the hull is
\* to reject what turns one way and is not convex.
StarsRejected ==
    IsInjective(polygon) /\ Convex(polygon) => ~CrossesItself(polygon)
=============================================================================
