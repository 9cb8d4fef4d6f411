---------------------------- MODULE PolygonProofs ----------------------------
(***************************************************************************)
(* The polygon research, for any grid, any corpus and any children.  First *)
(* its exact geometry: what the tests of the edges decide, that the        *)
(* monotone chain finds the extreme points and passes those tests, that a  *)
(* triangle on three edges encloses the hull, and that no rectangle is     *)
(* less than the least with a side along an edge.  Then its verdicts: what *)
(* an outcome says of its child, and what the counts, the report and the   *)
(* exit status say of the outcomes.  Last its corpus: what a text that is  *)
(* read to its end keeps, and that a printed case is read back.            *)
(***************************************************************************)
EXTENDS MCPolygon, SequenceTheorems, FiniteSetTheorems, NaturalsInduction,
        WellFoundedInduction, TLAPS

-----------------------------------------------------------------------------
(* Induction over numbers, and recursive functions.                        *)

NatLT == {p \in Nat \X Nat : p[1] < p[2]}

\* Every set of numbers that is not empty has a least one.
LEMMA LeastNatural ==
  ASSUME NEW S \in SUBSET Nat, S # {}
  PROVE  \E m \in S : \A n \in S : m <= n
<1>1. IsWellFoundedOn(NatLT, Nat)
  BY NatLessThanWellFounded, Zenon DEF OpToRel, NatLT
<1>2. PICK m \in S : \A n \in S : ~ (<<n, m>> \in NatLT)
  BY <1>1, WFMin
<1>3. ASSUME NEW n \in S PROVE m <= n
  <2>1. n \in Nat /\ m \in Nat
    OBVIOUS
  <2>2. <<n, m>> \in NatLT <=> n < m
    BY <2>1 DEF NatLT
  <2>3. QED
    BY <1>2, <2>1, <2>2
<1>4. QED
  BY <1>3

\* Whatever holds at first and goes on holding from each number below the last
\* to the next holds up to the last.
LEMMA UpTo ==
  ASSUME NEW n \in Nat, NEW S, 0 \in S, \A i \in 0 .. n - 1 : i \in S => i + 1 \in S
  PROVE  \A i \in 0 .. n : i \in S
<1>1. SUFFICES ASSUME {i \in 0 .. n : i \notin S} # {} PROVE FALSE
  OBVIOUS
<1> DEFINE R == {i \in 0 .. n : i \notin S}
<1>2. R \in SUBSET Nat
  OBVIOUS
<1>3. PICK m \in R : \A i \in R : m <= i
  <2> HIDE DEF R
  <2>1. QED
    BY <1>1, <1>2, LeastNatural DEF R
<1>4. m \in 0 .. n /\ m \notin S /\ m # 0 /\ m - 1 \in 0 .. n - 1
  BY <1>3
<1>5. m - 1 \in S
  BY <1>3, <1>4
<1>6. (m - 1) + 1 = m
  BY <1>4
<1>7. QED
  BY <1>4, <1>5, <1>6

Recursion(T, b, n, g) ==
    \E f \in [0 .. n -> T] : f[0] = b /\ \A i \in 1 .. n : f[i] = g[i][f[i - 1]]

\* A function by recursion on its argument: g has the step of each.
LEMMA Iterated ==
  ASSUME NEW T, NEW b \in T, NEW n \in Nat, NEW g \in [1 .. n -> [T -> T]]
  PROVE  Recursion(T, b, n, g)
<1> DEFINE Made(k, f) == /\ f \in [0 .. k -> T] /\ f[0] = b
                         /\ \A i \in 1 .. k : f[i] = g[i][f[i - 1]]
           S == {k \in 0 .. n : \E f : Made(k, f)}
<1>1. 0 \in S
  <2>1. Made(0, [i \in 0 .. 0 |-> b])
    OBVIOUS
  <2> HIDE DEF Made
  <2>2. \E f : Made(0, f)
    BY <2>1
  <2>3. QED
    BY <2>2
<1>2. ASSUME NEW k \in 0 .. n - 1, k \in S PROVE k + 1 \in S
  <2>1. PICK f : Made(k, f)
    BY <1>2
  <2> DEFINE h == [i \in 0 .. k + 1 |-> IF i = k + 1 THEN g[k + 1][f[k]] ELSE f[i]]
  <2>2. k + 1 \in 1 .. n /\ f[k] \in T
    BY <2>1
  <2>3. g[k + 1][f[k]] \in T
    BY <2>2
  <2>4. \A i \in 0 .. k : h[i] = f[i]
    OBVIOUS
  <2>5. h[k + 1] = g[k + 1][f[k]]
    OBVIOUS
  <2>6. h \in [0 .. k + 1 -> T]
    BY <2>1, <2>3
  <2> HIDE DEF h
  <2>7. h[0] = b
    BY <2>1, <2>4
  <2>8. ASSUME NEW i \in 1 .. k + 1 PROVE h[i] = g[i][h[i - 1]]
    <3>1. CASE i = k + 1
      <4>1. i - 1 = k /\ k \in 0 .. k
        BY <3>1
      <4>2. QED
        BY <2>4, <2>5, <3>1, <4>1
    <3>2. CASE i # k + 1
      <4>1. i \in 1 .. k /\ i \in 0 .. k /\ i - 1 \in 0 .. k
        BY <3>2
      <4>2. QED
        BY <2>1, <2>4, <4>1
    <3>3. QED
      BY <3>1, <3>2
  <2>9. QED
    BY <2>2, <2>6, <2>7, <2>8
<1>3. \A i \in 0 .. n : i \in S
  <2> HIDE DEF S
  <2>1. QED
    BY <1>1, <1>2, UpTo
<1>4. QED
  BY <1>3 DEF Recursion

-----------------------------------------------------------------------------
(* The area of a polygon.                                                  *)

Plane == Int \X Int

LEMMA CrossInt ==
  ASSUME NEW o \in Plane, NEW a \in Plane, NEW b \in Plane
  PROVE  Cross(o, a, b) \in Int
BY DEF Plane, Cross

\* The vertex after a vertex.
LEMMA AfterIn ==
  ASSUME NEW p \in Seq(Plane), NEW i \in DOMAIN p
  PROVE  /\ After(i, p) \in DOMAIN p /\ DOMAIN p = 1 .. Len(p) /\ Len(p) \in Nat
         /\ After(i, p) = IF i = Len(p) THEN 1 ELSE i + 1
         /\ p[i] \in Plane /\ p[After(i, p)] \in Plane
<1>1. DOMAIN p = 1 .. Len(p) /\ Len(p) \in Nat /\ Len(p) > 0 /\ i \in 1 .. Len(p)
  BY LenProperties
<1>2. After(i, p) = IF i = Len(p) THEN 1 ELSE i + 1
  <2>1. CASE i = Len(p)
    <3>1. i % Len(p) = 0
      BY <1>1, <2>1
    <3>2. QED
      BY <2>1, <3>1 DEF After
  <2>2. CASE i # Len(p)
    <3>1. i % Len(p) = i
      BY <1>1, <2>2
    <3>2. QED
      BY <2>2, <3>1 DEF After
  <2>3. QED
    BY <2>1, <2>2
<1>3. After(i, p) \in 1 .. Len(p)
  BY <1>1, <1>2
<1>4. QED
  BY <1>1, <1>2, <1>3, ElementOfSeq

Totals(p, f) ==
    f = [i \in 0 .. Len(p) |-> IF i = 0 THEN 0 ELSE f[i - 1] + Cross2(p[i], p[After(i, p)])]

\* The signed area is the last of the totals that the code adds up.
LEMMA AreaIsTotal ==
  ASSUME NEW p \in Seq(Plane)
  PROVE  \E f \in [0 .. Len(p) -> Int] :
            /\ f[0] = 0 /\ TwiceSignedArea(p) = f[Len(p)]
            /\ \A i \in 1 .. Len(p) : f[i] = f[i - 1] + Cross2(p[i], p[After(i, p)])
<1> DEFINE n == Len(p)
           c(i) == Cross2(p[i], p[After(i, p)])
           g == [i \in 1 .. n |-> [t \in Int |-> t + c(i)]]
           F == CHOOSE f : Totals(p, f)
<1>1. n \in Nat /\ \A i \in 1 .. n : c(i) \in Int
  <2>1. n \in Nat /\ DOMAIN p = 1 .. n
    BY LenProperties
  <2>2. ASSUME NEW i \in 1 .. n PROVE c(i) \in Int
    <3>1. p[i] \in Plane /\ p[After(i, p)] \in Plane
      BY <2>1, AfterIn
    <3>2. QED
      BY <3>1 DEF Plane, Cross2
  <2>3. QED
    BY <2>1, <2>2
<1> HIDE DEF c
<1>2. g \in [1 .. n -> [Int -> Int]]
  BY <1>1
<1>3. PICK f \in [0 .. n -> Int] : f[0] = 0 /\ \A i \in 1 .. n : f[i] = g[i][f[i - 1]]
  <2> HIDE DEF g, n
  <2>1. 0 \in Int /\ n \in Nat
    BY <1>1
  <2>2. \E f \in [0 .. n -> Int] : f[0] = 0 /\ \A i \in 1 .. n : f[i] = g[i][f[i - 1]]
    <3>1. Recursion(Int, 0, n, g)
      BY <1>2, <2>1, Iterated
    <3>2. QED
      BY <3>1 DEF Recursion
  <2>3. QED
    BY <2>2
<1>4. \A i \in 1 .. n : f[i] = f[i - 1] + c(i)
  <2>1. ASSUME NEW i \in 1 .. n PROVE f[i] = f[i - 1] + c(i)
    <3>1. i - 1 \in 0 .. n
      BY <1>1
    <3>2. f[i - 1] \in Int
      BY <3>1
    <3>3. g[i][f[i - 1]] = f[i - 1] + c(i)
      BY <3>2
    <3>4. QED
      BY <1>3, <3>3
  <2>2. QED
    BY <2>1
<1>5. Totals(p, f)
  <2>1. \A i \in 0 .. n : f[i] = IF i = 0 THEN 0 ELSE f[i - 1] + c(i)
    BY <1>3, <1>4
  <2>2. QED
    BY <2>1 DEF Totals, c
<1>6. Totals(p, F)
  BY <1>5
<1>7. TwiceSignedArea(p) = F[n]
  BY DEF TwiceSignedArea, Totals
<1> HIDE DEF F
<1>8. F = [i \in 0 .. n |-> IF i = 0 THEN 0 ELSE F[i - 1] + c(i)]
  BY <1>6 DEF Totals, c
<1>9. F[0] = 0 /\ \A i \in 1 .. n : F[i] = F[i - 1] + c(i)
  <2> HIDE DEF g, n
  <2>1. \A i \in 0 .. n : F[i] = IF i = 0 THEN 0 ELSE F[i - 1] + c(i)
    BY <1>8
  <2>2. 0 \in 0 .. n
    BY <1>1
  <2>3. F[0] = 0
    BY <2>1, <2>2
  <2>4. ASSUME NEW i \in 1 .. n PROVE F[i] = F[i - 1] + c(i)
    <3>1. i \in 0 .. n /\ i # 0
      BY <1>1
    <3>2. QED
      BY <2>1, <3>1
  <2>5. QED
    BY <2>3, <2>4
<1>10. \A i \in 0 .. n : F[i] \in Int
  <2> DEFINE S == {i \in 0 .. n : F[i] \in Int}
  <2>1. 0 \in S
    BY <1>1, <1>9
  <2>2. ASSUME NEW i \in 0 .. n - 1, i \in S PROVE i + 1 \in S
    <3>1. i + 1 \in 1 .. n /\ (i + 1) - 1 = i
      BY <1>1
    <3>2. QED
      BY <1>1, <1>9, <2>2, <3>1
  <2>3. \A i \in 0 .. n : i \in S
    <3> HIDE DEF S
    <3>1. QED
      BY <1>1, <2>1, <2>2, UpTo
  <2>4. QED
    BY <2>3
<1>11. F \in [0 .. n -> Int]
  BY <1>8, <1>10
<1>12. QED
  BY <1>7, <1>9, <1>11 DEF c

LEMMA CrossOfPairs ==
  ASSUME NEW a \in Plane, NEW b \in Plane, NEW q \in Plane
  PROVE  /\ Cross2(a, b) \in Int /\ Cross2(q, b) \in Int /\ Cross2(q, a) \in Int
         /\ Cross2(a, b) - Cross2(q, b) + Cross2(q, a) = Cross(a, b, q)
<1>1. /\ a[1] \in Int /\ a[2] \in Int /\ b[1] \in Int /\ b[2] \in Int
      /\ q[1] \in Int /\ q[2] \in Int
  BY DEF Plane
<1>2. QED
  BY <1>1 DEF Cross, Cross2

\* The area is made up of the triangles over the edges, seen from any point.
LEMMA AreaAround ==
  ASSUME NEW p \in Seq(Plane), Len(p) > 0, NEW q \in Plane
  PROVE  \E g \in [0 .. Len(p) -> Int] :
            /\ g[0] = 0 /\ TwiceSignedArea(p) = g[Len(p)]
            /\ \A i \in 1 .. Len(p) : g[i] = g[i - 1] + Cross(p[i], p[After(i, p)], q)
<1> DEFINE n == Len(p)
           at(i) == IF i = n THEN p[1] ELSE p[i + 1]
<1>1. n \in Nat /\ n > 0 /\ DOMAIN p = 1 .. n /\ \A i \in 1 .. n : p[i] \in Plane
  BY LenProperties, ElementOfSeq
<1>2. PICK f \in [0 .. n -> Int] :
         /\ f[0] = 0 /\ TwiceSignedArea(p) = f[n]
         /\ \A i \in 1 .. n : f[i] = f[i - 1] + Cross2(p[i], p[After(i, p)])
  BY AreaIsTotal
<1> DEFINE g == [i \in 0 .. n |-> f[i] + Cross2(q, p[1]) - Cross2(q, at(i))]
<1>a. /\ \A i \in 1 .. n : p[After(i, p)] = at(i)
      /\ \A i \in 1 .. n : at(i - 1) = p[i]
      /\ at(0) = p[1] /\ at(n) = p[1]
  <2>1. ASSUME NEW i \in 1 .. n PROVE p[After(i, p)] = at(i) /\ at(i - 1) = p[i]
    <3>1. After(i, p) = IF i = n THEN 1 ELSE i + 1
      BY <1>1, AfterIn
    <3>2. i - 1 # n /\ (i - 1) + 1 = i
      BY <1>1
    <3>3. QED
      BY <3>1, <3>2
  <2>2. 0 # n /\ 0 + 1 = 1
    BY <1>1
  <2>3. QED
    BY <2>1, <2>2
<1>3. \A i \in 0 .. n : at(i) \in Plane
  <2>1. ASSUME NEW i \in 0 .. n PROVE at(i) \in Plane
    <3>1. CASE i = n
      <4>1. at(i) = p[1]
        BY <3>1
      <4>2. 1 \in 1 .. n
        <5> HIDE DEF n
        <5>1. QED
          BY <1>1
      <4>3. QED
        BY <1>1, <4>1, <4>2, Zenon
    <3>2. CASE i # n
      <4>1. i + 1 \in 1 .. n
        <5> HIDE DEF n
        <5>1. QED
          BY <1>1, <3>2
      <4>2. QED
        BY <1>1, <3>2, <4>1, Zenon
    <3>3. QED
      BY <3>1, <3>2
  <2>2. QED
    BY <2>1
<1> HIDE DEF n, at
<1>b. ASSUME NEW x \in Plane PROVE Cross2(q, x) \in Int
  BY DEF Plane, Cross2
<1>4. \A i \in 0 .. n : g[i] \in Int /\ g[i] = f[i] + Cross2(q, p[1]) - Cross2(q, at(i))
  <2>1. ASSUME NEW i \in 0 .. n
        PROVE  g[i] \in Int /\ g[i] = f[i] + Cross2(q, p[1]) - Cross2(q, at(i))
    <3>1. Cross2(q, p[1]) \in Int /\ Cross2(q, at(i)) \in Int /\ f[i] \in Int
      BY <1>1, <1>3, <1>b
    <3>2. QED
      BY <3>1
  <2>2. QED
    BY <2>1
<1>5. g \in [0 .. n -> Int]
  BY <1>4
<1>6. g[0] = 0 /\ g[n] = f[n]
  <2>1. 0 \in 0 .. n /\ n \in 0 .. n
    BY <1>1
  <2>2. Cross2(q, p[1]) \in Int /\ f[n] \in Int
    BY <1>1, <1>b
  <2> HIDE DEF g
  <2>3. QED
    BY <1>2, <1>4, <1>a, <2>1, <2>2
<1>7. ASSUME NEW i \in 1 .. n
      PROVE  g[i] = g[i - 1] + Cross(p[i], p[After(i, p)], q)
  <2>1. at(i) = p[After(i, p)] /\ at(i - 1) = p[i] /\ i - 1 \in 0 .. n /\ i \in 0 .. n
    BY <1>1, <1>a
  <2>2. at(i) \in Plane /\ p[i] \in Plane /\ f[i] \in Int /\ f[i - 1] \in Int
    BY <1>1, <1>3, <2>1
  <2>3. f[i] = f[i - 1] + Cross2(p[i], at(i))
    BY <1>2, <2>1
  <2>4. Cross2(p[i], at(i)) - Cross2(q, at(i)) + Cross2(q, p[i]) = Cross(p[i], at(i), q)
    BY <2>2, CrossOfPairs
  <2>5. /\ g[i] = f[i] + Cross2(q, p[1]) - Cross2(q, at(i))
        /\ g[i - 1] = f[i - 1] + Cross2(q, p[1]) - Cross2(q, p[i])
    BY <1>4, <2>1
  <2>6. /\ Cross2(q, p[1]) \in Int /\ Cross2(q, at(i)) \in Int
        /\ Cross2(p[i], at(i)) \in Int /\ Cross2(q, p[i]) \in Int
    <3>1. p[1] \in Plane
      BY <1>1
    <3>2. QED
      BY <2>2, <3>1, CrossOfPairs
  <2> HIDE DEF g
  <2>7. g[i] = g[i - 1] + (Cross2(p[i], at(i)) - Cross2(q, at(i)) + Cross2(q, p[i]))
    BY <2>2, <2>3, <2>5, <2>6
  <2>8. QED
    BY <2>1, <2>4, <2>7
<1> HIDE DEF g
<1>8. QED
  BY <1>2, <1>5, <1>6, <1>7 DEF n

-----------------------------------------------------------------------------
(* Points in triangles.                                                    *)

Box(a, b, c, q) ==
    \A k \in 1 .. 2 : /\ a[k] <= q[k] \/ b[k] <= q[k] \/ c[k] <= q[k]
                      /\ q[k] <= a[k] \/ q[k] <= b[k] \/ q[k] <= c[k]

\* The bounding box of three coordinates, by comparisons.
LEMMA LeastOfThree ==
  ASSUME NEW x \in Int, NEW y \in Int, NEW z \in Int, NEW w \in Int
  PROVE  /\ Min({x, y, z}) <= w <=> x <= w \/ y <= w \/ z <= w
         /\ w <= Max({x, y, z}) <=> w <= x \/ w <= y \/ w <= z
<1> DEFINE T == {x, y, z}
           least(v) == \A u \in T : v <= u
           most(v) == \A u \in T : v >= u
<1>1. PICK v \in T : least(v)
  OBVIOUS
<1>2. PICK u \in T : most(u)
  OBVIOUS
<1>3. Min(T) = CHOOSE t \in T : least(t)
  BY DEF Min
<1>4. Max(T) = CHOOSE t \in T : most(t)
  BY DEF Max
<1> HIDE DEF least, most
<1>5. Min(T) \in T /\ least(Min(T))
  BY <1>1, <1>3
<1>6. Max(T) \in T /\ most(Max(T))
  BY <1>2, <1>4
<1>7. QED
  BY <1>5, <1>6 DEF least, most

\* What it is to lie in a triangle, by the turns and the box alone.
LEMMA InTriangleIs ==
  ASSUME NEW a \in Plane, NEW b \in Plane, NEW c \in Plane, NEW q \in Plane
  PROVE  InTriangle(a, b, c, q) <=>
            /\ \/ Cross(a, b, q) >= 0 /\ Cross(b, c, q) >= 0 /\ Cross(c, a, q) >= 0
               \/ Cross(a, b, q) <= 0 /\ Cross(b, c, q) <= 0 /\ Cross(c, a, q) <= 0
            /\ Box(a, b, c, q)
<1> DEFINE d == <<Cross(a, b, q), Cross(b, c, q), Cross(c, a, q)>>
           within(x, y, z, w) == Min({x, y, z}) <= w /\ w <= Max({x, y, z})
<1>1. InTriangle(a, b, c, q) <=>
        /\ (\A i \in 1 .. 3 : d[i] >= 0) \/ (\A i \in 1 .. 3 : d[i] <= 0)
        /\ within(a[1], b[1], c[1], q[1]) /\ within(a[2], b[2], c[2], q[2])
  BY DEF InTriangle
<1>2. \A k \in 1 .. 2 : a[k] \in Int /\ b[k] \in Int /\ c[k] \in Int /\ q[k] \in Int
  BY DEF Plane
<1>3. (within(a[1], b[1], c[1], q[1]) /\ within(a[2], b[2], c[2], q[2])) <=> Box(a, b, c, q)
  <2>1. ASSUME NEW k \in 1 .. 2
        PROVE  within(a[k], b[k], c[k], q[k]) <=>
                  /\ a[k] <= q[k] \/ b[k] <= q[k] \/ c[k] <= q[k]
                  /\ q[k] <= a[k] \/ q[k] <= b[k] \/ q[k] <= c[k]
    <3>1. a[k] \in Int /\ b[k] \in Int /\ c[k] \in Int /\ q[k] \in Int
      BY <1>2
    <3>2. QED
      BY <3>1, LeastOfThree
  <2> HIDE DEF within
  <2>2. QED
    BY <2>1 DEF Box
<1>4. /\ (\A i \in 1 .. 3 : d[i] >= 0) <=>
            Cross(a, b, q) >= 0 /\ Cross(b, c, q) >= 0 /\ Cross(c, a, q) >= 0
      /\ (\A i \in 1 .. 3 : d[i] <= 0) <=>
            Cross(a, b, q) <= 0 /\ Cross(b, c, q) <= 0 /\ Cross(c, a, q) <= 0
  OBVIOUS
<1> HIDE DEF within, d
<1>5. QED
  BY <1>1, <1>3, <1>4

\* The sign of a product, which the solver does not find among other facts.
LEMMA ProductSign ==
  ASSUME NEW x \in Int, NEW y \in Int
  PROVE  /\ x >= 0 /\ y >= 0 => x * y >= 0
         /\ x >= 0 /\ y <= 0 => x * y <= 0
         /\ x <= 0 /\ y >= 0 => x * y <= 0
         /\ x <= 0 /\ y <= 0 => x * y >= 0
         /\ x > 0 /\ y > 0 => x * y > 0
         /\ x > 0 /\ y < 0 => x * y < 0
         /\ x < 0 /\ y > 0 => x * y < 0
         /\ x < 0 /\ y < 0 => x * y > 0
         /\ x * y = y * x /\ x * y \in Int
         /\ x * y = 0 => x = 0 \/ y = 0
OBVIOUS

\* Signed areas seen from q, and the combination of the three points that is q.
LEMMA Centred ==
  ASSUME NEW a \in Plane, NEW b \in Plane, NEW q \in Plane
  PROVE  /\ Cross(a, b, q) = (a[1] - q[1]) * (b[2] - q[2]) - (a[2] - q[2]) * (b[1] - q[1])
         /\ Cross(b, a, q) = 0 - Cross(a, b, q) /\ Cross(a, a, q) = 0
         /\ a[1] - q[1] \in Int /\ a[2] - q[2] \in Int
         /\ b[1] - q[1] \in Int /\ b[2] - q[2] \in Int
<1>1. /\ a[1] \in Int /\ a[2] \in Int /\ b[1] \in Int /\ b[2] \in Int
      /\ q[1] \in Int /\ q[2] \in Int
  BY DEF Plane
<1>2. QED
  BY <1>1 DEF Cross

LEMMA Balance ==
  ASSUME NEW u1 \in Int, NEW u2 \in Int, NEW v1 \in Int, NEW v2 \in Int,
         NEW w1 \in Int, NEW w2 \in Int
  PROVE  /\ (v1 * w2 - v2 * w1) * u1 + (w1 * u2 - w2 * u1) * v1
              + (u1 * v2 - u2 * v1) * w1 = 0
         /\ (v1 * w2 - v2 * w1) * u2 + (w1 * u2 - w2 * u1) * v2
              + (u1 * v2 - u2 * v1) * w2 = 0
OBVIOUS

LEMMA CrossBalance ==
  ASSUME NEW a \in Plane, NEW b \in Plane, NEW c \in Plane, NEW q \in Plane,
         NEW k \in 1 .. 2
  PROVE  Cross(b, c, q) * (a[k] - q[k]) + Cross(c, a, q) * (b[k] - q[k])
            + Cross(a, b, q) * (c[k] - q[k]) = 0
<1> DEFINE u1 == a[1] - q[1]   u2 == a[2] - q[2]
           v1 == b[1] - q[1]   v2 == b[2] - q[2]
           w1 == c[1] - q[1]   w2 == c[2] - q[2]
<1>1. /\ u1 \in Int /\ u2 \in Int /\ v1 \in Int /\ v2 \in Int /\ w1 \in Int /\ w2 \in Int
      /\ Cross(a, b, q) = u1 * v2 - u2 * v1
      /\ Cross(b, c, q) = v1 * w2 - v2 * w1
      /\ Cross(c, a, q) = w1 * u2 - w2 * u1
  BY Centred
<1>2. k = 1 \/ k = 2
  OBVIOUS
<1>3. CASE k = 1
  <2>1. a[k] - q[k] = u1 /\ b[k] - q[k] = v1 /\ c[k] - q[k] = w1
    BY <1>3
  <2> HIDE DEF u1, u2, v1, v2, w1, w2
  <2>2. QED
    BY <1>1, <2>1, Balance
<1>4. CASE k = 2
  <2>1. a[k] - q[k] = u2 /\ b[k] - q[k] = v2 /\ c[k] - q[k] = w2
    BY <1>4
  <2> HIDE DEF u1, u2, v1, v2, w1, w2
  <2>2. QED
    BY <1>1, <2>1, Balance
<1>5. QED
  BY <1>2, <1>3, <1>4

\* Weights of which one is positive balance only around what is between them.
LEMMA WeightsBetween ==
  ASSUME NEW x \in Int, NEW y \in Int, NEW z \in Int, x >= 0, y >= 0, z >= 0,
         x > 0 \/ y > 0 \/ z > 0,
         NEW u \in Int, NEW v \in Int, NEW w \in Int, x * u + y * v + z * w = 0
  PROVE  (u <= 0 \/ v <= 0 \/ w <= 0) /\ (u >= 0 \/ v >= 0 \/ w >= 0)
<1>1. x * u \in Int /\ y * v \in Int /\ z * w \in Int
  BY ProductSign
<1>2. ASSUME u > 0, v > 0, w > 0 PROVE FALSE
  <2>1. x * u >= 0 /\ y * v >= 0 /\ z * w >= 0
    BY <1>2, ProductSign
  <2>2. x * u > 0 \/ y * v > 0 \/ z * w > 0
    BY <1>2, ProductSign
  <2>3. QED
    BY <1>1, <2>1, <2>2
<1>3. ASSUME u < 0, v < 0, w < 0 PROVE FALSE
  <2>1. x * u <= 0 /\ y * v <= 0 /\ z * w <= 0
    BY <1>3, ProductSign
  <2>2. x * u < 0 \/ y * v < 0 \/ z * w < 0
    BY <1>3, ProductSign
  <2>3. QED
    BY <1>1, <2>1, <2>2
<1>4. QED
  BY <1>2, <1>3

\* If q sees a, b, c in this order and is not in their triangle, it does not
\* see c before a.
LEMMA SeenInOrder ==
  ASSUME NEW a \in Plane, NEW b \in Plane, NEW c \in Plane, NEW q \in Plane,
         NEW s \in {1, -1}, ~ InTriangle(a, b, c, q),
         s * Cross(a, b, q) >= 0, s * Cross(b, c, q) >= 0
  PROVE  s * Cross(c, a, q) <= 0
<1> DEFINE x == s * Cross(b, c, q)
           y == s * Cross(c, a, q)
           z == s * Cross(a, b, q)
<1>1. Cross(a, b, q) \in Int /\ Cross(b, c, q) \in Int /\ Cross(c, a, q) \in Int
  BY CrossInt
<1>2. x \in Int /\ y \in Int /\ z \in Int
  BY <1>1
<1>3. SUFFICES ASSUME y > 0 PROVE FALSE
  BY <1>2
<1>4. ASSUME NEW k \in 1 .. 2
      PROVE  /\ a[k] <= q[k] \/ b[k] <= q[k] \/ c[k] <= q[k]
             /\ q[k] <= a[k] \/ q[k] <= b[k] \/ q[k] <= c[k]
  <2> DEFINE u == a[k] - q[k]   v == b[k] - q[k]   w == c[k] - q[k]
  <2>0. a[k] \in Int /\ b[k] \in Int /\ c[k] \in Int /\ q[k] \in Int
    BY DEF Plane
  <2>1. u \in Int /\ v \in Int /\ w \in Int
    BY <2>0
  <2>2. Cross(b, c, q) * u + Cross(c, a, q) * v + Cross(a, b, q) * w = 0
    BY CrossBalance
  <2> HIDE DEF u, v, w
  <2>3. x * u + y * v + z * w = 0
    <3> DEFINE d == Cross(b, c, q)   e == Cross(c, a, q)   f == Cross(a, b, q)
    <3>1. d \in Int /\ e \in Int /\ f \in Int /\ d * u + e * v + f * w = 0
      BY <1>1, <2>2
    <3>2. x = s * d /\ y = s * e /\ z = s * f
      OBVIOUS
    <3> HIDE DEF d, e, f, x, y, z
    <3>3. CASE s = 1
      <4>1. x = d /\ y = e /\ z = f
        BY <3>1, <3>2, <3>3
      <4>2. QED
        BY <3>1, <4>1
    <3>4. CASE s = -1
      <4>1. x = 0 - d /\ y = 0 - e /\ z = 0 - f
        BY <3>1, <3>2, <3>4
      <4>2. (0 - d) * u + (0 - e) * v + (0 - f) * w = 0 - (d * u + e * v + f * w)
        BY <2>1, <3>1
      <4>3. QED
        BY <3>1, <4>1, <4>2
    <3>5. QED
      BY <3>3, <3>4
  <2> HIDE DEF x, y, z
  <2>4. (u <= 0 \/ v <= 0 \/ w <= 0) /\ (u >= 0 \/ v >= 0 \/ w >= 0)
    BY <1>2, <1>3, <2>1, <2>3, WeightsBetween DEF x, y, z
  <2>5. QED
    BY <2>0, <2>4 DEF u, v, w
<1>5. Box(a, b, c, q)
  BY <1>4 DEF Box
<1>6. \/ Cross(a, b, q) >= 0 /\ Cross(b, c, q) >= 0 /\ Cross(c, a, q) >= 0
      \/ Cross(a, b, q) <= 0 /\ Cross(b, c, q) <= 0 /\ Cross(c, a, q) <= 0
  BY <1>1, <1>3
<1>7. QED
  BY <1>5, <1>6, InTriangleIs

\* A point of a triangle is a combination of its corners.
LEMMA TriangleWeights ==
  ASSUME NEW a \in Plane, NEW b \in Plane, NEW c \in Plane, NEW q \in Plane,
         InTriangle(a, b, c, q)
  PROVE  \E x, y, z \in Nat :
            /\ x > 0 \/ y > 0 \/ z > 0
            /\ \A k \in 1 .. 2 :
                  x * (a[k] - q[k]) + y * (b[k] - q[k]) + z * (c[k] - q[k]) = 0
<1> DEFINE Weigh(x, y, z) ==
              /\ x > 0 \/ y > 0 \/ z > 0
              /\ \A k \in 1 .. 2 :
                    x * (a[k] - q[k]) + y * (b[k] - q[k]) + z * (c[k] - q[k]) = 0
<1>1. Cross(a, b, q) \in Int /\ Cross(b, c, q) \in Int /\ Cross(c, a, q) \in Int
  BY CrossInt
<1>2. /\ \/ Cross(a, b, q) >= 0 /\ Cross(b, c, q) >= 0 /\ Cross(c, a, q) >= 0
         \/ Cross(a, b, q) <= 0 /\ Cross(b, c, q) <= 0 /\ Cross(c, a, q) <= 0
      /\ Box(a, b, c, q)
  BY InTriangleIs
<1>3. \A k \in 1 .. 2 : a[k] \in Int /\ b[k] \in Int /\ c[k] \in Int /\ q[k] \in Int
  BY DEF Plane
<1>4. CASE \E s \in {1, -1} : /\ s * Cross(a, b, q) >= 0 /\ s * Cross(b, c, q) >= 0
                              /\ s * Cross(c, a, q) >= 0
                              /\ \/ Cross(a, b, q) # 0 \/ Cross(b, c, q) # 0
                                 \/ Cross(c, a, q) # 0
  <2>1. PICK s \in {1, -1} : /\ s * Cross(a, b, q) >= 0 /\ s * Cross(b, c, q) >= 0
                             /\ s * Cross(c, a, q) >= 0
                             /\ \/ Cross(a, b, q) # 0 \/ Cross(b, c, q) # 0
                                \/ Cross(c, a, q) # 0
    BY <1>4
  <2> DEFINE x == s * Cross(b, c, q)
             y == s * Cross(c, a, q)
             z == s * Cross(a, b, q)
  <2>2. x \in Nat /\ y \in Nat /\ z \in Nat /\ (x > 0 \/ y > 0 \/ z > 0)
    BY <1>1, <2>1
  <2>3. ASSUME NEW k \in 1 .. 2
        PROVE  x * (a[k] - q[k]) + y * (b[k] - q[k]) + z * (c[k] - q[k]) = 0
    <3> DEFINE u == a[k] - q[k]   v == b[k] - q[k]   w == c[k] - q[k]
    <3>1. u \in Int /\ v \in Int /\ w \in Int
      BY <1>3
    <3>2. Cross(b, c, q) * u + Cross(c, a, q) * v + Cross(a, b, q) * w = 0
      BY CrossBalance
    <3> HIDE DEF u, v, w
    <3>3. x * u + y * v + z * w = 0
      <4>1. CASE s = 1
        BY <1>1, <3>1, <3>2, <4>1
      <4>2. CASE s = -1
        BY <1>1, <3>1, <3>2, <4>2
      <4>3. QED
        BY <4>1, <4>2
    <3>4. QED
      BY <3>3 DEF u, v, w
  <2>4. Weigh(x, y, z)
    BY <2>2, <2>3
  <2>5. QED
    BY <2>2, <2>4
<1>5. CASE Cross(a, b, q) = 0 /\ Cross(b, c, q) = 0 /\ Cross(c, a, q) = 0
  <2>1. ASSUME NEW k \in 1 .. 2, NEW l \in 1 .. 2, k # l,
               NEW f \in Plane, NEW g \in Plane, Cross(f, g, q) = 0, 
               f[k] < q[k], q[k] < g[k]
        PROVE  \E x, y \in Nat : 
                  /\ x > 0 /\ y > 0
                  /\ \A m \in 1 .. 2 : x * (f[m] - q[m]) + y * (g[m] - q[m]) = 0
                  /\ \A m \in 1 .. 2 : y * (g[m] - q[m]) + x * (f[m] - q[m]) = 0
    <3> DEFINE u == f[k] - q[k]   v == g[k] - q[k]
               t == f[l] - q[l]   r == g[l] - q[l]
               y == 0 - u
    <3>0. \A m \in 1 .. 2 : f[m] \in Int /\ g[m] \in Int /\ q[m] \in Int
      BY DEF Plane
    <3>1. u \in Int /\ v \in Int /\ t \in Int /\ r \in Int /\ u < 0 /\ v > 0
      BY <2>1, <3>0
    <3>2. u * r - t * v = 0
      <4>1. Cross(f, g, q) = (f[1] - q[1]) * (g[2] - q[2]) - (f[2] - q[2]) * (g[1] - q[1])
        BY Centred
      <4>2. (k = 1 /\ l = 2) \/ (k = 2 /\ l = 1)
        BY <2>1
      <4>3. CASE k = 1 /\ l = 2
        BY <2>1, <4>1, <4>3
      <4>4. CASE k = 2 /\ l = 1
        <5> DEFINE u1 == f[1] - q[1]   u2 == f[2] - q[2]
                   v1 == g[1] - q[1]   v2 == g[2] - q[2]
        <5>1. /\ u = u2 /\ t = u1 /\ v = v2 /\ r = v1
              /\ u1 \in Int /\ u2 \in Int /\ v1 \in Int /\ v2 \in Int
              /\ u1 * v2 - u2 * v1 = 0
          BY <2>1, <3>0, <4>1, <4>4
        <5> HIDE DEF u, v, t, r, u1, u2, v1, v2
        <5>2. QED
          BY <5>1
      <4>5. QED
        BY <4>2, <4>3, <4>4
    <3> HIDE DEF u, v, t, r
    <3>3. v \in Nat /\ y \in Nat /\ v > 0 /\ y > 0
      BY <3>1
    <3>4. v * u + y * v = 0 /\ v * t + y * r = 0 /\ y * v + v * u = 0 /\ y * r + v * t = 0
      BY <3>1, <3>2
    <3>5. ASSUME NEW m \in 1 .. 2
          PROVE  /\ v * (f[m] - q[m]) + y * (g[m] - q[m]) = 0
                 /\ y * (g[m] - q[m]) + v * (f[m] - q[m]) = 0
      <4>1. m = k \/ m = l
        BY <2>1
      <4>2. /\ v * (f[k] - q[k]) + y * (g[k] - q[k]) = 0
            /\ y * (g[k] - q[k]) + v * (f[k] - q[k]) = 0
        BY <3>4 DEF u, v
      <4>3. /\ v * (f[l] - q[l]) + y * (g[l] - q[l]) = 0
            /\ y * (g[l] - q[l]) + v * (f[l] - q[l]) = 0
        BY <3>4 DEF t, r
      <4>4. QED
        BY <4>1, <4>2, <4>3
    <3> HIDE DEF y
    <3>6. QED
      BY <3>3, <3>5
  <2>2. Cross(b, a, q) = 0 /\ Cross(c, b, q) = 0 /\ Cross(a, c, q) = 0
    BY <1>1, <1>5, Centred
  <2>3. ASSUME NEW k \in 1 .. 2, NEW f \in Plane, NEW g \in Plane,
               Cross(f, g, q) = 0, f[k] # q[k], g[k] = q[k]
        PROVE  \A m \in 1 .. 2 : g[m] = q[m]
    <3>1. \A m \in 1 .. 2 : f[m] \in Int /\ g[m] \in Int /\ q[m] \in Int
      BY DEF Plane
    <3>2. (f[1] - q[1]) * (g[2] - q[2]) - (f[2] - q[2]) * (g[1] - q[1]) = 0
      BY <2>3, Centred
    <3>3. CASE k = 1
      <4>1. f[1] - q[1] # 0 /\ g[1] - q[1] = 0
        BY <2>3, <3>1, <3>3
      <4>2. (f[1] - q[1]) * (g[2] - q[2]) = 0
        BY <3>1, <3>2, <4>1
      <4>3. g[2] - q[2] = 0
        <5> DEFINE x == f[1] - q[1]   y == g[2] - q[2]
        <5>1. x \in Int /\ y \in Int /\ x * y = 0 /\ x # 0
          BY <3>1, <4>1, <4>2
        <5> HIDE DEF x, y
        <5>2. y = 0
          BY <5>1, ProductSign
        <5>3. QED
          BY <5>2 DEF y
      <4>4. QED
        BY <2>3, <3>1, <3>3, <4>3
    <3>4. CASE k = 2
      <4>1. f[2] - q[2] # 0 /\ g[2] - q[2] = 0
        BY <2>3, <3>1, <3>4
      <4>2. (f[2] - q[2]) * (g[1] - q[1]) = 0
        <5>1. (f[1] - q[1]) * (g[2] - q[2]) = 0
          BY <3>1, <4>1
        <5> DEFINE x == f[2] - q[2]   y == g[1] - q[1]
        <5>2. x \in Int /\ y \in Int
          BY <3>1
        <5> HIDE DEF x, y
        <5>3. x * y \in Int
          BY <5>2, ProductSign
        <5>4. 0 - x * y = 0
          BY <3>2, <5>1 DEF x, y
        <5>5. x * y = 0
          BY <5>3, <5>4
        <5>6. QED
          BY <5>5 DEF x, y
      <4>3. g[1] - q[1] = 0
        <5> DEFINE x == f[2] - q[2]   y == g[1] - q[1]
        <5>1. x \in Int /\ y \in Int /\ x * y = 0 /\ x # 0
          BY <3>1, <4>1, <4>2
        <5> HIDE DEF x, y
        <5>2. y = 0
          BY <5>1, ProductSign
        <5>3. QED
          BY <5>2 DEF y
      <4>4. QED
        BY <2>3, <3>1, <3>4, <4>3
    <3>5. QED
      BY <3>3, <3>4
  <2>a. SUFFICES \E i, j, k \in Nat : Weigh(i, j, k)
    BY Zenon
  <2>4. ASSUME NEW x \in Nat, NEW y \in Nat, NEW z \in Nat, Weigh(x, y, z)
        PROVE  \E i, j, k \in Nat : Weigh(i, j, k)
    <3> HIDE DEF Weigh
    <3>1. QED
      BY <2>4
  <2>5. CASE \A m \in 1 .. 2 : a[m] = q[m]
    <3>1. Weigh(1, 0, 0)
      BY <1>3, <2>5
    <3>2. QED
      BY <2>4, <3>1
  <2>6. CASE \A m \in 1 .. 2 : b[m] = q[m]
    <3>1. Weigh(0, 1, 0)
      BY <1>3, <2>6
    <3>2. QED
      BY <2>4, <3>1
  <2>7. CASE \A m \in 1 .. 2 : c[m] = q[m]
    <3>1. Weigh(0, 0, 1)
      BY <1>3, <2>7
    <3>2. QED
      BY <2>4, <3>1
  <2>8. CASE \E k \in 1 .. 2 : a[k] # q[k] /\ b[k] # q[k] /\ c[k] # q[k]
    <3>1. PICK k \in 1 .. 2 : a[k] # q[k] /\ b[k] # q[k] /\ c[k] # q[k]
      BY <2>8
    <3>2. PICK l \in 1 .. 2 : k # l
      BY k \in 1 .. 2, 1 \in 1 .. 2, 2 \in 1 .. 2
    <3>3. \/ a[k] < q[k] /\ q[k] < b[k]
          \/ b[k] < q[k] /\ q[k] < a[k]
          \/ a[k] < q[k] /\ q[k] < c[k]
          \/ c[k] < q[k] /\ q[k] < a[k]
          \/ b[k] < q[k] /\ q[k] < c[k]
          \/ c[k] < q[k] /\ q[k] < b[k]
      BY <1>2, <1>3, <3>1 DEF Box
    <3>4. CASE \/ a[k] < q[k] /\ q[k] < b[k]
               \/ b[k] < q[k] /\ q[k] < a[k]
      <4>1. PICK x \in Nat, y \in Nat :
               /\ x > 0 \/ y > 0
               /\ \A m \in 1 .. 2 : x * (a[m] - q[m]) + y * (b[m] - q[m]) = 0
        <5>1. CASE a[k] < q[k] /\ q[k] < b[k]
          BY <1>5, <2>1, <3>2, <5>1
        <5>2. CASE b[k] < q[k] /\ q[k] < a[k]
          BY <2>2, <2>1, <3>2, <5>2
        <5>3. QED
          BY <3>4, <5>1, <5>2
      <4>2. Weigh(x, y, 0)
        <5>1. ASSUME NEW m \in 1 .. 2
              PROVE  x * (a[m] - q[m]) + y * (b[m] - q[m]) + 0 * (c[m] - q[m]) = 0
          <6>1. 0 * (c[m] - q[m]) = 0
            BY <1>3
          <6>2. QED
            BY <4>1, <6>1
        <5>2. QED
          BY <4>1, <5>1
      <4>3. QED
        BY <2>4, <4>2
    <3>5. CASE \/ a[k] < q[k] /\ q[k] < c[k]
               \/ c[k] < q[k] /\ q[k] < a[k]
      <4>1. PICK x \in Nat, y \in Nat :
               /\ x > 0 \/ y > 0
               /\ \A m \in 1 .. 2 : x * (a[m] - q[m]) + y * (c[m] - q[m]) = 0
        <5>1. CASE a[k] < q[k] /\ q[k] < c[k]
          BY <2>2, <2>1, <3>2, <5>1
        <5>2. CASE c[k] < q[k] /\ q[k] < a[k]
          BY <1>5, <2>1, <3>2, <5>2
        <5>3. QED
          BY <3>5, <5>1, <5>2
      <4>2. Weigh(x, 0, y)
        <5>1. ASSUME NEW m \in 1 .. 2
              PROVE  x * (a[m] - q[m]) + 0 * (b[m] - q[m]) + y * (c[m] - q[m]) = 0
          <6>1. 0 * (b[m] - q[m]) = 0
            BY <1>3
          <6>2. QED
            BY <1>3, <4>1, <6>1, ProductSign
        <5>2. QED
          BY <4>1, <5>1
      <4>3. QED
        BY <2>4, <4>2
    <3>6. CASE \/ b[k] < q[k] /\ q[k] < c[k]
               \/ c[k] < q[k] /\ q[k] < b[k]
      <4>1. PICK x \in Nat, y \in Nat :
               /\ x > 0 \/ y > 0
               /\ \A m \in 1 .. 2 : x * (b[m] - q[m]) + y * (c[m] - q[m]) = 0
        <5>1. CASE b[k] < q[k] /\ q[k] < c[k]
          BY <1>5, <2>1, <3>2, <5>1
        <5>2. CASE c[k] < q[k] /\ q[k] < b[k]
          BY <2>2, <2>1, <3>2, <5>2
        <5>3. QED
          BY <3>6, <5>1, <5>2
      <4>2. Weigh(0, x, y)
        <5>1. ASSUME NEW m \in 1 .. 2
              PROVE  0 * (a[m] - q[m]) + x * (b[m] - q[m]) + y * (c[m] - q[m]) = 0
          <6>1. 0 * (a[m] - q[m]) = 0
            BY <1>3
          <6>2. QED
            BY <1>3, <4>1, <6>1, ProductSign
        <5>2. QED
          BY <4>1, <5>1
      <4>3. QED
        BY <2>4, <4>2
    <3>7. QED
      BY <3>3, <3>4, <3>5, <3>6
  <2>9. QED
    <3>1. ASSUME NEW k \in 1 .. 2, a[k] # q[k],
                 ~ \A m \in 1 .. 2 : b[m] = q[m], ~ \A m \in 1 .. 2 : c[m] = q[m]
          PROVE  b[k] # q[k] /\ c[k] # q[k]
      <4>1. Cross(a, b, q) = 0 /\ Cross(a, c, q) = 0
        BY <1>5, <2>2
      <4>2. QED
        BY <2>3, <3>1, <4>1
    <3> HIDE DEF Weigh
    <3>2. QED
      BY <2>5, <2>6, <2>7, <2>8, <3>1
<1>6. QED
  BY <1>1, <1>2, <1>4, <1>5

-----------------------------------------------------------------------------
(* What the tests of the edges decide.                                     *)

Edge(p, i, q) == Cross(p[i], p[After(i, p)], q)

\* The orientation that the script takes from the area.
LEMMA SignIs ==
  ASSUME NEW p \in Seq(Plane)
  PROVE  /\ Sign(p) \in {1, -1} /\ TwiceSignedArea(p) \in Int
         /\ TwiceSignedArea(p) # 0 => Sign(p) * TwiceSignedArea(p) > 0
<1>1. TwiceSignedArea(p) \in Int
  <2>1. Len(p) \in Nat
    BY LenProperties
  <2>2. QED
    BY <2>1, AreaIsTotal
<1>2. QED
  BY <1>1 DEF Sign

\* An edge of length zero has nothing outside, so that it may be left in.
LEMMA NotOutside ==
  ASSUME NEW p \in Seq(Plane), NEW q \in Plane
  PROVE  Outside(p, q) <=> \E i \in DOMAIN p : Sign(p) * Edge(p, i, q) < 0
<1>1. ASSUME NEW i \in DOMAIN p
      PROVE  /\ Edge(p, i, q) \in Int
             /\ p[i] = p[After(i, p)] => Edge(p, i, q) = 0
  <2>1. p[i] \in Plane /\ p[After(i, p)] \in Plane
    BY AfterIn
  <2>2. Edge(p, i, q) = Cross(p[i], p[After(i, p)], q)
    BY DEF Edge
  <2>3. Cross(p[i], p[After(i, p)], q) \in Int /\ Cross(p[i], p[i], q) = 0
    BY <2>1, CrossInt, Centred
  <2>4. QED
    BY <2>2, <2>3, Zenon
<1>2. Sign(p) \in {1, -1}
  BY SignIs
<1>3. ASSUME NEW i \in DOMAIN p
      PROVE  (p[i] # p[After(i, p)] /\ Edge(p, i, q) * Sign(p) < 0)
                <=> Sign(p) * Edge(p, i, q) < 0
  BY <1>1, <1>2
<1>4. QED
  BY <1>3 DEF Outside, Edge

\* A sum of numbers of one sign has that sign, and is 0 if they are.
LEMMA TotalSign ==
  ASSUME NEW n \in Nat, NEW g \in [0 .. n -> Int], NEW e, g[0] = 0,
         \A i \in 1 .. n : e[i] \in Int /\ g[i] = g[i - 1] + e[i]
  PROVE  /\ (\A i \in 1 .. n : e[i] >= 0) => g[n] >= 0
         /\ (\A i \in 1 .. n : e[i] <= 0) => g[n] <= 0
<1>1. ASSUME \A i \in 1 .. n : e[i] >= 0 PROVE g[n] >= 0
  <2> DEFINE S == {i \in 0 .. n : g[i] >= 0}
  <2>1. 0 \in S
    OBVIOUS
  <2>2. ASSUME NEW i \in 0 .. n - 1, i \in S PROVE i + 1 \in S
    <3>1. i + 1 \in 1 .. n /\ (i + 1) - 1 = i /\ g[i] \in Int /\ g[i] >= 0
      BY <2>2
    <3>2. g[i + 1] = g[i] + e[i + 1] /\ e[i + 1] \in Int /\ e[i + 1] >= 0
      BY <1>1, <3>1
    <3>3. QED
      BY <3>1, <3>2
  <2>3. \A i \in 0 .. n : i \in S
    <3> HIDE DEF S
    <3>1. QED
      BY <2>1, <2>2, UpTo
  <2>4. QED
    BY <2>3
<1>2. ASSUME \A i \in 1 .. n : e[i] <= 0 PROVE g[n] <= 0
  <2> DEFINE S == {i \in 0 .. n : g[i] <= 0}
  <2>1. 0 \in S
    OBVIOUS
  <2>2. ASSUME NEW i \in 0 .. n - 1, i \in S PROVE i + 1 \in S
    <3>1. i + 1 \in 1 .. n /\ (i + 1) - 1 = i /\ g[i] \in Int /\ g[i] <= 0
      BY <2>2
    <3>2. g[i + 1] = g[i] + e[i + 1] /\ e[i + 1] \in Int /\ e[i + 1] <= 0
      BY <1>2, <3>1
    <3>3. QED
      BY <3>1, <3>2
  <2>3. \A i \in 0 .. n : i \in S
    <3> HIDE DEF S
    <3>1. QED
      BY <2>1, <2>2, UpTo
  <2>4. QED
    BY <2>3
<1>3. QED
  BY <1>1, <1>2

\* Seen from a point to the left of every edge, no part of the area is negative.
LEMMA AreaSign ==
  ASSUME NEW p \in Seq(Plane), Len(p) > 0, NEW q \in Plane
  PROVE  /\ (\A i \in DOMAIN p : Edge(p, i, q) >= 0) => TwiceSignedArea(p) >= 0
         /\ (\A i \in DOMAIN p : Edge(p, i, q) <= 0) => TwiceSignedArea(p) <= 0
<1> DEFINE n == Len(p)
           e == [i \in 1 .. n |-> Edge(p, i, q)]
<1>1. n \in Nat /\ DOMAIN p = 1 .. n
  BY LenProperties
<1>2. PICK g \in [0 .. n -> Int] :
         /\ g[0] = 0 /\ TwiceSignedArea(p) = g[n]
         /\ \A i \in 1 .. n : g[i] = g[i - 1] + Cross(p[i], p[After(i, p)], q)
  BY AreaAround
<1>3. ASSUME NEW i \in 1 .. n
      PROVE  e[i] \in Int /\ e[i] = Edge(p, i, q) /\ g[i] = g[i - 1] + e[i]
  <2>1. p[i] \in Plane /\ p[After(i, p)] \in Plane
    BY <1>1, AfterIn
  <2>2. e[i] = Edge(p, i, q) /\ Edge(p, i, q) = Cross(p[i], p[After(i, p)], q)
    BY DEF Edge
  <2>3. QED
    BY <1>2, <2>1, <2>2, CrossInt
<1> HIDE DEF n, e
<1>4. /\ (\A i \in 1 .. n : e[i] >= 0) => g[n] >= 0
      /\ (\A i \in 1 .. n : e[i] <= 0) => g[n] <= 0
  BY <1>1, <1>2, <1>3, TotalSign
<1>5. QED
  BY <1>1, <1>2, <1>3, <1>4

\* A point inside all edges and in no triangle of vertices sees them in a line.
LEMMA InsideAllEdges ==
  ASSUME NEW p \in Seq(Plane), Len(p) > 0, NEW q \in Plane, NEW s \in {1, -1},
         \A i \in DOMAIN p : s * Edge(p, i, q) >= 0,
         \A i, j, k \in DOMAIN p : ~ InTriangle(p[i], p[j], p[k], q)
  PROVE  TwiceSignedArea(p) = 0
<1> DEFINE n == Len(p)
           c(i, j) == s * Cross(p[i], p[j], q)
<1>1. n \in Nat /\ n > 0 /\ DOMAIN p = 1 .. n /\ \A i \in 1 .. n : p[i] \in Plane
  BY LenProperties, ElementOfSeq
<1>2. \A i, j \in 1 .. n : c(i, j) \in Int /\ c(j, i) = 0 - c(i, j) /\ c(i, i) = 0
  <2>1. ASSUME NEW i \in 1 .. n, NEW j \in 1 .. n
        PROVE  c(i, j) \in Int /\ c(j, i) = 0 - c(i, j) /\ c(i, i) = 0
    <3>1. p[i] \in Plane /\ p[j] \in Plane
      BY <1>1
    <3>2. /\ Cross(p[i], p[j], q) \in Int /\ Cross(p[i], p[i], q) = 0
          /\ Cross(p[j], p[i], q) = 0 - Cross(p[i], p[j], q)
      BY <3>1, CrossInt, Centred
    <3>3. QED
      BY <3>2
  <2>2. QED
    BY <2>1
<1>3. ASSUME NEW i \in 1 .. n, NEW j \in 1 .. n, NEW k \in 1 .. n,
             c(i, j) >= 0, c(j, k) >= 0
      PROVE  c(k, i) <= 0
  <2>1. p[i] \in Plane /\ p[j] \in Plane /\ p[k] \in Plane
    BY <1>1
  <2>2. ~ InTriangle(p[i], p[j], p[k], q)
    <3>1. i \in DOMAIN p /\ j \in DOMAIN p /\ k \in DOMAIN p
      BY <1>1
    <3>2. QED
      BY <3>1, Zenon
  <2>3. QED
    BY <1>3, <2>1, <2>2, SeenInOrder
<1>4. \A i \in 1 .. n : /\ c(i, IF i = n THEN 1 ELSE i + 1) >= 0
                        /\ s * Edge(p, i, q) = c(i, IF i = n THEN 1 ELSE i + 1)
  <2>1. ASSUME NEW i \in 1 .. n
        PROVE  /\ c(i, IF i = n THEN 1 ELSE i + 1) >= 0
               /\ s * Edge(p, i, q) = c(i, IF i = n THEN 1 ELSE i + 1)
    <3>1. i \in DOMAIN p /\ After(i, p) = IF i = n THEN 1 ELSE i + 1
      BY <1>1, AfterIn, Zenon
    <3>2. s * Edge(p, i, q) >= 0 /\ s * Edge(p, i, q) = c(i, After(i, p))
      BY <3>1, Zenon DEF Edge
    <3>3. QED
      BY <3>1, <3>2, Zenon
  <2>2. QED
    BY <2>1, Zenon
<1> HIDE DEF n, c
<1>5. \A i \in 1 .. n : c(1, i) >= 0
  <2> DEFINE S == {i \in 0 .. n : i = 0 \/ c(1, i) >= 0}
  <2>1. 0 \in S
    BY <1>1
  <2>2. ASSUME NEW i \in 0 .. n - 1, i \in S PROVE i + 1 \in S
    <3>1. CASE i = 0
      BY <1>1, <1>2, <3>1
    <3>2. CASE i # 0
      <4>1. i \in 1 .. n /\ i + 1 \in 1 .. n /\ 1 \in 1 .. n /\ i # n /\ i + 1 \in 0 .. n
        BY <1>1, <3>2
      <4>2. c(i, i + 1) >= 0 /\ c(1, i) >= 0
        BY <1>4, <2>2, <4>1
      <4>3. c(i + 1, 1) <= 0
        BY <1>3, <4>1, <4>2
      <4>4. c(1, i + 1) >= 0
        <5>1. c(i + 1, 1) \in Int /\ c(1, i + 1) = 0 - c(i + 1, 1)
          BY <1>2, <4>1, Zenon
        <5>2. QED
          BY <4>3, <5>1
      <4>5. QED
        BY <4>1, <4>4
    <3>3. QED
      BY <3>1, <3>2
  <2>3. \A i \in 0 .. n : i \in S
    <3> HIDE DEF S
    <3>1. QED
      BY <1>1, <2>1, <2>2, UpTo
  <2>4. QED
    BY <2>3
<1>6. \A i \in 1 .. n : c(i, 1) >= 0
  <2> DEFINE S == {i \in 0 .. n : i = n \/ c(n - i, 1) >= 0}
  <2>1. 0 \in S
    <3>1. n \in 1 .. n
      BY <1>1
    <3>2. c(n, 1) >= 0
      BY <1>4, <3>1
    <3>3. QED
      BY <1>1, <3>2
  <2>2. ASSUME NEW i \in 0 .. n - 1, i \in S PROVE i + 1 \in S
    <3>1. CASE i = n - 1
      BY <1>1, <3>1
    <3>2. CASE i # n - 1
      <4> DEFINE j == n - (i + 1)
      <4>1. j \in 1 .. n /\ j + 1 \in 1 .. n /\ 1 \in 1 .. n /\ j # n /\ j + 1 = n - i
        BY <1>1, <3>2
      <4> HIDE DEF j
      <4>2. c(j, j + 1) >= 0 /\ c(j + 1, 1) >= 0
        BY <1>1, <1>4, <2>2, <4>1
      <4>3. c(1, j) <= 0
        BY <1>3, <4>1, <4>2
      <4>4. c(j, 1) >= 0
        <5>1. c(1, j) \in Int /\ c(j, 1) = 0 - c(1, j)
          BY <1>2, <4>1, Zenon
        <5>2. QED
          BY <4>3, <5>1
      <4>5. QED
        BY <1>1, <4>4 DEF j
    <3>3. QED
      BY <3>1, <3>2
  <2>3. \A i \in 0 .. n : i \in S
    <3> HIDE DEF S
    <3>1. QED
      BY <1>1, <2>1, <2>2, UpTo
  <2>4. ASSUME NEW i \in 1 .. n PROVE c(i, 1) >= 0
    <3>1. n - i \in 0 .. n /\ n - (n - i) = i /\ n - i # n
      BY <1>1
    <3>2. QED
      BY <2>3, <3>1
  <2>5. QED
    BY <2>4
<1>7. ASSUME NEW i \in 1 .. n PROVE Edge(p, i, q) = 0
  <2> DEFINE j == IF i = n THEN 1 ELSE i + 1
  <2>1. j \in 1 .. n /\ 1 \in 1 .. n
    BY <1>1
  <2>2. c(i, j) >= 0 /\ s * Edge(p, i, q) = c(i, j)
    BY <1>4
  <2> HIDE DEF j
  <2>3. c(j, 1) >= 0 /\ c(1, i) >= 0
    BY <1>5, <1>6, <2>1
  <2>4. c(i, j) <= 0
    BY <1>3, <2>1, <2>3
  <2>5. s * Edge(p, i, q) = 0
    BY <1>2, <2>1, <2>2, <2>4
  <2>6. Edge(p, i, q) \in Int
    <3>1. p[i] \in Plane /\ p[After(i, p)] \in Plane
      BY <1>1, AfterIn
    <3>2. QED
      BY <3>1, CrossInt DEF Edge
  <2>7. QED
    BY <2>5, <2>6
<1>8. TwiceSignedArea(p) >= 0 /\ TwiceSignedArea(p) <= 0
  <2>1. \A i \in DOMAIN p : Edge(p, i, q) >= 0 /\ Edge(p, i, q) <= 0
    BY <1>1, <1>7
  <2>2. QED
    BY <2>1, AreaSign
<1>9. TwiceSignedArea(p) \in Int
  BY SignIs
<1>10. QED
  BY <1>8, <1>9

\* A signed area is an affine function of its last point.
LEMMA CrossAffine ==
  ASSUME NEW e \in Plane, NEW f \in Plane, NEW a \in Plane, NEW q \in Plane
  PROVE  Cross(e, f, a) - Cross(e, f, q)
            = (f[1] - e[1]) * (a[2] - q[2]) - (f[2] - e[2]) * (a[1] - q[1])
<1>1. /\ e[1] \in Int /\ e[2] \in Int /\ f[1] \in Int /\ f[2] \in Int
      /\ a[1] \in Int /\ a[2] \in Int /\ q[1] \in Int /\ q[2] \in Int
  BY DEF Plane
<1>2. QED
  BY <1>1 DEF Cross

\* What is to one side of a line is so of the whole triangle.
LEMMA TriangleOneSide ==
  ASSUME NEW e \in Plane, NEW f \in Plane, NEW a \in Plane, NEW b \in Plane,
         NEW c \in Plane, NEW q \in Plane, NEW t \in {1, -1},
         InTriangle(a, b, c, q),
         t * Cross(e, f, a) >= 0, t * Cross(e, f, b) >= 0, t * Cross(e, f, c) >= 0
  PROVE  t * Cross(e, f, q) >= 0
<1>1. PICK x \in Nat, y \in Nat, z \in Nat :
         /\ x > 0 \/ y > 0 \/ z > 0
         /\ \A k \in 1 .. 2 :
               x * (a[k] - q[k]) + y * (b[k] - q[k]) + z * (c[k] - q[k]) = 0
  BY TriangleWeights
<1> DEFINE A == Cross(e, f, a)   B == Cross(e, f, b)   C == Cross(e, f, c)
           Q == Cross(e, f, q)
           g1 == f[1] - e[1]     g2 == f[2] - e[2]
           a1 == a[1] - q[1]     a2 == a[2] - q[2]
           b1 == b[1] - q[1]     b2 == b[2] - q[2]
           c1 == c[1] - q[1]     c2 == c[2] - q[2]
<1>2. A \in Int /\ B \in Int /\ C \in Int /\ Q \in Int
  BY CrossInt
<1>3. /\ g1 \in Int /\ g2 \in Int /\ a1 \in Int /\ a2 \in Int
      /\ b1 \in Int /\ b2 \in Int /\ c1 \in Int /\ c2 \in Int
  BY DEF Plane
<1>4. /\ A - Q = g1 * a2 - g2 * a1 /\ B - Q = g1 * b2 - g2 * b1
      /\ C - Q = g1 * c2 - g2 * c1
  BY CrossAffine
<1>5. x * a1 + y * b1 + z * c1 = 0 /\ x * a2 + y * b2 + z * c2 = 0
  BY <1>1
<1>6. t * A >= 0 /\ t * B >= 0 /\ t * C >= 0
  OBVIOUS
<1>7. SUFFICES t * Q >= 0
  OBVIOUS
<1> HIDE DEF A, B, C, Q, g1, g2, a1, a2, b1, b2, c1, c2
<1>8. x * (A - Q) + y * (B - Q) + z * (C - Q) = 0
  <2>1. x * (A - Q) + y * (B - Q) + z * (C - Q)
          = g1 * (x * a2 + y * b2 + z * c2) - g2 * (x * a1 + y * b1 + z * c1)
    BY <1>3, <1>4
  <2>2. g1 * 0 - g2 * 0 = 0
    BY <1>3
  <2>3. QED
    BY <1>5, <2>1, <2>2
<1>9. x * (t * A) + y * (t * B) + z * (t * C) = (x + y + z) * (t * Q)
  <2>1. x * A + y * B + z * C = (x + y + z) * Q
    BY <1>2, <1>8
  <2>2. CASE t = 1
    BY <1>2, <2>1, <2>2
  <2>3. CASE t = -1
    BY <1>2, <2>1, <2>3
  <2>4. QED
    BY <2>2, <2>3
<1>10. t * A \in Int /\ t * B \in Int /\ t * C \in Int /\ t * Q \in Int
  BY <1>2
<1>11. x * (t * A) >= 0 /\ y * (t * B) >= 0 /\ z * (t * C) >= 0
  BY <1>6, <1>10, ProductSign
<1>12. x * (t * A) \in Int /\ y * (t * B) \in Int /\ z * (t * C) \in Int
  BY <1>10, ProductSign
<1>13. (x + y + z) * (t * Q) >= 0
  BY <1>9, <1>11, <1>12
<1>14. x + y + z > 0 /\ x + y + z \in Int
  BY <1>1
<1>15. QED
  BY <1>10, <1>13, <1>14, ProductSign

\* The two halves of EdgeTestsDecide, for any polygon with an area and any point of
\* the plane: the area seen from q is a sum of one part per edge, so that a q that
\* is outside no edge is in the triangle of two vertices that q turns between.
THEOREM TestsDecide ==
  ASSUME NEW p \in Seq(Plane), NEW q \in Plane, TwiceSignedArea(p) # 0
  PROVE  /\ ~ InConvexHull(q, Range(p)) => Outside(p, q)
         /\ KeepsToOneSide(p) /\ Outside(p, q) => ~ InConvexHull(q, Range(p))
<1>1. Len(p) \in Nat /\ Len(p) > 0 /\ DOMAIN p = 1 .. Len(p)
  <2>1. Len(p) \in Nat /\ DOMAIN p = 1 .. Len(p)
    BY LenProperties
  <2>2. CASE Len(p) = 0
    <3>1. TwiceSignedArea(p) = 0
      BY <2>2, AreaIsTotal
    <3>2. QED
      BY <3>1
  <2>3. QED
    BY <2>1, <2>2
<1>2. \A i \in DOMAIN p : p[i] \in Plane /\ p[After(i, p)] \in Plane /\ Edge(p, i, q) \in Int
  <2>1. ASSUME NEW i \in DOMAIN p
        PROVE  p[i] \in Plane /\ p[After(i, p)] \in Plane /\ Edge(p, i, q) \in Int
    <3>1. p[i] \in Plane /\ p[After(i, p)] \in Plane
      BY AfterIn
    <3>2. QED
      BY <3>1, CrossInt DEF Edge
  <2>2. QED
    BY <2>1
<1>3. /\ Sign(p) \in {1, -1} /\ TwiceSignedArea(p) \in Int
      /\ Sign(p) * TwiceSignedArea(p) > 0
  BY SignIs
<1>4. ASSUME ~ InConvexHull(q, Range(p)) PROVE Outside(p, q)
  <2>1. \A i, j, k \in DOMAIN p : ~ InTriangle(p[i], p[j], p[k], q)
    BY <1>4, Zenon DEF InConvexHull, Range
  <2>2. ~ \A i \in DOMAIN p : Sign(p) * Edge(p, i, q) >= 0
    BY <1>1, <1>3, <2>1, InsideAllEdges
  <2>3. \E i \in DOMAIN p : Sign(p) * Edge(p, i, q) < 0
    BY <1>2, <1>3, <2>2
  <2>4. QED
    BY <2>3, NotOutside
<1>5. ASSUME KeepsToOneSide(p), Outside(p, q), InConvexHull(q, Range(p)) PROVE FALSE
  <2> DEFINE Side(t) ==
               \A i \in DOMAIN p, v \in Range(p) : t * Cross(p[i], p[After(i, p)], v) >= 0
  <2>1. PICK t \in {1, -1} : Side(t)
    <3>1. \A v \in Range(p) : v \in Plane
      BY <1>2 DEF Range
    <3>2. \A i \in DOMAIN p, v \in Range(p) : Cross(p[i], p[After(i, p)], v) \in Int
      BY <1>2, <3>1, CrossInt
    <3>3. CASE \A i \in DOMAIN p, v \in Range(p) : Cross(p[i], p[After(i, p)], v) >= 0
      <4>1. Side(1)
        BY <3>2, <3>3
      <4> HIDE DEF Side
      <4>2. QED
        BY <4>1
    <3>4. CASE \A i \in DOMAIN p, v \in Range(p) : Cross(p[i], p[After(i, p)], v) <= 0
      <4>1. Side(-1)
        BY <3>2, <3>4
      <4> HIDE DEF Side
      <4>2. QED
        BY <4>1
    <3> HIDE DEF Side
    <3>5. QED
      BY <1>5, <3>3, <3>4 DEF KeepsToOneSide
  <2>2. t = Sign(p)
    <3>1. 1 \in DOMAIN p /\ p[1] \in Range(p) /\ p[1] \in Plane
      BY <1>1, <1>2 DEF Range
    <3>2. \A i \in DOMAIN p : /\ t * Edge(p, i, p[1]) >= 0
                              /\ Edge(p, i, p[1]) \in Int
      BY <1>2, <2>1, <3>1, CrossInt DEF Edge
    <3>3. CASE t = 1
      <4>1. \A i \in DOMAIN p : Edge(p, i, p[1]) >= 0
        BY <3>2, <3>3
      <4>2. TwiceSignedArea(p) >= 0
        BY <1>1, <3>1, <4>1, AreaSign
      <4>3. QED
        BY <1>3, <3>3, <4>2
    <3>4. CASE t = -1
      <4>1. \A i \in DOMAIN p : Edge(p, i, p[1]) <= 0
        BY <3>2, <3>4
      <4>2. TwiceSignedArea(p) <= 0
        BY <1>1, <3>1, <4>1, AreaSign
      <4>3. QED
        BY <1>3, <3>4, <4>2
    <3>5. QED
      BY <3>3, <3>4
  <2>3. PICK a \in Range(p), b \in Range(p), c \in Range(p) : InTriangle(a, b, c, q)
    BY <1>5 DEF InConvexHull
  <2>4. a \in Plane /\ b \in Plane /\ c \in Plane
    BY <1>2 DEF Range
  <2>5. PICK i \in DOMAIN p : Sign(p) * Edge(p, i, q) < 0
    BY <1>5, NotOutside
  <2>6. p[i] \in Plane /\ p[After(i, p)] \in Plane
    BY <1>2
  <2>7. /\ t * Cross(p[i], p[After(i, p)], a) >= 0
        /\ t * Cross(p[i], p[After(i, p)], b) >= 0
        /\ t * Cross(p[i], p[After(i, p)], c) >= 0
    BY <2>1
  <2>8. t * Cross(p[i], p[After(i, p)], q) >= 0
    BY <2>3, <2>4, <2>6, <2>7, TriangleOneSide
  <2>9. Edge(p, i, q) \in Int /\ Edge(p, i, q) = Cross(p[i], p[After(i, p)], q)
    BY <1>2 DEF Edge
  <2>10. QED
    BY <1>3, <2>2, <2>5, <2>8, <2>9
<1>6. QED
  BY <1>4, <1>5

-----------------------------------------------------------------------------
(* The points in order.                                                    *)

Lex(p, q) == p[1] < q[1] \/ (p[1] = q[1] /\ p[2] < q[2])

\* The order in which the points are sorted is total.
LEMMA LexOrder ==
  ASSUME NEW p \in Plane, NEW q \in Plane, NEW r \in Plane
  PROVE  /\ ~ Lex(p, p) /\ (Lex(p, q) => ~ Lex(q, p))
         /\ Lex(p, q) \/ Lex(q, p) \/ p = q
         /\ Lex(p, q) /\ Lex(q, r) => Lex(p, r)
<1>1. /\ p[1] \in Int /\ p[2] \in Int /\ q[1] \in Int /\ q[2] \in Int
      /\ r[1] \in Int /\ r[2] \in Int
  BY DEF Plane
<1>2. p[1] = q[1] /\ p[2] = q[2] => p = q
  BY DEF Plane
<1>3. QED
  BY <1>1, <1>2 DEF Lex

\* Of the elements of a finite set, one has none after it.
LEMMA LastExists ==
  ASSUME NEW S, IsFiniteSet(S), S # {}, NEW R,
         \A x, y, z \in S : <<x, y>> \in R /\ <<y, z>> \in R => <<x, z>> \in R,
         \A x \in S : <<x, x>> \notin R
  PROVE  \E x \in S : \A y \in S : <<x, y>> \notin R
<1> DEFINE Later(x) == {y \in S : <<x, y>> \in R}
           N == {Cardinality(Later(x)) : x \in S}
<1>1. \A x \in S : IsFiniteSet(Later(x)) /\ Cardinality(Later(x)) \in Nat
  <2>1. ASSUME NEW x \in S PROVE IsFiniteSet(Later(x)) /\ Cardinality(Later(x)) \in Nat
    <3>1. Later(x) \in SUBSET S
      OBVIOUS
    <3> HIDE DEF Later
    <3>2. IsFiniteSet(Later(x))
      BY <3>1, FS_Subset
    <3>3. QED
      BY <3>2, FS_CardinalityType
  <2>2. QED
    BY <2>1
<1> HIDE DEF Later
<1>2. N \in SUBSET Nat /\ N # {}
  BY <1>1
<1>3. PICK m \in N : \A n \in N : m <= n
  <2> HIDE DEF N
  <2>1. QED
    BY <1>2, LeastNatural
<1>4. PICK x \in S : m = Cardinality(Later(x))
  BY <1>3
<1>5. ASSUME NEW y \in S, <<x, y>> \in R PROVE FALSE
  <2>1. Later(y) \in SUBSET Later(x) /\ y \in Later(x) /\ y \notin Later(y)
    BY <1>5 DEF Later
  <2>2. /\ Cardinality(Later(y)) <= Cardinality(Later(x))
        /\ Cardinality(Later(x)) = Cardinality(Later(y)) => Later(x) = Later(y)
    BY <1>1, <2>1, FS_Subset
  <2>3. Cardinality(Later(y)) \in N
    OBVIOUS
  <2>4. Cardinality(Later(x)) <= Cardinality(Later(y))
    BY <1>3, <1>4, <2>3
  <2>5. QED
    BY <1>1, <2>1, <2>2, <2>4
<1>6. QED
  BY <1>5

\* Sorted lists the points, each once, in order.
LEMMA SortedIs ==
  ASSUME NEW s \in SUBSET Plane, IsFiniteSet(s)
  PROVE  /\ Cardinality(s) \in Nat /\ Sorted(s) \in Seq(s)
         /\ Len(Sorted(s)) = Cardinality(s)
         /\ DOMAIN Sorted(s) = 1 .. Cardinality(s)
         /\ \A q \in s : \E i \in 1 .. Cardinality(s) : Sorted(s)[i] = q
         /\ \A i \in 1 .. Cardinality(s) : Sorted(s)[i] \in s
         /\ \A i, j \in 1 .. Cardinality(s) : i < j => Lex(Sorted(s)[i], Sorted(s)[j])
<1> DEFINE n == Cardinality(s)
           B(p) == Smaller(s, p)
           rank == [v \in s |-> Cardinality(B(v))]
           Item(i) == CHOOSE v \in s : Cardinality(B(v)) = i - 1
<1>a. n \in Nat /\ \A v \in s : v \in Plane
  BY FS_CardinalityType
<1>z. \A v \in s : B(v) = {u \in s : Lex(u, v)}
  BY DEF Smaller, Lex
<1> HIDE DEF B
<1>b. ASSUME NEW v \in s
      PROVE  IsFiniteSet(B(v)) /\ Cardinality(B(v)) \in Nat /\ Cardinality(B(v)) < n
  <2>1. B(v) \in SUBSET s /\ v \notin B(v)
    BY <1>a, <1>z, LexOrder
  <2>2. /\ IsFiniteSet(B(v)) /\ Cardinality(B(v)) <= n
        /\ n = Cardinality(B(v)) => s = B(v)
    BY <2>1, FS_Subset
  <2>3. Cardinality(B(v)) \in Nat
    BY <2>2, FS_CardinalityType
  <2>4. QED
    BY <1>a, <2>1, <2>2, <2>3
<1>c. ASSUME NEW v \in s, NEW w \in s, Lex(v, w)
      PROVE  Cardinality(B(v)) < Cardinality(B(w))
  <2>1. \A u \in s : Lex(u, v) => Lex(u, w)
    BY <1>a, <1>c, LexOrder
  <2>2. B(v) \in SUBSET B(w)
    BY <1>z, <2>1
  <2>3. v \in B(w) /\ v \notin B(v)
    BY <1>a, <1>c, <1>z, LexOrder
  <2>4. /\ Cardinality(B(v)) <= Cardinality(B(w))
        /\ Cardinality(B(w)) = Cardinality(B(v)) => B(w) = B(v)
    BY <1>b, <2>2, FS_Subset
  <2>5. QED
    BY <1>b, <2>3, <2>4
<1> HIDE DEF n
<1>d. ASSUME NEW v \in s, NEW w \in s, Cardinality(B(v)) = Cardinality(B(w))
      PROVE  v = w
  <2>1. ~ Lex(v, w) /\ ~ Lex(w, v)
    BY <1>b, <1>c, <1>d
  <2>2. QED
    BY <1>a, <2>1, LexOrder
<1>e. ASSUME NEW i \in 1 .. n
      PROVE  \E v \in s : Cardinality(B(v)) = i - 1
  <2>1. rank \in [s -> 0 .. n - 1]
    BY <1>a, <1>b
  <2>2. \A v, w \in s : rank[v] = rank[w] => v = w
    BY <1>d
  <2> HIDE DEF rank
  <2>3. rank \in Injection(s, 0 .. n - 1)
    BY <2>1, <2>2 DEF Injection, IsInjective
  <2>4. IsFiniteSet(0 .. n - 1) /\ Cardinality(0 .. n - 1) = n
    <3>1. 0 \in Int /\ n - 1 \in Int /\ n = IF 0 > n - 1 THEN 0 ELSE n - 1 - 0 + 1
      BY <1>a
    <3>2. QED
      BY <3>1, FS_Interval
  <2>5. rank \in Surjection(s, 0 .. n - 1)
    BY <2>3, <2>4, FS_Injection DEF n
  <2>6. i - 1 \in 0 .. n - 1
    BY <1>a
  <2>7. PICK v \in s : rank[v] = i - 1
    BY <2>5, <2>6 DEF Surjection
  <2>8. QED
    BY <2>7 DEF rank
<1>f. Sorted(s) = [i \in 1 .. n |-> Item(i)]
  BY Zenon DEF Sorted, n, B
<1>g. ASSUME NEW i \in 1 .. n
      PROVE  Item(i) \in s /\ Cardinality(B(Item(i))) = i - 1
  BY <1>e
<1> HIDE DEF Item
<1>h. ASSUME NEW v \in s
      PROVE  \E i \in 1 .. n : Item(i) = v
  <2>1. PICK i \in 1 .. n : i - 1 = Cardinality(B(v))
    <3>1. \A c \in Nat : c < n => c + 1 \in 1 .. n /\ (c + 1) - 1 = c
      BY <1>a
    <3>2. QED
      BY <1>b, <3>1
  <2>2. QED
    BY <1>d, <1>g, <2>1
<1>i. ASSUME NEW i \in 1 .. n, NEW j \in 1 .. n, i < j
      PROVE  Lex(Item(i), Item(j))
  <2>1. PICK x \in s : x = Item(i) /\ Cardinality(B(x)) = i - 1
    BY <1>g
  <2>2. PICK y \in s : y = Item(j) /\ Cardinality(B(y)) = j - 1
    BY <1>g
  <2>3. x # y /\ ~(j - 1 < i - 1)
    BY <1>i, <2>1, <2>2
  <2>4. ~ Lex(y, x)
    BY <1>c, <2>1, <2>2, <2>3
  <2>5. QED
    BY <1>a, <2>1, <2>2, <2>3, <2>4, LexOrder
<1>j. \A i \in 1 .. n : Sorted(s)[i] = Item(i)
  BY <1>f
<1>k. Sorted(s) \in Seq(s) /\ Len(Sorted(s)) = n /\ DOMAIN Sorted(s) = 1 .. n
  <2>1. Sorted(s) \in [1 .. n -> s]
    BY <1>f, <1>g
  <2>2. QED
    BY <1>a, <2>1, IsASeq, LenProperties
<1>l. QED
  BY <1>a, <1>g, <1>h, <1>i, <1>j, <1>k DEF n

-----------------------------------------------------------------------------
(* Turns.                                                                  *)

\* Of vectors in a half plane, turning to the left is transitive.
LEMMA HalfPlaneTurns ==
  ASSUME NEW u1 \in Int, NEW u2 \in Int, NEW v1 \in Int, NEW v2 \in Int,
         NEW w1 \in Int, NEW w2 \in Int,
         u1 > 0 \/ (u1 = 0 /\ u2 > 0), v1 > 0 \/ (v1 = 0 /\ v2 > 0),
         w1 > 0 \/ (w1 = 0 /\ w2 > 0),
         NEW a \in Int, NEW b \in Int, NEW c \in Int,
         a = u1 * v2 - u2 * v1, b = v1 * w2 - v2 * w1, c = u1 * w2 - u2 * w1,
         a >= 0, b >= 0
  PROVE  c >= 0 /\ (a > 0 \/ b > 0 => c > 0)
<1>1. a * w1 + b * u1 = c * v1 /\ a * w2 + b * u2 = c * v2
  OBVIOUS
<1>2. SUFFICES ASSUME c < 0 \/ (c = 0 /\ (a > 0 \/ b > 0)) PROVE FALSE
  OBVIOUS
<1>3. /\ a * w1 \in Int /\ b * u1 \in Int /\ c * v1 \in Int
      /\ a * w2 \in Int /\ b * u2 \in Int /\ c * v2 \in Int
  BY ProductSign
<1>4. a * w1 >= 0 /\ b * u1 >= 0 /\ c * v1 <= 0
  BY <1>2, ProductSign
<1>5. a * w1 = 0 /\ b * u1 = 0 /\ c * v1 = 0
  BY <1>1, <1>3, <1>4
<1>6. (a = 0 \/ w1 = 0) /\ (b = 0 \/ u1 = 0) /\ (c = 0 \/ v1 = 0)
  BY <1>5, ProductSign
<1>7. a * w2 >= 0 /\ b * u2 >= 0
  BY <1>6, ProductSign
<1>8. a > 0 => a * w2 > 0
  BY <1>6, ProductSign
<1>9. b > 0 => b * u2 > 0
  BY <1>6, ProductSign
<1>10. CASE a > 0 \/ b > 0
  <2>1. c * v2 > 0
    BY <1>1, <1>3, <1>7, <1>8, <1>9, <1>10
  <2>2. c # 0
    BY <2>1
  <2>3. c < 0 /\ v1 = 0 /\ v2 > 0
    BY <1>2, <1>6, <2>2
  <2>4. c * v2 < 0
    BY <2>3, ProductSign
  <2>5. QED
    BY <1>3, <2>1, <2>4
<1>11. CASE a = 0 /\ b = 0
  <2>1. c < 0 /\ v1 = 0 /\ v2 > 0
    BY <1>2, <1>6, <1>11
  <2>2. c * v2 < 0
    BY <2>1, ProductSign
  <2>3. c * v2 >= 0
    BY <1>1, <1>3, <1>7
  <2>4. QED
    BY <1>3, <2>2, <2>3
<1>12. QED
  BY <1>10, <1>11

\* q is after p, in the order of a chain: from the left if d is 1.
Ahead(d, p, q) == IF d = 1 THEN Lex(p, q) ELSE Lex(q, p)

\* So it is in either direction of the sweep.
LEMMA AheadOrder ==
  ASSUME NEW d \in {1, -1}, NEW p \in Plane, NEW q \in Plane, NEW r \in Plane
  PROVE  /\ ~ Ahead(d, p, p) /\ (Ahead(d, p, q) => ~ Ahead(d, q, p))
         /\ Ahead(d, p, q) \/ Ahead(d, q, p) \/ p = q
         /\ Ahead(d, p, q) /\ Ahead(d, q, r) => Ahead(d, p, r)
         /\ Ahead(d, p, q) <=> Ahead(0 - d, q, p)
BY LexOrder DEF Ahead

\* What lies ahead is in a half plane.
LEMMA AheadVector ==
  ASSUME NEW d \in {1, -1}, NEW p \in Plane, NEW q \in Plane, Ahead(d, p, q)
  PROVE  /\ d = 1 => q[1] - p[1] > 0 \/ (q[1] - p[1] = 0 /\ q[2] - p[2] > 0)
         /\ d = -1 => p[1] - q[1] > 0 \/ (p[1] - q[1] = 0 /\ p[2] - q[2] > 0)
<1>1. p[1] \in Int /\ p[2] \in Int /\ q[1] \in Int /\ q[2] \in Int
  BY DEF Plane
<1>2. QED
  BY <1>1 DEF Ahead, Lex

\* Of vectors in a half plane, turning is an order.
LEMMA TurnsTransitive ==
  ASSUME NEW d \in {1, -1}, NEW o \in Plane, NEW a \in Plane, NEW b \in Plane, NEW c \in Plane,
         NEW e \in Plane, NEW f \in Plane,
         Ahead(d, o, a), Ahead(d, e, b), Ahead(d, f, c),
         NEW x, NEW y, NEW z,
         x = (a[1] - o[1]) * (b[2] - e[2]) - (a[2] - o[2]) * (b[1] - e[1]),
         y = (b[1] - e[1]) * (c[2] - f[2]) - (b[2] - e[2]) * (c[1] - f[1]),
         z = (a[1] - o[1]) * (c[2] - f[2]) - (a[2] - o[2]) * (c[1] - f[1]),
         x >= 0, y >= 0
  PROVE  z >= 0 /\ (x > 0 \/ y > 0 => z > 0)
<1>1. /\ a[1] \in Int /\ a[2] \in Int /\ b[1] \in Int /\ b[2] \in Int
      /\ c[1] \in Int /\ c[2] \in Int /\ o[1] \in Int /\ o[2] \in Int
      /\ e[1] \in Int /\ e[2] \in Int /\ f[1] \in Int /\ f[2] \in Int
  BY DEF Plane
<1>2. CASE d = 1
  <2> DEFINE u1 == a[1] - o[1]   u2 == a[2] - o[2]
             v1 == b[1] - e[1]   v2 == b[2] - e[2]
             w1 == c[1] - f[1]   w2 == c[2] - f[2]
  <2>1. /\ u1 \in Int /\ u2 \in Int /\ v1 \in Int /\ v2 \in Int /\ w1 \in Int /\ w2 \in Int
    BY <1>1, <1>2
  <2>2. /\ u1 > 0 \/ (u1 = 0 /\ u2 > 0)
        /\ v1 > 0 \/ (v1 = 0 /\ v2 > 0)
        /\ w1 > 0 \/ (w1 = 0 /\ w2 > 0)
    BY <1>2, AheadVector
  <2>3. x = u1 * v2 - u2 * v1 /\ y = v1 * w2 - v2 * w1 /\ z = u1 * w2 - u2 * w1
    BY <2>1
  <2> HIDE DEF u1, u2, v1, v2, w1, w2
  <2>4. x \in Int /\ y \in Int /\ z \in Int
    BY <2>1, <2>3
  <2>5. QED
    BY <2>1, <2>2, <2>3, <2>4, HalfPlaneTurns
<1>3. CASE d = -1
  <2> DEFINE u1 == o[1] - a[1]   u2 == o[2] - a[2]
             v1 == e[1] - b[1]   v2 == e[2] - b[2]
             w1 == f[1] - c[1]   w2 == f[2] - c[2]
  <2>1. /\ u1 \in Int /\ u2 \in Int /\ v1 \in Int /\ v2 \in Int /\ w1 \in Int /\ w2 \in Int
    BY <1>1, <1>3
  <2>2. /\ u1 > 0 \/ (u1 = 0 /\ u2 > 0)
        /\ v1 > 0 \/ (v1 = 0 /\ v2 > 0)
        /\ w1 > 0 \/ (w1 = 0 /\ w2 > 0)
    BY <1>3, AheadVector
  <2>3. /\ a[1] - o[1] = 0 - u1 /\ a[2] - o[2] = 0 - u2
        /\ b[1] - e[1] = 0 - v1 /\ b[2] - e[2] = 0 - v2
        /\ c[1] - f[1] = 0 - w1 /\ c[2] - f[2] = 0 - w2
    BY <1>1, <2>1
  <2> HIDE DEF u1, u2, v1, v2, w1, w2
  <2>4. x = u1 * v2 - u2 * v1 /\ y = v1 * w2 - v2 * w1 /\ z = u1 * w2 - u2 * w1
    BY <2>1, <2>3
  <2>5. x \in Int /\ y \in Int /\ z \in Int
    BY <2>1, <2>4
  <2>6. QED
    BY <2>1, <2>2, <2>4, <2>5, HalfPlaneTurns
<1>4. QED
  BY <1>2, <1>3

LEMMA PlaneInts ==
  ASSUME NEW a \in Plane
  PROVE  a[1] \in Int /\ a[2] \in Int
BY DEF Plane

\* Three turns of the chain: on, back and within a fan.
LEMMA TurnOn ==
  ASSUME NEW d \in {1, -1}, NEW a \in Plane, NEW b \in Plane, NEW c \in Plane, NEW p \in Plane,
         Ahead(d, a, b), Ahead(d, b, c), Ahead(d, b, p),
         Cross(a, b, c) >= 0, Cross(b, c, p) >= 0
  PROVE  /\ Cross(a, b, p) >= 0
         /\ Cross(a, b, c) > 0 \/ Cross(b, c, p) > 0 => Cross(a, b, p) > 0
<1> DEFINE x == Cross(a, b, c)
           y == Cross(b, c, p)
           z == Cross(a, b, p)
<1>1. /\ x = (b[1] - a[1]) * (c[2] - b[2]) - (b[2] - a[2]) * (c[1] - b[1])
      /\ y = (c[1] - b[1]) * (p[2] - b[2]) - (c[2] - b[2]) * (p[1] - b[1])
      /\ z = (b[1] - a[1]) * (p[2] - b[2]) - (b[2] - a[2]) * (p[1] - b[1])
  BY PlaneInts DEF Cross
<1>2. x >= 0 /\ y >= 0
  OBVIOUS
<1> HIDE DEF x, y, z
<1>3. z >= 0 /\ (x > 0 \/ y > 0 => z > 0)
  BY <1>1, <1>2, TurnsTransitive
<1>4. QED
  BY <1>3 DEF x, y, z

LEMMA TurnBack ==
  ASSUME NEW d \in {1, -1}, NEW q \in Plane, NEW o \in Plane, NEW a \in Plane, NEW p \in Plane,
         Ahead(d, o, a), Ahead(d, q, a), Ahead(d, a, p),
         Cross(o, a, q) >= 0, Cross(o, a, p) >= 0
  PROVE  /\ Cross(a, p, q) >= 0
         /\ Cross(o, a, q) > 0 \/ Cross(o, a, p) > 0 => Cross(a, p, q) > 0
<1> DEFINE x == Cross(o, a, q)
           y == Cross(o, a, p)
           z == Cross(a, p, q)
<1>1. /\ x = (a[1] - q[1]) * (a[2] - o[2]) - (a[2] - q[2]) * (a[1] - o[1])
      /\ y = (a[1] - o[1]) * (p[2] - a[2]) - (a[2] - o[2]) * (p[1] - a[1])
      /\ z = (a[1] - q[1]) * (p[2] - a[2]) - (a[2] - q[2]) * (p[1] - a[1])
  BY PlaneInts DEF Cross
<1>2. x >= 0 /\ y >= 0
  OBVIOUS
<1> HIDE DEF x, y, z
<1>3. z >= 0 /\ (x > 0 \/ y > 0 => z > 0)
  BY <1>1, <1>2, TurnsTransitive
<1>4. QED
  BY <1>3 DEF x, y, z

LEMMA TurnFan ==
  ASSUME NEW d \in {1, -1}, NEW a \in Plane, NEW b \in Plane, NEW p \in Plane, NEW q \in Plane,
         Ahead(d, a, b), Ahead(d, a, p), Ahead(d, a, q),
         Cross(a, p, b) >= 0, Cross(a, b, q) >= 0
  PROVE  /\ Cross(a, p, q) >= 0
         /\ Cross(a, p, b) > 0 \/ Cross(a, b, q) > 0 => Cross(a, p, q) > 0
<1> DEFINE x == Cross(a, p, b)
           y == Cross(a, b, q)
           z == Cross(a, p, q)
<1>1. /\ x = (p[1] - a[1]) * (b[2] - a[2]) - (p[2] - a[2]) * (b[1] - a[1])
      /\ y = (b[1] - a[1]) * (q[2] - a[2]) - (b[2] - a[2]) * (q[1] - a[1])
      /\ z = (p[1] - a[1]) * (q[2] - a[2]) - (p[2] - a[2]) * (q[1] - a[1])
  BY PlaneInts DEF Cross
<1>2. x >= 0 /\ y >= 0
  OBVIOUS
<1> HIDE DEF x, y, z
<1>3. z >= 0 /\ (x > 0 \/ y > 0 => z > 0)
  BY <1>1, <1>2, TurnsTransitive
<1>4. QED
  BY <1>3 DEF x, y, z

\* A signed area is the same from each corner, and changes its sign with the order.
LEMMA CrossRotates ==
  ASSUME NEW a \in Plane, NEW b \in Plane, NEW c \in Plane
  PROVE  /\ Cross(a, b, c) \in Int /\ Cross(b, c, a) = Cross(a, b, c)
         /\ Cross(c, a, b) = Cross(a, b, c)
         /\ Cross(b, a, c) = 0 - Cross(a, b, c) /\ Cross(a, c, b) = 0 - Cross(a, b, c)
         /\ Cross(c, b, a) = 0 - Cross(a, b, c)
         /\ Cross(a, a, b) = 0 /\ Cross(a, b, a) = 0 /\ Cross(a, b, b) = 0
BY PlaneInts DEF Cross

-----------------------------------------------------------------------------
(* The chains.                                                             *)

LEMMA MaxOfRange ==
  ASSUME NEW n \in Nat, NEW S \in SUBSET (0 .. n), S # {}
  PROVE  Max(S) \in S /\ \A i \in S : i <= Max(S)
<1> DEFINE R == {n - i : i \in S}
           most(v) == \A u \in S : v >= u
<1>1. R \in SUBSET Nat /\ R # {}
  <2>1. \A i \in S : n - i \in Nat
    OBVIOUS
  <2>2. QED
    BY <2>1
<1>2. PICK m \in R : \A r \in R : m <= r
  <2> HIDE DEF R
  <2>1. QED
    BY <1>1, LeastNatural
<1>3. PICK v \in S : m = n - v
  BY <1>2
<1>4. most(v)
  <2>1. ASSUME NEW u \in S PROVE v >= u
    <3>1. m <= n - u
      BY <1>2
    <3>2. QED
      BY <1>3, <3>1
  <2>2. QED
    BY <2>1
<1>5. Max(S) = CHOOSE x \in S : most(x)
  BY DEF Max
<1> HIDE DEF most
<1>6. Max(S) \in S /\ most(Max(S))
  BY <1>4, <1>5
<1>7. QED
  BY <1>6 DEF most

\* Push keeps the first k points, with a turn to the left at the last of them.
LEMMA PushIs ==
  ASSUME NEW T \in SUBSET Plane, NEW stack \in Seq(T), NEW p \in T
  PROVE  \E k \in 0 .. Len(stack) :
            /\ Len(stack) > 0 => k > 0
            /\ k < 2 \/ Cross(stack[k - 1], stack[k], p) > 0
            /\ k > 0 /\ k < Len(stack) => Cross(stack[k], stack[k + 1], p) <= 0
            /\ Push(stack, p) \in Seq(T) /\ Len(Push(stack, p)) = k + 1
            /\ \A i \in 1 .. k : Push(stack, p)[i] = stack[i]
            /\ Push(stack, p)[k + 1] = p
<1> DEFINE m == Len(stack)
           S == {i \in 0 .. m : i < 2 \/ Cross(stack[i - 1], stack[i], p) > 0}
           k == Max(S)
<1>1. m \in Nat /\ \A i \in 1 .. m : stack[i] \in Plane
  BY LenProperties, ElementOfSeq
<1> HIDE DEF m
<1>2. S \in SUBSET (0 .. m) /\ 0 \in S /\ (m > 0 => 1 \in S)
  BY <1>1
<1>3. k \in S /\ \A i \in S : i <= k
  <2> HIDE DEF S
  <2>1. QED
    BY <1>1, <1>2, MaxOfRange
<1>4. Push(stack, p) = Append(SubSeq(stack, 1, k), p)
  BY DEF Push, m
<1> HIDE DEF k
<1>5. k \in 0 .. m /\ (k < 2 \/ Cross(stack[k - 1], stack[k], p) > 0)
  BY <1>3
<1>6. m > 0 => k > 0
  BY <1>1, <1>2, <1>3
<1>7. ASSUME k > 0, k < m PROVE Cross(stack[k], stack[k + 1], p) <= 0
  <2>1. k + 1 \in 0 .. m /\ k + 1 \notin S /\ (k + 1) - 1 = k /\ ~ (k + 1 < 2)
    BY <1>1, <1>3, <1>5, <1>7
  <2>2. ~ Cross(stack[k], stack[k + 1], p) > 0
    BY <2>1
  <2>3. stack[k] \in Plane /\ stack[k + 1] \in Plane /\ p \in Plane
    BY <1>1, <1>5, <1>7
  <2>4. Cross(stack[k], stack[k + 1], p) \in Int
    BY <2>3, CrossInt
  <2>5. QED
    BY <2>2, <2>4
<1>8. /\ SubSeq(stack, 1, k) \in Seq(T) /\ Len(SubSeq(stack, 1, k)) = k
      /\ \A i \in 1 .. k : SubSeq(stack, 1, k)[i] = stack[i]
  <2>1. 1 \in 1 .. m + 1 /\ k \in (1 - 1) .. m /\ m \in Nat
    BY <1>1, <1>5
  <2>2. /\ SubSeq(stack, 1, k) \in Seq(T)
        /\ Len(SubSeq(stack, 1, k)) = IF 1 <= k THEN k - 1 + 1 ELSE 0
        /\ \A i \in 1 .. k - 1 + 1 : SubSeq(stack, 1, k)[i] = stack[1 + i - 1]
    BY <1>1, <1>5, SubSeqProperties DEF m
  <2>3. QED
    BY <1>5, <2>2
<1>9. /\ Push(stack, p) \in Seq(T) /\ Len(Push(stack, p)) = k + 1
      /\ \A i \in 1 .. k : Push(stack, p)[i] = stack[i]
      /\ Push(stack, p)[k + 1] = p
  BY <1>4, <1>5, <1>8, AppendProperties
<1>10. QED
  BY <1>5, <1>6, <1>7, <1>9 DEF m

\* v goes around R to its right, from the first of its points to the last.
ChainOf(v, R, d) ==
    /\ v \in Seq(R) /\ Len(v) > 0
    /\ \A i, k \in 1 .. Len(v) : i < k => Ahead(d, v[i], v[k])
    /\ \A i \in 1 .. Len(v) - 2 : Cross(v[i], v[i + 1], v[i + 2]) > 0
    /\ \A i \in 1 .. Len(v) - 1, q \in R : Cross(v[i], v[i + 1], q) >= 0
    /\ \A q \in R : q = v[1] \/ Ahead(d, v[1], q)
    /\ \A q \in R : q = v[Len(v)] \/ Ahead(d, q, v[Len(v)])

\* One step of the monotone chain, with all it pops, keeps it a chain.
LEMMA PushKeeps ==
  ASSUME NEW d \in {1, -1}, NEW R \in SUBSET Plane, NEW v, ChainOf(v, R, d),
         NEW p \in Plane, \A q \in R : Ahead(d, q, p)
  PROVE  ChainOf(Push(v, p), R \cup {p}, d)
<1> DEFINE T == R \cup {p}
           w == Push(v, p)
           m == Len(v)
<1>1. /\ v \in Seq(R) /\ m \in Nat /\ m > 0 /\ v \in Seq(T)
      /\ \A i \in 1 .. m : v[i] \in R /\ v[i] \in Plane
  <2>1. v \in Seq(R) /\ Len(v) > 0
    BY DEF ChainOf
  <2>2. m \in Nat /\ \A i \in 1 .. m : v[i] \in R
    BY <2>1, LenProperties, ElementOfSeq
  <2>3. v \in Seq(T)
    BY <2>1, SeqMonotonic
  <2>4. QED
    BY <2>1, <2>2, <2>3
<1>2. PICK k \in 0 .. m :
         /\ k > 0
         /\ k < 2 \/ Cross(v[k - 1], v[k], p) > 0
         /\ k < m => Cross(v[k], v[k + 1], p) <= 0
         /\ w \in Seq(T) /\ Len(w) = k + 1
         /\ \A i \in 1 .. k : w[i] = v[i]
         /\ w[k + 1] = p
  <2>1. T \in SUBSET Plane /\ p \in T
    OBVIOUS
  <2> HIDE DEF T
  <2>2. QED
    BY <1>1, <2>1, PushIs
<1>3. /\ \A i, l \in 1 .. m : i < l => Ahead(d, v[i], v[l])
      /\ \A i \in 1 .. m - 2 : Cross(v[i], v[i + 1], v[i + 2]) > 0
      /\ \A i \in 1 .. m - 1, q \in R : Cross(v[i], v[i + 1], q) >= 0
      /\ \A q \in R : q = v[1] \/ Ahead(d, v[1], q)
      /\ \A q \in R : q = v[m] \/ Ahead(d, q, v[m])
  BY DEF ChainOf
<1> HIDE DEF m, w
<1>4. k \in 1 .. m /\ k + 1 \in Nat
  BY <1>1, <1>2
<1>5. ASSUME NEW i \in 1 .. k + 1, NEW l \in 1 .. k + 1, i < l PROVE Ahead(d, w[i], w[l])
  <2>1. i \in 1 .. k /\ i \in 1 .. m /\ w[i] = v[i]
    <3>1. i \in 1 .. k /\ i \in 1 .. m
      BY <1>1, <1>4, <1>5
    <3>2. QED
      BY <1>2, <3>1
  <2>2. CASE l = k + 1
    BY <1>1, <1>2, <2>1, <2>2
  <2>3. CASE l # k + 1
    <3>1. l \in 1 .. k /\ l \in 1 .. m
      BY <1>1, <1>4, <2>3
    <3>2. QED
      BY <1>2, <1>3, <1>5, <2>1, <3>1
  <2>4. QED
    BY <2>2, <2>3
<1>6. ASSUME NEW i \in 1 .. (k + 1) - 2 PROVE Cross(w[i], w[i + 1], w[i + 2]) > 0
  <2>1. /\ i \in 1 .. k /\ i + 1 \in 1 .. k /\ w[i] = v[i] /\ w[i + 1] = v[i + 1]
    BY <1>2, <1>4
  <2>2. CASE i = k - 1
    <3>1. i + 2 = k + 1 /\ i + 1 = k /\ ~ (k < 2)
      BY <1>4, <2>2
    <3>2. QED
      BY <1>2, <2>1, <2>2, <3>1
  <2>3. CASE i # k - 1
    <3>1. i + 2 \in 1 .. k /\ i \in 1 .. m - 2
      BY <1>1, <1>4, <2>3
    <3>2. QED
      BY <1>2, <1>3, <2>1, <3>1
  <2>4. QED
    BY <2>2, <2>3
<1>7. \A i \in 1 .. k - 1 : Cross(v[i], v[i + 1], p) > 0
  <2> DEFINE S == {t \in 0 .. k : t >= k - 1 \/ Cross(v[k - 1 - t], v[k - t], p) > 0}
  <2>1. 0 \in S
    <3>1. k - 1 - 0 = k - 1 /\ k - 0 = k
      BY <1>4
    <3>2. QED
      BY <1>2, <1>4, <3>1
  <2>2. ASSUME NEW t \in 0 .. k - 1, t \in S PROVE t + 1 \in S
    <3>1. CASE t + 1 >= k - 1
      BY <1>4, <3>1
    <3>2. CASE ~ (t + 1 >= k - 1)
      <4> DEFINE i == k - 1 - (t + 1)
      <4>1. /\ i \in 1 .. m /\ i + 1 \in 1 .. m /\ i + 2 \in 1 .. m /\ i \in 1 .. m - 2
            /\ i + 1 = k - 1 - t /\ i + 2 = k - t /\ i + 1 = k - (t + 1)
            /\ t + 1 \in 0 .. k /\ i < i + 1 /\ i + 1 < i + 2 /\ ~ (t >= k - 1)
        BY <1>1, <1>4, <3>2
      <4>2. Cross(v[i + 1], v[i + 2], p) > 0
        BY <2>2, <4>1
      <4> HIDE DEF i
      <4>3. Cross(v[i], v[i + 1], v[i + 2]) > 0
        BY <1>3, <4>1
      <4>4. /\ v[i] \in Plane /\ v[i + 1] \in Plane /\ v[i + 2] \in Plane
            /\ Ahead(d, v[i], v[i + 1]) /\ Ahead(d, v[i + 1], v[i + 2])
            /\ Ahead(d, v[i + 1], p)
        BY <1>1, <1>3, <4>1
      <4>5. /\ Cross(v[i], v[i + 1], v[i + 2]) >= 0
            /\ Cross(v[i + 1], v[i + 2], p) >= 0
        BY <4>2, <4>3, <4>4, CrossInt
      <4>6. Cross(v[i], v[i + 1], p) > 0
        BY <4>3, <4>4, <4>5, TurnOn
      <4>7. QED
        BY <4>1, <4>6 DEF i
    <3>3. QED
      BY <3>1, <3>2
  <2>3. \A t \in 0 .. k : t \in S
    <3> HIDE DEF S
    <3>1. QED
      BY <1>4, <2>1, <2>2, UpTo
  <2>4. ASSUME NEW i \in 1 .. k - 1 PROVE Cross(v[i], v[i + 1], p) > 0
    <3> DEFINE t == k - 1 - i
    <3>1. t \in 0 .. k /\ ~ (t >= k - 1) /\ k - 1 - t = i /\ k - t = i + 1
      BY <1>4
    <3> HIDE DEF t
    <3>2. t \in S
      BY <2>3, <3>1
    <3>3. QED
      BY <3>1, <3>2
  <2>5. QED
    BY <2>4
<1>8. ASSUME NEW q \in R PROVE Cross(v[k], p, q) >= 0
  <2>1. q \in Plane /\ v[k] \in Plane /\ v[k] \in R /\ Ahead(d, v[k], p)
    BY <1>1, <1>4
  <2>2. CASE q = v[k]
    <3>1. Cross(v[k], p, q) = 0
      BY <2>1, <2>2, CrossRotates
    <3>2. QED
      BY <3>1
  <2>3. CASE Ahead(d, q, v[k])
    <3>1. k # 1
      <4>1. ASSUME k = 1 PROVE FALSE
        <5>1. q = v[k] \/ Ahead(d, v[k], q)
          BY <1>3, <4>1
        <5>2. QED
          BY <2>1, <2>3, <5>1, AheadOrder
      <4>2. QED
        BY <4>1
    <3>2. k - 1 \in 1 .. m - 1 /\ (k - 1) + 1 = k /\ ~ (k < 2) /\ k - 1 \in 1 .. m /\ k - 1 < k
      BY <1>1, <1>4, <3>1
    <3>3. v[k - 1] \in Plane /\ Ahead(d, v[k - 1], v[k])
      BY <1>1, <1>3, <1>4, <3>2
    <3>4. Cross(v[k - 1], v[k], q) >= 0
      BY <1>3, <3>2
    <3>5. Cross(v[k - 1], v[k], p) >= 0
      <4>1. Cross(v[k - 1], v[k], p) \in Int
        BY <2>1, <3>3, CrossInt
      <4>2. Cross(v[k - 1], v[k], p) > 0
        BY <1>2, <3>2
      <4>3. QED
        BY <4>1, <4>2
    <3>6. QED
      BY <2>1, <2>3, <3>3, <3>4, <3>5, TurnBack
  <2>4. CASE Ahead(d, v[k], q)
    <3>1. k # m
      <4>1. ASSUME k = m PROVE FALSE
        <5>1. q = v[k] \/ Ahead(d, q, v[k])
          BY <1>3, <4>1
        <5>2. QED
          BY <2>1, <2>4, <5>1, AheadOrder
      <4>2. QED
        BY <4>1
    <3>2. k < m /\ k \in 1 .. m - 1 /\ k + 1 \in 1 .. m /\ k < k + 1
      BY <1>1, <1>4, <3>1
    <3>3. v[k + 1] \in Plane /\ Ahead(d, v[k], v[k + 1])
      BY <1>1, <1>3, <1>4, <3>2
    <3>4. Cross(v[k], v[k + 1], q) >= 0
      BY <1>3, <3>2
    <3>5. Cross(v[k], v[k + 1], p) <= 0
      BY <1>2, <3>2
    <3>6. /\ Cross(v[k], p, v[k + 1]) = 0 - Cross(v[k], v[k + 1], p)
          /\ Cross(v[k], v[k + 1], p) \in Int
      BY <2>1, <3>3, CrossRotates
    <3>7. Cross(v[k], p, v[k + 1]) >= 0
      BY <3>5, <3>6
    <3>8. QED
      BY <2>1, <2>4, <3>3, <3>4, <3>7, TurnFan
  <2>5. QED
    BY <2>1, <2>2, <2>3, <2>4, AheadOrder
<1>9. ASSUME NEW i \in 1 .. (k + 1) - 1, NEW q \in T PROVE Cross(w[i], w[i + 1], q) >= 0
  <2>1. i \in 1 .. k /\ w[i] = v[i] /\ v[i] \in Plane
    BY <1>1, <1>2, <1>4
  <2>2. CASE i = k
    <3>1. w[i + 1] = p
      BY <1>2, <2>2
    <3>2. CASE q = p
      <4>1. Cross(v[i], p, p) = 0
        BY <2>1, CrossRotates
      <4>2. QED
        BY <2>1, <3>1, <3>2, <4>1
    <3>3. CASE q \in R
      BY <1>8, <2>1, <2>2, <3>1, <3>3
    <3>4. QED
      BY <3>2, <3>3
  <2>3. CASE i # k
    <3>1. i \in 1 .. k - 1 /\ i + 1 \in 1 .. k /\ i \in 1 .. m - 1
      BY <1>1, <1>4, <2>1, <2>3
    <3>2. w[i + 1] = v[i + 1] /\ v[i + 1] \in Plane
      BY <1>1, <1>2, <1>4, <3>1
    <3>3. CASE q = p
      <4>1. Cross(v[i], v[i + 1], p) \in Int /\ Cross(v[i], v[i + 1], p) > 0
        BY <1>7, <2>1, <3>1, <3>2, CrossInt
      <4>2. QED
        BY <2>1, <3>2, <3>3, <4>1
    <3>4. CASE q \in R
      BY <1>3, <2>1, <3>1, <3>2, <3>4
    <3>5. QED
      BY <3>3, <3>4
  <2>4. QED
    BY <2>2, <2>3
<1>10. w[1] = v[1] /\ v[1] \in R
  BY <1>1, <1>2, <1>4
<1>11. \A q \in T : q = w[1] \/ Ahead(d, w[1], q)
  BY <1>3, <1>10
<1>12. \A q \in T : q = w[k + 1] \/ Ahead(d, q, w[k + 1])
  BY <1>2
<1>13. w \in Seq(T) /\ Len(w) = k + 1 /\ k + 1 > 0
  BY <1>2, <1>4
<1>14. ChainOf(w, T, d)
  <2> HIDE DEF T
  <2>1. QED
    BY <1>5, <1>6, <1>9, <1>11, <1>12, <1>13 DEF ChainOf
<1>15. QED
  BY <1>14 DEF w

Stacks(u, f) ==
    f = [i \in 0 .. Len(u) |-> IF i = 0 THEN <<>> ELSE Push(f[i - 1], u[i])]

\* The chain is what the pushes make, one after the other.
LEMMA ChainIsLast ==
  ASSUME NEW u \in Seq(Plane)
  PROVE  \E f \in [0 .. Len(u) -> Seq(Plane)] :
            /\ f[0] = <<>> /\ Chain(u) = f[Len(u)]
            /\ \A i \in 1 .. Len(u) : f[i] = Push(f[i - 1], u[i])
<1> DEFINE n == Len(u)
           g == [i \in 1 .. n |-> [t \in Seq(Plane) |-> Push(t, u[i])]]
           F == CHOOSE f : Stacks(u, f)
<1>1. n \in Nat /\ \A i \in 1 .. n : u[i] \in Plane
  BY LenProperties, ElementOfSeq
<1>2. g \in [1 .. n -> [Seq(Plane) -> Seq(Plane)]]
  <2>1. ASSUME NEW i \in 1 .. n, NEW t \in Seq(Plane) PROVE Push(t, u[i]) \in Seq(Plane)
    <3>1. Plane \in SUBSET Plane /\ u[i] \in Plane
      BY <1>1
    <3>2. QED
      BY <3>1, PushIs
  <2>2. QED
    BY <2>1
<1>3. PICK f \in [0 .. n -> Seq(Plane)] :
         f[0] = <<>> /\ \A i \in 1 .. n : f[i] = g[i][f[i - 1]]
  <2> HIDE DEF g, n
  <2>1. <<>> \in Seq(Plane)
    OBVIOUS
  <2>2. Recursion(Seq(Plane), <<>>, n, g)
    BY <1>1, <1>2, <2>1, Iterated
  <2>3. QED
    BY <2>2 DEF Recursion
<1>4. ASSUME NEW i \in 1 .. n
      PROVE  f[i] = Push(f[i - 1], u[i])
  <2>1. f[i - 1] \in Seq(Plane)
    <3>1. i - 1 \in 0 .. n
      BY <1>1
    <3>2. QED
      BY <3>1
  <2>2. g[i][f[i - 1]] = Push(f[i - 1], u[i])
    BY <2>1
  <2>3. QED
    BY <1>3, <2>2
<1>5. Stacks(u, f)
  <2>1. \A i \in 0 .. n : f[i] = IF i = 0 THEN <<>> ELSE Push(f[i - 1], u[i])
    BY <1>3, <1>4
  <2>2. QED
    BY <2>1 DEF Stacks
<1>6. Stacks(u, F)
  BY <1>5
<1>7. Chain(u) = F[n]
  BY DEF Chain, Stacks
<1> HIDE DEF F
<1>8. F = [i \in 0 .. n |-> IF i = 0 THEN <<>> ELSE Push(F[i - 1], u[i])]
  BY <1>6 DEF Stacks
<1>9. F[0] = <<>> /\ \A i \in 1 .. n : F[i] = Push(F[i - 1], u[i])
  BY <1>1, <1>8
<1>10. \A i \in 0 .. n : F[i] \in Seq(Plane)
  <2> DEFINE S == {i \in 0 .. n : F[i] \in Seq(Plane)}
  <2>1. 0 \in S
    <3>1. 0 \in 0 .. n /\ <<>> \in Seq(Plane)
      BY <1>1
    <3>2. QED
      BY <1>9, <3>1
  <2>2. ASSUME NEW i \in 0 .. n - 1, i \in S PROVE i + 1 \in S
    <3>1. i + 1 \in 1 .. n /\ (i + 1) - 1 = i /\ i + 1 \in 0 .. n
      BY <1>1
    <3>2. Plane \in SUBSET Plane /\ u[i + 1] \in Plane /\ F[i] \in Seq(Plane)
      BY <1>1, <2>2, <3>1
    <3>3. Push(F[i], u[i + 1]) \in Seq(Plane)
      BY <3>2, PushIs
    <3>4. F[i + 1] = Push(F[i], u[i + 1])
      BY <1>9, <3>1
    <3>5. QED
      BY <3>1, <3>3, <3>4
  <2>3. \A i \in 0 .. n : i \in S
    <3> HIDE DEF S
    <3>1. QED
      BY <1>1, <2>1, <2>2, UpTo
  <2>4. QED
    BY <2>3
<1>11. F \in [0 .. n -> Seq(Plane)]
  BY <1>8, <1>10
<1>12. QED
  BY <1>7, <1>9, <1>11

\* The monotone chain of points in order is convex and leaves none outside.
LEMMA ChainIsChain ==
  ASSUME NEW d \in {1, -1}, NEW u \in Seq(Plane), Len(u) > 0,
         \A i, j \in 1 .. Len(u) : i < j => Ahead(d, u[i], u[j])
  PROVE  ChainOf(Chain(u), Range(u), d)
<1> DEFINE n == Len(u)
           R(i) == {u[t] : t \in 1 .. i}
<1>1. n \in Nat /\ n > 0 /\ DOMAIN u = 1 .. n /\ \A i \in 1 .. n : u[i] \in Plane
  BY LenProperties, ElementOfSeq
<1>2. PICK f \in [0 .. n -> Seq(Plane)] :
         /\ f[0] = <<>> /\ Chain(u) = f[n]
         /\ \A i \in 1 .. n : f[i] = Push(f[i - 1], u[i])
  BY ChainIsLast
<1> DEFINE S == {i \in 0 .. n : i = 0 \/ ChainOf(f[i], R(i), d)}
<1>3. 0 \in S
  BY <1>1
<1>4. ASSUME NEW i \in 0 .. n - 1, i \in S PROVE i + 1 \in S
  <2>1. /\ i + 1 \in 1 .. n /\ (i + 1) - 1 = i /\ i + 1 \in 0 .. n /\ u[i + 1] \in Plane
        /\ f[i + 1] = Push(f[i], u[i + 1])
    <3>1. i + 1 \in 1 .. n /\ (i + 1) - 1 = i /\ i + 1 \in 0 .. n
      BY <1>1
    <3>2. QED
      BY <1>1, <1>2, <3>1
  <2>2. R(i + 1) = R(i) \cup {u[i + 1]}
    <3>1. \A t \in 1 .. i + 1 : t \in 1 .. i \/ t = i + 1
      OBVIOUS
    <3>2. 1 .. i \subseteq 1 .. i + 1 /\ i + 1 \in 1 .. i + 1
      OBVIOUS
    <3>3. QED
      BY <3>1, <3>2
  <2>3. CASE i = 0
    <3>1. R(1) = {u[1]}
      <4>1. \A t \in 1 .. 1 : t = 1
        OBVIOUS
      <4>2. QED
        BY <4>1
    <3> DEFINE p == u[1]
    <3>2. p \in Plane /\ <<>> \in Seq({p}) /\ Len(<<>>) = 0 /\ {p} \in SUBSET Plane /\ p \in {p}
      BY <2>1, <2>3
    <3> DEFINE w == Push(<<>>, p)
    <3>3. w \in Seq({p}) /\ Len(w) = 1 /\ w[1] = p
      <4> DEFINE T == {p}
                 e == <<>>
      <4>1. T \in SUBSET Plane /\ p \in T /\ e \in Seq(T) /\ Len(e) = 0 /\ w = Push(e, p)
        BY <3>2
      <4> HIDE DEF p, T, e, w
      <4>2. \E k \in 0 .. Len(e) : w \in Seq(T) /\ Len(w) = k + 1 /\ w[k + 1] = p
        BY <4>1, PushIs
      <4>3. PICK k \in 0 .. Len(e) : w \in Seq(T) /\ Len(w) = k + 1 /\ w[k + 1] = p
        BY <4>2
      <4>4. k = 0
        BY <4>1
      <4>5. QED
        BY <4>3, <4>4 DEF T
    <3> HIDE DEF w, p
    <3>4. ChainOf(w, {p}, d)
      BY <3>3 DEF ChainOf
    <3>5. f[i + 1] = w /\ R(i + 1) = {p}
      BY <1>2, <2>1, <2>3, <3>1 DEF w, p
    <3> HIDE DEF R
    <3>6. QED
      BY <2>1, <3>4, <3>5
  <2>4. CASE i # 0
    <3>1. R(i) \in SUBSET Plane /\ \A q \in R(i) : Ahead(d, q, u[i + 1])
      <4>1. ASSUME NEW t \in 1 .. i PROVE u[t] \in Plane /\ Ahead(d, u[t], u[i + 1])
        <5>1. t \in 1 .. n /\ t < i + 1
          BY <2>1
        <5>2. QED
          BY <1>1, <2>1, <5>1
      <4>2. QED
        BY <4>1
    <3>2. ChainOf(f[i], R(i), d)
      BY <1>4, <2>4
    <3> HIDE DEF R
    <3>3. ChainOf(Push(f[i], u[i + 1]), R(i) \cup {u[i + 1]}, d)
      BY <2>1, <3>1, <3>2, PushKeeps
    <3>4. QED
      BY <2>1, <2>2, <3>3
  <2>5. QED
    BY <2>3, <2>4
<1>5. \A i \in 0 .. n : i \in S
  <2> HIDE DEF S, n
  <2>1. QED
    BY <1>1, <1>3, <1>4, UpTo
<1>6. ChainOf(f[n], R(n), d)
  <2>1. n \in S /\ n # 0
    BY <1>1, <1>5
  <2>2. QED
    BY <2>1
<1>7. R(n) = Range(u)
  BY <1>1 DEF Range
<1>8. QED
  BY <1>2, <1>6, <1>7

-----------------------------------------------------------------------------
(* The hull.                                                               *)

\* The two chains are joined without their last points.
LEMMA FrontIs ==
  ASSUME NEW T, NEW v \in Seq(T), Len(v) > 0
  PROVE  /\ Front(v) \in Seq(T) /\ Len(Front(v)) = Len(v) - 1
         /\ \A i \in 1 .. Len(v) - 1 : Front(v)[i] = v[i]
<1> DEFINE n == Len(v)   k == n - 1
<1>1. n \in Nat /\ n > 0 /\ k \in Nat
  BY LenProperties
<1>2. Front(v) = SubSeq(v, 1, k)
  BY DEF Front
<1>3. \A i \in 1 .. k : v[i] \in T
  <2>1. \A i \in 1 .. n : v[i] \in T
    BY ElementOfSeq
  <2> HIDE DEF n
  <2>2. \A i \in 1 .. k : i \in 1 .. n
    BY <1>1
  <2>3. QED
    BY <2>1, <2>2
<1> HIDE DEF n
<1>4. /\ SubSeq(v, 1, k) \in Seq(T)
      /\ Len(SubSeq(v, 1, k)) = IF 1 <= k THEN k - 1 + 1 ELSE 0
      /\ \A i \in 1 .. k - 1 + 1 : SubSeq(v, 1, k)[i] = v[1 + i - 1]
  <2>1. 1 \in 1 .. n + 1 /\ k \in 1 - 1 .. n
    BY <1>1
  <2>2. QED
    BY <1>1, <1>3, <2>1, SubSeqProperties DEF n
<1> HIDE DEF k
<1>5. Len(SubSeq(v, 1, k)) = k /\ \A i \in 1 .. k : SubSeq(v, 1, k)[i] = v[i]
  BY <1>1, <1>4
<1>6. QED
  BY <1>2, <1>4, <1>5 DEF k, n

LEMMA ConcatIs ==
  ASSUME NEW T, NEW P \in Seq(T), NEW Q \in Seq(T)
  PROVE  /\ P \o Q \in Seq(T) /\ Len(P \o Q) = Len(P) + Len(Q)
         /\ \A i \in 1 .. Len(P) + Len(Q) :
               (P \o Q)[i] = IF i <= Len(P) THEN P[i] ELSE Q[i - Len(P)]
BY ConcatProperties

\* h is A without its last point and then B without its last point.
Joined(h, A, B, a, b, T) ==
    /\ h \in Seq(T) /\ Len(h) = a + b - 2 /\ a \in Nat /\ b \in Nat
    /\ \A i \in 1 .. Len(h) :
          \/ /\ i \in 1 .. a - 1 /\ h[i] = A[i] /\ h[After(i, h)] = A[i + 1]
             /\ h[Before(i, h)] = IF i = 1 THEN B[b - 1] ELSE A[i - 1]
          \/ \E j \in 1 .. b - 1 :
               /\ i = a - 1 + j /\ h[i] = B[j] /\ h[After(i, h)] = B[j + 1]
               /\ h[Before(i, h)] = IF j = 1 THEN A[a - 1] ELSE B[j - 1]

LEMMA NextBelow ==
  ASSUME NEW n \in Nat, NEW i \in 1 .. n - 1, i # n - 1
  PROVE  i + 1 \in 1 .. n - 1
OBVIOUS

\* What stands where in the joined chains.
LEMMA JoinIs ==
  ASSUME NEW T, NEW A \in Seq(T), NEW B \in Seq(T), NEW a, NEW b,
         a = Len(A), b = Len(B), a >= 2, b >= 2, A[a] = B[1], B[b] = A[1],
         NEW h, h = Front(A) \o Front(B)
  PROVE  Joined(h, A, B, a, b, T)
<1> DEFINE P == Front(A)   Q == Front(B)   n == Len(h)
<1>1. a \in Nat /\ b \in Nat
  BY LenProperties
<1>2. /\ P \in Seq(T) /\ Len(P) = a - 1 /\ \A i \in 1 .. a - 1 : P[i] = A[i]
      /\ Q \in Seq(T) /\ Len(Q) = b - 1 /\ \A i \in 1 .. b - 1 : Q[i] = B[i]
  <2>1. Len(A) > 0 /\ Len(B) > 0
    BY <1>1
  <2>2. P \in Seq(T) /\ Len(P) = a - 1 /\ \A i \in 1 .. a - 1 : P[i] = A[i]
    BY <2>1, FrontIs
  <2>3. Q \in Seq(T) /\ Len(Q) = b - 1 /\ \A i \in 1 .. b - 1 : Q[i] = B[i]
    BY <2>1, FrontIs
  <2>4. QED
    BY <2>2, <2>3
<1> HIDE DEF P, Q
<1>3. /\ h \in Seq(T) /\ n = a + b - 2
      /\ \A i \in 1 .. a - 1 : h[i] = A[i]
      /\ \A j \in 1 .. b - 1 : h[a - 1 + j] = B[j]
  <2>1. h = P \o Q
    BY DEF P, Q
  <2>2. /\ h \in Seq(T) /\ Len(h) = (a - 1) + (b - 1)
        /\ \A i \in 1 .. (a - 1) + (b - 1) :
              h[i] = IF i <= a - 1 THEN P[i] ELSE Q[i - (a - 1)]
    <3>1. /\ P \o Q \in Seq(T) /\ Len(P \o Q) = Len(P) + Len(Q)
          /\ \A i \in 1 .. Len(P) + Len(Q) :
                (P \o Q)[i] = IF i <= Len(P) THEN P[i] ELSE Q[i - Len(P)]
      <4>1. P \in Seq(T) /\ Q \in Seq(T)
        BY <1>2
      <4>2. QED
        BY <4>1, ConcatIs, Zenon
    <3>2. QED
      BY <1>2, <2>1, <3>1
  <2>3. ASSUME NEW i \in 1 .. a - 1 PROVE h[i] = A[i]
    <3>1. i \in 1 .. (a - 1) + (b - 1) /\ i <= a - 1
      BY <1>1
    <3>2. QED
      BY <1>2, <2>2, <3>1
  <2>4. ASSUME NEW j \in 1 .. b - 1 PROVE h[a - 1 + j] = B[j]
    <3> DEFINE i == a - 1 + j
    <3>1. i \in 1 .. (a - 1) + (b - 1) /\ ~ (i <= a - 1) /\ i - (a - 1) = j
      BY <1>1
    <3> HIDE DEF i
    <3>2. h[i] = Q[j]
      BY <2>2, <3>1
    <3>3. QED
      BY <1>2, <3>2 DEF i
  <2>5. n = a + b - 2
    BY <1>1, <2>2
  <2>6. QED
    BY <2>2, <2>3, <2>4, <2>5, Zenon
<1>4. ASSUME NEW i \in 1 .. n
      PROVE  /\ After(i, h) = IF i = n THEN 1 ELSE i + 1
             /\ Before(i, h) = IF i = 1 THEN n ELSE i - 1
  <2>1. n \in Nat
    BY <1>1, <1>3
  <2>2. CASE i = n
    <3>1. i % n = 0
      BY <2>1, <2>2
    <3>2. QED
      BY <2>2, <3>1 DEF After, Before
  <2>3. CASE i # n
    <3> HIDE DEF n
    <3>1. i \in Nat /\ i < n /\ n > 0
      BY <2>1, <2>3
    <3>2. i % n = i
      BY <2>1, <3>1
    <3>3. QED
      BY <2>3, <3>2 DEF After, Before, n
  <2>4. QED
    BY <2>2, <2>3
<1> HIDE DEF n
<1>5. ASSUME NEW i \in 1 .. a - 1
      PROVE  /\ i \in 1 .. n /\ h[After(i, h)] = A[i + 1]
             /\ h[Before(i, h)] = IF i = 1 THEN B[b - 1] ELSE A[i - 1]
  <2>1. i \in 1 .. n /\ i # n
    BY <1>1, <1>3
  <2>2. After(i, h) = i + 1 /\ Before(i, h) = IF i = 1 THEN n ELSE i - 1
    BY <1>4, <2>1
  <2>3. h[i + 1] = A[i + 1]
    <3>1. CASE i = a - 1
      <4>1. i + 1 = a /\ i + 1 = a - 1 + 1 /\ 1 \in 1 .. b - 1
        BY <1>1, <3>1
      <4>2. h[a - 1 + 1] = B[1]
        BY <1>3, <4>1
      <4>3. QED
        BY <4>1, <4>2
    <3>2. CASE i # a - 1
      <4>1. i + 1 \in 1 .. a - 1
        BY <1>1, <3>2, NextBelow
      <4>2. QED
        BY <1>3, <4>1
    <3>3. QED
      BY <3>1, <3>2
  <2>4. CASE i = 1
    <3>1. b - 1 \in 1 .. b - 1 /\ n = a - 1 + (b - 1)
      BY <1>1, <1>3
    <3>2. h[a - 1 + (b - 1)] = B[b - 1]
      BY <1>3, <3>1
    <3>3. QED
      BY <2>1, <2>2, <2>3, <2>4, <3>1, <3>2
  <2>5. CASE i # 1
    <3>1. i - 1 \in 1 .. a - 1
      BY <1>1, <2>5
    <3>2. QED
      BY <1>3, <2>1, <2>2, <2>3, <2>5, <3>1
  <2>6. QED
    BY <2>4, <2>5
<1>6. ASSUME NEW j \in 1 .. b - 1, NEW i, i = a - 1 + j
      PROVE  /\ i \in 1 .. n /\ h[After(i, h)] = B[j + 1]
             /\ h[Before(i, h)] = IF j = 1 THEN A[a - 1] ELSE B[j - 1]
  <2>1. i \in 1 .. n /\ i # 1
    BY <1>1, <1>3, <1>6
  <2>2. After(i, h) = (IF i = n THEN 1 ELSE i + 1) /\ Before(i, h) = i - 1
    BY <1>4, <2>1
  <2>3. h[After(i, h)] = B[j + 1]
    <3>1. CASE j = b - 1
      <4>1. i = n /\ j + 1 = b /\ 1 \in 1 .. a - 1
        BY <1>1, <1>3, <1>6, <3>1
      <4>2. h[1] = A[1]
        BY <1>3, <4>1
      <4>3. QED
        BY <2>2, <4>1, <4>2
    <3>2. CASE j # b - 1
      <4>1. j + 1 \in 1 .. b - 1 /\ i # n /\ i + 1 = a - 1 + (j + 1)
        BY <1>1, <1>3, <1>6, <3>2
      <4>2. h[a - 1 + (j + 1)] = B[j + 1]
        BY <1>3, <4>1
      <4>3. QED
        BY <2>2, <4>1, <4>2
    <3>3. QED
      BY <3>1, <3>2
  <2>4. CASE j = 1
    <3>1. a - 1 \in 1 .. a - 1 /\ i - 1 = a - 1
      BY <1>1, <1>6, <2>4
    <3>2. h[a - 1] = A[a - 1]
      BY <1>3, <3>1
    <3>3. QED
      BY <2>1, <2>2, <2>3, <2>4, <3>1, <3>2
  <2>5. CASE j # 1
    <3>1. j - 1 \in 1 .. b - 1 /\ i - 1 = a - 1 + (j - 1)
      BY <1>1, <1>6, <2>5
    <3>2. h[a - 1 + (j - 1)] = B[j - 1]
      BY <1>3, <3>1
    <3>3. QED
      BY <2>1, <2>2, <2>3, <2>5, <3>1, <3>2
  <2>6. QED
    BY <2>4, <2>5
<1>7. ASSUME NEW i \in 1 .. n
      PROVE  \/ /\ i \in 1 .. a - 1 /\ h[i] = A[i] /\ h[After(i, h)] = A[i + 1]
                /\ h[Before(i, h)] = IF i = 1 THEN B[b - 1] ELSE A[i - 1]
             \/ \E j \in 1 .. b - 1 :
                  /\ i = a - 1 + j /\ h[i] = B[j] /\ h[After(i, h)] = B[j + 1]
                  /\ h[Before(i, h)] = IF j = 1 THEN A[a - 1] ELSE B[j - 1]
  <2>1. CASE i \in 1 .. a - 1
    BY <1>3, <1>5, <2>1
  <2>2. CASE i \notin 1 .. a - 1
    <3> DEFINE j == i - (a - 1)
    <3>1. j \in 1 .. b - 1 /\ i = a - 1 + j
      BY <1>1, <1>3, <2>2
    <3> HIDE DEF j
    <3>2. h[i] = B[j]
      BY <1>3, <3>1
    <3>3. QED
      BY <1>6, <3>1, <3>2
  <2>3. QED
    BY <2>1, <2>2
<1>8. QED
  BY <1>1, <1>3, <1>7 DEF n, Joined

\* The points of a chain, each ahead of the one before.
LEMMA ChainFacts ==
  ASSUME NEW s \in SUBSET Plane, NEW d \in {1, -1}, NEW v, ChainOf(v, s, d)
  PROVE  /\ Len(v) \in Nat /\ \A i \in 1 .. Len(v) : v[i] \in s /\ v[i] \in Plane
         /\ \A i \in 1 .. Len(v) - 1 : /\ i \in 1 .. Len(v) /\ i + 1 \in 1 .. Len(v)
                                       /\ Ahead(d, v[i], v[i + 1])
<1>1. v \in Seq(s) /\ Len(v) > 0 /\ \A i, k \in 1 .. Len(v) : i < k => Ahead(d, v[i], v[k])
  BY DEF ChainOf
<1>2. Len(v) \in Nat /\ \A i \in 1 .. Len(v) : v[i] \in s
  BY <1>1, LenProperties, ElementOfSeq
<1>3. ASSUME NEW i \in 1 .. Len(v) - 1
      PROVE  i \in 1 .. Len(v) /\ i + 1 \in 1 .. Len(v) /\ Ahead(d, v[i], v[i + 1])
  <2>1. i \in 1 .. Len(v) /\ i + 1 \in 1 .. Len(v) /\ i < i + 1
    BY <1>2
  <2>2. QED
    BY <1>1, <2>1
<1>4. QED
  BY <1>2, <1>3

\* Where two chains meet they turn, unless each is a single edge.
LEMMA Junction ==
  ASSUME NEW s \in SUBSET Plane, NEW d \in {1, -1}, NEW A, NEW B,
         ChainOf(A, s, d), ChainOf(B, s, 0 - d), NEW a, NEW b, a = Len(A), b = Len(B),
         a >= 2, b >= 2, A[1] = B[b],
         ~ Cross(B[b - 1], A[1], A[2]) > 0
  PROVE  a = 2 /\ b = 2
<1> DEFINE m == A[1]   e == A[2]   g == B[b - 1]
<1>0. a \in Nat /\ b \in Nat /\ 0 - d \in {1, -1}
  BY ChainFacts
<1>1. /\ m \in s /\ m \in Plane /\ e \in s /\ e \in Plane /\ g \in s /\ g \in Plane
      /\ Ahead(d, m, e) /\ Ahead(d, m, g)
  <2>1. 1 \in 1 .. a - 1 /\ b - 1 \in 1 .. b - 1 /\ (b - 1) + 1 = b
    BY <1>0
  <2>2. /\ A[1] \in s /\ A[2] \in s /\ Ahead(d, A[1], A[2])
    <3>1. 1 \in 1 .. a /\ 1 + 1 \in 1 .. a /\ Ahead(d, A[1], A[1 + 1])
      BY <2>1, ChainFacts
    <3>2. QED
      BY <3>1, ChainFacts
  <2>3. B[b - 1] \in s /\ B[b] \in s /\ Ahead(0 - d, B[b - 1], B[b])
    BY <1>0, <2>1, ChainFacts
  <2>4. QED
    BY <2>2, <2>3, AheadOrder
<1>2. \A q \in s : /\ Cross(m, e, q) >= 0 /\ Cross(g, m, q) >= 0
                   /\ q = m \/ Ahead(d, m, q)
  <2>1. 1 \in 1 .. a - 1 /\ b - 1 \in 1 .. b - 1 /\ (b - 1) + 1 = b /\ 1 + 1 = 2
    BY <1>0
  <2>2. \A q \in s : Cross(A[1], A[1 + 1], q) >= 0 /\ (q = A[1] \/ Ahead(d, A[1], q))
    BY <2>1 DEF ChainOf
  <2>3. \A q \in s : Cross(B[b - 1], B[(b - 1) + 1], q) >= 0
    BY <2>1 DEF ChainOf
  <2>4. QED
    BY <2>1, <2>2, <2>3
<1>a. ~ Cross(g, m, e) > 0
  OBVIOUS
<1>b. /\ a > 2 => Cross(m, e, A[3]) > 0 /\ A[3] \in s
      /\ b > 2 => Cross(B[b - 2], g, m) > 0 /\ B[b - 2] \in s
  <2>1. ASSUME a > 2 PROVE Cross(m, e, A[3]) > 0 /\ A[3] \in s
    <3>1. 1 \in 1 .. a - 2 /\ 1 + 1 = 2 /\ 1 + 2 = 3 /\ 3 \in 1 .. a
      BY <1>0, <2>1
    <3>2. Cross(A[1], A[1 + 1], A[1 + 2]) > 0
      BY <3>1 DEF ChainOf
    <3>3. QED
      BY <3>1, <3>2, ChainFacts
  <2>2. ASSUME b > 2 PROVE Cross(B[b - 2], g, m) > 0 /\ B[b - 2] \in s
    <3>1. b - 2 \in 1 .. b - 2 /\ (b - 2) + 1 = b - 1 /\ (b - 2) + 2 = b /\ b - 2 \in 1 .. b
      BY <1>0, <2>2
    <3>2. Cross(B[b - 2], B[(b - 2) + 1], B[(b - 2) + 2]) > 0
      BY <3>1 DEF ChainOf
    <3>3. QED
      BY <1>0, <3>1, <3>2, ChainFacts
  <2>3. QED
    BY <2>1, <2>2
<1> HIDE DEF m, e, g
<1>3. Cross(m, e, g) = 0
  <2>1. Cross(g, m, e) >= 0 /\ Cross(g, m, e) \in Int /\ Cross(m, e, g) = Cross(g, m, e)
    BY <1>1, <1>2, CrossRotates
  <2>2. QED
    BY <1>a, <2>1
<1>4. ASSUME NEW q \in s PROVE Cross(m, e, q) = 0 /\ Cross(g, m, q) = 0
  <2>0. q \in Plane
    OBVIOUS
  <2>1. CASE q = m
    BY <1>1, <2>1, CrossRotates
  <2>2. CASE q # m
    <3>1. Ahead(d, m, q) /\ Cross(m, e, q) >= 0
      BY <1>2, <2>2
    <3>2. Cross(m, q, g) = Cross(g, m, q) /\ Cross(g, m, q) \in Int /\ Cross(m, e, q) \in Int
      BY <1>1, <2>0, CrossRotates
    <3>3. Cross(m, q, g) >= 0
      BY <1>2, <3>2
    <3>4. Cross(m, e, q) > 0 \/ Cross(m, q, g) > 0 => Cross(m, e, g) > 0
      BY <1>1, <2>0, <3>1, <3>3, TurnFan
    <3>5. QED
      BY <1>3, <3>1, <3>2, <3>3, <3>4
  <2>3. QED
    BY <2>1, <2>2
<1>5. ~ a > 2
  BY <1>4, <1>b
<1>6. ~ b > 2
  <2>1. ASSUME b > 2 PROVE FALSE
    <3>1. B[b - 2] \in Plane /\ B[b - 2] \in s /\ Cross(B[b - 2], g, m) > 0
      BY <1>b, <2>1
    <3>2. Cross(g, m, B[b - 2]) = Cross(B[b - 2], g, m)
      BY <1>1, <3>1, CrossRotates
    <3>3. QED
      BY <1>4, <3>1, <3>2
  <2>2. QED
    BY <2>1
<1>7. QED
  BY <1>0, <1>5, <1>6

\* Between their ends the chains have no point in common.
LEMMA ChainsApart ==
  ASSUME NEW s \in SUBSET Plane, NEW A, NEW B, ChainOf(A, s, 1), ChainOf(B, s, -1),
         NEW i \in 2 .. Len(A) - 1, NEW j \in 2 .. Len(B) - 1
  PROVE  A[i] # B[j]
<1>1. SUFFICES ASSUME A[i] = B[j] PROVE FALSE
  OBVIOUS
<1> DEFINE o == A[i - 1]   x == A[i]   p == B[j - 1]   q == B[j + 1]
<1>2. Len(A) \in Nat /\ Len(B) \in Nat
  BY ChainFacts
<1>3. /\ i - 1 \in 1 .. Len(A) - 1 /\ (i - 1) + 1 = i
      /\ j - 1 \in 1 .. Len(B) - 1 /\ (j - 1) + 1 = j /\ j \in 1 .. Len(B) - 1
      /\ j - 1 \in 1 .. Len(B) - 2 /\ (j - 1) + 2 = j + 1
  BY <1>2
<1>4. o \in Plane /\ x \in Plane /\ Ahead(1, o, x)
  BY <1>3, ChainFacts
<1>5. /\ p \in Plane /\ q \in Plane /\ p \in s /\ q \in s /\ Ahead(-1, p, x) /\ Ahead(-1, x, q)
  BY <1>1, <1>3, ChainFacts
<1>6. Ahead(1, x, p) /\ Ahead(1, q, x)
  BY <1>5 DEF Ahead
<1>7. Cross(o, x, p) >= 0 /\ Cross(o, x, q) >= 0
  BY <1>3, <1>5 DEF ChainOf
<1>8. Cross(p, x, q) > 0
  <2>1. Cross(B[j - 1], B[(j - 1) + 1], B[(j - 1) + 2]) > 0
    BY <1>3 DEF ChainOf
  <2>2. QED
    BY <1>1, <1>3, <2>1
<1> HIDE DEF o, x, p, q
<1>9. Cross(x, p, q) >= 0
  BY <1>4, <1>5, <1>6, <1>7, TurnBack
<1>10. Cross(x, p, q) = 0 - Cross(p, x, q) /\ Cross(p, x, q) \in Int
  BY <1>4, <1>5, CrossRotates
<1>11. QED
  BY <1>8, <1>9, <1>10

\* h goes around s, whose points are all to its left, and turns at each of its own.
RingOf(h, s) ==
    /\ h \in Seq(s) /\ Len(h) >= 2
    /\ \A i \in 1 .. Len(h), q \in s : Edge(h, i, q) >= 0
    /\ \A i, j \in 1 .. Len(h) : h[i] = h[j] => i = j
    /\ Len(h) >= 3 =>
          \A i \in 1 .. Len(h) : Cross(h[Before(i, h)], h[i], h[After(i, h)]) > 0
    /\ \A q \in s : q = h[1] \/ Lex(h[1], q)
    /\ Len(h) = 2 => \A q \in s : q = h[2] \/ Lex(q, h[2])

\* A chain has no point twice.
LEMMA ChainInjective ==
  ASSUME NEW s \in SUBSET Plane, NEW d \in {1, -1}, NEW v, ChainOf(v, s, d),
         NEW i \in 1 .. Len(v), NEW j \in 1 .. Len(v), v[i] = v[j]
  PROVE  i = j
<1>1. Len(v) \in Nat /\ v[i] \in Plane /\ v[j] \in Plane
  BY ChainFacts
<1>2. i < j => Ahead(d, v[i], v[j])
  BY DEF ChainOf
<1>3. j < i => Ahead(d, v[j], v[i])
  BY DEF ChainOf
<1>4. ~ Ahead(d, v[i], v[i])
  BY <1>1, AheadOrder
<1>5. ~ (i < j) /\ ~ (j < i)
  BY <1>2, <1>3, <1>4
<1>6. QED
  BY <1>5

\* The lower and the upper chain close to a ring.
LEMMA RingFromChains ==
  ASSUME NEW s \in SUBSET Plane, NEW A, NEW B, ChainOf(A, s, 1), ChainOf(B, s, -1),
         NEW a, NEW b, a = Len(A), b = Len(B), a >= 2, b >= 2,
         A[1] = B[b], A[a] = B[1], NEW h, h = Front(A) \o Front(B)
  PROVE  RingOf(h, s)
<1>1. A \in Seq(s) /\ B \in Seq(s)
  BY DEF ChainOf
<1>2. /\ h \in Seq(s) /\ Len(h) = a + b - 2 /\ a \in Nat /\ b \in Nat
      /\ \A i \in 1 .. Len(h) :
            \/ /\ i \in 1 .. a - 1 /\ h[i] = A[i] /\ h[After(i, h)] = A[i + 1]
               /\ h[Before(i, h)] = IF i = 1 THEN B[b - 1] ELSE A[i - 1]
            \/ \E j \in 1 .. b - 1 :
                 /\ i = a - 1 + j /\ h[i] = B[j] /\ h[After(i, h)] = B[j + 1]
                 /\ h[Before(i, h)] = IF j = 1 THEN A[a - 1] ELSE B[j - 1]
  <2>1. Joined(h, A, B, a, b, s)
    BY <1>1, JoinIs
  <2>2. QED
    BY <2>1 DEF Joined
<1> DEFINE n == Len(h)
           InA(i) == /\ i \in 1 .. a - 1 /\ h[i] = A[i] /\ h[After(i, h)] = A[i + 1]
                     /\ h[Before(i, h)] = IF i = 1 THEN B[b - 1] ELSE A[i - 1]
           InB(i, j) == /\ i = a - 1 + j /\ h[i] = B[j] /\ h[After(i, h)] = B[j + 1]
                        /\ h[Before(i, h)] = IF j = 1 THEN A[a - 1] ELSE B[j - 1]
<1>3. /\ h \in Seq(s) /\ n = a + b - 2 /\ a \in Nat /\ b \in Nat
      /\ \A i \in 1 .. n : InA(i) \/ \E j \in 1 .. b - 1 : InB(i, j)
  BY <1>2
<1> HIDE DEF n, InA, InB
<1>4. ASSUME NEW i \in 1 .. n, NEW q \in s PROVE Edge(h, i, q) >= 0
  <2>1. CASE InA(i)
    <3>1. Cross(A[i], A[i + 1], q) >= 0
      <4>1. i \in 1 .. Len(A) - 1
        BY <2>1 DEF InA
      <4>2. QED
        BY <4>1 DEF ChainOf
    <3>2. QED
      BY <2>1, <3>1 DEF InA, Edge
  <2>2. ASSUME NEW j \in 1 .. b - 1, InB(i, j) PROVE Edge(h, i, q) >= 0
    <3>1. Cross(B[j], B[j + 1], q) >= 0
      <4>1. j \in 1 .. Len(B) - 1
        BY <2>2
      <4>2. QED
        BY <4>1 DEF ChainOf
    <3>2. QED
      BY <2>2, <3>1 DEF InB, Edge
  <2>3. QED
    BY <1>3, <2>1, <2>2
<1>5. ASSUME NEW i \in 1 .. a - 1, NEW j \in 1 .. b - 1 PROVE A[i] # B[j]
  <2>1. ASSUME A[i] = B[j] PROVE FALSE
    <3>0. /\ i \in 1 .. Len(A) /\ j \in 1 .. Len(B) /\ a \in 1 .. Len(A) /\ b \in 1 .. Len(B)
          /\ i # a /\ j # b
      BY <1>3
    <3>1. CASE i = 1
      <4>1. B[j] = B[b]
        BY <2>1, <3>1
      <4>2. j = b
        BY <3>0, <4>1, ChainInjective
      <4>3. QED
        BY <3>0, <4>2
    <3>2. CASE j = 1
      <4>1. A[i] = A[a]
        BY <2>1, <3>2
      <4>2. i = a
        BY <3>0, <4>1, ChainInjective
      <4>3. QED
        BY <3>0, <4>2
    <3>3. CASE i # 1 /\ j # 1
      <4>1. i \in 2 .. Len(A) - 1 /\ j \in 2 .. Len(B) - 1
        BY <1>3, <3>3
      <4>2. QED
        BY <2>1, <4>1, ChainsApart
    <3>4. QED
      BY <3>1, <3>2, <3>3
  <2>2. QED
    BY <2>1
<1>6. ASSUME NEW i \in 1 .. n, NEW l \in 1 .. n, h[i] = h[l] PROVE i = l
  <2>1. CASE InA(i) /\ InA(l)
    <3>1. /\ i \in 1 .. Len(A) /\ l \in 1 .. Len(A) /\ A[i] = A[l]
      <4>1. i \in 1 .. a - 1 /\ l \in 1 .. a - 1 /\ A[i] = A[l]
        BY <1>6, <2>1 DEF InA
      <4>2. QED
        BY <1>3, <4>1
    <3>2. QED
      BY <3>1, ChainInjective
  <2>2. ASSUME NEW j \in 1 .. b - 1, InA(i), InB(l, j) PROVE FALSE
    BY <1>5, <1>6, <2>2 DEF InA, InB
  <2>3. ASSUME NEW j \in 1 .. b - 1, InB(i, j), InA(l) PROVE FALSE
    BY <1>5, <1>6, <2>3 DEF InA, InB
  <2>4. ASSUME NEW j \in 1 .. b - 1, NEW k \in 1 .. b - 1, InB(i, j), InB(l, k) PROVE i = l
    <3>1. j \in 1 .. Len(B) /\ k \in 1 .. Len(B) /\ B[j] = B[k]
      <4>1. B[j] = B[k]
        BY <1>6, <2>4 DEF InB
      <4>2. QED
        BY <1>3, <4>1
    <3>2. j = k
      BY <3>1, ChainInjective
    <3>3. QED
      BY <2>4, <3>2 DEF InB
  <2>5. QED
    BY <1>3, <2>1, <2>2, <2>3, <2>4
<1>7. ASSUME n >= 3, NEW i \in 1 .. n PROVE Cross(h[Before(i, h)], h[i], h[After(i, h)]) > 0
  <2>0. ~ (a = 2 /\ b = 2)
    BY <1>3, <1>7
  <2>1. CASE InA(i) /\ i = 1
    <3>1. h[Before(i, h)] = B[b - 1] /\ h[i] = A[1] /\ h[After(i, h)] = A[1 + 1] /\ 1 + 1 = 2
      BY <2>1 DEF InA
    <3>2. -1 = 0 - 1 /\ 1 \in {1, -1}
      OBVIOUS
    <3>3. Cross(B[b - 1], A[1], A[2]) > 0
      <4>1. ChainOf(A, s, 1) /\ ChainOf(B, s, 0 - 1)
        BY <3>2, Zenon
      <4>2. QED
        BY <2>0, <3>2, <4>1, Junction, Zenon
    <3>4. QED
      BY <3>1, <3>3
  <2>2. CASE InA(i) /\ i # 1
    <3>1. h[Before(i, h)] = A[i - 1] /\ h[i] = A[i] /\ h[After(i, h)] = A[i + 1]
          /\ i \in 1 .. a - 1
      BY <2>2 DEF InA
    <3>2. i - 1 \in 1 .. Len(A) - 2 /\ (i - 1) + 1 = i /\ (i - 1) + 2 = i + 1
      BY <1>3, <2>2, <3>1
    <3>3. Cross(A[i - 1], A[(i - 1) + 1], A[(i - 1) + 2]) > 0
      BY <3>2 DEF ChainOf
    <3>4. QED
      BY <3>1, <3>2, <3>3
  <2>3. ASSUME NEW j \in 1 .. b - 1, InB(i, j), j = 1
        PROVE Cross(h[Before(i, h)], h[i], h[After(i, h)]) > 0
    <3>1. h[Before(i, h)] = A[a - 1] /\ h[i] = B[1] /\ h[After(i, h)] = B[1 + 1] /\ 1 + 1 = 2
      BY <2>3 DEF InB
    <3>2. 1 = 0 - (-1) /\ -1 \in {1, -1}
      OBVIOUS
    <3>3. Cross(A[a - 1], B[1], B[2]) > 0
      <4>1. ChainOf(B, s, -1) /\ ChainOf(A, s, 0 - (-1))
        BY <3>2, Zenon
      <4>2. QED
        BY <2>0, <3>2, <4>1, Junction, Zenon
    <3>4. QED
      BY <3>1, <3>3
  <2>4. ASSUME NEW j \in 1 .. b - 1, InB(i, j), j # 1
        PROVE Cross(h[Before(i, h)], h[i], h[After(i, h)]) > 0
    <3>1. h[Before(i, h)] = B[j - 1] /\ h[i] = B[j] /\ h[After(i, h)] = B[j + 1]
      BY <2>4 DEF InB
    <3>2. j - 1 \in 1 .. Len(B) - 2 /\ (j - 1) + 1 = j /\ (j - 1) + 2 = j + 1
      BY <1>3, <2>4
    <3>3. Cross(B[j - 1], B[(j - 1) + 1], B[(j - 1) + 2]) > 0
      BY <3>2 DEF ChainOf
    <3>4. QED
      BY <3>1, <3>2, <3>3
  <2>5. QED
    BY <1>3, <2>1, <2>2, <2>3, <2>4
<1>8. h[1] = A[1]
  <2>1. 1 \in 1 .. n
    BY <1>3
  <2>2. CASE InA(1)
    BY <2>2 DEF InA
  <2>3. ASSUME NEW j \in 1 .. b - 1, InB(1, j) PROVE FALSE
    BY <1>3, <2>3 DEF InB
  <2>4. QED
    BY <1>3, <2>1, <2>2, <2>3
<1>9. \A q \in s : q = h[1] \/ Lex(h[1], q)
  <2>1. \A q \in s : q = A[1] \/ Ahead(1, A[1], q)
    BY DEF ChainOf
  <2>2. QED
    BY <1>8, <2>1 DEF Ahead
<1>10. ASSUME n = 2 PROVE \A q \in s : q = h[2] \/ Lex(q, h[2])
  <2>1. 2 \in 1 .. n /\ a = 2 /\ b = 2
    BY <1>3, <1>10
  <2>2. h[2] = B[1]
    <3>1. CASE InA(2)
      BY <2>1, <3>1 DEF InA
    <3>2. ASSUME NEW j \in 1 .. b - 1, InB(2, j) PROVE h[2] = B[1]
      BY <2>1, <3>2 DEF InB
    <3>3. QED
      BY <1>3, <2>1, <3>1, <3>2
  <2>3. \A q \in s : q = A[a] \/ Ahead(1, q, A[a])
    BY DEF ChainOf
  <2>4. QED
    BY <2>2, <2>3 DEF Ahead
<1>11. n >= 2
  BY <1>3
<1>12. QED
  BY <1>3, <1>4, <1>6, <1>7, <1>9, <1>10, <1>11 DEF RingOf, n

\* A sequence from its end.
LEMMA ReverseIs ==
  ASSUME NEW T, NEW v \in Seq(T)
  PROVE  /\ Reverse(v) \in Seq(T) /\ Len(Reverse(v)) = Len(v) /\ Len(v) \in Nat
         /\ \A i \in 1 .. Len(v) : /\ Reverse(v)[i] = v[Len(v) - i + 1]
                                   /\ Len(v) - i + 1 \in 1 .. Len(v)
         /\ Range(Reverse(v)) = Range(v)
<1> DEFINE n == Len(v)   r == Reverse(v)
<1>1. n \in Nat /\ DOMAIN v = 1 .. n /\ \A i \in 1 .. n : v[i] \in T
  BY LenProperties, ElementOfSeq
<1>2. r = [i \in 1 .. n |-> v[n - i + 1]]
  BY DEF Reverse
<1> HIDE DEF n, r
<1>3. \A i \in 1 .. n : n - i + 1 \in 1 .. n /\ r[i] = v[n - i + 1]
  BY <1>1, <1>2
<1>4. r \in [1 .. n -> T]
  BY <1>1, <1>2, <1>3
<1>5. r \in Seq(T) /\ Len(r) = n /\ DOMAIN r = 1 .. n
  BY <1>1, <1>4, IsASeq, LenProperties
<1>6. Range(r) = Range(v)
  <2>1. ASSUME NEW x \in Range(r) PROVE x \in Range(v)
    BY <1>1, <1>3, <1>5, <2>1 DEF Range
  <2>2. ASSUME NEW x \in Range(v) PROVE x \in Range(r)
    <3>1. PICK i \in 1 .. n : x = v[i]
      BY <1>1, <2>2 DEF Range
    <3>2. n - i + 1 \in 1 .. n /\ n - (n - i + 1) + 1 = i
      BY <1>1
    <3>3. r[n - i + 1] = v[i]
      BY <1>3, <3>2
    <3>4. QED
      BY <1>5, <3>1, <3>2, <3>3 DEF Range
  <2>3. QED
    BY <2>1, <2>2
<1>7. QED
  BY <1>1, <1>3, <1>5, <1>6 DEF n, r

\* The monotone chain of three points or more is a convex ring around them.
LEMMA HullIsRing ==
  ASSUME NEW s \in SUBSET Plane, IsFiniteSet(s), Cardinality(s) > 2
  PROVE  RingOf(ConvexHull(s), s)
<1> DEFINE u == Sorted(s)   n == Cardinality(s)
           r == Reverse(u)
           A == Chain(u)    B == Chain(r)
           a == Len(A)      b == Len(B)
<1>1. /\ n \in Nat /\ n > 2 /\ u \in Seq(s) /\ Len(u) = n
      /\ DOMAIN u = 1 .. n
      /\ \A q \in s : \E i \in 1 .. n : u[i] = q
      /\ \A i \in 1 .. n : u[i] \in s
      /\ \A i, j \in 1 .. n : i < j => Lex(u[i], u[j])
  BY SortedIs
<1>2. ConvexHull(s) = Front(A) \o Front(B)
  BY <1>1 DEF ConvexHull
<1> HIDE DEF u, n
<1>3. u \in Seq(Plane) /\ Range(u) = s
  <2>1. s \subseteq Plane
    OBVIOUS
  <2>2. u \in Seq(Plane)
    BY <1>1, <2>1, SeqMonotonic
  <2>3. QED
    BY <1>1, <2>2 DEF Range
<1>4. /\ r \in Seq(Plane) /\ Len(r) = n /\ Range(r) = s
      /\ \A i \in 1 .. n : r[i] = u[n - i + 1] /\ n - i + 1 \in 1 .. n
  BY <1>1, <1>3, ReverseIs
<1> HIDE DEF r
<1>5. ChainOf(A, s, 1)
  <2>1. \A i, j \in 1 .. Len(u) : i < j => Ahead(1, u[i], u[j])
    BY <1>1 DEF Ahead
  <2>2. QED
    BY <1>1, <1>3, <2>1, ChainIsChain
<1>6. ChainOf(B, s, -1)
  <2>1. ASSUME NEW i \in 1 .. Len(r), NEW j \in 1 .. Len(r), i < j
        PROVE  Ahead(-1, r[i], r[j])
    <3>1. i \in 1 .. n /\ j \in 1 .. n
      BY <1>4
    <3>2. n - i + 1 \in 1 .. n /\ n - j + 1 \in 1 .. n
      BY <1>4, <3>1
    <3>3. n - j + 1 < n - i + 1
      BY <1>1, <2>1, <3>1
    <3>4. Lex(u[n - j + 1], u[n - i + 1])
      BY <1>1, <3>2, <3>3
    <3>5. r[i] = u[n - i + 1] /\ r[j] = u[n - j + 1]
      BY <1>4, <3>1
    <3>6. QED
      BY <3>4, <3>5 DEF Ahead
  <2>2. -1 \in {1, -1} /\ Len(r) > 0
    BY <1>1, <1>4
  <2>3. ChainOf(Chain(r), Range(r), -1)
    BY <1>4, <2>1, <2>2, ChainIsChain
  <2>4. QED
    BY <1>4, <2>3
<1> HIDE DEF A, B
<1>7. /\ a \in Nat /\ a > 0 /\ b \in Nat /\ b > 0
      /\ A[1] \in s /\ A[a] \in s /\ B[1] \in s /\ B[b] \in s
  <2>1. Len(A) > 0 /\ Len(B) > 0
    BY <1>5, <1>6 DEF ChainOf
  <2>2. a \in Nat /\ \A i \in 1 .. a : A[i] \in s
    BY <1>5, ChainFacts
  <2>3. b \in Nat /\ \A i \in 1 .. b : B[i] \in s
    BY <1>6, ChainFacts
  <2>4. QED
    BY <2>1, <2>2, <2>3
<1>8. /\ \A q \in s : q = A[1] \/ Lex(A[1], q)
      /\ \A q \in s : q = A[a] \/ Lex(q, A[a])
      /\ \A q \in s : q = B[1] \/ Lex(q, B[1])
      /\ \A q \in s : q = B[b] \/ Lex(B[b], q)
  BY <1>5, <1>6 DEF ChainOf, Ahead
<1> HIDE DEF a, b
<1>9. A[1] = B[b] /\ A[a] = B[1]
  <2>1. A[1] \in Plane /\ A[a] \in Plane /\ B[1] \in Plane /\ B[b] \in Plane
    BY <1>7
  <2>2. QED
    BY <1>7, <1>8, <2>1, LexOrder
<1>10. A[1] # A[a]
  <2>1. /\ u[1] \in s /\ u[2] \in s /\ Lex(u[1], u[2])
    BY <1>1
  <2>2. u[1] \in Plane /\ u[2] \in Plane /\ A[1] \in Plane
    BY <1>7, <2>1
  <2>3. u[1] # u[2]
    BY <2>1, <2>2, LexOrder
  <2>4. ASSUME A[1] = A[a], NEW q \in s PROVE q = A[1]
    <3>1. q \in Plane
      OBVIOUS
    <3>2. QED
      BY <1>8, <2>2, <2>4, <3>1, LexOrder
  <2>5. QED
    BY <2>1, <2>3, <2>4
<1>11. a >= 2 /\ b >= 2
  BY <1>7, <1>9, <1>10
<1>12. QED
  BY <1>2, <1>5, <1>6, <1>9, <1>11, RingFromChains DEF a, b

-----------------------------------------------------------------------------
(* The corners of a set of points.                                         *)

\* A positive combination of vectors that lie ahead is not zero.
LEMMA LexCombination ==
  ASSUME NEW x \in Nat, NEW y \in Nat, NEW z \in Nat, x > 0 \/ y > 0 \/ z > 0,
         NEW u1 \in Int, NEW u2 \in Int, NEW v1 \in Int, NEW v2 \in Int,
         NEW w1 \in Int, NEW w2 \in Int,
         u1 > 0 \/ (u1 = 0 /\ u2 > 0), v1 > 0 \/ (v1 = 0 /\ v2 > 0),
         w1 > 0 \/ (w1 = 0 /\ w2 > 0),
         x * u1 + y * v1 + z * w1 = 0, x * u2 + y * v2 + z * w2 = 0
  PROVE  FALSE
<1>1. /\ x * u1 \in Int /\ y * v1 \in Int /\ z * w1 \in Int
      /\ x * u2 \in Int /\ y * v2 \in Int /\ z * w2 \in Int
  BY ProductSign
<1>2. x * u1 >= 0 /\ y * v1 >= 0 /\ z * w1 >= 0
  BY ProductSign
<1>3. x * u1 = 0 /\ y * v1 = 0 /\ z * w1 = 0
  BY <1>1, <1>2
<1>4. (x = 0 \/ u1 = 0) /\ (y = 0 \/ v1 = 0) /\ (z = 0 \/ w1 = 0)
  BY <1>3, ProductSign
<1>5. x * u2 >= 0 /\ y * v2 >= 0 /\ z * w2 >= 0
  BY <1>4, ProductSign
<1>6. x * u2 > 0 \/ y * v2 > 0 \/ z * w2 > 0
  BY <1>4, ProductSign
<1>7. QED
  BY <1>1, <1>5, <1>6

\* The first and the last point of a set are corners.
LEMMA EndIsCorner ==
  ASSUME NEW s \in SUBSET Plane, NEW d \in {1, -1}, NEW p \in s,
         \A q \in s : q = p \/ Ahead(d, p, q)
  PROVE  p \in Corners(s)
<1>1. SUFFICES ASSUME InConvexHull(p, s \ {p}) PROVE FALSE
  BY DEF Corners
<1>2. PICK a \in s \ {p}, b \in s \ {p}, c \in s \ {p} : InTriangle(a, b, c, p)
  BY <1>1 DEF InConvexHull
<1>3. a \in Plane /\ b \in Plane /\ c \in Plane /\ p \in Plane
  OBVIOUS
<1>4. PICK x \in Nat, y \in Nat, z \in Nat :
         /\ x > 0 \/ y > 0 \/ z > 0
         /\ \A k \in 1 .. 2 :
               x * (a[k] - p[k]) + y * (b[k] - p[k]) + z * (c[k] - p[k]) = 0
  BY <1>2, <1>3, TriangleWeights
<1>5. /\ x * (a[1] - p[1]) + y * (b[1] - p[1]) + z * (c[1] - p[1]) = 0
      /\ x * (a[2] - p[2]) + y * (b[2] - p[2]) + z * (c[2] - p[2]) = 0
  BY <1>4
<1>6. Ahead(d, p, a) /\ Ahead(d, p, b) /\ Ahead(d, p, c)
  OBVIOUS
<1>7. /\ a[1] \in Int /\ a[2] \in Int /\ b[1] \in Int /\ b[2] \in Int
      /\ c[1] \in Int /\ c[2] \in Int /\ p[1] \in Int /\ p[2] \in Int
  BY <1>3, PlaneInts
<1>8. CASE d = 1
  <2> DEFINE u1 == a[1] - p[1]   u2 == a[2] - p[2]
             v1 == b[1] - p[1]   v2 == b[2] - p[2]
             w1 == c[1] - p[1]   w2 == c[2] - p[2]
  <2>1. /\ u1 > 0 \/ (u1 = 0 /\ u2 > 0)
        /\ v1 > 0 \/ (v1 = 0 /\ v2 > 0)
        /\ w1 > 0 \/ (w1 = 0 /\ w2 > 0)
    BY <1>3, <1>6, <1>8, AheadVector
  <2>2. /\ u1 \in Int /\ u2 \in Int /\ v1 \in Int /\ v2 \in Int /\ w1 \in Int /\ w2 \in Int
        /\ x * u1 + y * v1 + z * w1 = 0 /\ x * u2 + y * v2 + z * w2 = 0
    BY <1>5, <1>7
  <2> HIDE DEF u1, u2, v1, v2, w1, w2
  <2>3. QED
    BY <1>4, <2>1, <2>2, LexCombination
<1>9. CASE d = -1
  <2> DEFINE u1 == p[1] - a[1]   u2 == p[2] - a[2]
             v1 == p[1] - b[1]   v2 == p[2] - b[2]
             w1 == p[1] - c[1]   w2 == p[2] - c[2]
  <2>1. /\ u1 > 0 \/ (u1 = 0 /\ u2 > 0)
        /\ v1 > 0 \/ (v1 = 0 /\ v2 > 0)
        /\ w1 > 0 \/ (w1 = 0 /\ w2 > 0)
    BY <1>3, <1>6, <1>9, AheadVector
  <2>2. /\ u1 \in Int /\ u2 \in Int /\ v1 \in Int /\ v2 \in Int /\ w1 \in Int /\ w2 \in Int
        /\ a[1] - p[1] = 0 - u1 /\ a[2] - p[2] = 0 - u2
        /\ b[1] - p[1] = 0 - v1 /\ b[2] - p[2] = 0 - v2
        /\ c[1] - p[1] = 0 - w1 /\ c[2] - p[2] = 0 - w2
    BY <1>7
  <2> HIDE DEF u1, u2, v1, v2, w1, w2
  <2>3. x * u1 + y * v1 + z * w1 = 0
    <3>1. x * (0 - u1) + y * (0 - v1) + z * (0 - w1) = 0
      BY <1>5, <2>2
    <3>2. x * (0 - u1) + y * (0 - v1) + z * (0 - w1) = 0 - (x * u1 + y * v1 + z * w1)
      BY <2>2
    <3>3. QED
      BY <2>2, <3>1, <3>2
  <2>4. x * u2 + y * v2 + z * w2 = 0
    <3>1. x * (0 - u2) + y * (0 - v2) + z * (0 - w2) = 0
      BY <1>5, <2>2
    <3>2. x * (0 - u2) + y * (0 - v2) + z * (0 - w2) = 0 - (x * u2 + y * v2 + z * w2)
      BY <2>2
    <3>3. QED
      BY <2>2, <3>1, <3>2
  <2>5. /\ u1 \in Int /\ u2 \in Int /\ v1 \in Int /\ v2 \in Int /\ w1 \in Int /\ w2 \in Int
        /\ x \in Nat /\ y \in Nat /\ z \in Nat /\ (x > 0 \/ y > 0 \/ z > 0)
    BY <1>4, <2>2
  <2> HIDE <2>2
  <2>6. QED
    BY <2>1, <2>3, <2>4, <2>5, LexCombination
<1>10. QED
  BY <1>8, <1>9

\* What is on two lines that cross at x is x.
LEMMA LinesMeetOnce ==
  ASSUME NEW y \in Plane, NEW x \in Plane, NEW z \in Plane, NEW a \in Plane,
         Cross(y, x, z) # 0, Cross(y, x, a) = 0, Cross(x, z, a) = 0
  PROVE  a = x
<1> DEFINE g1 == x[1] - y[1]   g2 == x[2] - y[2]
           k1 == z[1] - x[1]   k2 == z[2] - x[2]
           w1 == a[1] - x[1]   w2 == a[2] - x[2]
           t == g1 * k2 - g2 * k1
<1>1. /\ g1 \in Int /\ g2 \in Int /\ k1 \in Int /\ k2 \in Int /\ w1 \in Int /\ w2 \in Int
  BY PlaneInts
<1>2. /\ Cross(y, x, z) = g1 * k2 - g2 * k1
      /\ Cross(y, x, a) = g1 * w2 - g2 * w1
      /\ Cross(x, z, a) = k1 * w2 - k2 * w1
  BY PlaneInts DEF Cross
<1> HIDE DEF g1, g2, k1, k2, w1, w2
<1>3. t \in Int /\ t # 0 /\ g1 * w2 - g2 * w1 = 0 /\ k1 * w2 - k2 * w1 = 0
  BY <1>1, <1>2
<1>4. t * w1 = k1 * (g1 * w2 - g2 * w1) - g1 * (k1 * w2 - k2 * w1)
  BY <1>1
<1>5. t * w2 = k2 * (g1 * w2 - g2 * w1) - g2 * (k1 * w2 - k2 * w1)
  BY <1>1
<1>6. t * w1 = 0 /\ t * w2 = 0
  BY <1>1, <1>3, <1>4, <1>5
<1> HIDE DEF t
<1>7. w1 = 0 /\ w2 = 0
  BY <1>1, <1>3, <1>6, ProductSign
<1>8. a[1] = x[1] /\ a[2] = x[2]
  BY <1>7, PlaneInts DEF w1, w2
<1>9. QED
  BY <1>8 DEF Plane

\* With the weights x, y and z, the points a, b and c balance around q.
Balanced(a, b, c, q, x, y, z) ==
    \A k \in 1 .. 2 :
       x * (a[k] - q[k]) + y * (b[k] - q[k]) + z * (c[k] - q[k]) = 0

\* What has a weight is on the line through e and f.
OnLine(e, f, a, b, c, x, y, z) ==
    /\ x > 0 => Cross(e, f, a) = 0
    /\ y > 0 => Cross(e, f, b) = 0
    /\ z > 0 => Cross(e, f, c) = 0

\* Points of a half plane of which one on its border is a combination are on the
\* border, or of no weight.
LEMMA WeightsOnLine ==
  ASSUME NEW e \in Plane, NEW f \in Plane, NEW a \in Plane, NEW b \in Plane,
         NEW c \in Plane, NEW q \in Plane, NEW x \in Nat, NEW y \in Nat, NEW z \in Nat,
         Balanced(a, b, c, q, x, y, z), Cross(e, f, q) = 0,
         Cross(e, f, a) >= 0, Cross(e, f, b) >= 0, Cross(e, f, c) >= 0
  PROVE  OnLine(e, f, a, b, c, x, y, z)
<1> DEFINE A == Cross(e, f, a)   B == Cross(e, f, b)   C == Cross(e, f, c)
           g1 == f[1] - e[1]     g2 == f[2] - e[2]
           a1 == a[1] - q[1]     a2 == a[2] - q[2]
           b1 == b[1] - q[1]     b2 == b[2] - q[2]
           c1 == c[1] - q[1]     c2 == c[2] - q[2]
<1>1. A \in Int /\ B \in Int /\ C \in Int
  BY CrossInt
<1>2. /\ g1 \in Int /\ g2 \in Int /\ a1 \in Int /\ a2 \in Int
      /\ b1 \in Int /\ b2 \in Int /\ c1 \in Int /\ c2 \in Int
  BY PlaneInts
<1>3. A = g1 * a2 - g2 * a1 /\ B = g1 * b2 - g2 * b1 /\ C = g1 * c2 - g2 * c1
  <2>1. /\ A - 0 = g1 * a2 - g2 * a1 /\ B - 0 = g1 * b2 - g2 * b1
        /\ C - 0 = g1 * c2 - g2 * c1
    BY CrossAffine
  <2> HIDE DEF A, B, C
  <2>2. QED
    BY <1>1, <2>1
<1>4. x * a1 + y * b1 + z * c1 = 0 /\ x * a2 + y * b2 + z * c2 = 0
  BY DEF Balanced
<1>5. A >= 0 /\ B >= 0 /\ C >= 0
  OBVIOUS
<1> HIDE DEF A, B, C, g1, g2, a1, a2, b1, b2, c1, c2
<1>6. x * A + y * B + z * C = 0
  <2>1. x * A + y * B + z * C
          = g1 * (x * a2 + y * b2 + z * c2) - g2 * (x * a1 + y * b1 + z * c1)
    BY <1>2, <1>3
  <2>2. g1 * 0 - g2 * 0 = 0
    BY <1>2
  <2>3. QED
    BY <1>4, <2>1, <2>2
<1>7. x * A >= 0 /\ y * B >= 0 /\ z * C >= 0 /\ x * A \in Int /\ y * B \in Int /\ z * C \in Int
  BY <1>1, <1>5, ProductSign
<1>8. x * A = 0 /\ y * B = 0 /\ z * C = 0
  <2> DEFINE X == x * A   Y == y * B   Z == z * C
  <2>1. X + Y + Z = 0 /\ X >= 0 /\ Y >= 0 /\ Z >= 0 /\ X \in Int /\ Y \in Int /\ Z \in Int
    BY <1>6, <1>7
  <2> HIDE DEF X, Y, Z
  <2>2. X = 0 /\ Y = 0 /\ Z = 0
    BY <2>1
  <2>3. QED
    BY <2>2 DEF X, Y, Z
<1>9. (x = 0 \/ A = 0) /\ (y = 0 \/ B = 0) /\ (z = 0 \/ C = 0)
  BY <1>1, <1>8, ProductSign
<1>10. QED
  BY <1>9 DEF A, B, C, OnLine

\* Where the border turns there is a corner.
LEMMA TurnIsCorner ==
  ASSUME NEW s \in SUBSET Plane, NEW x \in s, NEW y \in Plane, NEW z \in Plane,
         Cross(y, x, z) > 0,
         \A q \in s : Cross(y, x, q) >= 0 /\ Cross(x, z, q) >= 0
  PROVE  x \in Corners(s)
<1>1. SUFFICES ASSUME InConvexHull(x, s \ {x}) PROVE FALSE
  BY DEF Corners
<1>2. PICK a \in s \ {x}, b \in s \ {x}, c \in s \ {x} : InTriangle(a, b, c, x)
  BY <1>1 DEF InConvexHull
<1>3. a \in Plane /\ b \in Plane /\ c \in Plane /\ x \in Plane
  OBVIOUS
<1>4. PICK i \in Nat, j \in Nat, l \in Nat :
         /\ i > 0 \/ j > 0 \/ l > 0
         /\ \A k \in 1 .. 2 :
               i * (a[k] - x[k]) + j * (b[k] - x[k]) + l * (c[k] - x[k]) = 0
  BY <1>2, <1>3, TriangleWeights
<1>5. Cross(y, x, x) = 0 /\ Cross(x, z, x) = 0 /\ Cross(y, x, z) # 0
  BY <1>3, CrossRotates
<1>6. OnLine(y, x, a, b, c, i, j, l)
  <2>1. Cross(y, x, a) >= 0 /\ Cross(y, x, b) >= 0 /\ Cross(y, x, c) >= 0
    OBVIOUS
  <2>2. Cross(y, x, x) = 0 /\ a \in Plane /\ b \in Plane /\ c \in Plane /\ x \in Plane
    BY <1>3, <1>5
  <2>3. Balanced(a, b, c, x, i, j, l)
    BY <1>4 DEF Balanced
  <2>4. i \in Nat /\ j \in Nat /\ l \in Nat
    BY <1>4
  <2>5. QED
    BY <2>1, <2>2, <2>3, <2>4, WeightsOnLine
<1>7. OnLine(x, z, a, b, c, i, j, l)
  <2>1. Cross(x, z, a) >= 0 /\ Cross(x, z, b) >= 0 /\ Cross(x, z, c) >= 0
    OBVIOUS
  <2>2. Cross(x, z, x) = 0 /\ a \in Plane /\ b \in Plane /\ c \in Plane /\ x \in Plane
    BY <1>3, <1>5
  <2>3. Balanced(a, b, c, x, i, j, l)
    BY <1>4 DEF Balanced
  <2>4. i \in Nat /\ j \in Nat /\ l \in Nat
    BY <1>4
  <2>5. QED
    BY <2>1, <2>2, <2>3, <2>4, WeightsOnLine
<1>8. /\ i > 0 => a = x
      /\ j > 0 => b = x
      /\ l > 0 => c = x
  BY <1>3, <1>5, <1>6, <1>7, LinesMeetOnce DEF OnLine
<1>9. QED
  BY <1>4, <1>8

\* What is on a line between two points is in their triangle.
LEMMA BetweenIsInTriangle ==
  ASSUME NEW a \in Plane, NEW p \in Plane, NEW b \in Plane, Lex(a, p), Lex(p, b),
         Cross(a, b, p) = 0
  PROVE  InTriangle(a, b, b, p)
<1> DEFINE e1 == p[1] - a[1]   e2 == p[2] - a[2]
           f1 == b[1] - p[1]   f2 == b[2] - p[2]
<1>0. /\ a[1] \in Int /\ a[2] \in Int /\ b[1] \in Int /\ b[2] \in Int
      /\ p[1] \in Int /\ p[2] \in Int
  BY PlaneInts
<1>1. e1 \in Int /\ e2 \in Int /\ f1 \in Int /\ f2 \in Int
  BY <1>0
<1>2. /\ e1 > 0 \/ (e1 = 0 /\ e2 > 0)
      /\ f1 > 0 \/ (f1 = 0 /\ f2 > 0)
  <2>1. Ahead(1, a, p) /\ Ahead(1, p, b)
    BY DEF Ahead
  <2>2. QED
    BY <2>1, AheadVector
<1>3. e1 * f2 - e2 * f1 = 0
  <2>1. Cross(a, p, b) = e1 * f2 - e2 * f1
    BY <1>0 DEF Cross
  <2>2. Cross(a, p, b) = 0 - Cross(a, b, p)
    BY CrossRotates
  <2>3. QED
    BY <2>1, <2>2
<1> HIDE DEF e1, e2, f1, f2
<1>4. e1 * f2 = e2 * f1 /\ e1 * f2 \in Int /\ e2 * f1 \in Int
  BY <1>1, <1>3, ProductSign
<1>5. (e2 >= 0 /\ f2 >= 0) \/ (e2 <= 0 /\ f2 <= 0)
  <2>1. ASSUME e2 > 0, f2 < 0 PROVE FALSE
    <3>1. e1 * f2 <= 0 /\ e2 * f1 >= 0
      BY <1>1, <1>2, <2>1, ProductSign
    <3>2. e1 * f2 = 0 /\ e2 * f1 = 0
      BY <1>4, <3>1
    <3>3. f1 = 0
      BY <1>1, <2>1, <3>2, ProductSign
    <3>4. QED
      BY <1>1, <1>2, <2>1, <3>3
  <2>2. ASSUME e2 < 0, f2 > 0 PROVE FALSE
    <3>1. e1 * f2 >= 0 /\ e2 * f1 <= 0
      BY <1>1, <1>2, <2>2, ProductSign
    <3>2. e1 * f2 = 0 /\ e2 * f1 = 0
      BY <1>4, <3>1
    <3>3. e1 = 0
      BY <1>1, <2>2, <3>2, ProductSign
    <3>4. QED
      BY <1>1, <1>2, <2>2, <3>3
  <2>3. QED
    BY <1>1, <2>1, <2>2
<1>6. Box(a, b, b, p)
  <2>1. ASSUME NEW k \in 1 .. 2
        PROVE  /\ a[k] <= p[k] \/ b[k] <= p[k] \/ b[k] <= p[k]
               /\ p[k] <= a[k] \/ p[k] <= b[k] \/ p[k] <= b[k]
    <3>1. CASE k = 1
      BY <1>0, <1>2, <3>1 DEF e1, f1
    <3>2. CASE k = 2
      BY <1>0, <1>5, <3>2 DEF e2, f2
    <3>3. QED
      BY <3>1, <3>2
  <2>2. QED
    BY <2>1 DEF Box
<1>7. Cross(b, b, p) = 0 /\ Cross(b, a, p) = 0
  BY CrossRotates
<1>8. QED
  BY <1>6, <1>7, InTriangleIs

\* The neighbours of a vertex.
LEMMA BeforeIn ==
  ASSUME NEW p \in Seq(Plane), NEW i \in DOMAIN p
  PROVE  /\ Before(i, p) \in DOMAIN p /\ After(Before(i, p), p) = i
         /\ Before(After(i, p), p) = i
<1>1. DOMAIN p = 1 .. Len(p) /\ Len(p) \in Nat
  BY AfterIn
<1>2. Before(i, p) \in DOMAIN p
  BY <1>1 DEF Before
<1>3. After(Before(i, p), p) = IF Before(i, p) = Len(p) THEN 1 ELSE Before(i, p) + 1
  BY <1>2, AfterIn
<1>4. After(Before(i, p), p) = i
  BY <1>1, <1>3 DEF Before
<1>5. After(i, p) \in DOMAIN p /\ After(i, p) = IF i = Len(p) THEN 1 ELSE i + 1
  BY AfterIn
<1>6. Before(After(i, p), p) = i
  <2>1. CASE i = Len(p)
    <3>1. After(i, p) = 1
      BY <1>5, <2>1
    <3>2. QED
      BY <2>1, <3>1 DEF Before
  <2>2. CASE i # Len(p)
    <3>1. i \in Int /\ i # 0
      BY <1>1
    <3>2. i + 1 # 1 /\ (i + 1) - 1 = i
      BY <3>1
    <3>3. After(i, p) = i + 1
      BY <1>5, <2>2, Zenon
    <3>4. QED
      BY <3>2, <3>3 DEF Before
  <2>3. QED
    BY <2>1, <2>2
<1>7. QED
  BY <1>2, <1>4, <1>6

\* What a ring is made of.
LEMMA RingPoints ==
  ASSUME NEW s \in SUBSET Plane, NEW h, RingOf(h, s), NEW i \in 1 .. Len(h)
  PROVE  /\ h \in Seq(Plane) /\ DOMAIN h = 1 .. Len(h) /\ Len(h) \in Nat /\ Len(h) >= 2
         /\ h[i] \in s /\ h[i] \in Plane
         /\ After(i, h) \in 1 .. Len(h) /\ Before(i, h) \in 1 .. Len(h)
         /\ After(i, h) = IF i = Len(h) THEN 1 ELSE i + 1
         /\ After(Before(i, h), h) = i /\ Before(After(i, h), h) = i
         /\ h[After(i, h)] \in s /\ h[Before(i, h)] \in s
         /\ h[After(i, h)] \in Plane /\ h[Before(i, h)] \in Plane
<1>1. h \in Seq(s) /\ Len(h) >= 2
  BY DEF RingOf
<1>2. h \in Seq(Plane) /\ DOMAIN h = 1 .. Len(h) /\ Len(h) \in Nat
  BY <1>1
<1>3. \A k \in 1 .. Len(h) : h[k] \in s /\ h[k] \in Plane
  BY <1>1
<1>4. /\ After(i, h) \in 1 .. Len(h) /\ Before(i, h) \in 1 .. Len(h)
      /\ After(i, h) = IF i = Len(h) THEN 1 ELSE i + 1
      /\ After(Before(i, h), h) = i /\ Before(After(i, h), h) = i
  BY <1>2, AfterIn, BeforeIn, Zenon
<1>5. QED
  BY <1>1, <1>2, <1>3, <1>4, Zenon

\* The two edges of a vertex of a ring of three or more.
LEMMA RingTurns ==
  ASSUME NEW s \in SUBSET Plane, NEW h, RingOf(h, s), NEW i \in 1 .. Len(h), Len(h) >= 3
  PROVE  /\ Cross(h[Before(i, h)], h[i], h[After(i, h)]) > 0
         /\ \A q \in s : /\ Cross(h[Before(i, h)], h[i], q) >= 0
                         /\ Cross(h[i], h[After(i, h)], q) >= 0
<1>1. /\ Before(i, h) \in 1 .. Len(h) /\ After(Before(i, h), h) = i
  BY RingPoints
<1>2. \A k \in 1 .. Len(h), q \in s : Cross(h[k], h[After(k, h)], q) >= 0
  BY DEF RingOf, Edge
<1>3. \A q \in s : Cross(h[Before(i, h)], h[After(Before(i, h), h)], q) >= 0
  BY <1>1, <1>2
<1>4. \A q \in s : Cross(h[Before(i, h)], h[i], q) >= 0
  BY <1>1, <1>3
<1>5. QED
  BY <1>2, <1>4 DEF RingOf

\* A sum of numbers that are not negative, one of them positive.
LEMMA TotalPositive ==
  ASSUME NEW n \in Nat, NEW g \in [0 .. n -> Int], NEW e, g[0] = 0,
         \A i \in 1 .. n : e[i] \in Int /\ e[i] >= 0 /\ g[i] = g[i - 1] + e[i],
         NEW k \in 1 .. n, e[k] > 0
  PROVE  g[n] > 0
<1> DEFINE S == {i \in 0 .. n : g[i] >= 0 /\ (i >= k => g[i] > 0)}
<1>1. 0 \in S
  OBVIOUS
<1>2. ASSUME NEW i \in 0 .. n - 1, i \in S PROVE i + 1 \in S
  <2>1. i + 1 \in 1 .. n /\ (i + 1) - 1 = i /\ i \in 0 .. n /\ i + 1 \in 0 .. n
    OBVIOUS
  <2>2. g[i + 1] = g[(i + 1) - 1] + e[i + 1] /\ e[i + 1] \in Int /\ e[i + 1] >= 0
    BY <2>1
  <2>3. g[i + 1] = g[i] + e[i + 1] /\ g[i] \in Int /\ g[i] >= 0 /\ g[i + 1] \in Int
    BY <1>2, <2>1, <2>2
  <2>4. g[i + 1] >= 0
    BY <2>2, <2>3
  <2>5. ASSUME i + 1 >= k PROVE g[i + 1] > 0
    <3>1. CASE i >= k
      <4>1. g[i] > 0
        BY <1>2, <3>1
      <4>2. QED
        BY <2>2, <2>3, <4>1
    <3>2. CASE i + 1 = k
      <4>1. e[i + 1] > 0
        BY <3>2
      <4>2. QED
        BY <2>2, <2>3, <4>1
    <3>3. QED
      BY <2>5, <3>1, <3>2
  <2>6. QED
    BY <2>1, <2>4, <2>5
<1> HIDE DEF S
<1>3. \A i \in 0 .. n : i \in S
  BY <1>1, <1>2, UpTo
<1>4. n \in S
  BY <1>3
<1>5. QED
  BY <1>4 DEF S

\* A ring of three or more goes round an area.
LEMMA RingArea ==
  ASSUME NEW s \in SUBSET Plane, NEW h, RingOf(h, s), Len(h) >= 3
  PROVE  TwiceSignedArea(h) > 0
<1> DEFINE n == Len(h)   q == h[1]   e == [i \in 1 .. n |-> Cross(h[i], h[After(i, h)], q)]
<1>1. /\ h \in Seq(Plane) /\ n \in Nat /\ n >= 3 /\ 1 \in 1 .. n /\ 2 \in 1 .. n
      /\ q \in Plane /\ q \in s
  <2>1. h \in Seq(s) /\ Len(h) >= 2
    BY DEF RingOf
  <2>2. QED
    BY <2>1
<1>2. PICK g \in [0 .. n -> Int] :
         /\ g[0] = 0 /\ TwiceSignedArea(h) = g[n]
         /\ \A i \in 1 .. n : g[i] = g[i - 1] + Cross(h[i], h[After(i, h)], q)
  <2>1. Len(h) > 0
    BY <1>1
  <2>2. QED
    BY <1>1, <2>1, AreaAround
<1>3. ASSUME NEW i \in 1 .. n
      PROVE  e[i] \in Int /\ e[i] >= 0 /\ g[i] = g[i - 1] + e[i]
  <2>1. Cross(h[i], h[After(i, h)], q) \in Int
    BY <1>1, RingPoints, CrossInt
  <2>2. Cross(h[i], h[After(i, h)], q) >= 0
    BY <1>1 DEF RingOf, Edge
  <2>3. QED
    BY <1>2, <2>1, <2>2
<1>4. e[2] > 0
  <2>1. Before(2, h) = 1
    BY DEF Before
  <2>2. Cross(h[Before(2, h)], h[2], h[After(2, h)]) > 0
    BY <1>1, RingTurns
  <2>3. Cross(h[1], h[2], h[After(2, h)]) > 0
    BY <2>1, <2>2
  <2>4. h[2] \in Plane /\ h[After(2, h)] \in Plane
    BY <1>1, RingPoints
  <2>5. Cross(h[2], h[After(2, h)], h[1]) = Cross(h[1], h[2], h[After(2, h)])
    BY <1>1, <2>4, CrossRotates
  <2>6. QED
    BY <1>1, <2>3, <2>5
<1> HIDE DEF e
<1>5. g[n] > 0
  BY <1>1, <1>2, <1>3, <1>4, TotalPositive
<1>6. QED
  BY <1>2, <1>5

LEMMA AtLeastTwo ==
  ASSUME NEW n \in Nat, n >= 2
  PROVE  n >= 3 \/ n = 2
OBVIOUS

\* The vertices of a ring are corners.
LEMMA VertexIsCorner ==
  ASSUME NEW s \in SUBSET Plane, NEW h, RingOf(h, s), NEW i \in 1 .. Len(h)
  PROVE  h[i] \in Corners(s)
<1>1. /\ h[i] \in s /\ Len(h) \in Nat /\ Len(h) >= 2
      /\ h[Before(i, h)] \in Plane /\ h[After(i, h)] \in Plane
  BY RingPoints
<1>2. CASE Len(h) >= 3
  BY <1>1, <1>2, RingTurns, TurnIsCorner
<1>3. CASE Len(h) = 2
  <2>1. i = 1 \/ i = 2
    BY <1>1, <1>3
  <2>2. CASE i = 1
    <3>1. \A q \in s : q = h[i] \/ Ahead(1, h[i], q)
      BY <2>2 DEF RingOf, Ahead
    <3>2. 1 \in {1, -1}
      OBVIOUS
    <3>3. QED
      BY <1>1, <3>1, <3>2, EndIsCorner
  <2>3. CASE i = 2
    <3>1. -1 \in {1, -1} /\ -1 # 1
      OBVIOUS
    <3>2. \A q \in s : q = h[i] \/ Ahead(-1, h[i], q)
      BY <1>3, <2>3, <3>1 DEF RingOf, Ahead
    <3>3. QED
      BY <1>1, <3>1, <3>2, EndIsCorner
  <2>4. QED
    BY <2>1, <2>2, <2>3
<1>4. Len(h) >= 3 \/ Len(h) = 2
  BY <1>1, AtLeastTwo
<1>5. QED
  BY <1>2, <1>3, <1>4

\* A corner is a vertex of the ring.
LEMMA CornerIsVertex ==
  ASSUME NEW s \in SUBSET Plane, NEW h, RingOf(h, s), NEW p \in Corners(s)
  PROVE  \E i \in 1 .. Len(h) : h[i] = p
<1>1. SUFFICES ASSUME \A i \in 1 .. Len(h) : h[i] # p PROVE FALSE
  OBVIOUS
<1>2. p \in s /\ p \in Plane /\ ~ InConvexHull(p, s \ {p})
  BY DEF Corners
<1>3. h \in Seq(s) /\ Len(h) >= 2 /\ Len(h) \in Nat
  BY DEF RingOf
<1>4. 1 \in 1 .. Len(h) /\ 2 \in 1 .. Len(h)
  BY <1>3
<1>5. h \in Seq(Plane) /\ DOMAIN h = 1 .. Len(h)
  BY <1>3
<1>6. \A i, j, k \in DOMAIN h : ~ InTriangle(h[i], h[j], h[k], p)
  <2>1. \A i \in DOMAIN h : h[i] \in s \ {p}
    BY <1>1, <1>3
  <2>2. QED
    BY <1>2, <2>1 DEF InConvexHull
<1>7. CASE Len(h) >= 3
  <2>1. \A i \in DOMAIN h : 1 * Edge(h, i, p) >= 0
    <3>1. TAKE i \in DOMAIN h
    <3>2. Edge(h, i, p) >= 0
      BY <1>2, <1>5 DEF RingOf
    <3>3. Edge(h, i, p) \in Int
      BY <1>2, <1>5, AfterIn, CrossInt DEF Edge
    <3>4. QED
      BY <3>2, <3>3
  <2>2. TwiceSignedArea(h) = 0
    <3>1. Len(h) > 0 /\ 1 \in {1, -1}
      BY <1>3
    <3>2. QED
      BY <1>2, <1>5, <1>6, <2>1, <3>1, InsideAllEdges
  <2>3. TwiceSignedArea(h) > 0
    BY <1>7, RingArea
  <2>4. QED
    BY <2>2, <2>3
<1>8. CASE Len(h) = 2
  <2>1. Lex(h[1], p) /\ Lex(p, h[2])
    BY <1>1, <1>2, <1>4, <1>8 DEF RingOf
  <2>2. h[1] \in Plane /\ h[2] \in Plane
    BY <1>4, <1>5
  <2>3. Edge(h, 1, p) >= 0 /\ Edge(h, 2, p) >= 0
    BY <1>2, <1>4 DEF RingOf
  <2>4. After(1, h) = 2 /\ After(2, h) = 1
    <3>1. /\ After(1, h) = IF 1 = Len(h) THEN 1 ELSE 1 + 1
          /\ After(2, h) = IF 2 = Len(h) THEN 1 ELSE 2 + 1
      BY <1>4, RingPoints
    <3>2. QED
      BY <1>8, <3>1
  <2>5. Cross(h[1], h[2], p) >= 0 /\ Cross(h[2], h[1], p) >= 0
    BY <2>3, <2>4 DEF Edge
  <2>6. Cross(h[2], h[1], p) = 0 - Cross(h[1], h[2], p) /\ Cross(h[1], h[2], p) \in Int
    BY <1>2, <2>2, CrossRotates
  <2>7. Cross(h[1], h[2], p) = 0
    BY <2>5, <2>6
  <2>8. InTriangle(h[1], h[2], h[2], p)
    BY <1>2, <2>1, <2>2, <2>7, BetweenIsInTriangle
  <2>9. QED
    BY <1>4, <1>5, <1>6, <2>8
<1>9. Len(h) >= 3 \/ Len(h) = 2
  BY <1>3, AtLeastTwo
<1>10. QED
  BY <1>7, <1>8, <1>9

\* The hull of no more than two points.
LEMMA HullOfFew ==
  ASSUME NEW s \in SUBSET Plane, IsFiniteSet(s), Cardinality(s) <= 2
  PROVE  /\ ConvexHull(s) \in Seq(s) /\ Len(ConvexHull(s)) <= 2
         /\ DOMAIN ConvexHull(s) = 1 .. Len(ConvexHull(s)) /\ Len(ConvexHull(s)) \in Nat
         /\ Range(ConvexHull(s)) = s /\ Corners(s) = s /\ IsInjective(ConvexHull(s))
<1> DEFINE h == Sorted(s)   n == Cardinality(s)
<1>1. /\ n \in Nat /\ h \in Seq(s) /\ Len(h) = n /\ DOMAIN h = 1 .. n
      /\ \A q \in s : \E i \in 1 .. n : h[i] = q
      /\ \A i \in 1 .. n : h[i] \in s
      /\ \A i, j \in 1 .. n : i < j => Lex(h[i], h[j])
  BY SortedIs
<1>2. ConvexHull(s) = h
  BY <1>1 DEF ConvexHull
<1> HIDE DEF h
<1>3. Range(h) = s
  BY <1>1 DEF Range
<1>4. IsInjective(h)
  <2>1. ASSUME NEW i \in 1 .. n, NEW j \in 1 .. n, i < j PROVE h[i] # h[j]
    <3>1. Lex(h[i], h[j]) /\ h[i] \in Plane
      BY <1>1, <2>1
    <3>2. ~ Lex(h[i], h[i])
      BY <3>1, LexOrder
    <3>3. QED
      BY <3>1, <3>2
  <2>2. \A i, j \in 1 .. n : i < j \/ j < i \/ i = j
    BY <1>1
  <2>3. QED
    BY <1>1, <2>1, <2>2 DEF IsInjective
<1>5. ASSUME NEW p \in s PROVE p \in Corners(s)
  <2>1. PICK i \in 1 .. n : h[i] = p
    BY <1>1
  <2> HIDE DEF n
  <2>2. i = 1 \/ (i = 2 /\ n = 2)
    BY <1>1, <2>1 DEF n
  <2>3. CASE i = 1
    <3>1. \A q \in s : q = p \/ Ahead(1, p, q)
      <4>1. TAKE q \in s
      <4>2. PICK j \in 1 .. n : h[j] = q
        BY <1>1
      <4>3. j = 1 \/ 1 < j
        BY <1>1, <4>2
      <4>4. CASE j = 1
        BY <2>1, <2>3, <4>2, <4>4
      <4>5. CASE 1 < j
        <5>1. Lex(h[i], h[j])
          BY <1>1, <2>1, <2>3, <4>2, <4>5
        <5>2. QED
          BY <2>1, <4>2, <5>1 DEF Ahead
      <4>6. QED
        BY <4>3, <4>4, <4>5
    <3>2. 1 \in {1, -1}
      OBVIOUS
    <3>3. QED
      BY <3>1, <3>2, EndIsCorner
  <2>4. CASE i = 2 /\ n = 2
    <3>1. -1 \in {1, -1} /\ -1 # 1
      OBVIOUS
    <3>2. \A q \in s : q = p \/ Ahead(-1, p, q)
      <4>1. TAKE q \in s
      <4>2. PICK j \in 1 .. n : h[j] = q
        BY <1>1
      <4>3. j = 2 \/ j < 2
        BY <1>1, <2>4, <4>2
      <4>4. CASE j = 2
        BY <2>1, <2>4, <4>2, <4>4
      <4>5. CASE j < 2
        <5>1. Lex(h[j], h[i])
          BY <1>1, <2>1, <2>4, <4>2, <4>5
        <5>2. QED
          BY <2>1, <3>1, <4>2, <5>1 DEF Ahead
      <4>6. QED
        BY <4>3, <4>4, <4>5
    <3>3. QED
      BY <3>1, <3>2, EndIsCorner
  <2>5. QED
    BY <2>2, <2>3, <2>4
<1>6. Corners(s) = s
  <2>1. Corners(s) \subseteq s
    BY DEF Corners
  <2>2. QED
    BY <1>5, <2>1
<1>7. QED
  BY <1>1, <1>2, <1>3, <1>4, <1>6

\* What is said of a hull.
Extreme(h, s) ==
    /\ Range(h) = Corners(s) /\ IsInjective(h)
    /\ Len(h) >= 3 => \A i \in DOMAIN h :
          Cross(h[Before(i, h)], h[i], h[After(i, h)]) > 0

\* The vertices of a ring are the extreme points of what it surrounds.
LEMMA RingIsExtreme ==
  ASSUME NEW s \in SUBSET Plane, NEW h, RingOf(h, s)
  PROVE  Extreme(h, s)
<1>1. h \in Seq(s) /\ DOMAIN h = 1 .. Len(h)
  BY DEF RingOf
<1>2. Range(h) \subseteq Corners(s)
  BY <1>1, VertexIsCorner DEF Range
<1>3. Corners(s) \subseteq Range(h)
  <2>1. SUFFICES ASSUME NEW p \in Corners(s) PROVE p \in Range(h)
    OBVIOUS
  <2>2. PICK i \in 1 .. Len(h) : h[i] = p
    BY CornerIsVertex
  <2>3. QED
    BY <1>1, <2>2 DEF Range
<1>4. Range(h) = Corners(s)
  BY <1>2, <1>3
<1>5. IsInjective(h)
  BY <1>1 DEF RingOf, IsInjective
<1>6. Len(h) >= 3 => \A i \in DOMAIN h :
          Cross(h[Before(i, h)], h[i], h[After(i, h)]) > 0
  BY <1>1 DEF RingOf
<1>7. QED
  BY <1>4, <1>5, <1>6 DEF Extreme

\* HullIsExtremePoints for any finite set of points of the plane, and the ring that
\* the other results are about.
THEOREM HullExtreme ==
  ASSUME NEW s \in SUBSET Plane, IsFiniteSet(s)
  PROVE  /\ Extreme(ConvexHull(s), s)
         /\ Len(ConvexHull(s)) >= 3 => RingOf(ConvexHull(s), s)
<1>1. Cardinality(s) \in Nat
  BY FS_CardinalityType
<1>2. CASE Cardinality(s) <= 2
  <2>1. /\ Len(ConvexHull(s)) <= 2 /\ Range(ConvexHull(s)) = Corners(s)
        /\ IsInjective(ConvexHull(s)) /\ Len(ConvexHull(s)) \in Nat
    BY <1>2, HullOfFew
  <2>2. ~ (Len(ConvexHull(s)) >= 3)
    BY <2>1
  <2>3. QED
    BY <2>1, <2>2 DEF Extreme
<1>3. CASE Cardinality(s) > 2
  BY <1>3, HullIsRing, RingIsExtreme
<1>4. QED
  BY <1>1, <1>2, <1>3

-----------------------------------------------------------------------------
(* A ring is the only one around its points, and passes the test of         *)
(* convexity from either side.                                              *)

\* No three extreme points are on a line.
LEMMA ThreeCorners ==
  ASSUME NEW s \in SUBSET Plane, NEW a \in Corners(s), NEW b \in Corners(s),
         NEW c \in Corners(s), a # b, a # c, b # c
  PROVE  Cross(a, b, c) # 0
<1>1. SUFFICES ASSUME Cross(a, b, c) = 0 PROVE FALSE
  OBVIOUS
<1>2. /\ a \in Plane /\ b \in Plane /\ c \in Plane
      /\ a \in s /\ b \in s /\ c \in s
      /\ ~ InConvexHull(a, s \ {a}) /\ ~ InConvexHull(b, s \ {b})
      /\ ~ InConvexHull(c, s \ {c})
  BY DEF Corners
<1>3. ASSUME NEW x \in s, NEW y \in s, NEW z \in s, ~ InConvexHull(y, s \ {y}),
             Lex(x, y), Lex(y, z), Cross(x, z, y) = 0
      PROVE  FALSE
  <2>1. x \in Plane /\ y \in Plane /\ z \in Plane
    OBVIOUS
  <2>2. InTriangle(x, z, z, y)
    BY <1>3, <2>1, BetweenIsInTriangle
  <2>3. x # y /\ z # y
    BY <1>3, <2>1, LexOrder
  <2>4. x \in s \ {y} /\ z \in s \ {y}
    BY <2>3
  <2>5. InConvexHull(y, s \ {y})
    BY <2>2, <2>4 DEF InConvexHull
  <2>6. QED
    BY <1>3, <2>5
<1>4. /\ Cross(b, c, a) = 0 /\ Cross(c, a, b) = 0 /\ Cross(b, a, c) = 0
      /\ Cross(a, c, b) = 0 /\ Cross(c, b, a) = 0
  BY <1>1, <1>2, CrossRotates
<1>5. /\ Lex(a, b) \/ Lex(b, a)
      /\ Lex(a, c) \/ Lex(c, a)
      /\ Lex(b, c) \/ Lex(c, b)
  BY <1>2, LexOrder
<1>6. CASE Lex(a, b) /\ Lex(b, c)
  BY <1>2, <1>3, <1>4, <1>6
<1>7. CASE Lex(a, c) /\ Lex(c, b)
  BY <1>1, <1>2, <1>3, <1>7
<1>8. CASE Lex(b, a) /\ Lex(a, c)
  BY <1>2, <1>3, <1>4, <1>8
<1>9. CASE Lex(b, c) /\ Lex(c, a)
  BY <1>2, <1>3, <1>4, <1>9
<1>10. CASE Lex(c, a) /\ Lex(a, b)
  BY <1>2, <1>3, <1>4, <1>10
<1>11. CASE Lex(c, b) /\ Lex(b, a)
  BY <1>2, <1>3, <1>4, <1>11
<1>12. QED
  BY <1>5, <1>6, <1>7, <1>8, <1>9, <1>10, <1>11

\* The corner with which x bounds all points on one side is the next vertex.
LEMMA NextIsOnly ==
  ASSUME NEW s \in SUBSET Plane, NEW h, RingOf(h, s), NEW i \in 1 .. Len(h),
         NEW z \in Corners(s), z # h[i], \A q \in s : Cross(h[i], z, q) >= 0
  PROVE  h[After(i, h)] = z
<1>1. SUFFICES ASSUME h[After(i, h)] # z PROVE FALSE
  OBVIOUS
<1>2. /\ After(i, h) \in 1 .. Len(h) /\ h[i] \in s /\ h[After(i, h)] \in s /\ z \in s
      /\ h[i] \in Plane /\ h[After(i, h)] \in Plane /\ z \in Plane
  BY RingPoints DEF Corners
<1>3. h[i] # h[After(i, h)]
  <2>1. /\ After(i, h) = IF i = Len(h) THEN 1 ELSE i + 1
        /\ Len(h) \in Nat /\ Len(h) >= 2
    BY RingPoints
  <2>2. After(i, h) # i
    BY <2>1
  <2>3. QED
    BY <1>2, <2>2 DEF RingOf
<1>4. h[i] \in Corners(s) /\ h[After(i, h)] \in Corners(s)
  BY <1>2, VertexIsCorner
<1>5. Cross(h[i], h[After(i, h)], z) # 0
  BY <1>1, <1>3, <1>4, ThreeCorners
<1>6. Cross(h[i], h[After(i, h)], z) >= 0
  BY <1>2 DEF RingOf, Edge
<1>7. Cross(h[i], z, h[After(i, h)]) >= 0
  BY <1>2
<1>8. /\ Cross(h[i], z, h[After(i, h)]) = 0 - Cross(h[i], h[After(i, h)], z)
      /\ Cross(h[i], h[After(i, h)], z) \in Int
  BY <1>2, CrossRotates
<1>9. QED
  BY <1>5, <1>6, <1>7, <1>8

\* There is only one ring around a set of points.
LEMMA RingsAgree ==
  ASSUME NEW s \in SUBSET Plane, NEW h, NEW k, RingOf(h, s), RingOf(k, s),
         Len(h) <= Len(k)
  PROVE  h = k
<1> DEFINE n == Len(h)
<1>1. /\ h \in Seq(s) /\ k \in Seq(s) /\ n \in Nat /\ n >= 2 /\ Len(k) \in Nat
      /\ n <= Len(k) /\ 1 \in 1 .. n /\ 1 \in 1 .. Len(k)
  BY DEF RingOf
<1>2. h[1] = k[1]
  <2>1. h[1] \in s /\ k[1] \in s /\ h[1] \in Plane /\ k[1] \in Plane
    BY <1>1
  <2>2. /\ k[1] = h[1] \/ Lex(h[1], k[1])
        /\ h[1] = k[1] \/ Lex(k[1], h[1])
    BY <2>1 DEF RingOf
  <2>3. QED
    BY <2>1, <2>2, LexOrder
<1>3. ASSUME NEW i \in 1 .. n, h[i] = k[i] PROVE h[After(i, h)] = k[After(i, k)]
  <2>1. i \in 1 .. Len(k)
    BY <1>1
  <2>2. /\ After(i, k) \in 1 .. Len(k) /\ Len(k) >= 2
        /\ After(i, k) = IF i = Len(k) THEN 1 ELSE i + 1
    BY <2>1, RingPoints
  <2>3. k[After(i, k)] \in Corners(s)
    BY <2>2, VertexIsCorner
  <2>4. After(i, k) # i
    BY <1>1, <2>2
  <2>5. k[After(i, k)] # h[i]
    BY <1>3, <2>1, <2>2, <2>4 DEF RingOf
  <2>6. \A q \in s : Cross(h[i], k[After(i, k)], q) >= 0
    BY <1>3, <2>1 DEF RingOf, Edge
  <2>7. QED
    BY <2>3, <2>5, <2>6, NextIsOnly
<1>4. \A i \in 1 .. n : h[i] = k[i]
  <2> DEFINE S == {m \in 0 .. n - 1 : h[m + 1] = k[m + 1]}
  <2>1. 0 \in S /\ n - 1 \in Nat
    BY <1>1, <1>2
  <2>2. ASSUME NEW m \in 0 .. (n - 1) - 1, m \in S PROVE m + 1 \in S
    <3>1. m + 1 \in 1 .. n /\ m + 1 \in 1 .. Len(k) /\ m + 1 # n /\ m + 1 # Len(k)
      BY <1>1
    <3>2. h[m + 1] = k[m + 1]
      BY <2>2
    <3>3. h[After(m + 1, h)] = k[After(m + 1, k)]
      BY <1>3, <3>1, <3>2
    <3>4. /\ After(m + 1, h) = IF m + 1 = Len(h) THEN 1 ELSE (m + 1) + 1
          /\ After(m + 1, k) = IF m + 1 = Len(k) THEN 1 ELSE (m + 1) + 1
      BY <3>1, RingPoints
    <3>5. After(m + 1, h) = (m + 1) + 1 /\ After(m + 1, k) = (m + 1) + 1
      BY <3>1, <3>4
    <3>6. h[(m + 1) + 1] = k[(m + 1) + 1] /\ m + 1 \in 0 .. n - 1
      BY <1>1, <3>3, <3>5
    <3>7. QED
      BY <3>6
  <2> HIDE DEF S
  <2>3. \A m \in 0 .. n - 1 : m \in S
    BY <2>1, <2>2, UpTo
  <2>4. TAKE i \in 1 .. n
  <2>5. i - 1 \in 0 .. n - 1 /\ (i - 1) + 1 = i
    BY <1>1
  <2>6. i - 1 \in S
    BY <2>3, <2>5
  <2>7. h[(i - 1) + 1] = k[(i - 1) + 1]
    BY <2>6 DEF S
  <2>8. QED
    BY <2>5, <2>7
<1>5. n = Len(k)
  <2>1. SUFFICES ASSUME n < Len(k) PROVE FALSE
    BY <1>1
  <2>2. n \in 1 .. n /\ n \in 1 .. Len(k) /\ n + 1 \in 1 .. Len(k) /\ n + 1 # 1
    BY <1>1, <2>1
  <2>3. h[After(n, h)] = k[After(n, k)]
    BY <1>3, <1>4, <2>2
  <2>4. /\ After(n, h) = IF n = Len(h) THEN 1 ELSE n + 1
        /\ After(n, k) = IF n = Len(k) THEN 1 ELSE n + 1
    BY <2>2, RingPoints
  <2>5. After(n, h) = 1 /\ After(n, k) = n + 1
    BY <1>1, <2>1, <2>4
  <2>6. k[1] = k[n + 1]
    BY <1>2, <2>3, <2>5
  <2>7. QED
    BY <1>1, <2>2, <2>6 DEF RingOf
<1>6. QED
  <2>1. h = [i \in 1 .. n |-> h[i]] /\ k = [i \in 1 .. Len(k) |-> k[i]]
    BY <1>1
  <2>2. QED
    BY <1>4, <1>5, <2>1

\* Three points make more than two.
LEMMA ThreeOrMore ==
  ASSUME NEW S, IsFiniteSet(S), NEW a \in S, NEW b \in S, NEW c \in S,
         a # b, a # c, b # c
  PROVE  Cardinality(S) > 2
<1>1. Cardinality({}) = 0 /\ IsFiniteSet({})
  BY FS_EmptySet
<1>2. IsFiniteSet({a}) /\ Cardinality({a}) = 1
  BY FS_Singleton
<1>3. IsFiniteSet({a} \cup {b}) /\ Cardinality({a} \cup {b}) = Cardinality({a}) + 1
  BY <1>2, FS_AddElement
<1>4. /\ IsFiniteSet(({a} \cup {b}) \cup {c})
      /\ Cardinality(({a} \cup {b}) \cup {c}) = Cardinality({a} \cup {b}) + 1
  BY <1>3, FS_AddElement
<1>5. ({a} \cup {b}) \cup {c} \subseteq S
  OBVIOUS
<1>6. Cardinality(({a} \cup {b}) \cup {c}) <= Cardinality(S)
  BY <1>5, FS_Subset
<1>7. Cardinality({a} \cup {b}) = 2
  BY <1>2, <1>3
<1>8. Cardinality(({a} \cup {b}) \cup {c}) = 3
  BY <1>4, <1>7
<1>9. Cardinality(S) \in Nat
  BY FS_CardinalityType
<1>10. QED
  BY <1>6, <1>8, <1>9

\* The hull of the vertices of a ring is the ring.
LEMMA HullOfVertices ==
  ASSUME NEW s \in SUBSET Plane, IsFiniteSet(s), NEW h, RingOf(h, s), Len(h) >= 3
  PROVE  ConvexHull(Range(h)) = h
<1> DEFINE R == Range(h)
<1>1. h \in Seq(s) /\ Len(h) \in Nat /\ DOMAIN h = 1 .. Len(h)
  BY DEF RingOf
<1>2. R \subseteq s /\ R \subseteq Plane /\ \A i \in 1 .. Len(h) : h[i] \in R
  BY <1>1 DEF Range
<1>3. IsFiniteSet(R)
  BY <1>2, FS_Subset
<1>4. h \in Seq(R)
  BY <1>1, <1>2
<1> HIDE DEF R
<1>5. RingOf(h, R)
  <2>1. /\ \A i \in 1 .. Len(h), q \in R : Edge(h, i, q) >= 0
        /\ \A q \in R : q = h[1] \/ Lex(h[1], q)
        /\ Len(h) = 2 => \A q \in R : q = h[2] \/ Lex(q, h[2])
    BY <1>2 DEF RingOf
  <2>2. /\ Len(h) >= 2
        /\ \A i, j \in 1 .. Len(h) : h[i] = h[j] => i = j
        /\ Len(h) >= 3 =>
            \A i \in 1 .. Len(h) : Cross(h[Before(i, h)], h[i], h[After(i, h)]) > 0
    BY DEF RingOf
  <2>3. QED
    BY <1>4, <2>1, <2>2 DEF RingOf
<1>6. Cardinality(R) > 2
  <2>1. 1 \in 1 .. Len(h) /\ 2 \in 1 .. Len(h) /\ 3 \in 1 .. Len(h)
    BY <1>1
  <2>2. h[1] \in R /\ h[2] \in R /\ h[3] \in R
    BY <1>2, <2>1
  <2>3. h[1] # h[2] /\ h[1] # h[3] /\ h[2] # h[3]
    BY <2>1 DEF RingOf
  <2>4. QED
    BY <1>3, <2>2, <2>3, ThreeOrMore
<1>7. RingOf(ConvexHull(R), R)
  BY <1>2, <1>3, <1>6, HullIsRing
<1>8. Len(ConvexHull(R)) \in Nat
  BY <1>7 DEF RingOf
<1>9. Len(h) <= Len(ConvexHull(R)) \/ Len(ConvexHull(R)) <= Len(h)
  BY <1>1, <1>8
<1>10. QED
  BY <1>2, <1>5, <1>7, <1>9, RingsAgree DEF R

\* The vertices of a reversed polygon and their neighbours.
LEMMA ReverseNeighbours ==
  ASSUME NEW h \in Seq(Plane), NEW i \in 1 .. Len(h)
  PROVE  LET r == Reverse(h)
             j == Len(h) - i + 1
         IN  /\ r \in Seq(Plane) /\ Len(r) = Len(h) /\ DOMAIN r = 1 .. Len(h)
             /\ j \in 1 .. Len(h) /\ r[i] = h[j]
             /\ r[After(i, r)] = h[Before(j, h)] /\ r[Before(i, r)] = h[After(j, h)]
<1> DEFINE r == Reverse(h)   n == Len(h)   j == n - i + 1
<1>1. /\ r \in Seq(Plane) /\ Len(r) = n /\ n \in Nat /\ DOMAIN r = 1 .. n /\ DOMAIN h = 1 .. n
      /\ \A l \in 1 .. n : r[l] = h[n - l + 1] /\ n - l + 1 \in 1 .. n
  BY ReverseIs
<1>2. j \in 1 .. n /\ r[i] = h[j]
  BY <1>1
<1> HIDE DEF r, n
<1>3. /\ After(i, r) \in 1 .. n /\ After(i, r) = IF i = n THEN 1 ELSE i + 1
      /\ After(j, h) \in 1 .. n /\ After(j, h) = IF j = n THEN 1 ELSE j + 1
  BY <1>1, <1>2, AfterIn DEF n
<1>4. /\ Before(i, r) = IF i = 1 THEN n ELSE i - 1
      /\ Before(j, h) = IF j = 1 THEN n ELSE j - 1
      /\ Before(i, r) \in 1 .. n
  BY <1>1, <1>2, BeforeIn DEF Before, n
<1>5. n - After(i, r) + 1 = Before(j, h) /\ n - Before(i, r) + 1 = After(j, h)
  <2> DEFINE A == After(i, r)   B == Before(i, r)   C == After(j, h)   D == Before(j, h)
  <2>1. i \in 1 .. n
    BY DEF n
  <2>2. /\ A = IF i = n THEN 1 ELSE i + 1
        /\ B = IF i = 1 THEN n ELSE i - 1
        /\ C = IF j = n THEN 1 ELSE j + 1
        /\ D = IF j = 1 THEN n ELSE j - 1
    BY <1>3, <1>4
  <2> HIDE DEF A, B, C, D
  <2>3. n - A + 1 = D /\ n - B + 1 = C
    BY <1>1, <2>1, <2>2
  <2>4. QED
    BY <2>3 DEF A, B, C, D
<1>6. r[After(i, r)] = h[n - After(i, r) + 1] /\ r[Before(i, r)] = h[n - Before(i, r) + 1]
  BY <1>1, <1>3, <1>4
<1>7. r[After(i, r)] = h[Before(j, h)] /\ r[Before(i, r)] = h[After(j, h)]
  BY <1>5, <1>6
<1>8. QED
  BY <1>1, <1>2, <1>7 DEF r, n

\* A sum of parts that are taken in reverse and negated.
LEMMA ReversedTotal ==
  ASSUME NEW n \in Nat, n > 0, NEW f \in [0 .. n -> Int], NEW g \in [0 .. n -> Int],
         NEW c \in [1 .. n -> Int], f[0] = 0, g[0] = 0,
         \A i \in 1 .. n : f[i] = f[i - 1] + c[i],
         \A i \in 1 .. n - 1 : g[i] = g[i - 1] - c[n - i],
         g[n] = g[n - 1] - c[n]
  PROVE  g[n] = 0 - f[n]
<1> DEFINE S == {i \in 0 .. n - 1 : g[i] = f[n - 1 - i] - f[n - 1]}
<1>1. 0 \in S /\ n - 1 \in Nat
  <2>1. n - 1 - 0 = n - 1 /\ n - 1 \in 0 .. n
    OBVIOUS
  <2>2. f[n - 1] \in Int
    BY <2>1
  <2>3. QED
    BY <2>1, <2>2
<1>2. ASSUME NEW i \in 0 .. (n - 1) - 1, i \in S PROVE i + 1 \in S
  <2>1. /\ i + 1 \in 1 .. n - 1 /\ (i + 1) - 1 = i /\ n - (i + 1) \in 1 .. n
        /\ n - (i + 1) = n - 1 - i /\ n - 1 - (i + 1) = (n - (i + 1)) - 1
        /\ i \in 0 .. n /\ n - 1 - i \in 0 .. n /\ n - 1 - (i + 1) \in 0 .. n
        /\ n - 1 \in 0 .. n /\ i + 1 \in 0 .. n - 1
    OBVIOUS
  <2>2. g[i + 1] = g[(i + 1) - 1] - c[n - (i + 1)]
    BY <2>1
  <2>3. f[n - (i + 1)] = f[(n - (i + 1)) - 1] + c[n - (i + 1)]
    BY <2>1
  <2>4. g[i] = f[n - 1 - i] - f[n - 1]
    BY <1>2
  <2>5. /\ f[n - 1] \in Int /\ f[n - 1 - i] \in Int /\ f[n - 1 - (i + 1)] \in Int
        /\ c[n - (i + 1)] \in Int
    BY <2>1
  <2>6. /\ g[i + 1] = g[i] - c[n - (i + 1)]
        /\ f[n - 1 - i] = f[n - 1 - (i + 1)] + c[n - (i + 1)]
    BY <2>1, <2>2, <2>3
  <2> DEFINE x == f[n - 1 - i]   y == f[n - 1 - (i + 1)]   z == f[n - 1]
             w == c[n - (i + 1)]
  <2>7. g[i + 1] = (x - z) - w /\ x = y + w /\ x \in Int /\ y \in Int /\ z \in Int /\ w \in Int
    BY <2>4, <2>5, <2>6
  <2> HIDE DEF x, y, z, w
  <2>8. g[i + 1] = y - z
    BY <2>7
  <2>9. QED
    BY <2>1, <2>8 DEF y, z
<1> HIDE DEF S
<1>3. \A i \in 0 .. n - 1 : i \in S
  BY <1>1, <1>2, UpTo
<1>4. n - 1 \in S
  BY <1>1, <1>3
<1>5. g[n - 1] = f[n - 1 - (n - 1)] - f[n - 1]
  BY <1>4 DEF S
<1>6. n - 1 - (n - 1) = 0 /\ n \in 1 .. n /\ n - 1 \in 0 .. n
  OBVIOUS
<1>7. f[n] = f[n - 1] + c[n] /\ f[n - 1] \in Int /\ c[n] \in Int
  BY <1>6
<1>8. g[n - 1] = 0 - f[n - 1]
  BY <1>5, <1>6, <1>7
<1>9. QED
  BY <1>7, <1>8

\* A polygon that is reversed has its area negated.
LEMMA ReversedArea ==
  ASSUME NEW h \in Seq(Plane), Len(h) > 0
  PROVE  TwiceSignedArea(Reverse(h)) = 0 - TwiceSignedArea(h)
<1> DEFINE n == Len(h)   r == Reverse(h)
           c == [i \in 1 .. n |-> Cross2(h[i], h[After(i, h)])]
<1>1. /\ r \in Seq(Plane) /\ Len(r) = n /\ n \in Nat /\ n > 0
      /\ DOMAIN h = 1 .. n
  BY ReverseIs
<1>2. PICK f \in [0 .. n -> Int] :
         /\ f[0] = 0 /\ TwiceSignedArea(h) = f[n]
         /\ \A i \in 1 .. n : f[i] = f[i - 1] + Cross2(h[i], h[After(i, h)])
  BY AreaIsTotal
<1>3. PICK g \in [0 .. n -> Int] :
         /\ g[0] = 0 /\ TwiceSignedArea(r) = g[n]
         /\ \A i \in 1 .. n : g[i] = g[i - 1] + Cross2(r[i], r[After(i, r)])
  BY <1>1, AreaIsTotal
<1>4. ASSUME NEW i \in 1 .. n
      PROVE  /\ c[i] \in Int /\ f[i] = f[i - 1] + c[i]
             /\ Cross2(h[After(i, h)], h[i]) = 0 - c[i]
  <2>1. h[i] \in Plane /\ h[After(i, h)] \in Plane
    BY <1>1, AfterIn
  <2>2. /\ h[i][1] \in Int /\ h[i][2] \in Int
        /\ h[After(i, h)][1] \in Int /\ h[After(i, h)][2] \in Int
    BY <2>1, PlaneInts
  <2>3. c[i] = Cross2(h[i], h[After(i, h)])
    OBVIOUS
  <2>4. c[i] \in Int /\ Cross2(h[After(i, h)], h[i]) = 0 - c[i]
    BY <2>2, <2>3 DEF Cross2
  <2>5. QED
    BY <1>2, <2>3, <2>4
<1>5. ASSUME NEW i \in 1 .. n
      PROVE  Cross2(r[i], r[After(i, r)]) = 0 - c[IF i = n THEN n ELSE n - i]
  <2> DEFINE j == n - i + 1   b == Before(j, h)
  <2>1. j \in 1 .. n /\ r[i] = h[j] /\ r[After(i, r)] = h[b]
    BY <1>1, ReverseNeighbours
  <2>2. b \in 1 .. n /\ After(b, h) = j
    BY <1>1, <2>1, BeforeIn
  <2>3. Cross2(h[After(b, h)], h[b]) = 0 - c[b]
    BY <1>4, <2>2
  <2>4. b = IF i = n THEN n ELSE n - i
    BY <1>1 DEF Before
  <2>5. QED
    BY <2>1, <2>2, <2>3, <2>4
<1> HIDE DEF n, r, c
<1>6. c \in [1 .. n -> Int]
  BY <1>4 DEF c
<1>7. \A i \in 1 .. n - 1 : g[i] = g[i - 1] - c[n - i]
  <2>1. TAKE i \in 1 .. n - 1
  <2>2. i \in 1 .. n /\ i # n /\ n - i \in 1 .. n /\ i - 1 \in 0 .. n
    BY <1>1
  <2>3. g[i] = g[i - 1] + Cross2(r[i], r[After(i, r)])
    BY <1>3, <2>2
  <2>4. Cross2(r[i], r[After(i, r)]) = 0 - c[n - i] /\ c[n - i] \in Int /\ g[i - 1] \in Int
    BY <1>3, <1>4, <1>5, <2>2
  <2>5. QED
    BY <2>3, <2>4
<1>8. g[n] = g[n - 1] - c[n]
  <2>2. n \in 1 .. n /\ n - 1 \in 0 .. n
    BY <1>1
  <2>3. g[n] = g[n - 1] + Cross2(r[n], r[After(n, r)])
    BY <1>3, <2>2
  <2>4. Cross2(r[n], r[After(n, r)]) = 0 - c[n] /\ c[n] \in Int /\ g[n - 1] \in Int
    BY <1>3, <1>4, <1>5, <2>2
  <2>5. QED
    BY <2>3, <2>4
<1>9. \A i \in 1 .. n : f[i] = f[i - 1] + c[i]
  BY <1>4
<1>10. g[n] = 0 - f[n]
  BY <1>1, <1>2, <1>3, <1>6, <1>7, <1>8, <1>9, ReversedTotal
<1>11. QED
  BY <1>2, <1>3, <1>10 DEF r

\* A ring passes the script's test of convexity, and so does its reverse.
THEOREM RingPasses ==
  ASSUME NEW s \in SUBSET Plane, IsFiniteSet(s), NEW h, RingOf(h, s), Len(h) >= 3
  PROVE  /\ Convex(h) /\ Convex(Reverse(h))
         /\ \A q \in s : ~ Outside(h, q) /\ ~ Outside(Reverse(h), q)
<1> DEFINE r == Reverse(h)
<1>1. h \in Seq(s) /\ h \in Seq(Plane) /\ Len(h) \in Nat /\ DOMAIN h = 1 .. Len(h)
  BY DEF RingOf
<1>2. r \in Seq(Plane) /\ Len(r) = Len(h) /\ DOMAIN r = 1 .. Len(h) /\ Range(r) = Range(h)
  BY <1>1, ReverseIs
<1>3. TwiceSignedArea(h) > 0 /\ TwiceSignedArea(h) \in Int
  BY <1>1, RingArea, SignIs
<1>4. TwiceSignedArea(r) = 0 - TwiceSignedArea(h)
  BY <1>1, ReversedArea
<1>5. Sign(h) = 1 /\ Sign(r) = -1
  <2>1. ~ (TwiceSignedArea(r) > 0)
    BY <1>3, <1>4
  <2>2. QED
    BY <1>3, <2>1 DEF Sign
<1>6. ConvexHull(Range(h)) = h
  BY HullOfVertices
<1>7. Convex(h)
  <2>1. TwiceSignedArea(h) # 0
    BY <1>3
  <2>2. \A i \in DOMAIN h : VertexTurn(h, i) >= 0
    <3>1. TAKE i \in DOMAIN h
    <3>2. Cross(h[Before(i, h)], h[i], h[After(i, h)]) > 0
      BY <1>1, RingTurns
    <3>3. Cross(h[Before(i, h)], h[i], h[After(i, h)]) \in Int
      BY <1>1, RingPoints, CrossInt
    <3>4. Cross(h[Before(i, h)], h[i], h[After(i, h)]) * 1 >= 0
      BY <3>2, <3>3
    <3>5. QED
      BY <1>5, <3>4 DEF VertexTurn
  <2>3. QED
    BY <1>6, <2>1, <2>2 DEF Convex
<1> HIDE DEF r
<1>8. ASSUME NEW i \in 1 .. Len(h), NEW j, j = Len(h) - i + 1
      PROVE  /\ j \in 1 .. Len(h) /\ r[i] = h[j]
             /\ r[After(i, r)] = h[Before(j, h)] /\ r[Before(i, r)] = h[After(j, h)]
  BY <1>1, <1>8, ReverseNeighbours DEF r
<1>9. Convex(r)
  <2>1. TwiceSignedArea(r) # 0
    BY <1>3, <1>4
  <2>2. \A i \in DOMAIN r : VertexTurn(r, i) >= 0
    <3>1. TAKE i \in DOMAIN r
    <3>2. PICK j \in 1 .. Len(h) :
             /\ r[i] = h[j]
             /\ r[After(i, r)] = h[Before(j, h)] /\ r[Before(i, r)] = h[After(j, h)]
      BY <1>2, <1>8
    <3>3. /\ Cross(h[Before(j, h)], h[j], h[After(j, h)]) > 0
          /\ h[Before(j, h)] \in Plane /\ h[j] \in Plane /\ h[After(j, h)] \in Plane
      BY RingTurns, RingPoints
    <3>4. /\ Cross(h[After(j, h)], h[j], h[Before(j, h)])
               = 0 - Cross(h[Before(j, h)], h[j], h[After(j, h)])
          /\ Cross(h[Before(j, h)], h[j], h[After(j, h)]) \in Int
      BY <3>3, CrossRotates
    <3>5. Cross(h[After(j, h)], h[j], h[Before(j, h)]) * (-1) >= 0
      BY <3>3, <3>4
    <3>6. Cross(r[Before(i, r)], r[i], r[After(i, r)]) * (-1) >= 0
      BY <3>2, <3>5
    <3>7. QED
      BY <1>5, <3>6 DEF VertexTurn
  <2>3. Magnitude(TwiceSignedArea(r)) = Magnitude(TwiceSignedArea(h))
    BY <1>3, <1>4 DEF Magnitude
  <2>4. QED
    BY <1>2, <1>6, <2>1, <2>2, <2>3 DEF Convex
<1>10. ASSUME NEW q \in s PROVE ~ Outside(h, q)
  <2>1. SUFFICES ASSUME NEW i \in DOMAIN h, Sign(h) * Edge(h, i, q) < 0 PROVE FALSE
    BY <1>1, NotOutside
  <2>2. Edge(h, i, q) >= 0 /\ Edge(h, i, q) \in Int
    BY <1>1, RingPoints, CrossInt DEF RingOf, Edge
  <2>3. 1 * Edge(h, i, q) < 0
    BY <1>5, <2>1
  <2>4. QED
    BY <2>2, <2>3
<1>11. ASSUME NEW q \in s PROVE ~ Outside(r, q)
  <2>1. SUFFICES ASSUME NEW i \in DOMAIN r, Sign(r) * Edge(r, i, q) < 0 PROVE FALSE
    BY <1>2, NotOutside
  <2>2. PICK j \in 1 .. Len(h) : r[i] = h[j] /\ r[After(i, r)] = h[Before(j, h)]
    BY <1>2, <1>8
  <2>3. /\ Cross(h[Before(j, h)], h[j], q) >= 0
        /\ h[Before(j, h)] \in Plane /\ h[j] \in Plane /\ q \in Plane
    BY RingTurns, RingPoints
  <2>4. /\ Cross(h[j], h[Before(j, h)], q) = 0 - Cross(h[Before(j, h)], h[j], q)
        /\ Cross(h[Before(j, h)], h[j], q) \in Int
    BY <2>3, CrossRotates
  <2>5. Edge(r, i, q) = 0 - Cross(h[Before(j, h)], h[j], q)
    BY <2>2, <2>4 DEF Edge
  <2>6. (-1) * (0 - Cross(h[Before(j, h)], h[j], q)) < 0
    BY <1>5, <2>1, <2>5
  <2>7. QED
    BY <2>3, <2>4, <2>6
<1>12. QED
  BY <1>7, <1>9, <1>10, <1>11 DEF r

-----------------------------------------------------------------------------
(* The triangles on three edges of a ring enclose its points.               *)

\* Which side of the line of two corners q is on.
LEMMA DeterminantAt ==
  ASSUME NEW a1 \in Int, NEW a2 \in Int, NEW a3 \in Int,
         NEW b1 \in Int, NEW b2 \in Int, NEW b3 \in Int, NEW q1 \in Int, NEW q2 \in Int
  PROVE  Determinant(<<a1, a2, a3>>, <<b1, b2, b3>>, <<q1, q2, 1>>)
            = (a1 - q1 * a3) * (b2 - q2 * b3) - (a2 - q2 * a3) * (b1 - q1 * b3)
<1>1. Determinant(<<a1, a2, a3>>, <<b1, b2, b3>>, <<q1, q2, 1>>)
        = a1 * (b2 * 1 - b3 * q2) - a2 * (b1 * 1 - b3 * q1) + a3 * (b1 * q2 - b2 * q1)
  BY DEF Determinant
<1>2. QED
  BY <1>1

\* A corner of two edges, seen from q.
LEMMA CornerSeen ==
  ASSUME NEW u1 \in Int, NEW u2 \in Int, NEW v1 \in Int, NEW v2 \in Int,
         NEW a1 \in Int, NEW a2 \in Int, NEW b1 \in Int, NEW b2 \in Int,
         NEW w, w = u1 * v2 - u2 * v1,
         NEW t, t = (b1 - a1) * v2 - (b2 - a2) * v1,
         NEW x, x = a1 * u2 - a2 * u1, NEW y, y = b1 * v2 - b2 * v1
  PROVE  /\ a1 * w + t * u1 = y * u1 - x * v1
         /\ a2 * w + t * u2 = y * u2 - x * v2
BY SMT

\* The cross product of two corners as seen from q.
LEMMA CornersCross ==
  ASSUME NEW u1 \in Int, NEW u2 \in Int, NEW v1 \in Int, NEW v2 \in Int,
         NEW w1 \in Int, NEW w2 \in Int, NEW x \in Int, NEW y \in Int, NEW z \in Int
  PROVE  (y * u1 - x * v1) * (z * v2 - y * w2) - (y * u2 - x * v2) * (z * v1 - y * w1)
            = y * ((v1 * w2 - v2 * w1) * x + (w1 * u2 - w2 * u1) * y
                     + (u1 * v2 - u2 * v1) * z)
BY SMT

\* What three edge lines leave to q, with the turns between them as weights.
Room(h, i, j, k, q) ==
    Turn(h, j, k) * Edge(h, i, q) + Turn(h, k, i) * Edge(h, j, q)
        + Turn(h, i, j) * Edge(h, k, q)

\* An edge by its direction, as seen from q.
LEMMA EdgeAsDirection ==
  ASSUME NEW h \in Seq(Plane), NEW i \in DOMAIN h, NEW q \in Plane
  PROVE  /\ Direction(h, i) \in Plane /\ h[i] \in Plane
         /\ Edge(h, i, q) \in Int
         /\ Edge(h, i, q) = (h[i][1] - q[1]) * Direction(h, i)[2]
                               - (h[i][2] - q[2]) * Direction(h, i)[1]
<1>1. h[i] \in Plane /\ h[After(i, h)] \in Plane
  BY AfterIn
<1>2. /\ h[i][1] \in Int /\ h[i][2] \in Int /\ q[1] \in Int /\ q[2] \in Int
      /\ h[After(i, h)][1] \in Int /\ h[After(i, h)][2] \in Int
  BY <1>1, PlaneInts
<1>3. Direction(h, i) \in Plane
  BY <1>2 DEF Direction, Plane
<1>4. /\ Direction(h, i)[1] = h[After(i, h)][1] - h[i][1]
      /\ Direction(h, i)[2] = h[After(i, h)][2] - h[i][2]
  BY DEF Direction
<1>5. Edge(h, i, q) = (h[After(i, h)][1] - h[i][1]) * (q[2] - h[i][2])
                         - (h[After(i, h)][2] - h[i][2]) * (q[1] - h[i][1])
  BY DEF Edge, Cross
<1>6. Edge(h, i, q) \in Int
  BY <1>1, CrossInt DEF Edge
<1>7. Edge(h, i, q) = (h[i][1] - q[1]) * Direction(h, i)[2]
                         - (h[i][2] - q[2]) * Direction(h, i)[1]
  <2> DEFINE a1 == h[i][1]   a2 == h[i][2]
             b1 == h[After(i, h)][1]   b2 == h[After(i, h)][2]
             q1 == q[1]   q2 == q[2]
             d1 == Direction(h, i)[1]   d2 == Direction(h, i)[2]
             e == Edge(h, i, q)
  <2> SUFFICES e = (a1 - q1) * d2 - (a2 - q2) * d1
    OBVIOUS
  <2>1. /\ a1 \in Int /\ a2 \in Int /\ b1 \in Int /\ b2 \in Int
        /\ q1 \in Int /\ q2 \in Int
    BY <1>2
  <2>2. d1 = b1 - a1 /\ d2 = b2 - a2
    BY <1>4
  <2>3. e = (b1 - a1) * (q2 - a2) - (b2 - a2) * (q1 - a1)
    BY <1>5
  <2> HIDE DEF a1, a2, b1, b2, q1, q2, d1, d2, e
  <2>4. (b1 - a1) * (q2 - a2) - (b2 - a2) * (q1 - a1)
           = (a1 - q1) * (b2 - a2) - (a2 - q2) * (b1 - a1)
    BY <2>1
  <2>5. QED
    BY <2>2, <2>3, <2>4
<1>8. QED
  BY <1>1, <1>3, <1>6, <1>7

\* The corner of two edge lines, as seen from q.
LEMMA CornerIs ==
  ASSUME NEW h \in Seq(Plane), NEW i \in DOMAIN h, NEW j \in DOMAIN h, NEW q \in Plane
  PROVE  \E x, y \in Int :
            /\ Corner(h, i, j) = <<x, y, Turn(h, i, j)>> /\ Turn(h, i, j) \in Int
            /\ x - q[1] * Turn(h, i, j)
                  = Edge(h, j, q) * Direction(h, i)[1] - Edge(h, i, q) * Direction(h, j)[1]
            /\ y - q[2] * Turn(h, i, j)
                  = Edge(h, j, q) * Direction(h, i)[2] - Edge(h, i, q) * Direction(h, j)[2]
<1> DEFINE u1 == Direction(h, i)[1]   u2 == Direction(h, i)[2]
           v1 == Direction(h, j)[1]   v2 == Direction(h, j)[2]
           i1 == h[i][1]   i2 == h[i][2]   j1 == h[j][1]   j2 == h[j][2]
           q1 == q[1]   q2 == q[2]
           w == Turn(h, i, j)
           t == Cross2(<<h[j][1] - h[i][1], h[j][2] - h[i][2]>>, Direction(h, j))
           e == Edge(h, i, q)   f == Edge(h, j, q)
<1>1. /\ Direction(h, i) \in Plane /\ Direction(h, j) \in Plane
      /\ h[i] \in Plane /\ h[j] \in Plane
      /\ e \in Int /\ f \in Int
      /\ e = (i1 - q1) * u2 - (i2 - q2) * u1 /\ f = (j1 - q1) * v2 - (j2 - q2) * v1
  BY EdgeAsDirection
<1>2. /\ u1 \in Int /\ u2 \in Int /\ v1 \in Int /\ v2 \in Int /\ i1 \in Int /\ i2 \in Int
      /\ j1 \in Int /\ j2 \in Int /\ q1 \in Int /\ q2 \in Int
  BY <1>1, PlaneInts
<1>3. w = u1 * v2 - u2 * v1 /\ t = (j1 - i1) * v2 - (j2 - i2) * v1
  BY DEF Turn, Cross2
<1>4. Corner(h, i, j) = <<i1 * w + t * u1, i2 * w + t * u2, w>>
  BY DEF Corner
<1> DEFINE a1 == i1 - q1   a2 == i2 - q2   b1 == j1 - q1   b2 == j2 - q2
<1> HIDE DEF u1, u2, v1, v2, w, t, e, f, i1, i2, j1, j2, q1, q2
<1>5. /\ a1 \in Int /\ a2 \in Int /\ b1 \in Int /\ b2 \in Int
      /\ j1 - i1 = b1 - a1 /\ j2 - i2 = b2 - a2
  BY <1>2
<1>6. w \in Int /\ t \in Int
  BY <1>2, <1>3
<1>7. /\ a1 * w + t * u1 = f * u1 - e * v1
      /\ a2 * w + t * u2 = f * u2 - e * v2
  <2>1. t = (b1 - a1) * v2 - (b2 - a2) * v1
    BY <1>3, <1>5
  <2>2. e = a1 * u2 - a2 * u1 /\ f = b1 * v2 - b2 * v1
    BY <1>1
  <2> HIDE DEF a1, a2, b1, b2
  <2>3. QED
    BY <1>2, <1>3, <1>5, <2>1, <2>2, CornerSeen
<1>8. /\ (i1 * w + t * u1) - q1 * w = a1 * w + t * u1
      /\ (i2 * w + t * u2) - q2 * w = a2 * w + t * u2
      /\ i1 * w + t * u1 \in Int /\ i2 * w + t * u2 \in Int
  BY <1>2, <1>6
<1> HIDE DEF a1, a2
<1>9. /\ (i1 * w + t * u1) - q1 * w = f * u1 - e * v1
      /\ (i2 * w + t * u2) - q2 * w = f * u2 - e * v2
  BY <1>7, <1>8
<1>10. QED
  BY <1>4, <1>6, <1>8, <1>9 DEF u1, u2, v1, v2, w, e, f, q1, q2

\* A side of the triangle is along its edge, and q is on the hull's side of it.
LEMMA SideOfTriangle ==
  ASSUME NEW h \in Seq(Plane), NEW i \in DOMAIN h, NEW j \in DOMAIN h, NEW k \in DOMAIN h,
         NEW q \in Plane
  PROVE  /\ Determinant(Corner(h, i, j), Corner(h, j, k), <<q[1], q[2], 1>>)
               = Edge(h, j, q) * Room(h, i, j, k, q)
         /\ Corner(h, i, j)[3] = Turn(h, i, j) /\ Turn(h, i, j) \in Int
<1>1. PICK x \in Int, y \in Int :
         /\ Corner(h, i, j) = <<x, y, Turn(h, i, j)>> /\ Turn(h, i, j) \in Int
         /\ x - q[1] * Turn(h, i, j)
               = Edge(h, j, q) * Direction(h, i)[1] - Edge(h, i, q) * Direction(h, j)[1]
         /\ y - q[2] * Turn(h, i, j)
               = Edge(h, j, q) * Direction(h, i)[2] - Edge(h, i, q) * Direction(h, j)[2]
  BY CornerIs
<1>2. PICK z \in Int, v \in Int :
         /\ Corner(h, j, k) = <<z, v, Turn(h, j, k)>> /\ Turn(h, j, k) \in Int
         /\ z - q[1] * Turn(h, j, k)
               = Edge(h, k, q) * Direction(h, j)[1] - Edge(h, j, q) * Direction(h, k)[1]
         /\ v - q[2] * Turn(h, j, k)
               = Edge(h, k, q) * Direction(h, j)[2] - Edge(h, j, q) * Direction(h, k)[2]
  BY CornerIs
<1> DEFINE c == Determinant(Corner(h, i, j), Corner(h, j, k), <<q[1], q[2], 1>>)
           a1 == Direction(h, i)[1]   a2 == Direction(h, i)[2]
           b1 == Direction(h, j)[1]   b2 == Direction(h, j)[2]
           d1 == Direction(h, k)[1]   d2 == Direction(h, k)[2]
           e == Edge(h, i, q)   f == Edge(h, j, q)   g == Edge(h, k, q)
<1>3. c = (x - q[1] * Turn(h, i, j)) * (v - q[2] * Turn(h, j, k))
             - (y - q[2] * Turn(h, i, j)) * (z - q[1] * Turn(h, j, k))
  <2> DEFINE w == Turn(h, i, j)   t == Turn(h, j, k)   q1 == q[1]   q2 == q[2]
  <2>1. q1 \in Int /\ q2 \in Int
    BY PlaneInts
  <2>2. /\ Corner(h, i, j) = <<x, y, w>> /\ w \in Int
        /\ Corner(h, j, k) = <<z, v, t>> /\ t \in Int
    BY <1>1, <1>2
  <2> HIDE DEF w, t, q1, q2
  <2>3. Determinant(<<x, y, w>>, <<z, v, t>>, <<q1, q2, 1>>)
           = (x - q1 * w) * (v - q2 * t) - (y - q2 * w) * (z - q1 * t)
    BY <2>1, <2>2, DeterminantAt
  <2>4. QED
    BY <2>2, <2>3 DEF w, t, q1, q2
<1>4. c = (f * a1 - e * b1) * (g * b2 - f * d2) - (f * a2 - e * b2) * (g * b1 - f * d1)
  BY <1>1, <1>2, <1>3
<1>5. /\ a1 \in Int /\ a2 \in Int /\ b1 \in Int /\ b2 \in Int /\ d1 \in Int /\ d2 \in Int
      /\ e \in Int /\ f \in Int /\ g \in Int
  BY EdgeAsDirection, PlaneInts
<1>6. Room(h, i, j, k, q) = (b1 * d2 - b2 * d1) * e + (d1 * a2 - d2 * a1) * f
                               + (a1 * b2 - a2 * b1) * g
  BY DEF Room, Turn, Cross2
<1> HIDE DEF a1, a2, b1, b2, d1, d2, e, f, g, c
<1>7. c = f * Room(h, i, j, k, q)
  BY <1>4, <1>5, <1>6, CornersCross
<1>8. QED
  BY <1>1, <1>7 DEF c, f

\* FlushTrianglesEnclose for any ring around any set of points of the plane.
THEOREM TrianglesEnclose ==
  ASSUME NEW s \in SUBSET Plane, NEW h, RingOf(h, s), NEW e \in EdgeTriples(h), NEW q \in s
  PROVE  LET c == TriangleCorners(h, e)
             p == <<q[1], q[2], 1>>
         IN  /\ Determinant(c[1], c[2], p) * c[1][3] * c[2][3] >= 0
             /\ Determinant(c[2], c[3], p) * c[2][3] * c[3][3] >= 0
             /\ Determinant(c[3], c[1], p) * c[3][3] * c[1][3] >= 0
<1> DEFINE i == e[1]   j == e[2]   k == e[3]   p == <<q[1], q[2], 1>>
           a == Turn(h, i, j)   b == Turn(h, j, k)   c == Turn(h, k, i)
           x == Edge(h, i, q)   y == Edge(h, j, q)   z == Edge(h, k, q)
           D == b * x + c * y + a * z
<1>1. h \in Seq(Plane) /\ DOMAIN h = 1 .. Len(h) /\ q \in Plane
  <2>1. h \in Seq(s)
    BY DEF RingOf
  <2>2. QED
    BY <2>1
<1>2. /\ i \in DOMAIN h /\ j \in DOMAIN h /\ k \in DOMAIN h /\ a > 0 /\ b > 0 /\ c > 0
  BY <1>1 DEF EdgeTriples, EdgeTriple
<1>3. x >= 0 /\ y >= 0 /\ z >= 0
  BY <1>1, <1>2 DEF RingOf
<1>4. x \in Int /\ y \in Int /\ z \in Int
  BY <1>1, <1>2, EdgeAsDirection
<1>5. /\ Determinant(Corner(h, i, j), Corner(h, j, k), p) = y * Room(h, i, j, k, q)
      /\ Determinant(Corner(h, j, k), Corner(h, k, i), p) = z * Room(h, j, k, i, q)
      /\ Determinant(Corner(h, k, i), Corner(h, i, j), p) = x * Room(h, k, i, j, q)
      /\ Corner(h, i, j)[3] = a /\ Corner(h, j, k)[3] = b /\ Corner(h, k, i)[3] = c
      /\ a \in Int /\ b \in Int /\ c \in Int
  BY <1>1, <1>2, SideOfTriangle
<1>6. /\ Room(h, i, j, k, q) = b * x + c * y + a * z
      /\ Room(h, j, k, i, q) = c * y + a * z + b * x
      /\ Room(h, k, i, j, q) = a * z + b * x + c * y
  BY DEF Room
<1> HIDE DEF a, b, c, x, y, z
<1>7. /\ b * x \in Int /\ c * y \in Int /\ a * z \in Int
      /\ b * x >= 0 /\ c * y >= 0 /\ a * z >= 0
  BY <1>2, <1>3, <1>4, <1>5, ProductSign
<1>8. /\ D \in Int /\ D >= 0 /\ Room(h, i, j, k, q) = D
      /\ Room(h, j, k, i, q) = D /\ Room(h, k, i, j, q) = D
  BY <1>6, <1>7
<1> HIDE DEF D
<1>9. ASSUME NEW l \in Int, NEW m \in Int, NEW n \in Int, l >= 0, m > 0, n > 0
      PROVE  l * D * m * n >= 0
  <2>1. l * D \in Int /\ l * D >= 0
    BY <1>8, <1>9, ProductSign
  <2>2. l * D * m \in Int /\ l * D * m >= 0
    BY <1>9, <2>1, ProductSign
  <2>3. QED
    BY <1>9, <2>2, ProductSign
<1>10. /\ y * D * a * b >= 0 /\ z * D * b * c >= 0 /\ x * D * c * a >= 0
  BY <1>2, <1>3, <1>4, <1>5, <1>9
<1>11. /\ TriangleCorners(h, e)[1] = Corner(h, i, j)
       /\ TriangleCorners(h, e)[2] = Corner(h, j, k)
       /\ TriangleCorners(h, e)[3] = Corner(h, k, i)
  BY DEF TriangleCorners
<1>12. QED
  BY <1>5, <1>8, <1>10, <1>11

-----------------------------------------------------------------------------
(* The least rectangle around a ring has a side along an edge.              *)

Dot(u, v) == u[1] * v[1] + u[2] * v[2]

Quarter(u) == <<0 - u[2], u[1]>>

Opposite(u) == <<0 - u[1], 0 - u[2]>>

\* Dot and cross products, and quarter and half turns.
LEMMA VectorTypes ==
  ASSUME NEW u \in Plane, NEW v \in Plane
  PROVE  /\ Dot(u, v) \in Int /\ Cross2(u, v) \in Int
         /\ Quarter(u) \in Plane /\ Opposite(u) \in Plane
<1>1. u[1] \in Int /\ u[2] \in Int /\ v[1] \in Int /\ v[2] \in Int
  BY PlaneInts
<1>2. Quarter(u) \in Plane /\ Opposite(u) \in Plane
  BY <1>1 DEF Quarter, Opposite, Plane
<1>3. Dot(u, v) \in Int /\ Cross2(u, v) \in Int
  <2> DEFINE a == u[1]   b == u[2]   c == v[1]   d == v[2]
  <2>1. a \in Int /\ b \in Int /\ c \in Int /\ d \in Int
    BY <1>1
  <2>2. Dot(u, v) = a * c + b * d /\ Cross2(u, v) = a * d - b * c
    BY DEF Dot, Cross2
  <2> HIDE DEF a, b, c, d
  <2>3. QED
    BY <2>1, <2>2
<1>4. QED
  BY <1>2, <1>3

LEMMA VectorTurns ==
  ASSUME NEW u \in Plane, NEW v \in Plane
  PROVE  /\ Dot(u, v) = Dot(v, u) /\ Cross2(v, u) = 0 - Cross2(u, v) /\ Cross2(u, u) = 0
         /\ Dot(Quarter(u), v) = Cross2(u, v) /\ Cross2(Quarter(u), v) = 0 - Dot(u, v)
         /\ Dot(u, Quarter(v)) = Cross2(v, u) /\ Cross2(u, Quarter(v)) = Dot(u, v)
         /\ Dot(Opposite(u), v) = 0 - Dot(u, v)
         /\ Dot(u, Opposite(v)) = 0 - Dot(u, v)
         /\ Cross2(Opposite(u), v) = 0 - Cross2(u, v)
         /\ Cross2(u, Opposite(v)) = 0 - Cross2(u, v)
<1> DEFINE a == u[1]   b == u[2]   c == v[1]   d == v[2]
<1>1. a \in Int /\ b \in Int /\ c \in Int /\ d \in Int
  BY PlaneInts
<1>2. /\ Dot(u, v) = a * c + b * d /\ Dot(v, u) = c * a + d * b
      /\ Cross2(u, v) = a * d - b * c /\ Cross2(v, u) = c * b - d * a
      /\ Cross2(u, u) = a * b - b * a
  BY DEF Dot, Cross2
<1>3. /\ Dot(Quarter(u), v) = (0 - b) * c + a * d
      /\ Cross2(Quarter(u), v) = (0 - b) * d - a * c
      /\ Dot(u, Quarter(v)) = a * (0 - d) + b * c
      /\ Cross2(u, Quarter(v)) = a * c - b * (0 - d)
  BY DEF Dot, Cross2, Quarter
<1>4. /\ Dot(Opposite(u), v) = (0 - a) * c + (0 - b) * d
      /\ Dot(u, Opposite(v)) = a * (0 - c) + b * (0 - d)
      /\ Cross2(Opposite(u), v) = (0 - a) * d - (0 - b) * c
      /\ Cross2(u, Opposite(v)) = a * (0 - d) - b * (0 - c)
  BY DEF Dot, Cross2, Opposite
<1> HIDE DEF a, b, c, d
<1>5. /\ a * c = c * a /\ b * d = d * b /\ a * d = d * a /\ b * c = c * b /\ a * b = b * a
      /\ a * c \in Int /\ b * d \in Int /\ a * d \in Int /\ b * c \in Int /\ a * b \in Int
      /\ (0 - a) * c = 0 - a * c /\ (0 - b) * d = 0 - b * d
      /\ (0 - a) * d = 0 - a * d /\ (0 - b) * c = 0 - b * c
      /\ a * (0 - c) = 0 - a * c /\ b * (0 - d) = 0 - b * d
      /\ a * (0 - d) = 0 - a * d /\ b * (0 - c) = 0 - b * c
  BY <1>1
<1>6. QED
  BY <1>2, <1>3, <1>4, <1>5

LEMMA QuarterTwice ==
  ASSUME NEW u \in Plane
  PROVE  Quarter(Quarter(u)) = Opposite(u) /\ Opposite(Opposite(u)) = u
<1>1. u = <<u[1], u[2]>> /\ u[1] \in Int /\ u[2] \in Int
  BY DEF Plane
<1>2. 0 - (0 - u[1]) = u[1] /\ 0 - (0 - u[2]) = u[2]
  BY <1>1
<1>3. QED
  BY <1>1, <1>2 DEF Quarter, Opposite

Ordered(S, R) ==
    /\ IsFiniteSet(S) /\ S # {}
    /\ \A x, y, z \in S : <<x, y>> \in R /\ <<y, z>> \in R => <<x, z>> \in R
    /\ \A x \in S : <<x, x>> \notin R

HasLast(S, R) == \E x \in S : \A y \in S : <<x, y>> \notin R

LEMMA LastOfOrder ==
  ASSUME NEW S, NEW R, Ordered(S, R)
  PROVE  HasLast(S, R)
BY LastExists, Zenon DEF Ordered, HasLast

\* Vertex i is a farthest one in direction x.
Supports(h, i, x) == \A k \in DOMAIN h : Dot(h[k], x) <= Dot(h[i], x)

\* In every direction there is a farthest vertex.
LEMMA SupportExists ==
  ASSUME NEW h \in Seq(Plane), Len(h) > 0, NEW x \in Plane
  PROVE  \E i \in DOMAIN h : Supports(h, i, x)
<1> DEFINE S == DOMAIN h
           R == {r \in S \X S : Dot(h[r[1]], x) < Dot(h[r[2]], x)}
<1>1. S = 1 .. Len(h) /\ Len(h) \in Nat /\ S # {}
  <2>1. S = 1 .. Len(h) /\ Len(h) \in Nat
    OBVIOUS
  <2>2. 1 \in S
    BY <2>1
  <2>3. QED
    BY <2>1, <2>2
<1>2. IsFiniteSet(S)
  BY <1>1, FS_Interval
<1>3. \A i \in S : Dot(h[i], x) \in Int
  <2>1. \A i \in S : h[i] \in Plane
    OBVIOUS
  <2>2. QED
    BY <2>1, VectorTypes
<1> HIDE DEF S
<1>4. ASSUME NEW i \in S, NEW j \in S
      PROVE  <<i, j>> \in R <=> Dot(h[i], x) < Dot(h[j], x)
  OBVIOUS
<1> HIDE DEF R
<1>5. \A i, j, k \in S : <<i, j>> \in R /\ <<j, k>> \in R => <<i, k>> \in R
  BY <1>3, <1>4
<1>6. \A i \in S : <<i, i>> \notin R
  BY <1>3, <1>4
<1>7. PICK i \in S : \A j \in S : <<i, j>> \notin R
  <2>1. Ordered(S, R)
    BY <1>1, <1>2, <1>5, <1>6 DEF Ordered
  <2>2. HasLast(S, R)
    BY <2>1, LastOfOrder
  <2>3. QED
    BY <2>2 DEF HasLast
<1>8. \A j \in S : Dot(h[j], x) <= Dot(h[i], x)
  <2>1. TAKE j \in S
  <2> DEFINE v == Dot(h[i], x)   w == Dot(h[j], x)
  <2>2. v \in Int /\ w \in Int
    BY <1>3, <1>7
  <2>3. ~ (v < w)
    BY <1>4, <1>7
  <2> HIDE DEF v, w
  <2>4. w <= v
    BY <2>2, <2>3
  <2>5. QED
    BY <2>4 DEF v, w
<1>9. QED
  BY <1>7, <1>8 DEF Supports, S

\* The extent by its two ends.
LEMMA ExtentOf ==
  ASSUME NEW S \in SUBSET Int, NEW m \in S, NEW l \in S,
         \A y \in S : y <= m /\ l <= y
  PROVE  Extent(S) = m - l
<1>1. Max(S) = m
  <2> DEFINE most(v) == \A y \in S : v >= y
  <2>1. most(m)
    OBVIOUS
  <2>2. Max(S) = CHOOSE x \in S : most(x)
    BY DEF Max
  <2> HIDE DEF most
  <2>3. Max(S) \in S /\ most(Max(S))
    BY <2>1, <2>2
  <2> DEFINE z == Max(S)
  <2>4. z \in Int /\ m \in Int /\ z >= m /\ m >= z
    BY <2>1, <2>3 DEF most
  <2> HIDE DEF z
  <2>5. z = m
    BY <2>4
  <2>6. QED
    BY <2>5 DEF z
<1>2. Min(S) = l
  <2> DEFINE least(v) == \A y \in S : v <= y
  <2>1. least(l)
    OBVIOUS
  <2>2. Min(S) = CHOOSE x \in S : least(x)
    BY DEF Min
  <2> HIDE DEF least
  <2>3. Min(S) \in S /\ least(Min(S))
    BY <2>1, <2>2
  <2> DEFINE z == Min(S)
  <2>4. z \in Int /\ l \in Int /\ z <= l /\ l <= z
    BY <2>1, <2>3 DEF least
  <2> HIDE DEF z
  <2>5. z = l
    BY <2>4
  <2>6. QED
    BY <2>5 DEF z
<1>3. QED
  BY <1>1, <1>2 DEF Extent

\* The vertices that a rectangle with a side along x touches.
Touches(h, a, b, c, d, x) ==
    /\ a \in DOMAIN h /\ b \in DOMAIN h /\ c \in DOMAIN h /\ d \in DOMAIN h
    /\ Supports(h, a, x) /\ Supports(h, b, Opposite(x))
    /\ Supports(h, c, Quarter(x)) /\ Supports(h, d, Opposite(Quarter(x)))

\* Every rectangle has vertices that it touches.
LEMMA TouchedExist ==
  ASSUME NEW h \in Seq(Plane), Len(h) > 0, NEW x \in Plane
  PROVE  \E a, b, c, d \in DOMAIN h : Touches(h, a, b, c, d, x)
<1>1. Opposite(x) \in Plane /\ Quarter(x) \in Plane /\ Opposite(Quarter(x)) \in Plane
  BY VectorTypes
<1>2. PICK a \in DOMAIN h : Supports(h, a, x)
  BY SupportExists
<1>3. PICK b \in DOMAIN h : Supports(h, b, Opposite(x))
  BY <1>1, SupportExists
<1>4. PICK c \in DOMAIN h : Supports(h, c, Quarter(x))
  BY <1>1, SupportExists
<1>5. PICK d \in DOMAIN h : Supports(h, d, Opposite(Quarter(x)))
  BY <1>1, SupportExists
<1>6. QED
  BY <1>2, <1>3, <1>4, <1>5 DEF Touches

\* The extent along a side is from one farthest vertex to the opposite.
LEMMA ExtentAlong ==
  ASSUME NEW h \in Seq(Plane), NEW a \in DOMAIN h, NEW b \in DOMAIN h, NEW x \in Plane,
         Supports(h, a, x), Supports(h, b, Opposite(x))
  PROVE  /\ Extent({Dot(h[i], x) : i \in DOMAIN h}) = Dot(h[a], x) - Dot(h[b], x)
         /\ Dot(h[a], x) - Dot(h[b], x) \in Nat
<1> DEFINE S == {Dot(h[i], x) : i \in DOMAIN h}
<1>1. \A i \in DOMAIN h : /\ Dot(h[i], x) \in Int /\ h[i] \in Plane
                          /\ Dot(h[i], Opposite(x)) = 0 - Dot(h[i], x)
  BY VectorTypes, VectorTurns
<1>2. \A i \in DOMAIN h : Dot(h[i], x) <= Dot(h[a], x)
  BY DEF Supports
<1>3. \A i \in DOMAIN h : Dot(h[b], x) <= Dot(h[i], x)
  <2>1. TAKE i \in DOMAIN h
  <2>2. Dot(h[i], Opposite(x)) <= Dot(h[b], Opposite(x))
    BY DEF Supports
  <2>3. QED
    BY <1>1, <2>2
<1>4. S \in SUBSET Int /\ Dot(h[a], x) \in S /\ Dot(h[b], x) \in S
  BY <1>1
<1>5. \A y \in S : y <= Dot(h[a], x) /\ Dot(h[b], x) <= y
  BY <1>2, <1>3
<1> HIDE DEF S
<1>6. Extent(S) = Dot(h[a], x) - Dot(h[b], x)
  BY <1>4, <1>5, ExtentOf
<1>7. Dot(h[a], x) - Dot(h[b], x) \in Nat
  BY <1>1, <1>2
<1>8. QED
  BY <1>6, <1>7 DEF S

\* The rectangle by the vertices that it touches.
LEMMA RectangleIs ==
  ASSUME NEW h \in Seq(Plane), NEW x \in Plane, NEW a, NEW b, NEW c, NEW d,
         Touches(h, a, b, c, d, x)
  PROVE  /\ RectangleAlong(h, x).num
               = (Dot(h[a], x) - Dot(h[b], x))
                    * (Dot(h[c], Quarter(x)) - Dot(h[d], Quarter(x)))
         /\ RectangleAlong(h, x).den = Dot(x, x)
         /\ Dot(h[a], x) - Dot(h[b], x) \in Nat
         /\ Dot(h[c], Quarter(x)) - Dot(h[d], Quarter(x)) \in Nat
<1>1. a \in DOMAIN h /\ b \in DOMAIN h /\ c \in DOMAIN h /\ d \in DOMAIN h
  BY DEF Touches
<1>2. Quarter(x) \in Plane
  BY VectorTypes
<1>3. /\ Extent({Dot(h[i], x) : i \in DOMAIN h}) = Dot(h[a], x) - Dot(h[b], x)
      /\ Dot(h[a], x) - Dot(h[b], x) \in Nat
  BY <1>1, ExtentAlong DEF Touches
<1>4. /\ Extent({Dot(h[i], Quarter(x)) : i \in DOMAIN h})
            = Dot(h[c], Quarter(x)) - Dot(h[d], Quarter(x))
      /\ Dot(h[c], Quarter(x)) - Dot(h[d], Quarter(x)) \in Nat
  BY <1>1, <1>2, ExtentAlong DEF Touches
<1>5. {h[i][1] * x[1] + h[i][2] * x[2] : i \in DOMAIN h} = {Dot(h[i], x) : i \in DOMAIN h}
  BY DEF Dot
<1>6. {Cross2(x, h[i]) : i \in DOMAIN h} = {Dot(h[i], Quarter(x)) : i \in DOMAIN h}
  <2>1. \A i \in DOMAIN h : Cross2(x, h[i]) = Dot(h[i], Quarter(x))
    BY VectorTurns
  <2>2. QED
    BY <2>1
<1>7. /\ RectangleAlong(h, x).num = Extent({Dot(h[i], x) : i \in DOMAIN h})
                                       * Extent({Dot(h[i], Quarter(x)) : i \in DOMAIN h})
      /\ RectangleAlong(h, x).den = Dot(x, x)
  BY <1>5, <1>6 DEF RectangleAlong, Dot
<1>8. QED
  BY <1>3, <1>4, <1>7

\* A quarter turn of the side gives the same rectangle.
LEMMA QuarterRectangle ==
  ASSUME NEW h \in Seq(Plane), Len(h) > 0, NEW x \in Plane
  PROVE  /\ RectangleAlong(h, Quarter(x)).num = RectangleAlong(h, x).num
         /\ RectangleAlong(h, Quarter(x)).den = RectangleAlong(h, x).den
<1> DEFINE y == Quarter(x)
<1>1. PICK a, b, c, d \in DOMAIN h : Touches(h, a, b, c, d, x)
  BY TouchedExist
<1>2. y \in Plane /\ Quarter(y) = Opposite(x) /\ Opposite(Quarter(y)) = x
      /\ h[a] \in Plane /\ h[b] \in Plane /\ h[c] \in Plane /\ h[d] \in Plane
  BY <1>1, VectorTypes, QuarterTwice
<1>3. Touches(h, c, d, b, a, y)
  BY <1>1, <1>2 DEF Touches
<1>4. /\ RectangleAlong(h, x).num
            = (Dot(h[a], x) - Dot(h[b], x)) * (Dot(h[c], y) - Dot(h[d], y))
      /\ RectangleAlong(h, x).den = Dot(x, x)
  BY <1>1, RectangleIs
<1>5. /\ RectangleAlong(h, y).num
            = (Dot(h[c], y) - Dot(h[d], y)) * (Dot(h[b], Quarter(y)) - Dot(h[a], Quarter(y)))
      /\ RectangleAlong(h, y).den = Dot(y, y)
  BY <1>2, <1>3, RectangleIs
<1>6. /\ Dot(h[b], Quarter(y)) = 0 - Dot(h[b], x) /\ Dot(h[a], Quarter(y)) = 0 - Dot(h[a], x)
      /\ Dot(h[a], x) \in Int /\ Dot(h[b], x) \in Int
      /\ Dot(h[c], y) \in Int /\ Dot(h[d], y) \in Int
  BY <1>2, VectorTypes, VectorTurns
<1>7. Dot(y, y) = Dot(x, x)
  <2>1. Dot(y, y) = Cross2(x, y) /\ Cross2(x, y) = Dot(x, x)
    BY <1>2, VectorTurns
  <2>2. QED
    BY <2>1
<1> HIDE DEF y
<1>8. RectangleAlong(h, y).num = RectangleAlong(h, x).num
  <2> DEFINE p == Dot(h[a], x)   q == Dot(h[b], x)   r == Dot(h[c], y)   t == Dot(h[d], y)
  <2>1. /\ RectangleAlong(h, x).num = (p - q) * (r - t)
        /\ RectangleAlong(h, y).num = (r - t) * ((0 - q) - (0 - p))
        /\ p \in Int /\ q \in Int /\ r \in Int /\ t \in Int
    BY <1>4, <1>5, <1>6
  <2> HIDE DEF p, q, r, t
  <2>2. (0 - q) - (0 - p) = p - q /\ p - q \in Int /\ r - t \in Int
    BY <2>1
  <2>3. (p - q) * (r - t) = (r - t) * (p - q)
    BY <2>2, ProductSign
  <2>4. QED
    BY <2>1, <2>2, <2>3
<1>9. QED
  BY <1>4, <1>5, <1>7, <1>8 DEF y

\* A vector to the left of two others that turn left.
LEMMA LocalSign ==
  ASSUME NEW a \in Plane, NEW b \in Plane, NEW w \in Plane, NEW x \in Plane,
         Cross2(a, b) > 0, Cross2(a, w) >= 0, Cross2(b, w) >= 0,
         Dot(a, x) >= 0, Dot(b, x) <= 0
  PROVE  Dot(w, x) <= 0
<1> DEFINE a1 == a[1]   a2 == a[2]   b1 == b[1]   b2 == b[2]   w1 == w[1]   w2 == w[2]
           x1 == x[1]   x2 == x[2]
<1>0. /\ a1 \in Int /\ a2 \in Int /\ b1 \in Int /\ b2 \in Int /\ w1 \in Int /\ w2 \in Int
      /\ x1 \in Int /\ x2 \in Int
  BY PlaneInts
<1>a. /\ a1 * b2 - a2 * b1 > 0 /\ a1 * w2 - a2 * w1 >= 0 /\ b1 * w2 - b2 * w1 >= 0
      /\ a1 * x1 + a2 * x2 >= 0 /\ b1 * x1 + b2 * x2 <= 0
      /\ Dot(w, x) = w1 * x1 + w2 * x2
  BY DEF Dot, Cross2
<1> HIDE DEF a1, a2, b1, b2, w1, w2, x1, x2
<1> DEFINE D == a1 * b2 - a2 * b1   E == a1 * w2 - a2 * w1   F == b1 * w2 - b2 * w1
           A == a1 * x1 + a2 * x2   B == b1 * x1 + b2 * x2   W == w1 * x1 + w2 * x2
<1>1. /\ D \in Int /\ E \in Int /\ F \in Int /\ A \in Int /\ B \in Int /\ W \in Int
      /\ D > 0 /\ E >= 0 /\ F >= 0 /\ A >= 0 /\ B <= 0
  BY <1>0, <1>a
<1>2. D * w1 = E * b1 - F * a1 /\ D * w2 = E * b2 - F * a2
  BY <1>0
<1>3. D * W = (D * w1) * x1 + (D * w2) * x2
  <2> HIDE DEF D
  <2>1. QED
    BY <1>0, <1>1
<1>4. (E * b1 - F * a1) * x1 + (E * b2 - F * a2) * x2 = E * B - F * A
  <2> HIDE DEF E, F
  <2>1. QED
    BY <1>0, <1>1
<1> HIDE DEF D, E, F, A, B, W
<1>5. D * W = E * B - F * A
  BY <1>2, <1>3, <1>4
<1>6. E * B <= 0 /\ F * A >= 0 /\ E * B \in Int /\ F * A \in Int
  BY <1>1, ProductSign
<1>7. ~ (D * W > 0)
  BY <1>5, <1>6
<1>8. ~ (W > 0)
  BY <1>1, <1>7, ProductSign
<1>9. W <= 0
  BY <1>1, <1>8
<1>10. QED
  BY <1>9, <1>a DEF W

LEMMA PairIn ==
  ASSUME NEW x \in Int, NEW y \in Int
  PROVE  <<x, y>> \in Plane
BY DEF Plane

LEMMA CrossAsVectors ==
  ASSUME NEW o \in Plane, NEW p \in Plane, NEW q \in Plane
  PROVE  /\ <<p[1] - o[1], p[2] - o[2]>> \in Plane
         /\ Cross(o, p, q)
               = Cross2(<<p[1] - o[1], p[2] - o[2]>>, <<q[1] - p[1], q[2] - p[2]>>)
<1> DEFINE o1 == o[1]   o2 == o[2]   p1 == p[1]   p2 == p[2]   q1 == q[1]   q2 == q[2]
<1>1. /\ o1 \in Int /\ o2 \in Int /\ p1 \in Int /\ p2 \in Int /\ q1 \in Int /\ q2 \in Int
  BY PlaneInts
<1>2. /\ Cross(o, p, q) = (p1 - o1) * (q2 - o2) - (p2 - o2) * (q1 - o1)
      /\ Cross2(<<p1 - o1, p2 - o2>>, <<q1 - p1, q2 - p2>>)
           = (p1 - o1) * (q2 - p2) - (p2 - o2) * (q1 - p1)
  BY DEF Cross, Cross2
<1> HIDE DEF o1, o2, p1, p2, q1, q2
<1>3. (p1 - o1) * (q2 - o2) - (p2 - o2) * (q1 - o1)
        = (p1 - o1) * (q2 - p2) - (p2 - o2) * (q1 - p1)
  BY <1>1
<1>4. p1 - o1 \in Int /\ p2 - o2 \in Int
  BY <1>1
<1>5. <<p1 - o1, p2 - o2>> \in Plane
  BY <1>4, PairIn
<1>6. QED
  BY <1>2, <1>3, <1>5 DEF o1, o2, p1, p2, q1, q2

\* The edges at a vertex of a ring, as vectors.
LEMMA RingVertex ==
  ASSUME NEW s \in SUBSET Plane, NEW h, RingOf(h, s), Len(h) >= 3, NEW i \in 1 .. Len(h),
         NEW q \in s
  PROVE  LET a == Direction(h, Before(i, h))
             b == Direction(h, i)
             w == <<q[1] - h[i][1], q[2] - h[i][2]>>
         IN  /\ a \in Plane /\ b \in Plane /\ w \in Plane /\ h[i] \in Plane /\ q \in Plane
             /\ Cross2(a, b) > 0 /\ Cross2(a, w) >= 0 /\ Cross2(b, w) >= 0
             /\ a = <<h[i][1] - h[Before(i, h)][1], h[i][2] - h[Before(i, h)][2]>>
             /\ b = <<h[After(i, h)][1] - h[i][1], h[After(i, h)][2] - h[i][2]>>
             /\ h[Before(i, h)] \in Plane /\ h[After(i, h)] \in Plane
<1> DEFINE o == h[Before(i, h)]   p == h[i]   r == h[After(i, h)]
           a == Direction(h, Before(i, h))
           b == Direction(h, i)
           w == <<q[1] - p[1], q[2] - p[2]>>
<1>1. o \in Plane /\ p \in Plane /\ r \in Plane /\ q \in Plane
      /\ After(Before(i, h), h) = i
  BY RingPoints
<1>2. a = <<p[1] - o[1], p[2] - o[2]>> /\ b = <<r[1] - p[1], r[2] - p[2]>>
  BY <1>1 DEF Direction
<1>3. Cross(o, p, r) > 0 /\ Cross(o, p, q) >= 0 /\ Cross(p, r, q) >= 0
  BY RingTurns
<1> HIDE DEF o, p, r, a, b
<1>4. a \in Plane /\ b \in Plane /\ w \in Plane
  BY <1>1, <1>2, CrossAsVectors
<1>5. Cross(o, p, r) = Cross2(a, b) /\ Cross(o, p, q) = Cross2(a, w)
  BY <1>1, <1>2, CrossAsVectors
<1>6. Cross(p, r, q) = Cross2(b, w)
  BY <1>2 DEF Cross, Cross2
<1>7. Cross2(a, b) > 0 /\ Cross2(a, w) >= 0 /\ Cross2(b, w) >= 0
  BY <1>3, <1>5, <1>6
<1>8. QED
  BY <1>1, <1>2, <1>4, <1>7 DEF o, p, r, a, b

LEMMA DotDifference ==
  ASSUME NEW p \in Plane, NEW q \in Plane, NEW x \in Plane
  PROVE  Dot(<<q[1] - p[1], q[2] - p[2]>>, x) = Dot(q, x) - Dot(p, x)
<1> DEFINE p1 == p[1]   p2 == p[2]   q1 == q[1]   q2 == q[2]   x1 == x[1]   x2 == x[2]
<1>1. /\ p1 \in Int /\ p2 \in Int /\ q1 \in Int /\ q2 \in Int /\ x1 \in Int /\ x2 \in Int
  BY PlaneInts
<1>2. /\ Dot(<<q1 - p1, q2 - p2>>, x) = (q1 - p1) * x1 + (q2 - p2) * x2
      /\ Dot(q, x) = q1 * x1 + q2 * x2 /\ Dot(p, x) = p1 * x1 + p2 * x2
  BY DEF Dot
<1> HIDE DEF p1, p2, q1, q2, x1, x2
<1>3. (q1 - p1) * x1 + (q2 - p2) * x2 = (q1 * x1 + q2 * x2) - (p1 * x1 + p2 * x2)
  BY <1>1
<1>4. QED
  BY <1>2, <1>3 DEF p1, p2, q1, q2

\* A vertex with no farther neighbour is a farthest one.
LEMMA LocalSupport ==
  ASSUME NEW s \in SUBSET Plane, NEW h, RingOf(h, s), Len(h) >= 3, NEW i \in DOMAIN h,
         NEW x \in Plane,
         Dot(Direction(h, Before(i, h)), x) >= 0, Dot(Direction(h, i), x) <= 0
  PROVE  Supports(h, i, x)
<1>1. h \in Seq(s) /\ DOMAIN h = 1 .. Len(h)
  BY DEF RingOf
<1>2. SUFFICES ASSUME NEW k \in DOMAIN h PROVE Dot(h[k], x) <= Dot(h[i], x)
  BY DEF Supports
<1> DEFINE q == h[k]   p == h[i]
           a == Direction(h, Before(i, h))
           b == Direction(h, i)
           w == <<q[1] - p[1], q[2] - p[2]>>
<1>3. q \in s
  BY <1>1
<1>4. /\ a \in Plane /\ b \in Plane /\ w \in Plane /\ p \in Plane /\ q \in Plane
      /\ Cross2(a, b) > 0 /\ Cross2(a, w) >= 0 /\ Cross2(b, w) >= 0
  BY <1>1, <1>3, RingVertex
<1>5. Dot(w, x) = Dot(q, x) - Dot(p, x)
  BY <1>4, DotDifference
<1>6. Dot(a, x) >= 0 /\ Dot(b, x) <= 0
  OBVIOUS
<1>7. Dot(q, x) \in Int /\ Dot(p, x) \in Int
  BY <1>4, VectorTypes
<1> HIDE DEF a, b, w, p, q
<1>8. Dot(w, x) <= 0
  BY <1>4, <1>6, LocalSign
<1>9. Dot(q, x) <= Dot(p, x)
  BY <1>5, <1>7, <1>8
<1>10. QED
  BY <1>9 DEF p, q

\* At a farthest vertex the edges turn back.
LEMMA SupportIsLocal ==
  ASSUME NEW s \in SUBSET Plane, NEW h, RingOf(h, s), Len(h) >= 3, NEW i \in DOMAIN h,
         NEW x \in Plane, Supports(h, i, x)
  PROVE  Dot(Direction(h, Before(i, h)), x) >= 0 /\ Dot(Direction(h, i), x) <= 0
<1>1. h \in Seq(s) /\ DOMAIN h = 1 .. Len(h)
  BY DEF RingOf
<1>2. h[i] \in s
  BY <1>1
<1> DEFINE o == h[Before(i, h)]   p == h[i]   r == h[After(i, h)]
           a == Direction(h, Before(i, h))
           b == Direction(h, i)
<1>3. /\ o \in Plane /\ p \in Plane /\ r \in Plane
      /\ a = <<p[1] - o[1], p[2] - o[2]>> /\ b = <<r[1] - p[1], r[2] - p[2]>>
  <2>1. o \in Plane /\ p \in Plane /\ r \in Plane /\ After(Before(i, h), h) = i
    BY <1>1, RingPoints
  <2>2. QED
    BY <2>1 DEF Direction
<1>4. Before(i, h) \in DOMAIN h /\ After(i, h) \in DOMAIN h
  BY <1>1, RingPoints
<1>5. Dot(o, x) <= Dot(p, x) /\ Dot(r, x) <= Dot(p, x)
  BY <1>4 DEF Supports
<1> HIDE DEF a, b, o, p, r
<1>6. /\ Dot(a, x) = Dot(p, x) - Dot(o, x) /\ Dot(b, x) = Dot(r, x) - Dot(p, x)
      /\ Dot(o, x) \in Int /\ Dot(p, x) \in Int /\ Dot(r, x) \in Int
  BY <1>3, DotDifference, VectorTypes
<1>7. Dot(a, x) >= 0 /\ Dot(b, x) <= 0
  BY <1>5, <1>6
<1>8. QED
  BY <1>7 DEF a, b

\* From x to y the edges do not change sides.
Follows(h, x, y) ==
    \A i \in DOMAIN h :
       /\ Dot(Direction(h, i), x) # 0
       /\ Dot(Direction(h, i), x) > 0 => Dot(Direction(h, i), y) >= 0
       /\ Dot(Direction(h, i), x) < 0 => Dot(Direction(h, i), y) <= 0

\* A farthest vertex stays one until an edge is passed.
LEMMA SupportKeeps ==
  ASSUME NEW s \in SUBSET Plane, NEW h, RingOf(h, s), Len(h) >= 3, NEW i \in DOMAIN h,
         NEW x \in Plane, NEW y \in Plane, Follows(h, x, y), Supports(h, i, x)
  PROVE  Supports(h, i, y)
<1>1. DOMAIN h = 1 .. Len(h) /\ h \in Seq(Plane)
  <2>1. h \in Seq(s)
    BY DEF RingOf
  <2>2. QED
    BY <2>1
<1>2. Before(i, h) \in DOMAIN h
  BY <1>1, RingPoints
<1> DEFINE a == Direction(h, Before(i, h))   b == Direction(h, i)
<1>3. Dot(a, x) >= 0 /\ Dot(b, x) <= 0
  BY SupportIsLocal
<1>4. /\ Dot(a, x) # 0 /\ (Dot(a, x) > 0 => Dot(a, y) >= 0)
      /\ Dot(b, x) # 0 /\ (Dot(b, x) < 0 => Dot(b, y) <= 0)
  BY <1>2 DEF Follows
<1>5. Dot(a, x) \in Int /\ Dot(b, x) \in Int
  BY <1>1, <1>2, EdgeAsDirection, VectorTypes
<1> HIDE DEF a, b
<1>6. Dot(a, y) >= 0 /\ Dot(b, y) <= 0
  BY <1>3, <1>4, <1>5
<1>7. QED
  BY <1>6, LocalSupport DEF a, b

LEMMA FollowsOpposite ==
  ASSUME NEW h \in Seq(Plane), NEW x \in Plane, NEW y \in Plane, Follows(h, x, y)
  PROVE  Follows(h, Opposite(x), Opposite(y))
<1>1. ASSUME NEW i \in DOMAIN h
      PROVE  LET e == Direction(h, i)
             IN  /\ Dot(e, Opposite(x)) # 0
                 /\ Dot(e, Opposite(x)) > 0 => Dot(e, Opposite(y)) >= 0
                 /\ Dot(e, Opposite(x)) < 0 => Dot(e, Opposite(y)) <= 0
  <2> DEFINE e == Direction(h, i)
  <2>1. e \in Plane
    BY EdgeAsDirection
  <2>2. /\ Dot(e, x) # 0 /\ (Dot(e, x) > 0 => Dot(e, y) >= 0)
        /\ (Dot(e, x) < 0 => Dot(e, y) <= 0)
    BY DEF Follows
  <2> HIDE DEF e
  <2>3. /\ Dot(e, Opposite(x)) = 0 - Dot(e, x) /\ Dot(e, Opposite(y)) = 0 - Dot(e, y)
        /\ Dot(e, x) \in Int /\ Dot(e, y) \in Int
    BY <2>1, VectorTypes, VectorTurns
  <2>4. /\ Dot(e, Opposite(x)) # 0
        /\ Dot(e, Opposite(x)) > 0 => Dot(e, Opposite(y)) >= 0
        /\ Dot(e, Opposite(x)) < 0 => Dot(e, Opposite(y)) <= 0
    BY <2>2, <2>3
  <2>5. QED
    BY <2>4 DEF e
<1>2. QED
  BY <1>1 DEF Follows

\* So the vertices that a rectangle touches stay the same.
LEMMA TouchesKeeps ==
  ASSUME NEW s \in SUBSET Plane, NEW h, RingOf(h, s), Len(h) >= 3,
         NEW x \in Plane, NEW y \in Plane, Follows(h, x, y), Follows(h, Quarter(x), Quarter(y)),
         NEW a, NEW b, NEW c, NEW d, Touches(h, a, b, c, d, x)
  PROVE  Touches(h, a, b, c, d, y)
<1>1. h \in Seq(Plane)
  <2>1. h \in Seq(s)
    BY DEF RingOf
  <2>2. QED
    BY <2>1
<1>2. /\ Quarter(x) \in Plane /\ Quarter(y) \in Plane
      /\ Opposite(x) \in Plane /\ Opposite(y) \in Plane
      /\ Opposite(Quarter(x)) \in Plane /\ Opposite(Quarter(y)) \in Plane
  BY VectorTypes
<1>3. /\ Follows(h, Opposite(x), Opposite(y))
      /\ Follows(h, Opposite(Quarter(x)), Opposite(Quarter(y)))
  BY <1>1, <1>2, FollowsOpposite
<1>4. Supports(h, a, y)
  BY SupportKeeps DEF Touches
<1>5. Supports(h, b, Opposite(y))
  BY <1>2, <1>3, SupportKeeps DEF Touches
<1>6. Supports(h, c, Quarter(y))
  BY <1>2, SupportKeeps DEF Touches
<1>7. Supports(h, d, Opposite(Quarter(y)))
  BY <1>2, <1>3, SupportKeeps DEF Touches
<1>8. QED
  BY <1>4, <1>5, <1>6, <1>7 DEF Touches

\* d is between u and v: p and s, the extents of d, and N, its square, are of a and
\* e, and U, of u, and of b and f, and V, of v.
Mixed(p, s, N, U, V, t, a, b, e, f, x, y, w) ==
    /\ w * p = x * a + y * b /\ w * s = x * e + y * f
    /\ w * (w * N) = x * (x * U + y * t) + y * (x * t + y * V)
    /\ x > 0 /\ y > 0 /\ N > 0 /\ U > 0 /\ V > 0 /\ p >= 0 /\ s >= 0
    /\ a >= 0 /\ b >= 0 /\ e >= 0 /\ f >= 0
    /\ t * t <= U * V

\* Two products of extents cannot both exceed the one between them.
LEMMA NotBoth ==
  ASSUME NEW p \in Int, NEW s \in Int, NEW N \in Int, NEW U \in Int, NEW V \in Int,
         NEW t \in Int, NEW a \in Int, NEW b \in Int, NEW e \in Int, NEW f \in Int,
         NEW x \in Int, NEW y \in Int, NEW w \in Int,
         Mixed(p, s, N, U, V, t, a, b, e, f, x, y, w),
         (p * s) * U < (a * e) * N, (p * s) * V < (b * f) * N
  PROVE  FALSE
<1>0. /\ w * p = x * a + y * b /\ w * s = x * e + y * f
      /\ w * (w * N) = x * (x * U + y * t) + y * (x * t + y * V)
      /\ x > 0 /\ y > 0 /\ N > 0 /\ U > 0 /\ V > 0 /\ p >= 0 /\ s >= 0
      /\ a >= 0 /\ b >= 0 /\ e >= 0 /\ f >= 0
      /\ t * t <= U * V
  BY DEF Mixed
<1> DEFINE X == p * s   P == a * e   Q == b * f   M == a * f + b * e
           A == x * x   B == y * y   C == x * y   W == w * w
           g == P * N - U * X   k == Q * N - V * X
           Y == 2 * (t * X)   Z == M * N
<1>1. /\ X \in Int /\ P \in Int /\ Q \in Int /\ M \in Int /\ A \in Int /\ B \in Int
      /\ C \in Int /\ W \in Int /\ X >= 0 /\ P >= 0 /\ Q >= 0 /\ A > 0 /\ B > 0 /\ C > 0
  <2>1. /\ X \in Int /\ P \in Int /\ Q \in Int /\ A \in Int /\ B \in Int /\ C \in Int
        /\ W \in Int /\ a * f \in Int /\ b * e \in Int
    BY <1>0, ProductSign
  <2>2. /\ X >= 0 /\ P >= 0 /\ Q >= 0 /\ A > 0 /\ B > 0 /\ C > 0
    BY <1>0, ProductSign
  <2>3. QED
    BY <2>1, <2>2
<1>2. M >= 0
  <2>1. a * f >= 0 /\ b * e >= 0 /\ a * f \in Int /\ b * e \in Int
    BY <1>0, ProductSign
  <2>2. QED
    BY <2>1
<1>3. W * X = A * P + C * M + B * Q
  <2>1. W * X = (w * p) * (w * s)
    OBVIOUS
  <2>2. (x * a + y * b) * (x * e + y * f) = A * P + C * M + B * Q
    OBVIOUS
  <2>3. (w * p) * (w * s) = (x * a + y * b) * (x * e + y * f)
    BY <1>0
  <2>4. QED
    BY <2>1, <2>2, <2>3
<1>4. W * N = A * U + 2 * (C * t) + B * V
  <2>1. W * N = w * (w * N)
    OBVIOUS
  <2>2. x * (x * U + y * t) + y * (x * t + y * V) = A * U + 2 * (C * t) + B * V
    OBVIOUS
  <2>3. QED
    BY <1>0, <2>1, <2>2
<1>5. M * M >= 4 * (P * Q)
  <2>1. M * M - 4 * (P * Q) = (a * f - b * e) * (a * f - b * e)
    OBVIOUS
  <2>2. a * f - b * e \in Int
    OBVIOUS
  <2>3. (a * f - b * e) * (a * f - b * e) >= 0
    BY <2>2, ProductSign
  <2> DEFINE l == (a * f - b * e) * (a * f - b * e)   m == M * M   n == P * Q
  <2>4. m - 4 * n = l /\ l >= 0 /\ m \in Int /\ n \in Int
    BY <1>1, <2>1, <2>3, ProductSign
  <2> HIDE DEF l, m, n
  <2>5. m >= 4 * n
    BY <2>4
  <2>6. QED
    BY <2>5 DEF m, n
<1>6. X * U < P * N /\ X * V < Q * N
  OBVIOUS
<1>7. t * t <= U * V /\ U > 0 /\ V > 0 /\ N > 0
  BY <1>0
<1> HIDE DEF X, P, Q, M, A, B, C, W
<1>8. g \in Int /\ k \in Int /\ g > 0 /\ k > 0
  <2>1. /\ X * U = U * X /\ X * V = V * X /\ U * X \in Int /\ V * X \in Int
        /\ P * N \in Int /\ Q * N \in Int
    BY <1>1, ProductSign
  <2>2. QED
    BY <1>6, <2>1
<1>9. Y \in Int /\ Z \in Int /\ Z >= 0
  <2>1. t * X \in Int /\ M * N \in Int /\ M * N >= 0
    BY <1>1, <1>2, <1>7, ProductSign
  <2>2. QED
    BY <2>1
<1>10. A * g + B * k = C * (Y - Z)
  <2>1. (W * X) * N = (W * N) * X
    BY <1>1
  <2>2. (A * P + C * M + B * Q) * N = (A * U + 2 * (C * t) + B * V) * X
    BY <1>3, <1>4, <2>1
  <2>3. (A * P + C * M + B * Q) * N - (A * U + 2 * (C * t) + B * V) * X
           = A * g + B * k - C * (Y - Z)
    BY <1>1
  <2> DEFINE l == (A * P + C * M + B * Q) * N   m == (A * U + 2 * (C * t) + B * V) * X
             n == A * g + B * k   o == C * (Y - Z)
  <2>4. l = m /\ l - m = n - o /\ l \in Int /\ m \in Int /\ n \in Int /\ o \in Int
    BY <1>1, <2>2, <2>3
  <2> HIDE DEF l, m, n, o
  <2>5. n = o
    BY <2>4
  <2>6. QED
    BY <2>5 DEF n, o
<1> HIDE DEF g, k
<1>11. Y > Z
  <2>1. A * g > 0 /\ B * k > 0 /\ A * g \in Int /\ B * k \in Int
    BY <1>1, <1>8, ProductSign
  <2> HIDE DEF Y, Z
  <2>2. C * (Y - Z) > 0 /\ Y - Z \in Int
    BY <1>9, <1>10, <2>1
  <2>3. Y - Z > 0
    BY <1>1, <2>2, ProductSign
  <2>4. QED
    BY <1>9, <2>3
<1>12. Y * Y > Z * Z
  <2> HIDE DEF Y, Z
  <2>1. Y - Z > 0 /\ Y + Z > 0 /\ Y - Z \in Int /\ Y + Z \in Int
    BY <1>9, <1>11
  <2>2. (Y - Z) * (Y + Z) > 0
    BY <2>1, ProductSign
  <2>3. (Y - Z) * (Y + Z) = Y * Y - Z * Z /\ Y * Y \in Int /\ Z * Z \in Int
    BY <1>9
  <2>4. QED
    BY <2>2, <2>3
<1> DEFINE T == t * t   F == U * V   D == X * X   E == N * N   G == M * M   H == P * Q
           i == U * X   j == V * X   m == P * N   n == Q * N
<1>13. /\ T \in Int /\ F \in Int /\ D \in Int /\ E \in Int /\ G \in Int /\ H \in Int
       /\ i \in Int /\ j \in Int /\ m \in Int /\ n \in Int
       /\ D >= 0 /\ E >= 0 /\ i >= 0 /\ j >= 0 /\ m >= 0 /\ n >= 0
       /\ T <= F /\ G >= 4 * H
  BY <1>1, <1>2, <1>5, <1>7, ProductSign
<1>14. i < m /\ j < n
  BY <1>1, <1>6, ProductSign
<1>15. Y * Y = 4 * (T * D) /\ Z * Z = G * E /\ F * D = i * j /\ H * E = m * n
  BY <1>1
<1> HIDE DEF T, F, D, E, G, H, i, j, m, n
<1>16. T * D <= F * D
  <2>1. F - T \in Int /\ F - T >= 0
    BY <1>13
  <2>2. (F - T) * D >= 0
    BY <1>13, <2>1, ProductSign
  <2>3. (F - T) * D = F * D - T * D /\ F * D \in Int /\ T * D \in Int
    BY <1>13
  <2>4. QED
    BY <2>2, <2>3
<1>17. 4 * (H * E) <= G * E
  <2>1. G - 4 * H \in Int /\ G - 4 * H >= 0
    BY <1>13
  <2>2. (G - 4 * H) * E >= 0
    BY <1>13, <2>1, ProductSign
  <2>3. (G - 4 * H) * E = G * E - 4 * (H * E) /\ G * E \in Int /\ H * E \in Int
    BY <1>13
  <2>4. QED
    BY <2>2, <2>3
<1>18. i * j <= m * n
  <2>1. m - i \in Int /\ n - j \in Int /\ m - i >= 0 /\ n - j >= 0
    BY <1>13, <1>14
  <2>2. (m - i) * j >= 0 /\ m * (n - j) >= 0
    BY <1>13, <2>1, ProductSign
  <2>3. (m - i) * j + m * (n - j) = m * n - i * j /\ i * j \in Int /\ m * n \in Int
        /\ (m - i) * j \in Int /\ m * (n - j) \in Int
    BY <1>13
  <2>4. QED
    BY <2>2, <2>3
<1> HIDE DEF Y, Z
<1>19. Y * Y <= Z * Z
  <2> DEFINE r == T * D   o == F * D   l == H * E   q == G * E
  <2>1. /\ Y * Y = 4 * r /\ Z * Z = q /\ r <= o /\ 4 * l <= q /\ o <= l
        /\ r \in Int /\ o \in Int /\ l \in Int /\ q \in Int
    BY <1>13, <1>15, <1>16, <1>17, <1>18, ProductSign
  <2> HIDE DEF r, o, l, q
  <2>2. QED
    BY <2>1
<1>20. Y * Y \in Int /\ Z * Z \in Int
  BY <1>9, ProductSign
<1>21. QED
  BY <1>12, <1>19, <1>20

\* d between u and v.
LEMMA Decompose ==
  ASSUME NEW u \in Plane, NEW v \in Plane, NEW d \in Plane, NEW p \in Plane
  PROVE  Cross2(u, v) * Dot(p, d) = Cross2(d, v) * Dot(p, u) + Cross2(u, d) * Dot(p, v)
<1> DEFINE u1 == u[1]   u2 == u[2]   v1 == v[1]   v2 == v[2]   d1 == d[1]   d2 == d[2]
           p1 == p[1]   p2 == p[2]
<1>1. /\ u1 \in Int /\ u2 \in Int /\ v1 \in Int /\ v2 \in Int
      /\ d1 \in Int /\ d2 \in Int /\ p1 \in Int /\ p2 \in Int
  BY PlaneInts
<1>2. /\ Cross2(u, v) = u1 * v2 - u2 * v1 /\ Cross2(d, v) = d1 * v2 - d2 * v1
      /\ Cross2(u, d) = u1 * d2 - u2 * d1
      /\ Dot(p, d) = p1 * d1 + p2 * d2 /\ Dot(p, u) = p1 * u1 + p2 * u2
      /\ Dot(p, v) = p1 * v1 + p2 * v2
  BY DEF Cross2, Dot
<1> HIDE DEF u1, u2, v1, v2, d1, d2, p1, p2
<1>3. (u1 * v2 - u2 * v1) * (p1 * d1 + p2 * d2)
        = (d1 * v2 - d2 * v1) * (p1 * u1 + p2 * u2)
            + (u1 * d2 - u2 * d1) * (p1 * v1 + p2 * v2)
  BY <1>1
<1>4. QED
  BY <1>2, <1>3

\* Lagrange's identity, and what follows of the lengths.
LEMMA DotSquares ==
  ASSUME NEW u \in Plane, NEW v \in Plane
  PROVE  /\ Dot(u, u) \in Nat /\ (u # <<0, 0>> => Dot(u, u) > 0)
         /\ Dot(u, v) * Dot(u, v) + Cross2(u, v) * Cross2(u, v) = Dot(u, u) * Dot(v, v)
         /\ Dot(u, v) * Dot(u, v) <= Dot(u, u) * Dot(v, v)
<1> DEFINE u1 == u[1]   u2 == u[2]   v1 == v[1]   v2 == v[2]
<1>1. /\ u1 \in Int /\ u2 \in Int /\ v1 \in Int /\ v2 \in Int /\ u = <<u1, u2>>
  BY PlaneInts DEF Plane
<1>2. /\ Cross2(u, v) = u1 * v2 - u2 * v1 /\ Dot(u, v) = u1 * v1 + u2 * v2
      /\ Dot(u, u) = u1 * u1 + u2 * u2 /\ Dot(v, v) = v1 * v1 + v2 * v2
  BY DEF Cross2, Dot
<1> HIDE DEF u1, u2, v1, v2
<1>3. (u1 * v1 + u2 * v2) * (u1 * v1 + u2 * v2) + (u1 * v2 - u2 * v1) * (u1 * v2 - u2 * v1)
        = (u1 * u1 + u2 * u2) * (v1 * v1 + v2 * v2)
  BY <1>1
<1>4. /\ u1 * u1 \in Int /\ u2 * u2 \in Int /\ u1 * u1 >= 0 /\ u2 * u2 >= 0
      /\ u1 # 0 => u1 * u1 > 0
      /\ u2 # 0 => u2 * u2 > 0
  <2>1. \A x \in Int : x * x \in Int /\ x * x >= 0
    BY ProductSign
  <2>2. \A x \in Int : x # 0 => x * x > 0
    <3>1. TAKE x \in Int
    <3>2. CASE x > 0
      BY <3>2, ProductSign
    <3>3. CASE x < 0
      BY <3>3, ProductSign
    <3>4. QED
      BY <3>2, <3>3
  <2>3. QED
    BY <1>1, <2>1, <2>2
<1>5. Dot(u, u) \in Nat /\ (u # <<0, 0>> => Dot(u, u) > 0)
  <2>1. u1 * u1 + u2 * u2 \in Nat
    BY <1>4
  <2>2. ASSUME u # <<0, 0>> PROVE u1 * u1 + u2 * u2 > 0
    <3>1. u1 # 0 \/ u2 # 0
      BY <1>1, <2>2
    <3>2. u1 * u1 > 0 \/ u2 * u2 > 0
      BY <1>1, <1>4, <3>1, ProductSign
    <3>3. QED
      BY <1>4, <3>2
  <2>3. QED
    BY <1>2, <2>1, <2>2
<1> DEFINE x == Dot(u, v)   y == Cross2(u, v)   z == Dot(u, u) * Dot(v, v)
<1>6. x * x + y * y = z
  BY <1>2, <1>3
<1>7. x \in Int /\ y \in Int
  BY VectorTypes
<1> HIDE DEF x, y
<1>8. x * x <= z
  <2>1. y * y >= 0 /\ x * x \in Int /\ y * y \in Int
    BY <1>7, ProductSign
  <2>2. QED
    BY <1>6, <2>1
<1>9. QED
  BY <1>5, <1>6, <1>8 DEF x, y

\* p and r tell the extents between the vertices a and b, and c and d, along y.
Spanned(h, a, b, c, d, p, r) ==
    \A y \in Plane : /\ Dot(p, y) = Dot(h[a], y) - Dot(h[b], y)
                     /\ Dot(r, y) = Dot(h[c], Quarter(y)) - Dot(h[d], Quarter(y))

\* Extents between fixed vertices are dot products.
LEMMA Spans ==
  ASSUME NEW h \in Seq(Plane), NEW a \in DOMAIN h, NEW b \in DOMAIN h, NEW c \in DOMAIN h,
         NEW d \in DOMAIN h
  PROVE  \E p, r \in Plane : Spanned(h, a, b, c, d, p, r)
<1> DEFINE p == <<h[a][1] - h[b][1], h[a][2] - h[b][2]>>
           q == <<h[c][1] - h[d][1], h[c][2] - h[d][2]>>
           r == Opposite(Quarter(q))
<1>1. /\ h[a] \in Plane /\ h[b] \in Plane /\ h[c] \in Plane /\ h[d] \in Plane
  OBVIOUS
<1>2. p \in Plane /\ q \in Plane
  BY <1>1, CrossAsVectors
<1>3. Quarter(q) \in Plane /\ r \in Plane
  BY <1>2, VectorTypes
<1> HIDE DEF r
<1>4. ASSUME NEW y \in Plane
      PROVE  /\ Dot(p, y) = Dot(h[a], y) - Dot(h[b], y)
             /\ Dot(r, y) = Dot(h[c], Quarter(y)) - Dot(h[d], Quarter(y))
  <2>1. Quarter(y) \in Plane
    BY VectorTypes
  <2>2. /\ Dot(p, y) = Dot(h[a], y) - Dot(h[b], y)
        /\ Dot(q, Quarter(y)) = Dot(h[c], Quarter(y)) - Dot(h[d], Quarter(y))
    BY <1>1, <2>1, DotDifference
  <2> HIDE DEF p, q
  <2>3. Dot(r, y) = 0 - Dot(Quarter(q), y) /\ Dot(Quarter(q), y) = Cross2(q, y)
        /\ Dot(q, Quarter(y)) = Cross2(y, q) /\ Cross2(y, q) = 0 - Cross2(q, y)
    BY <1>2, <1>3, VectorTurns DEF r
  <2>4. QED
    BY <2>2, <2>3
<1> HIDE DEF p
<1>5. QED
  BY <1>2, <1>3, <1>4 DEF Spanned

\* A rectangle with a side between u and v, where its vertices stay the same, is
\* not less than both with a side along u and along v.
LEMMA NotLessThanBoth ==
  ASSUME NEW s \in SUBSET Plane, NEW h, RingOf(h, s), Len(h) >= 3,
         NEW d \in Plane, NEW u \in Plane, NEW v \in Plane,
         Follows(h, d, u), Follows(h, Quarter(d), Quarter(u)),
         Follows(h, d, v), Follows(h, Quarter(d), Quarter(v)),
         Cross2(d, v) > 0, Cross2(u, d) > 0,
         Dot(d, d) > 0, Dot(u, u) > 0, Dot(v, v) > 0,
         Less(RectangleAlong(h, d), RectangleAlong(h, u)),
         Less(RectangleAlong(h, d), RectangleAlong(h, v))
  PROVE  FALSE
<1>1. h \in Seq(Plane) /\ Len(h) > 0
  <2>1. h \in Seq(s)
    BY DEF RingOf
  <2>2. QED
    BY <2>1
<1>2. PICK i, j, k, l \in DOMAIN h : Touches(h, i, j, k, l, d)
  BY <1>1, TouchedExist
<1>3. PICK p \in Plane, r \in Plane : Spanned(h, i, j, k, l, p, r)
  BY <1>1, <1>2, Spans
<1>4. ASSUME NEW y \in Plane, Touches(h, i, j, k, l, y)
      PROVE  /\ RectangleAlong(h, y).num = Dot(p, y) * Dot(r, y)
             /\ RectangleAlong(h, y).den = Dot(y, y)
             /\ Dot(p, y) \in Nat /\ Dot(r, y) \in Nat
  BY <1>1, <1>3, <1>4, RectangleIs DEF Spanned
<1>5. Touches(h, i, j, k, l, u) /\ Touches(h, i, j, k, l, v)
  BY <1>2, TouchesKeeps
<1> DEFINE P == Dot(p, d)   S == Dot(r, d)   N == Dot(d, d)   U == Dot(u, u)   V == Dot(v, v)
           t == Dot(u, v)   a == Dot(p, u)   b == Dot(p, v)   e == Dot(r, u)   f == Dot(r, v)
           x == Cross2(d, v)   y == Cross2(u, d)   w == Cross2(u, v)
<1>6. /\ P \in Nat /\ S \in Nat /\ a \in Nat /\ b \in Nat /\ e \in Nat /\ f \in Nat
      /\ RectangleAlong(h, d).num = P * S /\ RectangleAlong(h, d).den = N
      /\ RectangleAlong(h, u).num = a * e /\ RectangleAlong(h, u).den = U
      /\ RectangleAlong(h, v).num = b * f /\ RectangleAlong(h, v).den = V
  BY <1>2, <1>4, <1>5
<1>7. (P * S) * U < (a * e) * N /\ (P * S) * V < (b * f) * N
  BY <1>6 DEF Less
<1>8. /\ N \in Int /\ U \in Int /\ V \in Int /\ t \in Int /\ x \in Int /\ y \in Int /\ w \in Int
      /\ N > 0 /\ U > 0 /\ V > 0 /\ x > 0 /\ y > 0
  BY VectorTypes
<1>9. w * P = x * a + y * b /\ w * S = x * e + y * f
  BY Decompose
<1>10. w * (w * N) = x * (x * U + y * t) + y * (x * t + y * V)
  <2> DEFINE m == Dot(d, u)   n == Dot(d, v)
  <2>1. w * N = x * m + y * n
    BY Decompose
  <2>2. w * Dot(u, d) = x * U + y * t /\ w * Dot(v, d) = x * Dot(v, u) + y * V
    BY Decompose
  <2>3. /\ Dot(u, d) = m /\ Dot(v, d) = n /\ Dot(v, u) = t /\ m \in Int /\ n \in Int
    BY VectorTurns, VectorTypes
  <2>4. w * m = x * U + y * t /\ w * n = x * t + y * V
    BY <2>2, <2>3
  <2> HIDE DEF m, n, w, N, x, y, U, t, V
  <2>5. w * (x * m + y * n) = x * (w * m) + y * (w * n)
    BY <1>8, <2>3
  <2>6. QED
    BY <2>1, <2>4, <2>5
<1>11. t * t <= U * V
  BY DotSquares
<1> HIDE DEF P, S, N, U, V, t, a, b, e, f, x, y, w
<1>12. /\ P \in Int /\ S \in Int /\ a \in Int /\ b \in Int /\ e \in Int /\ f \in Int
       /\ P >= 0 /\ S >= 0 /\ a >= 0 /\ b >= 0 /\ e >= 0 /\ f >= 0
  BY <1>6
<1>13. Mixed(P, S, N, U, V, t, a, b, e, f, x, y, w)
  BY <1>8, <1>9, <1>10, <1>11, <1>12 DEF Mixed
<1>14. QED
  BY <1>7, <1>8, <1>12, <1>13, NotBoth

\* The directions of the edges, turned by no, one, two or three quarters.
Turned(n, x) ==
    IF n = 0 THEN x ELSE IF n = 1 THEN Quarter(x)
    ELSE IF n = 2 THEN Opposite(x) ELSE Opposite(Quarter(x))

Ways(h) == {Turned(c[2], Direction(h, c[1])) : c \in (DOMAIN h) \X (0 .. 3)}

\* The four turns are a group.
LEMMA TurnedCloses ==
  ASSUME NEW n \in 0 .. 3, NEW x \in Plane
  PROVE  /\ Turned(n, x) \in Plane
         /\ \E m \in 0 .. 3 : Turned(m, x) = Quarter(Turned(n, x))
         /\ \E m \in 0 .. 3 : Turned(m, x) = Opposite(Turned(n, x))
<1>1. /\ Quarter(x) \in Plane /\ Opposite(x) \in Plane /\ Opposite(Quarter(x)) \in Plane
      /\ Quarter(Opposite(x)) \in Plane
  BY VectorTypes
<1>2. /\ Quarter(Quarter(x)) = Opposite(x) /\ Opposite(Opposite(x)) = x
      /\ Opposite(Opposite(Quarter(x))) = Quarter(x)
      /\ Quarter(Opposite(Quarter(x))) = Opposite(Quarter(Quarter(x)))
      /\ Quarter(Opposite(x)) = Opposite(Quarter(x))
  <2>1. Quarter(Quarter(x)) = Opposite(x) /\ Opposite(Opposite(x)) = x
    BY QuarterTwice
  <2>2. Opposite(Opposite(Quarter(x))) = Quarter(x)
    BY <1>1, QuarterTwice
  <2>3. Quarter(Opposite(x)) = Opposite(Quarter(x))
    BY DEF Quarter, Opposite
  <2>4. Quarter(Opposite(Quarter(x))) = Opposite(Quarter(Quarter(x)))
    BY DEF Quarter, Opposite
  <2>5. QED
    BY <2>1, <2>2, <2>3, <2>4
<1>3. Turned(0, x) = x /\ Turned(1, x) = Quarter(x) /\ Turned(2, x) = Opposite(x)
      /\ Turned(3, x) = Opposite(Quarter(x))
  BY DEF Turned
<1>4. 0 \in 0 .. 3 /\ 1 \in 0 .. 3 /\ 2 \in 0 .. 3 /\ 3 \in 0 .. 3
  OBVIOUS
<1>5. CASE n = 0
  BY <1>1, <1>2, <1>3, <1>4, <1>5
<1>6. CASE n = 1
  BY <1>1, <1>2, <1>3, <1>4, <1>6
<1>7. CASE n = 2
  BY <1>1, <1>2, <1>3, <1>4, <1>7
<1>8. CASE n = 3
  <2>1. Opposite(Quarter(Quarter(x))) = x
    BY <1>2
  <2>2. QED
    BY <1>1, <1>2, <1>3, <1>4, <1>8, <2>1
<1>9. n = 0 \/ n = 1 \/ n = 2 \/ n = 3
  OBVIOUS
<1>10. QED
  BY <1>5, <1>6, <1>7, <1>8, <1>9

\* The rectangles with sides along x and along y are the same.
SameRectangle(h, x, y) ==
    /\ RectangleAlong(h, x).num = RectangleAlong(h, y).num
    /\ RectangleAlong(h, x).den = RectangleAlong(h, y).den

\* All four give the same rectangle.
LEMMA TurnedRectangle ==
  ASSUME NEW h \in Seq(Plane), Len(h) > 0, NEW x \in Plane, NEW n \in 0 .. 3
  PROVE  SameRectangle(h, Turned(n, x), x)
<1>1. Quarter(x) \in Plane /\ Opposite(x) \in Plane /\ Quarter(Quarter(x)) = Opposite(x)
      /\ Quarter(Opposite(x)) = Opposite(Quarter(x))
  BY VectorTypes, QuarterTwice DEF Quarter, Opposite
<1>2. SameRectangle(h, Quarter(x), x)
  BY QuarterRectangle DEF SameRectangle
<1>3. SameRectangle(h, Opposite(x), Quarter(x))
  BY <1>1, QuarterRectangle DEF SameRectangle
<1>4. SameRectangle(h, Opposite(Quarter(x)), Opposite(x))
  BY <1>1, QuarterRectangle DEF SameRectangle
<1>5. SameRectangle(h, x, x)
  BY DEF SameRectangle
<1>6. n = 0 \/ n = 1 \/ n = 2 \/ n = 3
  OBVIOUS
<1>7. Turned(0, x) = x /\ Turned(1, x) = Quarter(x) /\ Turned(2, x) = Opposite(x)
      /\ Turned(3, x) = Opposite(Quarter(x))
  BY DEF Turned
<1>8. SameRectangle(h, Opposite(x), x) /\ SameRectangle(h, Opposite(Quarter(x)), x)
  BY <1>2, <1>3, <1>4 DEF SameRectangle
<1>9. QED
  BY <1>2, <1>5, <1>6, <1>7, <1>8

\* Edges of a ring have a length.
LEMMA EdgeDirection ==
  ASSUME NEW s \in SUBSET Plane, NEW h, RingOf(h, s), NEW i \in DOMAIN h
  PROVE  /\ h \in Seq(Plane) /\ Len(h) > 0 /\ DOMAIN h = 1 .. Len(h) /\ Len(h) \in Nat
         /\ Direction(h, i) \in Plane /\ Direction(h, i) # <<0, 0>>
         /\ Dot(Direction(h, i), Direction(h, i)) > 0
<1>1. h \in Seq(Plane) /\ Len(h) > 0 /\ DOMAIN h = 1 .. Len(h) /\ Len(h) \in Nat
  <2>1. h \in Seq(s) /\ Len(h) >= 2
    BY DEF RingOf
  <2>2. QED
    BY <2>1
<1> DEFINE j == After(i, h)
<1>2. /\ j \in 1 .. Len(h) /\ i \in 1 .. Len(h) /\ j = IF i = Len(h) THEN 1 ELSE i + 1
      /\ Len(h) >= 2 /\ h[i] \in Plane /\ h[j] \in Plane
  BY <1>1, RingPoints
<1>3. i # j
  BY <1>1, <1>2
<1>4. h[i] # h[j]
  BY <1>2, <1>3 DEF RingOf
<1>5. Direction(h, i) = <<h[j][1] - h[i][1], h[j][2] - h[i][2]>>
  BY DEF Direction
<1> HIDE DEF j
<1>6. Direction(h, i) # <<0, 0>>
  <2>1. SUFFICES ASSUME Direction(h, i) = <<0, 0>> PROVE FALSE
    OBVIOUS
  <2>2. h[j][1] - h[i][1] = 0 /\ h[j][2] - h[i][2] = 0
    BY <1>5, <2>1
  <2>3. /\ h[j][1] \in Int /\ h[j][2] \in Int /\ h[i][1] \in Int /\ h[i][2] \in Int
        /\ h[i] = <<h[i][1], h[i][2]>> /\ h[j] = <<h[j][1], h[j][2]>>
    BY <1>2, PlaneInts DEF Plane
  <2>4. h[j][1] = h[i][1] /\ h[j][2] = h[i][2]
    BY <2>2, <2>3
  <2>5. QED
    BY <1>4, <2>3, <2>4
<1>7. Direction(h, i) \in Plane
  BY <1>1, EdgeAsDirection
<1>8. QED
  BY <1>1, <1>6, <1>7, DotSquares

\* The image of a finite set is finite.
LEMMA ImageIsFinite ==
  ASSUME NEW S, IsFiniteSet(S), NEW T, NEW f \in [S -> T], \A y \in T : \E x \in S : f[x] = y
  PROVE  IsFiniteSet(T)
<1>1. f \in Surjection(S, T)
  BY DEF Surjection
<1>2. QED
  BY <1>1, FS_Surjection

\* The ways of a ring, and the edge that has the rectangle of each.
LEMMA WaysAre ==
  ASSUME NEW s \in SUBSET Plane, NEW h, RingOf(h, s)
  PROVE  /\ IsFiniteSet(Ways(h))
         /\ \A i \in DOMAIN h : Direction(h, i) \in Ways(h)
         /\ \A k \in Ways(h) :
               /\ k \in Plane /\ Dot(k, k) > 0
               /\ Quarter(k) \in Ways(h) /\ Opposite(k) \in Ways(h)
               /\ \E i \in DOMAIN h : SameRectangle(h, k, Direction(h, i))
<1> DEFINE I == DOMAIN h   J == 0 .. 3   C == I \X J   W(c) == Turned(c[2], Direction(h, c[1]))
<1>1. h \in Seq(Plane) /\ Len(h) > 0 /\ I = 1 .. Len(h) /\ Len(h) \in Nat
  <2>1. h \in Seq(s) /\ Len(h) >= 2
    BY DEF RingOf
  <2>2. QED
    BY <2>1
<1>2. IsFiniteSet(Ways(h))
  <2>1. IsFiniteSet(I) /\ IsFiniteSet(J)
    <3>1. 0 \in Int /\ 3 \in Int /\ 1 \in Int /\ Len(h) \in Int
      BY <1>1
    <3>2. IsFiniteSet(1 .. Len(h)) /\ IsFiniteSet(0 .. 3)
      BY <3>1, FS_Interval
    <3>3. QED
      BY <1>1, <3>2
  <2>2. IsFiniteSet(C)
    BY <2>1, FS_Product
  <2>3. Ways(h) = {W(c) : c \in C}
    BY DEF Ways
  <2> HIDE DEF C, W
  <2> DEFINE f == [c \in C |-> W(c)]
  <2>4. f \in [C -> Ways(h)] /\ \A y \in Ways(h) : \E c \in C : f[c] = y
    BY <2>3
  <2> HIDE DEF f
  <2>5. QED
    BY <2>2, <2>4, ImageIsFinite
<1>3. ASSUME NEW i \in I, NEW n \in J PROVE Turned(n, Direction(h, i)) \in Ways(h)
  <2>1. <<i, n>> \in C /\ <<i, n>>[1] = i /\ <<i, n>>[2] = n
    OBVIOUS
  <2>2. QED
    BY <2>1 DEF Ways
<1>4. \A i \in I : Direction(h, i) \in Ways(h)
  <2>1. TAKE i \in I
  <2>2. Turned(0, Direction(h, i)) \in Ways(h)
    BY <1>3
  <2>3. QED
    BY <2>2 DEF Turned
<1>5. ASSUME NEW k \in Ways(h)
      PROVE  /\ k \in Plane /\ Dot(k, k) > 0
             /\ Quarter(k) \in Ways(h) /\ Opposite(k) \in Ways(h)
             /\ \E i \in DOMAIN h : SameRectangle(h, k, Direction(h, i))
  <2>1. PICK i \in I, n \in J : k = Turned(n, Direction(h, i))
    BY DEF Ways
  <2>2. Direction(h, i) \in Plane /\ Dot(Direction(h, i), Direction(h, i)) > 0
    BY <2>1, EdgeDirection
  <2>3. k \in Plane
    BY <2>1, <2>2, TurnedCloses
  <2>4. Quarter(k) \in Ways(h) /\ Opposite(k) \in Ways(h)
    BY <1>3, <2>1, <2>2, TurnedCloses
  <2>5. SameRectangle(h, k, Direction(h, i))
    BY <1>1, <2>1, <2>2, TurnedRectangle
  <2>6. Dot(k, k) > 0
    <3>1. RectangleAlong(h, k).den = Dot(k, k)
      BY DEF RectangleAlong, Dot
    <3>2. RectangleAlong(h, Direction(h, i)).den = Dot(Direction(h, i), Direction(h, i))
      BY DEF RectangleAlong, Dot
    <3>3. QED
      BY <2>2, <2>5, <3>1, <3>2 DEF SameRectangle
  <2>7. QED
    BY <2>1, <2>3, <2>4, <2>5, <2>6
<1>6. QED
  BY <1>2, <1>4, <1>5

\* The identity of Grassmann and Pluecker.
LEMMA FourCross ==
  ASSUME NEW a \in Plane, NEW b \in Plane, NEW c \in Plane, NEW d \in Plane
  PROVE  Cross2(a, c) * Cross2(b, d) = Cross2(a, b) * Cross2(c, d) + Cross2(b, c) * Cross2(a, d)
<1> DEFINE a1 == a[1]   a2 == a[2]   b1 == b[1]   b2 == b[2]   c1 == c[1]   c2 == c[2]
           d1 == d[1]   d2 == d[2]
<1>1. /\ a1 \in Int /\ a2 \in Int /\ b1 \in Int /\ b2 \in Int
      /\ c1 \in Int /\ c2 \in Int /\ d1 \in Int /\ d2 \in Int
  BY PlaneInts
<1>2. /\ Cross2(a, c) = a1 * c2 - a2 * c1 /\ Cross2(b, d) = b1 * d2 - b2 * d1
      /\ Cross2(a, b) = a1 * b2 - a2 * b1 /\ Cross2(c, d) = c1 * d2 - c2 * d1
      /\ Cross2(b, c) = b1 * c2 - b2 * c1 /\ Cross2(a, d) = a1 * d2 - a2 * d1
  BY DEF Cross2
<1> HIDE DEF a1, a2, b1, b2, c1, c2, d1, d2
<1>3. (a1 * c2 - a2 * c1) * (b1 * d2 - b2 * d1)
        = (a1 * b2 - a2 * b1) * (c1 * d2 - c2 * d1)
            + (b1 * c2 - b2 * c1) * (a1 * d2 - a2 * d1)
  BY <1>1
<1>4. QED
  BY <1>2, <1>3

\* To the right of d, turning is an order.
LEMMA RightOf ==
  ASSUME NEW d \in Plane, NEW a \in Plane, NEW b \in Plane, NEW c \in Plane,
         Cross2(a, d) > 0, Cross2(b, d) > 0, Cross2(c, d) > 0,
         Cross2(a, b) > 0, Cross2(b, c) > 0
  PROVE  Cross2(a, c) > 0
<1> DEFINE x == Cross2(a, d)   y == Cross2(b, d)   z == Cross2(c, d)
           p == Cross2(a, b)   q == Cross2(b, c)   r == Cross2(a, c)
<1>1. /\ x \in Int /\ y \in Int /\ z \in Int /\ p \in Int /\ q \in Int /\ r \in Int
      /\ x > 0 /\ y > 0 /\ z > 0 /\ p > 0 /\ q > 0
  BY VectorTypes
<1>2. r * y = p * z + q * x
  BY FourCross
<1> HIDE DEF x, y, z, p, q, r
<1>3. p * z > 0 /\ q * x > 0 /\ p * z \in Int /\ q * x \in Int
  BY <1>1, ProductSign
<1>4. r * y > 0
  BY <1>2, <1>3
<1>5. ~ (r <= 0)
  BY <1>1, <1>4, ProductSign
<1>6. r > 0
  BY <1>1, <1>5
<1>7. QED
  BY <1>6 DEF r

\* From d no way of the ring is passed before y.
Clear(h, d, y) ==
    \A k \in Ways(h) : Cross2(k, d) # 0 /\ (Cross2(k, d) > 0 => Cross2(k, y) >= 0)

\* With no way between, no edge changes sides.
LEMMA ClearFollows ==
  ASSUME NEW s \in SUBSET Plane, NEW h, RingOf(h, s), NEW d \in Plane, NEW y \in Plane,
         Clear(h, d, y)
  PROVE  Follows(h, d, y) /\ Follows(h, Quarter(d), Quarter(y))
<1>1. ASSUME NEW k \in Ways(h)
      PROVE  /\ Cross2(k, d) # 0 /\ (Cross2(k, d) > 0 => Cross2(k, y) >= 0)
             /\ (Cross2(k, d) < 0 => Cross2(k, y) <= 0)
  <2>1. k \in Plane /\ Opposite(k) \in Ways(h)
    BY WaysAre
  <2>2. /\ Cross2(k, d) # 0 /\ (Cross2(k, d) > 0 => Cross2(k, y) >= 0)
        /\ (Cross2(Opposite(k), d) > 0 => Cross2(Opposite(k), y) >= 0)
    BY <2>1 DEF Clear
  <2>3. /\ Cross2(Opposite(k), d) = 0 - Cross2(k, d) /\ Cross2(k, d) \in Int
        /\ Cross2(Opposite(k), y) = 0 - Cross2(k, y) /\ Cross2(k, y) \in Int
    BY <2>1, VectorTurns, VectorTypes
  <2>4. QED
    BY <2>2, <2>3
<1>2. ASSUME NEW i \in DOMAIN h
      PROVE  LET e == Direction(h, i)
             IN  /\ e \in Plane /\ Opposite(e) \in Ways(h) /\ Opposite(Quarter(e)) \in Ways(h)
                 /\ Quarter(e) \in Plane
  <2>1. Direction(h, i) \in Plane /\ Direction(h, i) \in Ways(h)
    BY EdgeDirection, WaysAre
  <2>2. Quarter(Direction(h, i)) \in Ways(h) /\ Opposite(Direction(h, i)) \in Ways(h)
    BY <2>1, WaysAre
  <2>3. Quarter(Direction(h, i)) \in Plane /\ Opposite(Quarter(Direction(h, i))) \in Ways(h)
    BY <2>2, WaysAre
  <2>4. QED
    BY <2>1, <2>2, <2>3
<1>3. Follows(h, d, y)
  <2>1. ASSUME NEW i \in DOMAIN h
        PROVE  LET e == Direction(h, i)
               IN  /\ Dot(e, d) # 0 /\ (Dot(e, d) > 0 => Dot(e, y) >= 0)
                   /\ (Dot(e, d) < 0 => Dot(e, y) <= 0)
    <3> DEFINE e == Direction(h, i)   g == Opposite(Quarter(e))
    <3>1. e \in Plane /\ Quarter(e) \in Plane /\ g \in Ways(h)
      BY <1>2
    <3> HIDE DEF e
    <3>2. /\ Cross2(g, d) = 0 - Cross2(Quarter(e), d) /\ Cross2(Quarter(e), d) = 0 - Dot(e, d)
          /\ Cross2(g, y) = 0 - Cross2(Quarter(e), y) /\ Cross2(Quarter(e), y) = 0 - Dot(e, y)
          /\ Dot(e, d) \in Int /\ Dot(e, y) \in Int
      BY <3>1, VectorTurns, VectorTypes
    <3>3. Cross2(g, d) = Dot(e, d) /\ Cross2(g, y) = Dot(e, y)
      BY <3>2
    <3> HIDE DEF g
    <3>4. /\ Dot(e, d) # 0 /\ (Dot(e, d) > 0 => Dot(e, y) >= 0)
          /\ (Dot(e, d) < 0 => Dot(e, y) <= 0)
      BY <1>1, <3>1, <3>3
    <3>5. QED
      BY <3>4 DEF e
  <2>2. QED
    BY <2>1 DEF Follows
<1>4. Follows(h, Quarter(d), Quarter(y))
  <2>1. ASSUME NEW i \in DOMAIN h
        PROVE  LET e == Direction(h, i)
                   f == Quarter(d)
                   z == Quarter(y)
               IN  /\ Dot(e, f) # 0 /\ (Dot(e, f) > 0 => Dot(e, z) >= 0)
                   /\ (Dot(e, f) < 0 => Dot(e, z) <= 0)
    <3> DEFINE e == Direction(h, i)   g == Opposite(e)
    <3>1. e \in Plane /\ g \in Ways(h)
      BY <1>2
    <3> HIDE DEF e
    <3>2. /\ Dot(e, Quarter(d)) = Cross2(d, e) /\ Cross2(d, e) = 0 - Cross2(e, d)
          /\ Dot(e, Quarter(y)) = Cross2(y, e) /\ Cross2(y, e) = 0 - Cross2(e, y)
          /\ Cross2(g, d) = 0 - Cross2(e, d) /\ Cross2(g, y) = 0 - Cross2(e, y)
      BY <3>1, VectorTurns
    <3>3. Cross2(g, d) = Dot(e, Quarter(d)) /\ Cross2(g, y) = Dot(e, Quarter(y))
      BY <3>2
    <3> HIDE DEF g
    <3>4. /\ Dot(e, Quarter(d)) # 0 /\ (Dot(e, Quarter(d)) > 0 => Dot(e, Quarter(y)) >= 0)
          /\ (Dot(e, Quarter(d)) < 0 => Dot(e, Quarter(y)) <= 0)
      BY <1>1, <3>1, <3>3
    <3>5. QED
      BY <3>4 DEF e
  <2>2. QED
    BY <2>1 DEF Follows
<1>5. QED
  BY <1>3, <1>4

\* With no way along d, there is one on either side with none between.
LEMMA WaysAround ==
  ASSUME NEW s \in SUBSET Plane, NEW h, RingOf(h, s), NEW d \in Plane,
         \A k \in Ways(h) : Cross2(k, d) # 0
  PROVE  \E u, v \in Ways(h) : /\ Clear(h, d, u) /\ Clear(h, d, v)
                               /\ Cross2(u, d) > 0 /\ Cross2(d, v) > 0
<1> DEFINE S == {k \in Ways(h) : Cross2(k, d) > 0}
           R == {c \in S \X S : Cross2(c[1], c[2]) > 0}
           L == {c \in S \X S : Cross2(c[2], c[1]) > 0}
<1>1. \A k \in S : k \in Plane /\ k \in Ways(h) /\ Cross2(k, d) > 0
  BY WaysAre
<1>2. IsFiniteSet(S)
  <2>1. S \subseteq Ways(h) /\ IsFiniteSet(Ways(h))
    BY WaysAre
  <2> HIDE DEF S
  <2>2. QED
    BY <2>1, FS_Subset
<1>3. S # {}
  <2>1. 1 \in DOMAIN h
    <3>1. h \in Seq(s) /\ Len(h) >= 2
      BY DEF RingOf
    <3>2. QED
      BY <3>1
  <2> DEFINE k == Direction(h, 1)
  <2>2. k \in Ways(h)
    BY <2>1, WaysAre
  <2> HIDE DEF k
  <2>3. k \in Plane /\ Opposite(k) \in Ways(h) /\ Cross2(k, d) # 0
    BY <2>2, WaysAre
  <2>4. Cross2(Opposite(k), d) = 0 - Cross2(k, d) /\ Cross2(k, d) \in Int
    BY <2>3, VectorTurns, VectorTypes
  <2>5. Cross2(k, d) > 0 \/ Cross2(Opposite(k), d) > 0
    BY <2>3, <2>4
  <2>6. k \in S \/ Opposite(k) \in S
    BY <2>2, <2>3, <2>5
  <2>7. QED
    BY <2>6
<1>4. ASSUME NEW a \in S, NEW b \in S
      PROVE  /\ <<a, b>> \in R <=> Cross2(a, b) > 0
             /\ <<a, b>> \in L <=> Cross2(b, a) > 0
  OBVIOUS
<1>5. \A a \in S : Cross2(a, a) = 0
  BY <1>1, VectorTurns
<1>6. \A a, b, c \in S : Cross2(a, b) > 0 /\ Cross2(b, c) > 0 => Cross2(a, c) > 0
  BY <1>1, RightOf
<1>7. \A k \in Ways(h) : Cross2(k, d) > 0 => k \in S
  OBVIOUS
<1> HIDE DEF S, R, L
<1>8. PICK u \in S : \A k \in S : ~ Cross2(u, k) > 0
  <2>1. Ordered(S, R)
    BY <1>2, <1>3, <1>4, <1>5, <1>6 DEF Ordered
  <2>2. HasLast(S, R)
    BY <2>1, LastOfOrder
  <2>3. QED
    BY <1>4, <2>2 DEF HasLast
<1>9. PICK w \in S : \A k \in S : ~ Cross2(k, w) > 0
  <2>1. Ordered(S, L)
    BY <1>2, <1>3, <1>4, <1>5, <1>6 DEF Ordered
  <2>2. HasLast(S, L)
    BY <2>1, LastOfOrder
  <2>3. QED
    BY <1>4, <2>2 DEF HasLast
<1> DEFINE v == Opposite(w)
<1>10. /\ u \in Plane /\ u \in Ways(h) /\ w \in Plane /\ w \in Ways(h)
       /\ v \in Plane /\ v \in Ways(h) /\ Cross2(u, d) > 0 /\ Cross2(w, d) > 0
  BY <1>1, <1>8, <1>9, WaysAre, VectorTypes
<1>11. Cross2(d, v) > 0
  <2>1. Cross2(d, v) = 0 - Cross2(d, w) /\ Cross2(d, w) = 0 - Cross2(w, d)
        /\ Cross2(w, d) \in Int
    BY <1>10, VectorTurns, VectorTypes
  <2>2. QED
    BY <1>10, <2>1
<1>12. ASSUME NEW k \in S PROVE Cross2(k, u) >= 0 /\ Cross2(k, v) >= 0
  <2>1. k \in Plane
    BY <1>1
  <2>2. ~ Cross2(u, k) > 0 /\ ~ Cross2(k, w) > 0
    BY <1>8, <1>9
  <2>3. /\ Cross2(k, u) = 0 - Cross2(u, k) /\ Cross2(u, k) \in Int
        /\ Cross2(k, v) = 0 - Cross2(k, w) /\ Cross2(k, w) \in Int
    BY <1>10, <2>1, VectorTurns, VectorTypes
  <2>4. QED
    BY <2>2, <2>3
<1> HIDE DEF v
<1>13. Clear(h, d, u) /\ Clear(h, d, v)
  BY <1>7, <1>12 DEF Clear
<1>14. QED
  BY <1>10, <1>11, <1>13

\* Along the same way, vertices stay the same and lengths grow alike.
LEMMA ParallelDot ==
  ASSUME NEW k \in Plane, NEW d \in Plane, NEW y \in Plane, Cross2(k, d) = 0
  PROVE  /\ Dot(k, k) * Dot(y, d) = Dot(k, d) * Dot(y, k)
         /\ Dot(k, k) * Dot(y, Quarter(d)) = Dot(k, d) * Dot(y, Quarter(k))
         /\ Dot(k, k) * Dot(y, Opposite(d)) = Dot(k, d) * Dot(y, Opposite(k))
<1>1. ASSUME NEW z \in Plane PROVE Dot(k, k) * Dot(z, d) = Dot(k, d) * Dot(z, k)
  <2>1. Quarter(k) \in Plane
    BY VectorTypes
  <2>2. Cross2(k, Quarter(k)) * Dot(z, d)
          = Cross2(d, Quarter(k)) * Dot(z, k) + Cross2(k, d) * Dot(z, Quarter(k))
    BY <2>1, Decompose
  <2>3. Cross2(k, Quarter(k)) = Dot(k, k) /\ Cross2(d, Quarter(k)) = Dot(d, k)
        /\ Dot(d, k) = Dot(k, d)
    BY VectorTurns
  <2>4. Dot(k, k) * Dot(z, d) = Dot(k, d) * Dot(z, k) + 0 * Dot(z, Quarter(k))
    BY <2>2, <2>3
  <2>5. Dot(k, k) \in Int /\ Dot(z, d) \in Int /\ Dot(k, d) \in Int /\ Dot(z, k) \in Int
        /\ Dot(z, Quarter(k)) \in Int
    BY <2>1, VectorTypes
  <2>6. 0 * Dot(z, Quarter(k)) = 0 /\ Dot(k, d) * Dot(z, k) \in Int
    BY <2>5, ProductSign
  <2>7. QED
    BY <2>4, <2>6
<1>2. ASSUME NEW v \in Plane, NEW z \in Plane
      PROVE  Dot(z, Quarter(v)) = 0 - Dot(Quarter(z), v)
             /\ Dot(Quarter(z), v) \in Int /\ Quarter(z) \in Plane
  <2>1. Quarter(z) \in Plane
    BY VectorTypes
  <2>2. /\ Dot(z, Quarter(v)) = Cross2(v, z) /\ Cross2(v, z) = 0 - Cross2(z, v)
        /\ Dot(Quarter(z), v) = Cross2(z, v)
    BY VectorTurns
  <2>3. Dot(Quarter(z), v) \in Int
    BY <2>1, VectorTypes
  <2>4. QED
    BY <2>1, <2>2, <2>3
<1> DEFINE n == Dot(k, k)   m == Dot(k, d)   a == Dot(Quarter(y), d)   b == Dot(Quarter(y), k)
           e == Dot(y, d)   f == Dot(y, k)
<1>3. /\ n \in Int /\ m \in Int /\ a \in Int /\ b \in Int /\ e \in Int /\ f \in Int
      /\ n * a = m * b /\ n * e = m * f
      /\ Dot(y, Quarter(d)) = 0 - a /\ Dot(y, Quarter(k)) = 0 - b
      /\ Dot(y, Opposite(d)) = 0 - e /\ Dot(y, Opposite(k)) = 0 - f
  BY <1>1, <1>2, VectorTypes, VectorTurns
<1> HIDE DEF n, m, a, b, e, f
<1>4. n * (0 - a) = 0 - n * a /\ m * (0 - b) = 0 - m * b
      /\ n * (0 - e) = 0 - n * e /\ m * (0 - f) = 0 - m * f
  BY <1>3
<1>5. n * (0 - a) = m * (0 - b) /\ n * (0 - e) = m * (0 - f)
  BY <1>3, <1>4
<1>6. n * Dot(y, Quarter(d)) = m * Dot(y, Quarter(k))
      /\ n * Dot(y, Opposite(d)) = m * Dot(y, Opposite(k))
  BY <1>3, <1>5
<1>7. QED
  BY <1>3, <1>6 DEF n, m, e, f

\* Along x and along z lengths grow alike.
Alike(n, m, x, z) ==
    /\ n \in Int /\ m \in Int /\ n > 0 /\ m > 0
    /\ \A y \in Plane : n * Dot(y, x) = m * Dot(y, z)

\* Farthest along one is farthest along the other.
LEMMA SupportAlike ==
  ASSUME NEW h \in Seq(Plane), NEW i \in DOMAIN h, NEW x \in Plane, NEW z \in Plane,
         NEW n, NEW m, Alike(n, m, x, z), Supports(h, i, x)
  PROVE  Supports(h, i, z)
<1>1. ASSUME NEW j \in DOMAIN h PROVE Dot(h[j], z) <= Dot(h[i], z)
  <2>1. h[j] \in Plane /\ h[i] \in Plane
    OBVIOUS
  <2> DEFINE a == Dot(h[j], x)   b == Dot(h[i], x)   e == Dot(h[j], z)   f == Dot(h[i], z)
  <2>2. /\ a \in Int /\ b \in Int /\ e \in Int /\ f \in Int /\ a <= b
        /\ n * a = m * e /\ n * b = m * f /\ n \in Int /\ m \in Int /\ n > 0 /\ m > 0
    BY <2>1, VectorTypes DEF Supports, Alike
  <2> HIDE DEF a, b, e, f
  <2>3. n * (b - a) >= 0
    BY <2>2, ProductSign
  <2>4. n * (b - a) = n * b - n * a /\ m * (f - e) = m * f - m * e
    BY <2>2
  <2>5. n * b \in Int /\ n * a \in Int /\ m * f \in Int /\ m * e \in Int
    BY <2>2, ProductSign
  <2>6. m * (f - e) >= 0
    BY <2>2, <2>3, <2>4, <2>5
  <2>7. ~ (f - e < 0)
    BY <2>2, <2>6, ProductSign
  <2>8. e <= f
    BY <2>2, <2>7
  <2>9. QED
    BY <2>8 DEF e, f
<1>2. QED
  BY <1>1 DEF Supports

\* A rectangle along a way is the way's.
LEMMA AlongWay ==
  ASSUME NEW h \in Seq(Plane), Len(h) > 0, NEW k \in Plane, NEW d \in Plane,
         Dot(k, k) > 0, Cross2(k, d) = 0, Dot(k, d) > 0
  PROVE  ~ Less(RectangleAlong(h, d), RectangleAlong(h, k))
<1> DEFINE n == Dot(k, k)   m == Dot(k, d)
<1>1. /\ Alike(n, m, d, k) /\ Alike(n, m, Quarter(d), Quarter(k))
      /\ Alike(n, m, Opposite(d), Opposite(k))
      /\ Alike(n, m, Opposite(Quarter(d)), Opposite(Quarter(k)))
  <2>1. n \in Int /\ m \in Int
    BY VectorTypes
  <2>2. \A y \in Plane : /\ n * Dot(y, d) = m * Dot(y, k)
                         /\ n * Dot(y, Quarter(d)) = m * Dot(y, Quarter(k))
                         /\ n * Dot(y, Opposite(d)) = m * Dot(y, Opposite(k))
    BY ParallelDot
  <2>3. ASSUME NEW y \in Plane
        PROVE  n * Dot(y, Opposite(Quarter(d))) = m * Dot(y, Opposite(Quarter(k)))
    <3>1. Quarter(d) \in Plane /\ Quarter(k) \in Plane
      BY VectorTypes
    <3> DEFINE a == Dot(y, Quarter(d))   b == Dot(y, Quarter(k))
    <3>2. /\ Dot(y, Opposite(Quarter(d))) = 0 - a /\ Dot(y, Opposite(Quarter(k))) = 0 - b
          /\ a \in Int /\ b \in Int /\ n * a = m * b
      BY <2>2, <3>1, VectorTurns, VectorTypes
    <3> HIDE DEF a, b, n, m
    <3>3. n * (0 - a) = 0 - n * a /\ m * (0 - b) = 0 - m * b
      BY <2>1, <3>2
    <3>4. QED
      BY <3>2, <3>3
  <2> HIDE DEF n, m
  <2>4. n > 0 /\ m > 0
    BY DEF n, m
  <2>5. QED
    BY <2>1, <2>2, <2>3, <2>4 DEF Alike
<1>2. PICK i, j, p, q \in DOMAIN h : Touches(h, i, j, p, q, d)
  BY TouchedExist
<1>3. Touches(h, i, j, p, q, k)
  <2>1. /\ Quarter(k) \in Plane /\ Quarter(d) \in Plane /\ Opposite(k) \in Plane
        /\ Opposite(d) \in Plane /\ Opposite(Quarter(d)) \in Plane
        /\ Opposite(Quarter(k)) \in Plane
    BY VectorTypes
  <2>2. /\ Supports(h, i, d) /\ Supports(h, j, Opposite(d)) /\ Supports(h, p, Quarter(d))
        /\ Supports(h, q, Opposite(Quarter(d)))
    BY <1>2 DEF Touches
  <2> HIDE DEF n, m
  <2>3. Supports(h, i, k)
    BY <1>1, <1>2, <2>1, <2>2, SupportAlike
  <2>4. Supports(h, j, Opposite(k))
    BY <1>1, <1>2, <2>1, <2>2, SupportAlike
  <2>5. Supports(h, p, Quarter(k))
    BY <1>1, <1>2, <2>1, <2>2, SupportAlike
  <2>6. Supports(h, q, Opposite(Quarter(k)))
    BY <1>1, <1>2, <2>1, <2>2, SupportAlike
  <2>7. QED
    BY <1>2, <2>3, <2>4, <2>5, <2>6 DEF Touches
<1>4. PICK x \in Plane, y \in Plane : Spanned(h, i, j, p, q, x, y)
  BY <1>2, Spans
<1> DEFINE P == Dot(x, d)   S == Dot(y, d)   a == Dot(x, k)   e == Dot(y, k)   N == Dot(d, d)
<1>5. /\ RectangleAlong(h, d).num = P * S /\ RectangleAlong(h, d).den = N
      /\ RectangleAlong(h, k).num = a * e /\ RectangleAlong(h, k).den = n
  BY <1>2, <1>3, <1>4, RectangleIs DEF Spanned
<1>6. n * P = m * a /\ n * S = m * e /\ n * N = m * m
  <2>1. n * N = m * Dot(d, k) /\ Dot(d, k) = m
    BY <1>1, VectorTurns DEF Alike
  <2>2. n * P = m * a /\ n * S = m * e
    BY <1>1, <1>4 DEF Alike
  <2>3. QED
    BY <2>1, <2>2
<1>7. /\ P \in Int /\ S \in Int /\ a \in Int /\ e \in Int /\ n \in Int /\ m \in Int /\ N \in Int
      /\ n > 0
  BY <1>4, VectorTypes
<1> HIDE DEF P, S, a, e, n, m, N
<1>8. n * ((P * S) * n) = n * ((a * e) * N)
  <2>1. n * ((P * S) * n) = (n * P) * (n * S)
    BY <1>7
  <2>2. n * ((a * e) * N) = (a * e) * (n * N)
    BY <1>7
  <2>3. (m * a) * (m * e) = (a * e) * (m * m)
    BY <1>7
  <2>4. QED
    BY <1>6, <2>1, <2>2, <2>3
<1>9. ~ ((P * S) * n < (a * e) * N)
  <2> DEFINE A == (P * S) * n   B == (a * e) * N
  <2>1. A \in Int /\ B \in Int
    BY <1>7, ProductSign
  <2>2. n * A = n * B
    BY <1>8
  <2> HIDE DEF A, B
  <2>3. SUFFICES ASSUME A < B PROVE FALSE
    BY DEF A, B
  <2>4. n * (B - A) = n * B - n * A /\ n * A \in Int
    BY <1>7, <2>1, ProductSign
  <2>5. n * (B - A) > 0
    BY <1>7, <2>1, <2>3, ProductSign
  <2>6. QED
    BY <2>2, <2>4, <2>5
<1>10. QED
  BY <1>5, <1>9 DEF Less

\* Every rectangle around a ring is no less than one with a side along an edge.
LEMMA EdgeIsBest ==
  ASSUME NEW s \in SUBSET Plane, NEW h, RingOf(h, s), Len(h) >= 3, NEW d \in Plane,
         d # <<0, 0>>
  PROVE  \E i \in DOMAIN h : ~ Less(RectangleAlong(h, d), RectangleAlong(h, Direction(h, i)))
<1>1. h \in Seq(Plane) /\ Len(h) > 0
  <2>1. h \in Seq(s)
    BY DEF RingOf
  <2>2. QED
    BY <2>1
<1>2. Dot(d, d) > 0
  BY DotSquares
<1>3. SUFFICES \E k \in Ways(h) : ~ Less(RectangleAlong(h, d), RectangleAlong(h, k))
  <2>1. PICK k \in Ways(h) : ~ Less(RectangleAlong(h, d), RectangleAlong(h, k))
    BY <1>3
  <2>2. PICK i \in DOMAIN h : SameRectangle(h, k, Direction(h, i))
    BY WaysAre
  <2>3. QED
    BY <2>1, <2>2 DEF SameRectangle, Less
<1>4. CASE \E k \in Ways(h) : Cross2(k, d) = 0
  <2>1. PICK k \in Ways(h) : Cross2(k, d) = 0
    BY <1>4
  <2>2. k \in Plane /\ Dot(k, k) > 0 /\ Opposite(k) \in Ways(h)
    BY WaysAre
  <2>3. Opposite(k) \in Plane /\ Dot(Opposite(k), Opposite(k)) > 0
    BY <2>2, WaysAre
  <2>4. Dot(k, d) # 0
    <3> DEFINE x == Dot(k, d)   y == Cross2(k, d)   z == Dot(k, k)   w == Dot(d, d)
    <3>1. x * x + y * y = z * w /\ y = 0 /\ x \in Int /\ z \in Int /\ w \in Int
          /\ z > 0 /\ w > 0
      BY <1>2, <2>1, <2>2, DotSquares, VectorTypes
    <3> HIDE DEF x, y, z, w
    <3>2. z * w > 0
      BY <3>1, ProductSign
    <3>3. x # 0
      BY <3>1, <3>2
    <3>4. QED
      BY <3>3 DEF x
  <2>5. /\ Cross2(Opposite(k), d) = 0 - Cross2(k, d) /\ Dot(Opposite(k), d) = 0 - Dot(k, d)
        /\ Dot(k, d) \in Int
    BY <2>2, VectorTurns, VectorTypes
  <2>6. Cross2(Opposite(k), d) = 0 /\ (Dot(k, d) > 0 \/ Dot(Opposite(k), d) > 0)
    BY <2>1, <2>4, <2>5
  <2>7. CASE Dot(k, d) > 0
    BY <1>1, <2>1, <2>2, <2>7, AlongWay
  <2>8. CASE Dot(Opposite(k), d) > 0
    BY <1>1, <2>2, <2>3, <2>6, <2>8, AlongWay
  <2>9. QED
    BY <2>6, <2>7, <2>8
<1>5. CASE \A k \in Ways(h) : Cross2(k, d) # 0
  <2>1. PICK u \in Ways(h), v \in Ways(h) : /\ Clear(h, d, u) /\ Clear(h, d, v)
                                  /\ Cross2(u, d) > 0 /\ Cross2(d, v) > 0
    BY <1>5, WaysAround
  <2>2. u \in Plane /\ v \in Plane /\ Dot(u, u) > 0 /\ Dot(v, v) > 0
    BY WaysAre
  <2>3. Follows(h, d, u) /\ Follows(h, Quarter(d), Quarter(u))
    BY <2>1, <2>2, ClearFollows
  <2>4. Follows(h, d, v) /\ Follows(h, Quarter(d), Quarter(v))
    BY <2>1, <2>2, ClearFollows
  <2>5. ~ (/\ Less(RectangleAlong(h, d), RectangleAlong(h, u))
           /\ Less(RectangleAlong(h, d), RectangleAlong(h, v)))
    BY <1>2, <2>1, <2>2, <2>3, <2>4, NotLessThanBoth
  <2>6. QED
    BY <2>5
<1>6. QED
  BY <1>4, <1>5

\* Quotients are ordered.
Quotient(a) == a.num \in Int /\ a.den \in Int /\ a.den > 0

\* Which they are totally.
LEMMA LessOrders ==
  ASSUME NEW a, NEW b, NEW c, Quotient(a), Quotient(b), Quotient(c)
  PROVE  /\ ~ Less(a, a) /\ (Less(a, b) => ~ Less(b, a))
         /\ Less(a, b) /\ Less(b, c) => Less(a, c)
         /\ ~ Less(a, b) /\ ~ Less(b, c) => ~ Less(a, c)
<1> DEFINE p == a.num   q == a.den   r == b.num   t == b.den   v == c.num   w == c.den
<1>1. /\ p \in Int /\ q \in Int /\ r \in Int /\ t \in Int /\ v \in Int /\ w \in Int
      /\ q > 0 /\ t > 0 /\ w > 0
  BY DEF Quotient
<1>2. /\ Less(a, a) <=> p * q < p * q
      /\ Less(a, b) <=> p * t < r * q
      /\ Less(b, a) <=> r * q < p * t
      /\ Less(b, c) <=> r * w < v * t
      /\ Less(a, c) <=> p * w < v * q
  BY DEF Less
<1> HIDE DEF p, q, r, t, v, w
<1>3. /\ p * t \in Int /\ r * q \in Int /\ r * w \in Int /\ v * t \in Int /\ p * w \in Int
      /\ v * q \in Int /\ p * q \in Int
  BY <1>1, ProductSign
<1>4. /\ t * (v * q - p * w) = q * (v * t - r * w) + w * (r * q - p * t)
      /\ v * q - p * w \in Int /\ v * t - r * w \in Int /\ r * q - p * t \in Int
  BY <1>1, <1>3
<1> DEFINE x == v * q - p * w   y == v * t - r * w   z == r * q - p * t
<1>5. t * x = q * y + w * z /\ x \in Int /\ y \in Int /\ z \in Int
  BY <1>4
<1>6. /\ Less(a, b) <=> z > 0
      /\ Less(b, c) <=> y > 0
      /\ Less(a, c) <=> x > 0
      /\ Less(b, a) <=> z < 0
  BY <1>2, <1>3
<1>7. ~ Less(a, a)
  BY <1>2, <1>3
<1> HIDE DEF x, y, z
<1>8. q * y \in Int /\ w * z \in Int
  BY <1>1, <1>5, ProductSign
<1>9. y > 0 /\ z > 0 => x > 0
  <2>1. SUFFICES ASSUME y > 0, z > 0 PROVE x > 0
    OBVIOUS
  <2>2. q * y > 0 /\ w * z > 0
    BY <1>1, <1>5, <2>1, ProductSign
  <2>3. t * x > 0
    BY <1>5, <1>8, <2>2
  <2>4. ~ (x <= 0)
    BY <1>1, <1>5, <2>3, ProductSign
  <2>5. QED
    BY <1>5, <2>4
<1>10. y <= 0 /\ z <= 0 => x <= 0
  <2>1. SUFFICES ASSUME y <= 0, z <= 0 PROVE x <= 0
    OBVIOUS
  <2>2. q * y <= 0 /\ w * z <= 0
    BY <1>1, <1>5, <2>1, ProductSign
  <2>3. t * x <= 0
    BY <1>5, <1>8, <2>2
  <2>4. ~ (x > 0)
    BY <1>1, <1>5, <2>3, ProductSign
  <2>5. QED
    BY <1>5, <2>4
<1>11. Less(a, b) => ~ Less(b, a)
  BY <1>5, <1>6
<1>12. Less(a, b) /\ Less(b, c) => Less(a, c)
  BY <1>6, <1>9
<1>13. ~ Less(a, b) /\ ~ Less(b, c) => ~ Less(a, c)
  BY <1>5, <1>6, <1>10
<1>14. QED
  BY <1>7, <1>11, <1>12, <1>13

\* A finite set of quotients has a least one.
LEMMA LeastIs ==
  ASSUME NEW S, IsFiniteSet(S), S # {}, \A a \in S : Quotient(a)
  PROVE  Least(S) \in S /\ \A b \in S : ~ Less(b, Least(S))
<1> DEFINE R == {c \in S \X S : Less(c[2], c[1])}
<1>1. \A a, b \in S : <<a, b>> \in R <=> Less(b, a)
  OBVIOUS
<1> HIDE DEF R
<1>2. \A a \in S : ~ Less(a, a)
  BY LessOrders
<1>3. \A a, b, c \in S : Less(b, a) /\ Less(c, b) => Less(c, a)
  BY LessOrders
<1>4. Ordered(S, R)
  BY <1>1, <1>2, <1>3 DEF Ordered
<1>5. PICK x \in S : \A y \in S : <<x, y>> \notin R
  BY <1>4, LastOfOrder DEF HasLast
<1> DEFINE least(v) == \A b \in S : ~ Less(b, v)
<1>6. least(x)
  BY <1>1, <1>5
<1>7. Least(S) = CHOOSE a \in S : least(a)
  BY DEF Least
<1> HIDE DEF least
<1>8. Least(S) \in S /\ least(Least(S))
  BY <1>5, <1>6, <1>7
<1>9. QED
  BY <1>8 DEF least

\* The area of a rectangle is one of them.
LEMMA RectangleQuotient ==
  ASSUME NEW h \in Seq(Plane), Len(h) > 0, NEW d \in Plane, d # <<0, 0>>
  PROVE  Quotient(RectangleAlong(h, d))
<1>1. PICK i, j, k, l \in DOMAIN h : Touches(h, i, j, k, l, d)
  BY TouchedExist
<1> DEFINE a == Dot(h[i], d) - Dot(h[j], d)
           b == Dot(h[k], Quarter(d)) - Dot(h[l], Quarter(d))
<1>2. /\ RectangleAlong(h, d).num = a * b /\ RectangleAlong(h, d).den = Dot(d, d)
      /\ a \in Nat /\ b \in Nat
  BY <1>1, RectangleIs
<1>3. Dot(d, d) \in Nat /\ Dot(d, d) > 0
  BY DotSquares
<1> HIDE DEF a, b
<1>4. a * b \in Int
  BY <1>2, ProductSign
<1>5. QED
  BY <1>2, <1>3, <1>4 DEF Quotient

\* No rectangle around a ring is less than the least with a side along an edge.
THEOREM NoLessRectangle ==
  ASSUME NEW s \in SUBSET Plane, NEW h, RingOf(h, s), Len(h) >= 3, NEW d \in Plane,
         d # <<0, 0>>, NEW r \in MinimumRectangle(h)
  PROVE  ~ Less(RectangleAlong(h, d), r)
<1> DEFINE E(i) == RectangleAlong(h, Direction(h, i))   S == {E(i) : i \in DOMAIN h}
<1>1. h \in Seq(Plane) /\ Len(h) > 0 /\ Len(h) \in Nat /\ DOMAIN h = 1 .. Len(h)
  <2>1. h \in Seq(s)
    BY DEF RingOf
  <2>2. QED
    BY <2>1
<1>2. \A i \in DOMAIN h : Quotient(E(i))
  BY EdgeDirection, RectangleQuotient
<1>3. r = Least(S)
  <2>1. ~ (Len(h) < 3)
    BY <1>1
  <2>2. QED
    BY <2>1 DEF MinimumRectangle
<1> HIDE DEF E
<1>4. IsFiniteSet(S)
  <2>1. IsFiniteSet(DOMAIN h)
    BY <1>1, FS_Interval
  <2> DEFINE f == [i \in DOMAIN h |-> E(i)]
  <2>2. f \in [DOMAIN h -> S] /\ \A y \in S : \E x \in DOMAIN h : f[x] = y
    OBVIOUS
  <2> HIDE DEF f, S
  <2>3. QED
    BY <2>1, <2>2, ImageIsFinite
<1>5. \A a \in S : Quotient(a)
  BY <1>2
<1>6. PICK i \in DOMAIN h : ~ Less(RectangleAlong(h, d), E(i))
  BY EdgeIsBest DEF E
<1>7. E(i) \in S
  BY <1>6
<1> HIDE DEF S
<1>8. Least(S) \in S /\ ~ Less(E(i), Least(S))
  BY <1>4, <1>5, <1>7, LeastIs
<1>9. Quotient(RectangleAlong(h, d)) /\ Quotient(E(i)) /\ Quotient(Least(S))
  BY <1>1, <1>2, <1>5, <1>6, <1>8, RectangleQuotient
<1>10. QED
  BY <1>3, <1>6, <1>8, <1>9, LessOrders

-----------------------------------------------------------------------------
(* The geometry of the parts.                                              *)

\* The grid is a finite part of the plane.
LEMMA GridIsPlane ==
    ASSUME GeometryAssumption
    PROVE  Grid \subseteq Plane /\ IsFiniteSet(Grid)
<1>1. Width \in Nat /\ Height \in Nat
  BY DEF GeometryAssumption
<1>2. Grid \subseteq Plane
  BY <1>1 DEF Grid, Plane
<1>3. IsFiniteSet(0 .. Width) /\ IsFiniteSet(0 .. Height)
  <2>1. 0 \in Int /\ Width \in Int /\ Height \in Int
    BY <1>1
  <2> QED  BY <2>1, FS_Interval
<1>4. IsFiniteSet(Grid)
  BY <1>3, FS_Product DEF Grid
<1> QED  BY <1>2, <1>4

\* The points and the polygon of the two parts that have them.
Drawn == part \in {"input", "polygon"} => TypeOK

\* They have their types at first and after every step.
LEMMA DrawnInitially == PartsInit => Drawn
<1> SUFFICES ASSUME PartsInit, part \in {"input", "polygon"} PROVE TypeOK
  BY DEF Drawn
<1>1. Init
  BY DEF PartsInit
<1> QED  BY <1>1 DEF Init, TypeOK

LEMMA DrawnNext == Drawn /\ [PartsNext]_partsVars => Drawn'
<1> SUFFICES ASSUME Drawn, [PartsNext]_partsVars, part' \in {"input", "polygon"}
             PROVE  TypeOK'
  BY DEF Drawn
<1>1. part' = part
  BY DEF PartsNext, partsVars
<1>2. points \subseteq Grid /\ polygon \in Seq(Grid)
  BY <1>1 DEF Drawn, TypeOK
<1>3. CASE AddPoint
  BY <1>2, <1>3 DEF AddPoint, TypeOK
<1>4. CASE AddVertex
  <2>1. PICK p \in Grid : polygon' = Append(polygon, p)
    BY <1>4 DEF AddVertex
  <2>2. polygon' \in Seq(Grid)
    BY <1>2, <2>1, AppendProperties
  <2>3. points' = points
    BY <1>4 DEF AddVertex
  <2> QED  BY <1>2, <2>2, <2>3 DEF TypeOK
<1>5. CASE UNCHANGED vars
  BY <1>2, <1>5 DEF vars, TypeOK
<1>6. AddPoint \/ AddVertex \/ UNCHANGED vars
  BY DEF PartsNext, partsVars
<1> QED  BY <1>3, <1>4, <1>5, <1>6

\* The two invariants follow of any points and polygon of the grid.
LEMMA CompetitorsOf ==
    ASSUME GeometryAssumption, TypeOK
    PROVE  HullAndCompetitorsSound
<1> DEFINE h == ConvexHull(points)
<1>1. points \in SUBSET Plane /\ IsFiniteSet(points)
  BY GridIsPlane, FS_Subset DEF TypeOK
<1>2. Extreme(h, points) /\ (Len(h) >= 3 => RingOf(h, points))
  BY <1>1, HullExtreme
<1> HIDE DEF h
<1>3. HullIsExtremePoints
  BY <1>2 DEF HullIsExtremePoints, Extreme, h
<1>4. FlushTrianglesEnclose
  <2>1. ASSUME Len(h) >= 3, NEW e \in EdgeTriples(h), NEW q \in points
        PROVE  LET c == TriangleCorners(h, e)
                   p == <<q[1], q[2], 1>>
               IN  /\ Determinant(c[1], c[2], p) * c[1][3] * c[2][3] >= 0
                   /\ Determinant(c[2], c[3], p) * c[2][3] * c[3][3] >= 0
                   /\ Determinant(c[3], c[1], p) * c[3][3] * c[1][3] >= 0
    BY <1>1, <1>2, <2>1, TrianglesEnclose
  <2> QED  BY <2>1, Zenon DEF FlushTrianglesEnclose, h
<1>5. RectangleIsMinimum
  <2>1. ASSUME NEW r \in MinimumRectangle(h), NEW d \in ((-3 .. 3) \X (0 .. 3)) \ {<<0, 0>>}
        PROVE  ~ Less(RectangleAlong(h, d), r)
    <3>1. d \in Plane /\ d # <<0, 0>>
      BY DEF Plane
    <3>2. ~ (Len(h) < 3)
      BY <2>1 DEF MinimumRectangle
    <3>3. Len(h) \in Nat
      <4>1. \/ Len(h) \in Nat
            \/ Cardinality(points) \in Nat /\ Cardinality(points) > 2
        BY <1>1, HullOfFew, FS_CardinalityType DEF h
      <4>2. Cardinality(points) > 2 => h \in Seq(points)
        BY <1>1, HullIsRing DEF h, RingOf
      <4> QED  BY <4>1, <4>2
    <3>4. Len(h) >= 3
      BY <3>2, <3>3
    <3> QED  BY <1>1, <1>2, <2>1, <3>1, <3>4, NoLessRectangle
  <2> QED  BY <2>1, Zenon DEF RectangleIsMinimum, h
<1>6. HullPassesCheck
  <2>1. Len(h) >= 3 => /\ Convex(h) /\ Convex(Reverse(h))
                       /\ \A q \in points : ~ Outside(h, q) /\ ~ Outside(Reverse(h), q)
    BY <1>1, <1>2, RingPasses
  <2> QED  BY <2>1 DEF HullPassesCheck, h
<1> QED  BY <1>3, <1>4, <1>5, <1>6 DEF HullAndCompetitorsSound

LEMMA DecideOf ==
    ASSUME GeometryAssumption, TypeOK
    PROVE  EdgeTestsDecide
<1> SUFFICES ASSUME TwiceSignedArea(polygon) # 0, NEW q \in Grid
             PROVE  /\ ~ InConvexHull(q, Range(polygon)) => Outside(polygon, q)
                    /\ KeepsToOneSide(polygon) /\ Outside(polygon, q) =>
                          ~ InConvexHull(q, Range(polygon))
  BY DEF EdgeTestsDecide
<1>1. q \in Plane /\ polygon \in Seq(Plane)
  BY GridIsPlane, SeqMonotonic DEF TypeOK
<1> QED  BY <1>1, TestsDecide

-----------------------------------------------------------------------------
(* The verdicts.                                                           *)

\* The first rule that applies.
LEMMA FirstRule ==
    ASSUME NEW rules, NEW n \in Nat \ {0}, NEW len \in Nat, n <= len,
           DOMAIN rules = 1 .. len, rules[n].when,
           \A m \in 1 .. n - 1 : ~ rules[m].when
    PROVE  Verdict!FirstOf(rules) = rules[n].kind
<1> DEFINE S == {i \in DOMAIN rules : rules[i].when}
           least(x) == \A y \in S : x <= y
<1>1. n \in S
  <2>1. n \in 1 .. len
    OBVIOUS
  <2> QED  BY <2>1, Zenon
<1>2. \A y \in S : n <= y
  <2>1. ASSUME NEW y \in S, ~ (n <= y) PROVE FALSE
    <3>1. y \in 1 .. n - 1
      BY <2>1
    <3>2. rules[y].when
      BY Zenon DEF S
    <3> QED  BY <3>1, <3>2, Zenon
  <2> QED  BY <2>1
<1>3. S \subseteq Int
  OBVIOUS
<1>4. Verdict!Min(S) = CHOOSE x \in S : least(x)
  BY DEF Verdict!Min
<1> HIDE DEF S
<1>5. n \in S /\ least(n)
  BY <1>1, <1>2
<1> HIDE DEF least
<1>6. Verdict!Min(S) \in S /\ least(Verdict!Min(S))
  BY <1>4, <1>5
<1>7. Verdict!Min(S) <= n /\ n <= Verdict!Min(S)
  BY <1>5, <1>6 DEF least
<1>8. Verdict!Min(S) = n
  <2>1. Verdict!Min(S) \in Int
    BY <1>3, <1>6
  <2> QED  BY <1>7, <2>1
<1> QED  BY <1>8, Zenon DEF Verdict!FirstOf, S

LEMMA RuleIs ==
    ASSUME NEW P, NEW k, NEW x, x = Verdict!Rule(P, k)
    PROVE  (x.when <=> P) /\ x.kind = k
BY Zenon DEF Verdict!Rule

\* classify: what each outcome says of a child.
LEMMA ClassifyIs ==
    ASSUME NEW c, NEW o
    PROVE  Verdict!Classify(c, o) =
               IF c.ending = "timeout" THEN "timeout"
               ELSE IF c.ending = "SIGXFSZ" THEN "output_limit"
               ELSE IF c.ending = "signal" THEN "crash"
               ELSE IF c.ending \in {"asan", "ubsan"} /\ c.marked THEN "crash"
               ELSE IF c.truncated THEN "output_limit"
               ELSE IF c.ending = "exception" THEN "cv_exception"
               ELSE IF c.ending # "returned" THEN "probe_error"
               ELSE Verdict!ReturnedKind(c, o)
<1> DEFINE r == <<Verdict!Rule(c.ending = "timeout", "timeout"),
                  Verdict!Rule(c.ending = "SIGXFSZ", "output_limit"),
                  Verdict!Rule(c.ending = "signal", "crash"),
                  Verdict!Rule(c.ending \in {"asan", "ubsan"} /\ c.marked, "crash"),
                  Verdict!Rule(c.truncated, "output_limit"),
                  Verdict!Rule(c.ending = "exception", "cv_exception"),
                  Verdict!Rule(c.ending # "returned", "probe_error"),
                  Verdict!Rule(TRUE, Verdict!ReturnedKind(c, o))>>
<1>1. Verdict!Classify(c, o) = Verdict!FirstOf(r)
  BY DEF Verdict!Classify
<1>2. DOMAIN r = 1 .. 8
  OBVIOUS
<1> HIDE DEF r
<1>4. /\ r[1].when <=> c.ending = "timeout"
      /\ r[1].kind = "timeout"
  <2>1. r[1] = Verdict!Rule(c.ending = "timeout", "timeout")
    BY DEF r
  <2>2. ASSUME NEW x, x = Verdict!Rule(c.ending = "timeout", "timeout")
        PROVE  x.when <=> c.ending = "timeout"
    BY <2>2, RuleIs, Zenon
  <2> QED  BY <2>1, <2>2, RuleIs
<1>5. /\ r[2].when <=> c.ending = "SIGXFSZ"
      /\ r[2].kind = "output_limit"
  <2>1. r[2] = Verdict!Rule(c.ending = "SIGXFSZ", "output_limit")
    BY DEF r
  <2>2. ASSUME NEW x, x = Verdict!Rule(c.ending = "SIGXFSZ", "output_limit")
        PROVE  x.when <=> c.ending = "SIGXFSZ"
    BY <2>2, RuleIs, Zenon
  <2> QED  BY <2>1, <2>2, RuleIs
<1>6. /\ r[3].when <=> c.ending = "signal"
      /\ r[3].kind = "crash"
  <2>1. r[3] = Verdict!Rule(c.ending = "signal", "crash")
    BY DEF r
  <2>2. ASSUME NEW x, x = Verdict!Rule(c.ending = "signal", "crash")
        PROVE  x.when <=> c.ending = "signal"
    BY <2>2, RuleIs, Zenon
  <2> QED  BY <2>1, <2>2, RuleIs
<1>7. /\ r[4].when <=> (c.ending \in {"asan", "ubsan"} /\ c.marked)
      /\ r[4].kind = "crash"
  <2>1. r[4] = Verdict!Rule(c.ending \in {"asan", "ubsan"} /\ c.marked, "crash")
    BY DEF r
  <2>2. ASSUME NEW x, x = Verdict!Rule(c.ending \in {"asan", "ubsan"} /\ c.marked, "crash")
        PROVE  x.when <=> (c.ending \in {"asan", "ubsan"} /\ c.marked)
    BY <2>2, RuleIs, Zenon
  <2> QED  BY <2>1, <2>2, RuleIs
<1>8. /\ r[5].when <=> c.truncated
      /\ r[5].kind = "output_limit"
  <2>1. r[5] = Verdict!Rule(c.truncated, "output_limit")
    BY DEF r
  <2> QED  BY <2>1 DEF Verdict!Rule
<1>9. /\ r[6].when <=> c.ending = "exception"
      /\ r[6].kind = "cv_exception"
  <2>1. r[6] = Verdict!Rule(c.ending = "exception", "cv_exception")
    BY DEF r
  <2>2. ASSUME NEW x, x = Verdict!Rule(c.ending = "exception", "cv_exception")
        PROVE  x.when <=> c.ending = "exception"
    BY <2>2, RuleIs, Zenon
  <2> QED  BY <2>1, <2>2, RuleIs
<1>10. /\ r[7].when <=> c.ending # "returned"
       /\ r[7].kind = "probe_error"
  <2>1. r[7] = Verdict!Rule(c.ending # "returned", "probe_error")
    BY DEF r
  <2>2. ASSUME NEW x, x = Verdict!Rule(c.ending # "returned", "probe_error")
        PROVE  x.when <=> c.ending # "returned"
    BY <2>2, RuleIs, Zenon
  <2> QED  BY <2>1, <2>2, RuleIs
<1>11. /\ r[8].when
       /\ r[8].kind = Verdict!ReturnedKind(c, o)
  <2>1. r[8] = Verdict!Rule(TRUE, Verdict!ReturnedKind(c, o))
    BY DEF r
  <2>2. ASSUME NEW x, x = Verdict!Rule(TRUE, Verdict!ReturnedKind(c, o))
        PROVE  x.when
    BY <2>2, RuleIs, Zenon
  <2> QED  BY <2>1, <2>2, RuleIs
<1>12. ASSUME NEW n \in 1 .. 8, r[n].when, \A m \in 1 .. n - 1 : ~ r[m].when
       PROVE  Verdict!Classify(c, o) = r[n].kind
  <2>1. n \in Nat \ {0} /\ n <= 8
    OBVIOUS
  <2>2. 8 \in Nat
    OBVIOUS
  <2> QED  BY <1>1, <1>2, <1>12, <2>1, <2>2, FirstRule, Zenon
<1>13. r[1].when =>
           Verdict!Classify(c, o) = r[1].kind
  BY <1>12
<1>14. ~ r[1].when /\ r[2].when =>
           Verdict!Classify(c, o) = r[2].kind
  BY <1>12
<1>15. ~ r[1].when /\ ~ r[2].when /\ r[3].when =>
           Verdict!Classify(c, o) = r[3].kind
  BY <1>12
<1>16. ~ r[1].when /\ ~ r[2].when /\ ~ r[3].when /\ r[4].when =>
           Verdict!Classify(c, o) = r[4].kind
  BY <1>12
<1>17. ~ r[1].when /\ ~ r[2].when /\ ~ r[3].when /\ ~ r[4].when /\ r[5].when =>
           Verdict!Classify(c, o) = r[5].kind
  BY <1>12
<1>18. ~ r[1].when /\ ~ r[2].when /\ ~ r[3].when /\ ~ r[4].when /\ ~ r[5].when /\ r[6].when =>
           Verdict!Classify(c, o) = r[6].kind
  BY <1>12
<1>19. ~ r[1].when /\ ~ r[2].when /\ ~ r[3].when /\ ~ r[4].when /\ ~ r[5].when /\ ~ r[6].when /\ r[7].when =>
           Verdict!Classify(c, o) = r[7].kind
  BY <1>12
<1>20. ~ r[1].when /\ ~ r[2].when /\ ~ r[3].when /\ ~ r[4].when /\ ~ r[5].when /\ ~ r[6].when /\ ~ r[7].when /\ r[8].when =>
           Verdict!Classify(c, o) = r[8].kind
  BY <1>12
<1> QED
  BY <1>4, <1>5, <1>6, <1>7, <1>8, <1>9, <1>10, <1>11,
     <1>13, <1>14, <1>15, <1>16, <1>17, <1>18, <1>19, <1>20

\* classify_returned: only a polygon that no check refuses is called one.
LEMMA ReturnedIs ==
    ASSUME NEW p \in Verdict!Outputs, NEW o
    PROVE  LET kind == Verdict!ClassifyReturned(p, o) IN
           /\ kind \in {"probe_error", "empty", "polygon_invalid", "polygon_nonminimal", "polygon"}
           /\ kind = "polygon_nonminimal" =>
                  p \in Verdict!Polygons /\ ~ p.flawed /\ Verdict!Competes(p, o)
           /\ kind = "polygon" => p \in Verdict!Polygons /\ ~ Verdict!Competes(p, o)
<1> DEFINE r == <<Verdict!Rule(p.flawed, "polygon_invalid"),
                  Verdict!Rule(Verdict!Competes(p, o), "polygon_nonminimal"),
                  Verdict!Rule(TRUE, "polygon")>>
           kind == Verdict!ClassifyReturned(p, o)
<1>1. Verdict!Forms = {"incomplete", "empty", "empty, area", "miscounted", "not finite"}
  BY DEF Verdict!Forms
<1>2. CASE p \notin Verdict!Polygons
  <2>1. p.form \in Verdict!Forms
    BY <1>2 DEF Verdict!Outputs
  <2>2. kind \in {"probe_error", "empty", "polygon_invalid"}
    BY <1>1, <2>1, Zenon DEF Verdict!ClassifyReturned
  <2> QED  BY <2>2
<1>3. CASE p \in Verdict!Polygons
  <2>1. p.form = "polygon"
    BY <1>3 DEF Verdict!Polygons
  <2>2. kind = Verdict!FirstOf(r)
    <3>1. p.form # "incomplete" /\ p.form # "empty" /\ p.form \notin Verdict!Forms
      BY <1>1, <2>1
    <3> QED  BY <3>1 DEF Verdict!ClassifyReturned
  <2>3. DOMAIN r = 1 .. 3
    OBVIOUS
  <2> HIDE DEF r
  <2>4. /\ r[1].when <=> p.flawed
        /\ r[1].kind = "polygon_invalid"
    <3>1. r[1] = Verdict!Rule(p.flawed, "polygon_invalid")
      BY DEF r
    <3> QED  BY <3>1 DEF Verdict!Rule
  <2>5. /\ r[2].when <=> Verdict!Competes(p, o)
        /\ r[2].kind = "polygon_nonminimal"
    <3>1. r[2] = Verdict!Rule(Verdict!Competes(p, o), "polygon_nonminimal")
      BY DEF r
    <3> QED  BY <3>1 DEF Verdict!Rule
  <2>6. /\ r[3].when
        /\ r[3].kind = "polygon"
    <3>1. r[3] = Verdict!Rule(TRUE, "polygon")
      BY DEF r
    <3> QED  BY <3>1 DEF Verdict!Rule
  <2>7. ASSUME NEW n \in 1 .. 3, r[n].when, \A m \in 1 .. n - 1 : ~ r[m].when
        PROVE  kind = r[n].kind
    <3>1. n \in Nat \ {0} /\ n <= 3
      OBVIOUS
    <3>2. 3 \in Nat
      OBVIOUS
    <3> QED  BY <2>2, <2>3, <2>7, <3>1, <3>2, FirstRule, Zenon
  <2>8. r[1].when => kind = r[1].kind
    BY <2>7
  <2>9. ~ r[1].when /\ r[2].when => kind = r[2].kind
    BY <2>7
  <2>10. ~ r[1].when /\ ~ r[2].when /\ r[3].when => kind = r[3].kind
    BY <2>7
  <2> HIDE DEF kind
  <2> QED  BY <1>3, <2>4, <2>5, <2>6, <2>8, <2>9, <2>10 DEF kind
<1> QED  BY <1>2, <1>3

\* Another object, or another input, was measured than was asked for.
Mistaken(f) ==
    \/ Verdict!IdentityProblem(f, options)
    \/ options.command = "run" /\ ~ f.echoed

LEMMA ChildIs ==
    ASSUME NEW f \in Verdict!Children
    PROVE  /\ f.ending \in Verdict!Endings \cup {"returned"}
           /\ f.marked \in BOOLEAN /\ f.truncated \in BOOLEAN /\ f.echoed \in BOOLEAN
           /\ f.ending = "returned" => f.output \in Verdict!Outputs /\ ~ f.marked
<1>1. CASE f \in Verdict!Unreturned
  BY <1>1 DEF Verdict!Unreturned, Verdict!Endings
<1>2. CASE f \in Verdict!Returned
  BY <1>2 DEF Verdict!Returned
<1> QED  BY <1>1, <1>2 DEF Verdict!Children

\* The kinds there are, and which class each outcome of classify is in.
LEMMA ClassesOfKinds ==
    ASSUME NEW f \in Verdict!Children
    PROVE  LET kind == Verdict!Classify(f, options) IN
           /\ kind \in {"timeout", "output_limit", "crash", "cv_exception", "probe_error",
                        "empty", "polygon_invalid", "polygon_nonminimal", "polygon"}
           /\ \/ f.ending = "signal"
              \/ f.ending \in {"asan", "ubsan"} /\ f.marked
              => kind = "crash"
           /\ kind \in {"polygon", "polygon_nonminimal"} =>
                  f.ending = "returned" /\ kind = Verdict!ClassifyReturned(f.output, options)
<1> DEFINE kind == Verdict!Classify(f, options)
<1>1. kind = IF f.ending = "timeout" THEN "timeout"
             ELSE IF f.ending = "SIGXFSZ" THEN "output_limit"
             ELSE IF f.ending = "signal" THEN "crash"
             ELSE IF f.ending \in {"asan", "ubsan"} /\ f.marked THEN "crash"
             ELSE IF f.truncated THEN "output_limit"
             ELSE IF f.ending = "exception" THEN "cv_exception"
             ELSE IF f.ending # "returned" THEN "probe_error"
             ELSE Verdict!ReturnedKind(f, options)
  BY ClassifyIs
<1>2. f.ending = "returned" =>
          /\ f.output \in Verdict!Outputs
          /\ Verdict!ReturnedKind(f, options) = Verdict!ClassifyReturned(f.output, options)
  BY ChildIs DEF Verdict!ReturnedKind
<1>3. f.ending = "returned" =>
          Verdict!ReturnedKind(f, options)
              \in {"probe_error", "empty", "polygon_invalid", "polygon_nonminimal", "polygon"}
  BY <1>2, ReturnedIs
<1> HIDE DEF kind
<1>4. f.marked \in BOOLEAN /\ f.truncated \in BOOLEAN
  BY ChildIs
<1> QED
  <2>1. CASE f.ending = "returned"
    BY <1>1, <1>2, <1>3, <1>4, <2>1 DEF kind
  <2>2. CASE f.ending # "returned"
    <3>1. kind \in {"timeout", "output_limit", "crash", "cv_exception", "probe_error"}
      BY <1>1, <1>4, <2>2
    <3>2. f.ending = "signal" \/ (f.ending \in {"asan", "ubsan"} /\ f.marked) => kind = "crash"
      BY <1>1, <1>4
    <3> QED  BY <3>1, <3>2 DEF kind
  <2> QED  BY <2>1, <2>2

LEMMA CalledTells ==
    ASSUME Verdict!VerdictAssumption, options \in Verdict!Options,
           Verdict!CommandLine(options), ~ Verdict!Refused(options),
           NEW f \in Verdict!Children, NEW k \in Verdict!KindsOf(f, options)
    PROVE  /\ k \in Verdict!Kinds
           /\ \/ f.ending = "signal"
              \/ f.ending \in {"asan", "ubsan"} /\ f.marked
              => k = IF Mistaken(f) THEN "identity_error" ELSE "crash"
           /\ k \notin Verdict!ErrorKinds => ~ Mistaken(f)
           /\ k = "polygon_nonminimal" =>
                  /\ ~ f.output.flawed /\ f.output.smaller # None
                  /\ f.output.smaller # "optimum" => f.output.usable
           /\ options.expect /\ k = "polygon" /\ f.output.smaller # None =>
                  f.output.smaller # "optimum" /\ ~ f.output.usable
<1> DEFINE c == Verdict!Classify(f, options)
           kind == Verdict!CheckedOutcome(f, options)
           p == f.output
<1>1. kind = IF c \notin Verdict!UnidentifiedOutcomes /\ Mistaken(f) THEN "identity_error" ELSE c
  BY Zenon DEF Verdict!CheckedOutcome, Mistaken
<1>2. k \in IF kind = "cv_exception" THEN Verdict!Exceptions ELSE {kind}
  BY Zenon DEF Verdict!KindsOf
<1>3. /\ c \in {"timeout", "output_limit", "crash", "cv_exception", "probe_error",
                "empty", "polygon_invalid", "polygon_nonminimal", "polygon"}
      /\ f.ending = "signal" \/ (f.ending \in {"asan", "ubsan"} /\ f.marked) => c = "crash"
      /\ c \in {"polygon", "polygon_nonminimal"} =>
             f.ending = "returned" /\ c = Verdict!ClassifyReturned(p, options)
  BY ClassesOfKinds
<1> HIDE DEF c, kind
<1>4. k \in Verdict!Kinds
  BY <1>1, <1>2, <1>3 DEF Verdict!Kinds, Verdict!Exceptions, Verdict!Expectable, Verdict!ErrorKinds
<1>5. f.ending = "signal" \/ (f.ending \in {"asan", "ubsan"} /\ f.marked)
          => k = IF Mistaken(f) THEN "identity_error" ELSE "crash"
  BY <1>1, <1>2, <1>3 DEF Verdict!UnidentifiedOutcomes
<1>6. k \notin Verdict!ErrorKinds => ~ Mistaken(f)
  BY <1>1, <1>2, <1>3 DEF Verdict!UnidentifiedOutcomes, Verdict!ErrorKinds, Verdict!Exceptions
<1>7. k \in {"polygon", "polygon_nonminimal"} => f.ending = "returned" /\ c = k
  BY <1>1, <1>2, <1>3 DEF Verdict!Exceptions
<1>8. ASSUME k \in {"polygon", "polygon_nonminimal"}
      PROVE  /\ p \in Verdict!Polygons /\ k = Verdict!ClassifyReturned(p, options)
             /\ k = "polygon_nonminimal" => ~ p.flawed /\ Verdict!Competes(p, options)
             /\ k = "polygon" => ~ Verdict!Competes(p, options)
  <2>1. p \in Verdict!Outputs /\ k = Verdict!ClassifyReturned(p, options)
    BY <1>3, <1>7, <1>8, ChildIs
  <2> QED  BY <1>8, <2>1, ReturnedIs
<1>9. k = "polygon_nonminimal" =>
          /\ ~ p.flawed /\ p.smaller # None
          /\ p.smaller # "optimum" => p.usable
  <2>1. SUFFICES ASSUME k = "polygon_nonminimal"
                 PROVE  p.smaller # None /\ (p.smaller # "optimum" => p.usable)
    BY <1>8
  <2>2. Verdict!Competes(p, options) /\ p \in Verdict!Polygons
    BY <1>8, <2>1
  <2>3. None \notin Verdict!Competitors
    BY DEF Verdict!VerdictAssumption
  <2> QED  BY <2>2, <2>3 DEF Verdict!Competes, Verdict!Competitors
<1>10. options.expect /\ k = "polygon" /\ p.smaller # None => p.smaller # "optimum" /\ ~ p.usable
  <2>1. SUFFICES ASSUME options.expect, k = "polygon", p.smaller # None
                 PROVE  p.smaller # "optimum" /\ ~ p.usable
    OBVIOUS
  <2>2. ~ Verdict!Competes(p, options) /\ p \in Verdict!Polygons
    BY <1>8, <2>1
  <2>3. p.smaller \in Verdict!Competitors
    BY <2>1, <2>2 DEF Verdict!Polygons
  <2>4. options.minimality = "all" /\ options.oracle /\ options.command = "run"
    <3>1. options.command \in {"run", "fuzz"}
      BY DEF Verdict!Options
    <3> QED  BY <2>1, <3>1 DEF Verdict!Refused, Verdict!CommandLine
  <2> QED  BY <2>2, <2>3, <2>4 DEF Verdict!Competes, Verdict!Competitors
<1> QED  BY <1>4, <1>5, <1>6, <1>9, <1>10

-----------------------------------------------------------------------------
\* The report's lines on a case, and the cases that are counted.
On(c) == {i \in DOMAIN report : report[i] = c}
CalledKind(k) == {c \in Verdict!Done : outcome[c] = k}
Failed == {c \in Verdict!Done : outcome[c] \in Verdict!ErrorKinds}
Missed == {c \in Verdict!Done : Expected[c] \notin {None, outcome[c]}}

\* A case is named by what its child did; and while the runner runs, as soon
\* as the child is finished.
NamedByChild ==
    /\ child \in [Cases -> Verdict!Children \cup {None}]
    /\ \A c \in Verdict!Done : child[c] # None /\ outcome[c] \in Verdict!KindsOf(child[c], options)

NamedAtOnce == status = None => \A c \in Cases : child[c] = None <=> outcome[c] = None

\* The report is opened once, unless the command line is refused, and has a
\* line for a case when the case is named, or the runner ends before it.
ReportKept ==
    /\ report \in Seq(Cases \cup {"header", "summary"})
    /\ report # <<>> => ~ Verdict!Refused(options)
    /\ report = <<>> => Verdict!Done = {}
    /\ \A c \in Cases \ Verdict!Done : On(c) = {}
    /\ \A c \in Verdict!Done :
          \/ \E i \in DOMAIN report : On(c) = {i}
          \/ On(c) = {} /\ status = 1 /\ ~ Verdict!Summarised

CountsKept ==
    /\ \A k \in Verdict!Kinds : tally.counts[k] = Cardinality(CalledKind(k))
    /\ tally.errors = Cardinality(Failed)
    /\ tally.mismatches = IF options.expect THEN Cardinality(Missed) ELSE 0

\* The runner writes the summary when every case is done, and ends with it.
EndKept ==
    /\ status = None => ~ Verdict!Summarised
    /\ Verdict!Summarised => status = Verdict!Exit(tally) /\ Verdict!Done = Cases
    /\ status # None /\ ~ Verdict!Summarised =>
           \/ status = 1
           \/ status = 2 /\ Verdict!Refused(options) /\ report = <<>>

VerdictInv ==
    /\ Verdict!TypeOK /\ Verdict!CommandLine(options)
    /\ NamedByChild /\ NamedAtOnce /\ ReportKept /\ CountsKept /\ EndKept

\* The instance counts as the theorems on finite sets do.
LEMMA SameCount == \A S : Verdict!Cardinality(S) = Cardinality(S)
BY Zenon DEF Verdict!Cardinality, Cardinality

LEMMA FinitelyManyCases == ASSUME Verdict!VerdictAssumption PROVE IsFiniteSet(Cases)
<1>1. Verdict!IsFiniteSet(Cases)
  BY Zenon DEF Verdict!VerdictAssumption
<1>2. \E seq \in Seq(Cases) : \A s \in Cases : \E n \in 1 .. Len(seq) : seq[n] = s
  BY <1>1, Zenon DEF Verdict!IsFiniteSet
<1> QED  BY <1>2, Zenon DEF IsFiniteSet

LEMMA CountOneMore ==
    ASSUME NEW S, IsFiniteSet(S), NEW x, x \notin S, NEW P \in BOOLEAN,
           NEW T, T = S \cup (IF P THEN {x} ELSE {})
    PROVE  Cardinality(T) = Cardinality(S) + IF P THEN 1 ELSE 0
<1>1. Cardinality(S) \in Nat
  BY FS_CardinalityType
<1>2. CASE P
  BY <1>1, <1>2, FS_AddElement
<1>3. CASE ~ P
  <2>1. T = S
    BY <1>3
  <2> QED  BY <1>1, <1>3, <2>1
<1> QED  BY <1>2, <1>3

LEMMA FinitelyMany ==
    ASSUME Verdict!VerdictAssumption
    PROVE  /\ IsFiniteSet(Verdict!Done) /\ IsFiniteSet(Failed) /\ IsFiniteSet(Missed)
           /\ \A k : IsFiniteSet(CalledKind(k))
<1>1. IsFiniteSet(Cases)
  BY FinitelyManyCases
<1>2. Verdict!Done \in SUBSET Cases
  BY DEF Verdict!Done
<1>3. IsFiniteSet(Verdict!Done)
  BY <1>1, <1>2, FS_Subset
<1>4. Failed \in SUBSET Verdict!Done /\ Missed \in SUBSET Verdict!Done
  BY DEF Failed, Missed
<1>5. \A k : CalledKind(k) \in SUBSET Verdict!Done
  BY DEF CalledKind
<1> QED  BY <1>3, <1>4, <1>5, FS_Subset

LEMMA VerdictInitially ==
    ASSUME Verdict!VerdictAssumption PROVE Verdict!Init => VerdictInv
<1> SUFFICES ASSUME Verdict!Init PROVE VerdictInv
  OBVIOUS
<1>1. /\ options \in Verdict!Options /\ Verdict!CommandLine(options)
      /\ child = [c \in Cases |-> None] /\ outcome = [c \in Cases |-> None]
      /\ tally = Verdict!NoTally /\ report = <<>> /\ status = None
  BY DEF Verdict!Init
<1>2. Verdict!Done = {}
  BY <1>1 DEF Verdict!Done
<1>3. Verdict!TypeOK
  BY <1>1 DEF Verdict!TypeOK, Verdict!NoTally
<1>4. NamedByChild
  BY <1>1, <1>2 DEF NamedByChild
<1>8. NamedAtOnce
  BY <1>1 DEF NamedAtOnce
<1>5. ReportKept
  BY <1>1, <1>2 DEF ReportKept, On
<1>6. CountsKept
  <2>1. Failed = {} /\ Missed = {} /\ \A k : CalledKind(k) = {}
    BY <1>2 DEF Failed, Missed, CalledKind
  <2>2. Cardinality({}) = 0
    BY FS_EmptySet
  <2> QED  BY <1>1, <2>1, <2>2 DEF CountsKept, Verdict!NoTally
<1>7. EndKept
  BY <1>1 DEF EndKept, Verdict!Summarised
<1> QED  BY <1>1, <1>3, <1>4, <1>5, <1>6, <1>7, <1>8 DEF VerdictInv

\* A line for one more entry.
LEMMA OneMoreLine ==
    ASSUME NEW S, report \in Seq(S), NEW e \in S, report' = Append(report, e)
    PROVE  /\ report' \in Seq(S) /\ report' # <<>>
           /\ \A c : On(c)' = On(c) \cup (IF c = e THEN {Len(report) + 1} ELSE {})
           /\ Verdict!Summarised' <=> e = "summary"
<1>1. /\ report' \in Seq(S) /\ report' # <<>> /\ Len(report') = Len(report) + 1
      /\ \A i \in 1 .. Len(report) : report'[i] = report[i]
      /\ report'[Len(report) + 1] = e
  BY AppendProperties
<1>2. Len(report) \in Nat /\ DOMAIN report = 1 .. Len(report)
  OBVIOUS
<1>3. DOMAIN report' = 1 .. Len(report) + 1
  BY <1>1
<1>4. ASSUME NEW c PROVE On(c)' = On(c) \cup (IF c = e THEN {Len(report) + 1} ELSE {})
  BY <1>1, <1>2, <1>3 DEF On
<1>5. Verdict!Summarised' <=> e = "summary"
  BY <1>1, Zenon DEF Verdict!Summarised, Verdict!Last
<1> QED  BY <1>1, <1>4, <1>5

\* Nothing but the report or the status moves.
LEMMA NothingNamed ==
    ASSUME VerdictInv, UNCHANGED <<options, child, outcome, tally>>,
           status = None \/ status' = status, status' \in {None, 0, 1, 2}
    PROVE  /\ Verdict!TypeOK' /\ Verdict!CommandLine(options)'
           /\ NamedByChild' /\ NamedAtOnce' /\ CountsKept' /\ Verdict!Done' = Verdict!Done
<1>1. Verdict!TypeOK'
  BY DEF VerdictInv, Verdict!TypeOK
<1>2. Verdict!CommandLine(options)'
  BY DEF VerdictInv
<1>3. Verdict!Done' = Verdict!Done
  BY DEF Verdict!Done
<1>4. \A f : Verdict!KindsOf(f, options)' = Verdict!KindsOf(f, options)
  BY Zenon DEF Verdict!KindsOf
<1>5. NamedByChild'
  BY <1>3, <1>4 DEF VerdictInv, NamedByChild
<1>6. Failed' = Failed /\ Missed' = Missed /\ \A k : CalledKind(k)' = CalledKind(k)
  BY <1>3 DEF Failed, Missed, CalledKind
<1>7. CountsKept'
  BY <1>6 DEF VerdictInv, CountsKept
<1>8. NamedAtOnce'
  BY DEF VerdictInv, NamedAtOnce
<1> QED  BY <1>1, <1>2, <1>3, <1>5, <1>7, <1>8

LEMMA RefuseStep ==
    ASSUME Verdict!VerdictAssumption, VerdictInv, Verdict!Refuse
    PROVE  VerdictInv'
<1>1. /\ Verdict!Refused(options) /\ status = None /\ status' = 2
      /\ report = <<>> /\ report' = report
      /\ UNCHANGED <<options, child, outcome, tally>>
  BY DEF Verdict!Refuse
<1>2. /\ Verdict!TypeOK' /\ Verdict!CommandLine(options)'
      /\ NamedByChild' /\ NamedAtOnce' /\ CountsKept' /\ Verdict!Done' = Verdict!Done
  BY <1>1, NothingNamed
<1>3. Verdict!Refused(options)' = Verdict!Refused(options)
  BY <1>1
<1>4. ReportKept'
  <2>1. Verdict!Done = {}
    BY <1>1 DEF VerdictInv, ReportKept
  <2> QED  BY <1>1, <1>2, <1>3, <2>1 DEF VerdictInv, ReportKept, On
<1>5. EndKept'
  BY <1>1, <1>2, <1>3 DEF VerdictInv, EndKept, Verdict!Summarised, Verdict!VerdictAssumption
<1> QED  BY <1>2, <1>4, <1>5 DEF VerdictInv

\* A file cannot be read or written, and the runner ends where it stands.
LEMMA BreakStep ==
    ASSUME Verdict!VerdictAssumption, VerdictInv, Verdict!Break
    PROVE  VerdictInv'
<1>1. /\ status = None /\ status' = 1 /\ report' = report
      /\ UNCHANGED <<options, child, outcome, tally>>
  BY DEF Verdict!Break
<1>2. /\ Verdict!TypeOK' /\ Verdict!CommandLine(options)'
      /\ NamedByChild' /\ NamedAtOnce' /\ CountsKept' /\ Verdict!Done' = Verdict!Done
  BY <1>1, NothingNamed
<1>3. /\ Verdict!Refused(options)' = Verdict!Refused(options)
      /\ Verdict!Summarised' <=> Verdict!Summarised
      /\ \A c : On(c)' = On(c)
  BY <1>1 DEF Verdict!Summarised, On
<1>4. status # 1
  BY <1>1 DEF Verdict!VerdictAssumption
<1>5. ReportKept'
  BY <1>1, <1>2, <1>3, <1>4 DEF VerdictInv, ReportKept
<1>6. EndKept'
  BY <1>1, <1>2, <1>3 DEF VerdictInv, EndKept
<1> QED  BY <1>2, <1>5, <1>6 DEF VerdictInv

LEMMA OpenStep ==
    ASSUME Verdict!VerdictAssumption, VerdictInv, Verdict!Open
    PROVE  VerdictInv'
<1>1. /\ ~ Verdict!Refused(options) /\ status = None /\ status' = None
      /\ report = <<>> /\ report' = <<"header">>
      /\ UNCHANGED <<options, child, outcome, tally>>
  BY DEF Verdict!Open
<1>2. /\ Verdict!TypeOK' /\ Verdict!CommandLine(options)'
      /\ NamedByChild' /\ NamedAtOnce' /\ CountsKept' /\ Verdict!Done' = Verdict!Done
  BY <1>1, NothingNamed
<1>3. Verdict!Refused(options)' = Verdict!Refused(options)
  BY <1>1
<1>4. ReportKept'
  <2>1. Verdict!Done = {}
    BY <1>1 DEF VerdictInv, ReportKept
  <2>2. DOMAIN report' = {1} /\ report'[1] = "header" /\ report' # <<>>
    BY <1>1
  <2>3. "header" \notin Cases
    BY DEF Verdict!VerdictAssumption
  <2>4. \A c \in Cases : On(c)' = {}
    BY <2>2, <2>3 DEF On
  <2>5. report' \in Seq(Cases \cup {"header", "summary"})
    BY <1>1
  <2> QED  BY <1>1, <1>2, <1>3, <2>1, <2>2, <2>4, <2>5 DEF ReportKept
<1>5. EndKept'
  <2>1. report'[Len(report')] = "header"
    BY <1>1
  <2>2. ~ Verdict!Summarised'
    BY <2>1 DEF Verdict!Summarised, Verdict!Last
  <2> QED  BY <1>1, <2>2 DEF EndKept
<1> QED  BY <1>2, <1>4, <1>5 DEF VerdictInv

LEMMA CloseStep ==
    ASSUME Verdict!VerdictAssumption, VerdictInv, Verdict!Close
    PROVE  VerdictInv'
<1>1. /\ status = None /\ report # <<>> /\ \A c \in Cases : child[c] # None
      /\ report' = Append(report, "summary") /\ status' = Verdict!Exit(tally)
      /\ UNCHANGED <<options, child, outcome, tally>>
  BY DEF Verdict!Close
<1>2. status' \in {0, 1, 2}
  BY <1>1 DEF Verdict!Exit
<1>3. /\ Verdict!TypeOK' /\ Verdict!CommandLine(options)'
      /\ NamedByChild' /\ NamedAtOnce' /\ CountsKept' /\ Verdict!Done' = Verdict!Done
  BY <1>1, <1>2, NothingNamed
<1>4. Verdict!Refused(options)' = Verdict!Refused(options)
  BY <1>1
<1>5. /\ report' \in Seq(Cases \cup {"header", "summary"}) /\ report' # <<>>
      /\ \A c : On(c)' = On(c) \cup (IF c = "summary" THEN {Len(report) + 1} ELSE {})
      /\ Verdict!Summarised'
  BY <1>1, OneMoreLine DEF VerdictInv, ReportKept
<1>6. ReportKept'
  <2>1. \A c \in Cases : On(c)' = On(c)
    BY <1>5 DEF Verdict!VerdictAssumption
  <2>2. ~ Verdict!Refused(options)'
    BY <1>1, <1>4 DEF VerdictInv, ReportKept
  <2>3. DOMAIN report \subseteq DOMAIN report'
    BY <1>1 DEF VerdictInv, ReportKept
  <2>4. Verdict!Done \subseteq Cases
    BY DEF Verdict!Done
  <2>5. status # 1
    BY <1>1 DEF Verdict!VerdictAssumption
  <2> QED  BY <1>3, <1>5, <2>1, <2>2, <2>3, <2>4, <2>5 DEF VerdictInv, ReportKept
<1>7. EndKept'
  <2>1. Verdict!Done = Cases
    BY <1>1 DEF VerdictInv, NamedAtOnce, Verdict!Done
  <2>2. status' # None
    BY <1>2 DEF Verdict!VerdictAssumption
  <2>3. Verdict!Exit(tally)' = Verdict!Exit(tally)
    BY <1>1 DEF Verdict!Exit
  <2> QED  BY <1>1, <1>3, <1>5, <2>1, <2>2, <2>3 DEF EndKept
<1> QED  BY <1>3, <1>6, <1>7 DEF VerdictInv

\* A case is counted: one more is done, and its kind is one more.
LEMMA CountStep ==
    ASSUME Verdict!VerdictAssumption, VerdictInv, NEW c \in Cases,
           Verdict!Yields(c), NEW f \in Behaviours(c), Verdict!Count(c, f),
           child' = [child EXCEPT ![c] = f], options' = options,
           status' \in {None, 0, 1, 2}
    PROVE  /\ Verdict!TypeOK' /\ Verdict!CommandLine(options)'
           /\ NamedByChild' /\ NamedAtOnce' /\ CountsKept'
           /\ Verdict!Done' = Verdict!Done \cup {c} /\ c \notin Verdict!Done
           /\ Verdict!Done \subseteq Cases
<1>1. status = None /\ report # <<>> /\ child[c] = None
  BY DEF Verdict!Yields
<1>3. PICK k \in Verdict!KindsOf(f, options) :
          /\ outcome' = [outcome EXCEPT ![c] = k]
          /\ tally' = Verdict!Tally(tally, c, k)
  BY DEF Verdict!Count
<1>4. f \in Verdict!Children
  BY DEF Verdict!VerdictAssumption
<1>5. k \in Verdict!Kinds /\ k # None
  <2>1. options \in Verdict!Options /\ Verdict!CommandLine(options) /\ ~ Verdict!Refused(options)
    BY <1>1 DEF VerdictInv, Verdict!TypeOK, ReportKept
  <2>2. k \in Verdict!Kinds
    BY <1>4, <2>1, CalledTells
  <2> QED  BY <2>2 DEF Verdict!VerdictAssumption
<1>6. f # None
  BY <1>4 DEF Verdict!VerdictAssumption
<1>7. /\ outcome \in [Cases -> Verdict!Kinds \cup {None}] /\ outcome[c] = None
      /\ child \in [Cases -> Verdict!Children \cup {None}]
  BY <1>1 DEF VerdictInv, NamedByChild, NamedAtOnce, Verdict!TypeOK
<1>8. /\ outcome' \in [Cases -> Verdict!Kinds \cup {None}]
      /\ child' \in [Cases -> Verdict!Children \cup {None}]
      /\ outcome'[c] = k /\ child'[c] = f
      /\ \A d \in Cases \ {c} : outcome'[d] = outcome[d] /\ child'[d] = child[d]
  BY <1>3, <1>4, <1>5, <1>7
<1>9. /\ Verdict!Done' = Verdict!Done \cup {c} /\ c \notin Verdict!Done
      /\ Verdict!Done \subseteq Cases
  BY <1>5, <1>7, <1>8 DEF Verdict!Done
<1>10. NamedByChild'
  <2>1. \A g : Verdict!KindsOf(g, options)' = Verdict!KindsOf(g, options)
    BY Zenon DEF Verdict!KindsOf
  <2>2. ASSUME NEW d \in Verdict!Done'
        PROVE  child'[d] # None /\ outcome'[d] \in Verdict!KindsOf(child'[d], options)
    <3>1. CASE d = c
      BY <1>6, <1>8, <3>1
    <3>2. CASE d # c
      BY <1>8, <1>9, <3>2 DEF VerdictInv, NamedByChild
    <3> QED  BY <3>1, <3>2
  <2> QED  BY <1>8, <2>1, <2>2 DEF NamedByChild
<1>11. NamedAtOnce'
  BY <1>1, <1>5, <1>6, <1>8 DEF VerdictInv, NamedAtOnce
<1>13. /\ tally \in [counts : [Verdict!Kinds -> Nat], mismatches : Nat, unchecked : Nat, errors : Nat]
       /\ tally'.counts = [tally.counts EXCEPT ![k] = @ + 1]
       /\ tally'.mismatches = tally.mismatches
              + IF options.expect /\ Expected[c] \notin {None, k} THEN 1 ELSE 0
       /\ tally'.errors = tally.errors + IF k \in Verdict!ErrorKinds THEN 1 ELSE 0
       /\ tally' \in [counts : [Verdict!Kinds -> Nat], mismatches : Nat, unchecked : Nat, errors : Nat]
  <2>1. tally \in [counts : [Verdict!Kinds -> Nat], mismatches : Nat, unchecked : Nat, errors : Nat]
    BY DEF VerdictInv, Verdict!TypeOK
  <2>2. tally' = [counts |-> [tally.counts EXCEPT ![k] = @ + 1],
                  unchecked |-> tally.unchecked
                     + IF options.expect /\ Expected[c] = None THEN 1 ELSE 0,
                  mismatches |-> tally.mismatches
                     + IF options.expect /\ Expected[c] \notin {None, k} THEN 1 ELSE 0,
                  errors |-> tally.errors + IF k \in Verdict!ErrorKinds THEN 1 ELSE 0]
    BY <1>3, Zenon DEF Verdict!Tally
  <2>3. [tally.counts EXCEPT ![k] = @ + 1] \in [Verdict!Kinds -> Nat]
    BY <1>5, <2>1
  <2>4. \A P \in BOOLEAN : (IF P THEN 1 ELSE 0) \in Nat
    OBVIOUS
  <2> QED  BY <2>1, <2>2, <2>3, <2>4
<1>14. CountsKept'
  <2>1. ASSUME NEW j \in Verdict!Kinds
        PROVE  tally'.counts[j] = Cardinality(CalledKind(j)')
    <3>1. CalledKind(j)' = CalledKind(j) \cup (IF k = j THEN {c} ELSE {})
      BY <1>8, <1>9 DEF CalledKind
    <3>2. c \notin CalledKind(j) /\ IsFiniteSet(CalledKind(j))
      BY <1>9, FinitelyMany DEF CalledKind
    <3>3. Cardinality(CalledKind(j)') = Cardinality(CalledKind(j)) + IF k = j THEN 1 ELSE 0
      <4>1. CASE k = j
        BY <3>1, <3>2, <4>1, FS_AddElement, FS_CardinalityType
      <4>2. CASE k # j
        BY <3>1, <3>2, <4>2, FS_CardinalityType
      <4> QED  BY <4>1, <4>2
    <3>4. tally.counts[j] = Cardinality(CalledKind(j))
      BY DEF VerdictInv, CountsKept
    <3>5. tally'.counts[j] = tally.counts[j] + IF k = j THEN 1 ELSE 0
      BY <1>5, <1>13
    <3> QED  BY <3>3, <3>4, <3>5
  <2>2. tally'.errors = Cardinality(Failed')
    <3>1. Failed' = Failed \cup (IF k \in Verdict!ErrorKinds THEN {c} ELSE {})
      BY <1>8, <1>9 DEF Failed
    <3>2. c \notin Failed /\ IsFiniteSet(Failed)
      BY <1>9, FinitelyMany DEF Failed
    <3>3. Cardinality(Failed') = Cardinality(Failed) + IF k \in Verdict!ErrorKinds THEN 1 ELSE 0
      BY <3>1, <3>2, CountOneMore
    <3> QED  BY <1>13, <3>3 DEF VerdictInv, CountsKept
  <2>3. tally'.mismatches = IF options'.expect THEN Cardinality(Missed') ELSE 0
    <3>1. Missed' = Missed \cup (IF Expected[c] \notin {None, k} THEN {c} ELSE {})
      BY <1>8, <1>9 DEF Missed
    <3>2. c \notin Missed /\ IsFiniteSet(Missed)
      BY <1>9, FinitelyMany DEF Missed
    <3>3. Cardinality(Missed') = Cardinality(Missed) + IF Expected[c] \notin {None, k} THEN 1 ELSE 0
      BY <3>1, <3>2, CountOneMore
    <3> QED  BY <1>1, <1>13, <3>3 DEF VerdictInv, CountsKept
  <2> QED  BY <2>1, <2>2, <2>3 DEF CountsKept
<1>15. Verdict!TypeOK'
  BY <1>8, <1>13 DEF VerdictInv, Verdict!TypeOK
<1>16. Verdict!CommandLine(options)'
  BY DEF VerdictInv
<1> QED  BY <1>9, <1>10, <1>11, <1>14, <1>15, <1>16

\* A child finishes: its case has a line more.
LEMMA FinishStep ==
    ASSUME Verdict!VerdictAssumption, VerdictInv, NEW c \in Cases, Verdict!Finish(c)
    PROVE  VerdictInv'
<1>1. /\ Verdict!Yields(c) /\ status = None /\ report # <<>>
      /\ report' = Append(report, c) /\ UNCHANGED <<options, status>>
  BY DEF Verdict!Finish, Verdict!Yields
<1>2. PICK f \in Behaviours(c) : child' = [child EXCEPT ![c] = f] /\ Verdict!Count(c, f)
  BY DEF Verdict!Finish
<1>3. /\ Verdict!TypeOK' /\ Verdict!CommandLine(options)'
      /\ NamedByChild' /\ NamedAtOnce' /\ CountsKept'
      /\ Verdict!Done' = Verdict!Done \cup {c} /\ c \notin Verdict!Done
      /\ Verdict!Done \subseteq Cases
  <2>1. status' \in {None, 0, 1, 2}
    BY <1>1
  <2> QED  BY <1>1, <1>2, <2>1, CountStep
<1>4. /\ report' \in Seq(Cases \cup {"header", "summary"}) /\ report' # <<>>
      /\ \A d : On(d)' = On(d) \cup (IF d = c THEN {Len(report) + 1} ELSE {})
      /\ ~ Verdict!Summarised'
  <2>1. c # "summary"
    BY DEF Verdict!VerdictAssumption
  <2> QED  BY <1>1, <2>1, OneMoreLine DEF VerdictInv, ReportKept
<1>5. ReportKept'
  <2>1. ~ Verdict!Refused(options)'
    BY <1>1 DEF VerdictInv, ReportKept
  <2>2. DOMAIN report \subseteq DOMAIN report' /\ Len(report) + 1 \in DOMAIN report'
    BY <1>1 DEF VerdictInv, ReportKept
  <2>3. \A d \in Cases \ Verdict!Done' : On(d)' = {}
    BY <1>3, <1>4 DEF VerdictInv, ReportKept
  <2>4. status # 1
    BY <1>1 DEF Verdict!VerdictAssumption
  <2>5. ASSUME NEW d \in Verdict!Done' PROVE \E i \in DOMAIN report' : On(d)' = {i}
    <3>1. CASE d = c
      <4>1. On(c) = {}
        BY <1>3 DEF VerdictInv, ReportKept
      <4> QED  BY <1>4, <2>2, <3>1, <4>1
    <3>2. CASE d # c
      <4>1. On(d)' = On(d) /\ d \in Verdict!Done
        BY <1>3, <1>4, <3>2
      <4>2. \E i \in DOMAIN report : On(d) = {i}
        BY <2>4, <4>1 DEF VerdictInv, ReportKept
      <4> QED  BY <2>2, <4>1, <4>2
    <3> QED  BY <3>1, <3>2
  <2> QED  BY <1>4, <2>1, <2>3, <2>5 DEF ReportKept
<1>6. EndKept'
  BY <1>1, <1>4 DEF EndKept
<1> QED  BY <1>3, <1>5, <1>6 DEF VerdictInv

\* What a child prints raises: the runner ends, and at most this case is
\* counted without a line.
LEMMA RaiseStep ==
    ASSUME Verdict!VerdictAssumption, VerdictInv, NEW c \in Cases, Verdict!Raise(c)
    PROVE  VerdictInv'
<1>1. /\ Verdict!Yields(c) /\ status = None /\ report # <<>> /\ child[c] = None
      /\ status' = 1 /\ UNCHANGED <<options, report>>
  BY DEF Verdict!Raise, Verdict!Yields
<1>2. PICK f \in Behaviours(c) :
          /\ child' = [child EXCEPT ![c] = f]
          /\ UNCHANGED <<outcome, tally>> \/ Verdict!Count(c, f)
  BY DEF Verdict!Raise
<1>3. /\ Verdict!TypeOK' /\ Verdict!CommandLine(options)'
      /\ NamedByChild' /\ NamedAtOnce' /\ CountsKept'
      /\ Verdict!Done \subseteq Verdict!Done' /\ Verdict!Done' \subseteq Verdict!Done \cup {c}
      /\ c \notin Verdict!Done
  <2>1. status' \in {None, 0, 1, 2} /\ status' # None
    BY <1>1 DEF Verdict!VerdictAssumption
  <2>2. CASE Verdict!Count(c, f)
    BY <1>1, <1>2, <2>1, <2>2, CountStep
  <2>3. CASE UNCHANGED <<outcome, tally>>
    <3>1. f \in Verdict!Children /\ f # None
      BY DEF Verdict!VerdictAssumption
    <3>2. child \in [Cases -> Verdict!Children \cup {None}] /\ outcome[c] = None
      BY <1>1 DEF VerdictInv, NamedByChild, NamedAtOnce
    <3>3. Verdict!Done' = Verdict!Done /\ c \notin Verdict!Done /\ Verdict!Done \subseteq Cases
      BY <2>3, <3>2 DEF Verdict!Done
    <3>4. /\ child' \in [Cases -> Verdict!Children \cup {None}]
          /\ \A d \in Verdict!Done : child'[d] = child[d]
      BY <1>2, <3>1, <3>2, <3>3
    <3>5. \A g : Verdict!KindsOf(g, options)' = Verdict!KindsOf(g, options)
      BY <1>1, Zenon DEF Verdict!KindsOf
    <3>6. NamedByChild'
      BY <1>1, <2>3, <3>3, <3>4, <3>5 DEF VerdictInv, NamedByChild
    <3>7. NamedAtOnce'
      BY <2>1 DEF NamedAtOnce
    <3>8. Failed' = Failed /\ Missed' = Missed /\ \A k : CalledKind(k)' = CalledKind(k)
      BY <2>3, <3>3 DEF Failed, Missed, CalledKind
    <3>9. CountsKept'
      BY <1>1, <2>3, <3>8 DEF VerdictInv, CountsKept
    <3>10. Verdict!TypeOK' /\ Verdict!CommandLine(options)'
      BY <1>1, <2>1, <2>3 DEF VerdictInv, Verdict!TypeOK
    <3> QED  BY <3>3, <3>6, <3>7, <3>9, <3>10
  <2> QED  BY <1>2, <2>2, <2>3
<1>4. /\ Verdict!Refused(options)' = Verdict!Refused(options)
      /\ Verdict!Summarised' <=> Verdict!Summarised
      /\ \A d : On(d)' = On(d)
  BY <1>1 DEF Verdict!Summarised, On
<1>5. ~ Verdict!Summarised
  BY <1>1 DEF VerdictInv, EndKept
<1>6. ReportKept'
  <2>1. status # 1
    BY <1>1 DEF Verdict!VerdictAssumption
  <2>2. ASSUME NEW d \in Verdict!Done'
        PROVE  (\E i \in DOMAIN report' : On(d)' = {i}) \/ On(d)' = {}
    <3>1. CASE d = c
      BY <1>3, <1>4, <3>1 DEF VerdictInv, ReportKept
    <3>2. CASE d # c
      BY <1>1, <1>3, <1>4, <3>2 DEF VerdictInv, ReportKept
    <3> QED  BY <3>1, <3>2
  <2>3. \A d \in Cases \ Verdict!Done' : On(d)' = {}
    BY <1>3, <1>4 DEF VerdictInv, ReportKept
  <2>4. report' \in Seq(Cases \cup {"header", "summary"}) /\ ~ Verdict!Refused(options)'
    BY <1>1, <1>4 DEF VerdictInv, ReportKept
  <2> QED  BY <1>1, <1>4, <1>5, <2>2, <2>3, <2>4 DEF ReportKept
<1>7. EndKept'
  <2>1. status' # None
    BY <1>1 DEF Verdict!VerdictAssumption
  <2> QED  BY <1>1, <1>4, <1>5, <2>1 DEF EndKept
<1> QED  BY <1>3, <1>6, <1>7 DEF VerdictInv

LEMMA VerdictNext ==
    ASSUME Verdict!VerdictAssumption, VerdictInv, [Verdict!Next]_(Verdict!vars)
    PROVE  VerdictInv'
<1>1. CASE Verdict!Refuse
  BY <1>1, RefuseStep
<1>2. CASE Verdict!Open
  BY <1>2, OpenStep
<1>3. ASSUME NEW c \in Cases, Verdict!Finish(c) PROVE VerdictInv'
  BY <1>3, FinishStep
<1>4. ASSUME NEW c \in Cases, Verdict!Raise(c) PROVE VerdictInv'
  BY <1>4, RaiseStep
<1>5. CASE Verdict!Close
  BY <1>5, CloseStep
<1>6. CASE Verdict!Break
  BY <1>6, BreakStep
<1>7. CASE UNCHANGED Verdict!vars
  <2>1. UNCHANGED <<options, child, outcome, tally, report, status>>
    BY <1>7 DEF Verdict!vars
  <2>2. status' \in {None, 0, 1, 2}
    BY <2>1 DEF VerdictInv, Verdict!TypeOK
  <2>3. /\ Verdict!TypeOK' /\ Verdict!CommandLine(options)'
        /\ NamedByChild' /\ NamedAtOnce' /\ CountsKept' /\ Verdict!Done' = Verdict!Done
    BY <2>1, <2>2, NothingNamed
  <2>4. /\ Verdict!Refused(options)' = Verdict!Refused(options)
        /\ Verdict!Summarised' <=> Verdict!Summarised
        /\ Verdict!Exit(tally)' = Verdict!Exit(tally)
        /\ \A c : On(c)' = On(c)
    BY <2>1 DEF Verdict!Summarised, On
  <2>5. ReportKept'
    BY <2>1, <2>3, <2>4 DEF VerdictInv, ReportKept
  <2>6. EndKept'
    BY <2>1, <2>3, <2>4 DEF VerdictInv, EndKept
  <2> QED  BY <2>3, <2>5, <2>6 DEF VerdictInv
<1> QED  BY <1>1, <1>2, <1>3, <1>4, <1>5, <1>6, <1>7, Zenon DEF Verdict!Next

LEMMA OutcomesOfInv ==
    ASSUME Verdict!VerdictAssumption, VerdictInv
    PROVE  Verdict!OutcomesTell
<1>1. ASSUME NEW c \in Verdict!Done
      PROVE  LET f == child[c]  k == outcome[c] IN
             /\ f \in Verdict!Children
             /\ \/ f.ending = "signal"
                \/ f.ending \in {"asan", "ubsan"} /\ f.marked
                => k = IF Mistaken(f) THEN "identity_error" ELSE "crash"
             /\ k \notin Verdict!ErrorKinds => ~ Mistaken(f)
             /\ k = "polygon_nonminimal" =>
                    /\ ~ f.output.flawed /\ f.output.smaller # None
                    /\ f.output.smaller # "optimum" => f.output.usable
             /\ options.expect /\ k = "polygon" /\ f.output.smaller # None =>
                    f.output.smaller # "optimum" /\ ~ f.output.usable
  <2>1. /\ c \in Cases /\ outcome[c] # None /\ child[c] # None
        /\ child[c] \in Verdict!Children /\ outcome[c] \in Verdict!KindsOf(child[c], options)
    BY DEF VerdictInv, NamedByChild, Verdict!Done
  <2>2. options \in Verdict!Options /\ Verdict!CommandLine(options)
    BY DEF VerdictInv, Verdict!TypeOK
  <2>3. ~ Verdict!Refused(options)
    BY DEF VerdictInv, ReportKept
  <2> QED  BY <2>1, <2>2, <2>3, CalledTells
<1>2. Verdict!MemoryFailuresShow
  BY <1>1, Zenon DEF Verdict!MemoryFailuresShow, Mistaken
<1>3. Verdict!MeasuredWhatWasAsked
  <2>1. options.manifest \in {None, "library", "compiled"} /\ options.command \in {"run", "fuzz"}
    BY DEF VerdictInv, Verdict!TypeOK, Verdict!Options
  <2>2. SUFFICES ASSUME NEW c \in Verdict!Done,
                        outcome[c] \notin Verdict!ErrorKinds, options.manifest # None
                 PROVE  /\ child[c].runtime = IF options.manifest = "compiled"
                                                 THEN "main-executable" ELSE "library"
                        /\ options.command = "run" => child[c].echoed
    BY DEF Verdict!MeasuredWhatWasAsked
  <2>3. ~ Mistaken(child[c])
    BY <1>1, <2>2
  <2> QED  BY <2>1, <2>2, <2>3 DEF Mistaken, Verdict!IdentityProblem
<1>4. Verdict!NonminimalIsProved
  BY <1>1, Zenon DEF Verdict!NonminimalIsProved
<1>5. Verdict!ExpectedPolygonUnbeaten
  BY <1>1, Zenon DEF Verdict!ExpectedPolygonUnbeaten
<1> QED  BY <1>2, <1>3, <1>4, <1>5 DEF Verdict!OutcomesTell

LEMMA ReportOfInv ==
    ASSUME Verdict!VerdictAssumption, VerdictInv
    PROVE  Verdict!ReportTells
<1>1. Verdict!TypeOK
  BY DEF VerdictInv
<1>2. Verdict!SummaryAgrees
  <2>1. ASSUME NEW c \in Verdict!Done
        PROVE  \/ Verdict!Lines(c) = 1
               \/ Verdict!Lines(c) = 0 /\ status = 1 /\ ~ Verdict!Summarised
    <3>1. Verdict!Lines(c) = Cardinality(On(c))
      BY SameCount, Zenon DEF On, Verdict!Lines
    <3>2. CASE \E i \in DOMAIN report : On(c) = {i}
      <4>1. Cardinality(On(c)) = 1
        BY <3>2, FS_Singleton
      <4> QED  BY <3>1, <4>1
    <3>3. CASE On(c) = {} /\ status = 1 /\ ~ Verdict!Summarised
      <4>1. Cardinality(On(c)) = 0
        BY <3>3, FS_EmptySet
      <4> QED  BY <3>1, <3>3, <4>1
    <3> QED  BY <3>2, <3>3 DEF VerdictInv, ReportKept
  <2>2. ASSUME NEW k \in Verdict!Kinds
        PROVE  tally.counts[k] = Verdict!Cardinality({c \in Verdict!Done : outcome[c] = k})
    <3>1. tally.counts[k] = Cardinality(CalledKind(k))
      BY DEF VerdictInv, CountsKept
    <3> QED  BY <3>1, SameCount, Zenon DEF CalledKind
  <2>3. tally.errors = Verdict!Cardinality({c \in Verdict!Done : outcome[c] \in Verdict!ErrorKinds})
    <3>1. tally.errors = Cardinality(Failed)
      BY DEF VerdictInv, CountsKept
    <3> QED  BY <3>1, SameCount, Zenon DEF Failed
  <2> QED  BY <2>1, <2>2, <2>3, Zenon DEF Verdict!SummaryAgrees
<1>3. Verdict!StatusTellsAll
  <2>1. CASE Verdict!Summarised
    <3>1. status = Verdict!Exit(tally) /\ Verdict!Done = Cases
      BY <2>1 DEF VerdictInv, EndKept
    <3>2. /\ tally.errors = Cardinality(Failed)
          /\ tally.mismatches = IF options.expect THEN Cardinality(Missed) ELSE 0
          /\ tally.errors \in Nat /\ tally.mismatches \in Nat
      BY DEF VerdictInv, CountsKept, Verdict!TypeOK
    <3>3. /\ Cardinality(Failed) = 0 <=> Failed = {}
          /\ Cardinality(Missed) = 0 <=> Missed = {}
      BY FinitelyMany, FS_EmptySet
    <3>4. Failed = {} <=> Verdict!Measured
      BY <3>1 DEF Failed, Verdict!Measured, Verdict!Done
    <3>5. Missed = {} <=> \A c \in Cases : Expected[c] \in {None, outcome[c]}
      BY <3>1 DEF Missed
    <3>6. tally.errors > 0 <=> ~ Verdict!Measured
      BY <3>2, <3>3, <3>4
    <3>7. tally.mismatches > 0 <=> ~ Verdict!AsExpected
      BY <3>2, <3>3, <3>5 DEF Verdict!AsExpected
    <3> QED  BY <2>1, <3>1, <3>6, <3>7, Zenon DEF Verdict!StatusTellsAll, Verdict!Exit
  <2>2. CASE ~ Verdict!Summarised
    BY <2>2 DEF VerdictInv, EndKept, Verdict!StatusTellsAll
  <2> QED  BY <2>1, <2>2
<1> QED  BY <1>1, <1>2, <1>3 DEF Verdict!ReportTells

\* The verdicts by themselves.
LEMMA VerdictsSound ==
    ASSUME Verdict!VerdictAssumption
    PROVE  Verdict!Spec => []Verdict!VerdictMeans
<1>1. Verdict!Init => VerdictInv
  BY VerdictInitially
<1>2. VerdictInv /\ [Verdict!Next]_(Verdict!vars) => VerdictInv'
  BY VerdictNext
<1>3. VerdictInv => Verdict!VerdictMeans
  BY OutcomesOfInv, ReportOfInv DEF Verdict!VerdictMeans
<1> QED  BY <1>1, <1>2, <1>3, PTL DEF Verdict!Spec

-----------------------------------------------------------------------------
(* The corpus.  FlattenSeq and parse_corpus are recursions over a sequence:  *)
(* each has a value, one only.                                               *)
Flattens(f, s, n) ==
  f = [i \in 1 .. n |-> IF i = 1 THEN s[i] ELSE f[i - 1] \o s[i]]

\* There is such a function, up to any length,
LEMMA FlattenExists ==
  ASSUME NEW s, NEW n \in Nat
  PROVE  \E f : Flattens(f, s, n)
<1> DEFINE S == {m \in 0 .. n : \E f : Flattens(f, s, m)}
<1>1. 0 \in S
  <2>1. Flattens(<< >>, s, 0)
    BY DEF Flattens
  <2> QED
    BY <2>1
<1>2. ASSUME NEW m \in 0 .. n - 1, m \in S PROVE m + 1 \in S
  <2>1. PICK f : Flattens(f, s, m)
    BY <1>2
  <2> DEFINE next(i) == IF i = 1 THEN s[i] ELSE f[i - 1] \o s[i]
             g == [i \in 1 .. m + 1 |-> next(i)]
  <2>2. \A i \in 1 .. m : f[i] = next(i)
    BY <2>1 DEF Flattens
  <2>3. \A i \in 1 .. m + 1 : i # 1 => i - 1 \in 1 .. m
    OBVIOUS
  <2>4. \A i \in 1 .. m : g[i] = next(i)
    OBVIOUS
  <2>5. \A i \in 1 .. m : g[i] = f[i]
    BY <2>2, <2>4
  <2>6. \A i \in 1 .. m + 1 :
            next(i) = IF i = 1 THEN s[i] ELSE g[i - 1] \o s[i]
    <3> HIDE DEF g
    <3> QED
      BY <2>3, <2>5
  <2>7. g = [i \in 1 .. m + 1 |-> IF i = 1 THEN s[i] ELSE g[i - 1] \o s[i]]
    <3> DEFINE h == [i \in 1 .. m + 1 |-> IF i = 1 THEN s[i] ELSE g[i - 1] \o s[i]]
    <3> SUFFICES g = h
      OBVIOUS
    <3>1. g = [i \in 1 .. m + 1 |-> next(i)]
      OBVIOUS
    <3> HIDE DEF g, next
    <3> QED
      BY <2>6, <3>1
  <2>8. Flattens(g, s, m + 1)
    BY <2>7, Zenon DEF Flattens
  <2>9. m + 1 \in 0 .. n
    OBVIOUS
  <2> QED
    BY <2>8, <2>9
<1>3. \A i \in 0 .. n : i \in S
  <2> HIDE DEF S
  <2> QED
    BY <1>1, <1>2, UpTo
<1> QED
  BY <1>3

\* and only one, as far as both go.
LEMMA FlattenOnce ==
  ASSUME NEW s, NEW t, NEW n \in Nat, NEW m \in Nat, NEW f, NEW g,
         Flattens(f, s, n), Flattens(g, t, m),
         NEW k \in Nat, k <= n, k <= m, \A i \in 1 .. k : s[i] = t[i]
  PROVE  \A i \in 1 .. k : f[i] = g[i]
<1> DEFINE S == {i \in 1 .. k : f[i] # g[i]}
<1>1. SUFFICES ASSUME S # {} PROVE FALSE
  OBVIOUS
<1>2. PICK j \in S : \A i \in S : j <= i
  <2>1. S \in SUBSET Nat
    OBVIOUS
  <2> HIDE DEF S
  <2> QED
    BY <1>1, <2>1, LeastNatural
<1>3. j \in 1 .. k /\ j \in 1 .. n /\ j \in 1 .. m /\ s[j] = t[j]
  OBVIOUS
<1>4. f[j] = IF j = 1 THEN s[j] ELSE f[j - 1] \o s[j]
  BY <1>3 DEF Flattens
<1>5. g[j] = IF j = 1 THEN t[j] ELSE g[j - 1] \o t[j]
  BY <1>3 DEF Flattens
<1>6. j # 1 => j - 1 \in 1 .. k /\ j - 1 \notin S
  BY <1>2
<1>7. j # 1 => f[j - 1] = g[j - 1]
  BY <1>6
<1>8. f[j] = g[j]
  BY <1>3, <1>4, <1>5, <1>7, Zenon
<1> QED
  BY <1>8

\* What FlattenSeq makes of one sequence more is that sequence appended.
LEMMA FlattenIs ==
  ASSUME NEW s, NEW n \in Nat \ {0}, Len(s) = n
  PROVE  \E f : Flattens(f, s, n) /\ Corpus!FlattenSeq(s) = f[n]
<1> DEFINE f == CHOOSE f : Flattens(f, s, Len(s))
<1>1. Corpus!FlattenSeq(s) = f[Len(s)]
  BY DEF Corpus!FlattenSeq, Flattens
<1>2. Flattens(f, s, Len(s))
  BY FlattenExists
<1> QED
  BY <1>1, <1>2

LEMMA FlattenEmpty == Corpus!FlattenSeq(<< >>) = << >>
  BY DEF Corpus!FlattenSeq

LEMMA FlattenLonger ==
  ASSUME NEW s, NEW t, NEW n \in Nat \ {0}, NEW m \in Nat, m = n + 1,
         Len(s) = n, Len(t) = m, \A i \in 1 .. n : s[i] = t[i]
  PROVE  Corpus!FlattenSeq(t) = Corpus!FlattenSeq(s) \o t[m]
<1>1. PICK f : Flattens(f, s, n) /\ Corpus!FlattenSeq(s) = f[n]
  BY FlattenIs
<1>2. PICK g : Flattens(g, t, m) /\ Corpus!FlattenSeq(t) = g[m]
  BY FlattenIs
<1>3. Flattens(f, s, n) /\ Flattens(g, t, m)
  BY <1>1, <1>2
<1>4. n \in Nat /\ n <= n /\ n <= m
  OBVIOUS
<1>5. \A i \in 1 .. n : f[i] = g[i]
  BY <1>3, <1>4, FlattenOnce
<1>6. m \in 1 .. m /\ m # 1 /\ m - 1 = n /\ n \in 1 .. n
  OBVIOUS
<1>7. g[m] = g[m - 1] \o t[m]
  BY <1>3, <1>6 DEF Flattens
<1> QED
  BY <1>1, <1>2, <1>5, <1>6, <1>7

LEMMA FlattenAppend ==
  ASSUME NEW D, NEW s \in Seq(Seq(D)), NEW e \in Seq(D)
  PROVE  Corpus!FlattenSeq(Append(s, e)) = Corpus!FlattenSeq(s) \o e
<1> DEFINE t == Append(s, e)
           n == Len(s)
<1>1. /\ n \in Nat /\ Len(t) = n + 1 /\ t[n + 1] = e
      /\ \A i \in 1 .. n : t[i] = s[i]
  BY AppendProperties
<1>2. SUFFICES Corpus!FlattenSeq(t) = Corpus!FlattenSeq(s) \o e
  OBVIOUS
<1> HIDE DEF t
<1>3. CASE n = 0
  <2>1. s = << >>
    BY <1>1, <1>3, EmptySeq
  <2>2. ASSUME NEW m \in Nat \ {0}, m = 1 PROVE Corpus!FlattenSeq(t) = e
    <3>1. Len(t) = m /\ t[m] = e
      BY <1>1, <1>3, <2>2
    <3>2. PICK g : Flattens(g, t, m) /\ Corpus!FlattenSeq(t) = g[m]
      BY <3>1, FlattenIs
    <3>3. m \in 1 .. m
      OBVIOUS
    <3>4. g[m] = t[m]
      BY <2>2, <3>2, <3>3 DEF Flattens
    <3> QED
      BY <3>1, <3>2, <3>4
  <2>3. << >> \o e = e
    OBVIOUS
  <2> QED
    BY <2>1, <2>2, <2>3, FlattenEmpty
<1>4. CASE n # 0
  <2>1. ASSUME NEW m, m = n + 1
        PROVE  Corpus!FlattenSeq(t) = Corpus!FlattenSeq(s) \o t[m]
    <3>1. /\ n \in Nat \ {0} /\ m \in Nat /\ Len(s) = n /\ Len(t) = m
          /\ \A i \in 1 .. n : s[i] = t[i]
      BY <1>1, <1>4, <2>1
    <3> HIDE DEF n
    <3> QED
      BY <2>1, <3>1, FlattenLonger
  <2> QED
    BY <1>1, <2>1
<1> QED
  BY <1>3, <1>4

LEMMA FlattenType ==
  ASSUME NEW D, NEW n \in Nat
  PROVE  \A s \in Seq(Seq(D)) : Len(s) = n => Corpus!FlattenSeq(s) \in Seq(D)
<1> DEFINE S == {m \in 0 .. n : \A s \in Seq(Seq(D)) :
                     Len(s) = m => Corpus!FlattenSeq(s) \in Seq(D)}
<1>1. 0 \in S
  <2>1. ASSUME NEW s \in Seq(Seq(D)), Len(s) = 0
        PROVE  Corpus!FlattenSeq(s) \in Seq(D)
    <3>1. s = << >>
      BY <2>1, EmptySeq
    <3>2. << >> \in Seq(D)
      OBVIOUS
    <3> QED
      BY <3>1, <3>2, FlattenEmpty, Zenon
  <2> QED
    BY <2>1
<1>2. ASSUME NEW m \in 0 .. n - 1, m \in S PROVE m + 1 \in S
  <2>1. ASSUME NEW s \in Seq(Seq(D)), Len(s) = m + 1
        PROVE  Corpus!FlattenSeq(s) \in Seq(D)
    <3>1. s # << >>
      BY <2>1, EmptySeq
    <3>2. PICK r \in Seq(Seq(D)), e \in Seq(D) : s = Append(r, e)
      BY <3>1, SequenceEmptyOrAppend
    <3>3. Len(r) = m
      BY <2>1, <3>2, AppendProperties, LenProperties
    <3>4. Corpus!FlattenSeq(r) \in Seq(D)
      BY <1>2, <3>3
    <3>5. Corpus!FlattenSeq(s) = Corpus!FlattenSeq(r) \o e
      BY <3>2, FlattenAppend
    <3> QED
      BY <3>4, <3>5, ConcatProperties
  <2> QED
    BY <2>1
<1>3. \A i \in 0 .. n : i \in S
  <2> HIDE DEF S
  <2> QED
    BY <1>1, <1>2, UpTo
<1> QED
  BY <1>3

-----------------------------------------------------------------------------
(* What a parser that has not raised has of the lines read.                  *)

\* The cases read, the one being read too.
Opened(p) == IF p.current = None THEN p.cases ELSE Append(p.cases, p.current)

\* The points of each case, and where the cases have expectations.
PointsOf(o) == [i \in DOMAIN o |-> o[i].points]

Expectations(o) ==
  {e \in (DOMAIN o) \X Families : o[e[1]].expect[e[2]] # None}

\* The lines of a keyword, and the points of each line.
LinesIn(t, keyword) == {i \in DOMAIN t : t[i].keyword = keyword}

TokensOf(t) == [i \in DOMAIN t |-> Corpus!Tokens(t[i])]

\* A case that has been ended, and every parser there can be.
Finished == {c \in Corpus!CaseRecords : c.k # None /\ c.origin # ""}

Parsers == [current : Corpus!CaseRecords \cup {None}, cases : Seq(Finished),
            error : BOOLEAN]

\* There are as many cases, of different names, and expectations as lines for them.
Counts(t, o) ==
  /\ Len(o) = Cardinality(LinesIn(t, "case"))
  /\ \A i, j \in DOMAIN o : o[i].name = o[j].name => i = j
  /\ IsFiniteSet(Expectations(o))
  /\ Cardinality(Expectations(o)) = Cardinality(LinesIn(t, "expect"))

\* The points of the cases, one after the other, are those of the lines.
Holds(t, o) ==
  /\ TokensOf(t) \in Seq(Seq(Points))
  /\ Corpus!FlattenSeq(PointsOf(o)) = Corpus!FlattenSeq(TokensOf(t))

\* The inductive invariant.
CorpusInv ==
  /\ text \in Seq(Corpus!Lines) /\ parser \in Parsers
  /\ ~ parser.error => Counts(text, Opened(parser)) /\ Holds(text, Opened(parser))

\* What follows each keyword.
LEMMA LineIs ==
  ASSUME NEW l \in Corpus!Lines
  PROVE  /\ l.keyword = "k" => l.value \in {"3", "bad"}
         /\ l.keyword = "depth" => l.value \in Corpus!Depths \cup {"bad"}
         /\ l.keyword = "origin" => l.value \in {"", "text"}
         /\ l.keyword = "optimum" => l.value \in {"bad", "no reason", "1 proof"}
         /\ l.keyword = "expect" => l.kind \in Corpus!Outcomes
         /\ l.keyword = "points" => \E p : l.tokens = <<p>>
BY DEF Corpus!Lines

\* A text has finitely many lines of a keyword.
LEMMA LinesFinite ==
  ASSUME NEW D, NEW t \in Seq(D), NEW keyword
  PROVE  IsFiniteSet(LinesIn(t, keyword))
<1>1. LinesIn(t, keyword) \subseteq 1 .. Len(t) /\ Len(t) \in Nat
  BY DEF LinesIn
<1>2. IsFiniteSet(1 .. Len(t))
  BY <1>1, FS_Interval
<1> QED
  BY <1>1, <1>2, FS_Subset

\* What a sequence is with one more element.
LEMMA AppendIs ==
  ASSUME NEW D, NEW s \in Seq(D), NEW e \in D, NEW n, Len(s) = n
  PROVE  /\ Append(s, e) \in [1 .. n + 1 -> D] /\ Append(s, e)[n + 1] = e
         /\ \A i \in 1 .. n : Append(s, e)[i] = s[i]
<1>1. Append(s, e) \in Seq(D) /\ Len(Append(s, e)) = n + 1
  BY AppendProperties
<1>2. Append(s, e) \in [1 .. n + 1 -> D]
  BY <1>1, LenProperties
<1> QED
  BY <1>2, AppendProperties

\* One line more, of the keyword or of another.
LEMMA LineMore ==
  ASSUME NEW D, NEW t \in Seq(D), NEW l \in D, NEW keyword
  PROVE  /\ l.keyword = keyword => Cardinality(LinesIn(Append(t, l), keyword))
                                     = Cardinality(LinesIn(t, keyword)) + 1
         /\ l.keyword # keyword => LinesIn(Append(t, l), keyword) = LinesIn(t, keyword)
<1> DEFINE u == Append(t, l)
           n == Len(t)
<1>1. /\ n \in Nat /\ DOMAIN t = 1 .. n /\ DOMAIN u = 1 .. n + 1
      /\ u[n + 1] = l /\ \A i \in 1 .. n : u[i] = t[i]
  BY AppendProperties, LenProperties
<1> HIDE DEF u, n
<1>2. ASSUME l.keyword = keyword
      PROVE  LinesIn(u, keyword) = LinesIn(t, keyword) \cup {n + 1}
  BY <1>1, <1>2 DEF LinesIn
<1>3. n + 1 \notin LinesIn(t, keyword)
  BY <1>1 DEF LinesIn
<1>4. ASSUME l.keyword # keyword
      PROVE  LinesIn(u, keyword) = LinesIn(t, keyword)
  BY <1>1, <1>4 DEF LinesIn
<1>5. ASSUME l.keyword = keyword
      PROVE  Cardinality(LinesIn(u, keyword)) = Cardinality(LinesIn(t, keyword)) + 1
  <2>1. IsFiniteSet(LinesIn(t, keyword))
    BY LinesFinite
  <2> QED
    BY <1>2, <1>3, <1>5, <2>1, FS_AddElement
<1> QED
  BY <1>4, <1>5 DEF u

\* One more line, by the points of each.
LEMMA TokensMore ==
  ASSUME NEW D, NEW t \in Seq(D), NEW l \in D
  PROVE  TokensOf(Append(t, l)) = Append(TokensOf(t), Corpus!Tokens(l))
<1> DEFINE T == {Corpus!Tokens(d) : d \in D}
           u == Append(t, l)
           n == Len(t)
<1>1. /\ n \in Nat /\ DOMAIN t = 1 .. n /\ DOMAIN u = 1 .. n + 1 /\ t \in [1 .. n -> D]
      /\ u[n + 1] = l /\ \A i \in 1 .. n : u[i] = t[i]
  BY AppendProperties, LenProperties
<1> HIDE DEF u
<1>2. TokensOf(t) \in Seq(T) /\ Len(TokensOf(t)) = n
  <2>1. TokensOf(t) \in [1 .. n -> T]
    BY <1>1 DEF TokensOf
  <2> HIDE DEF T, n
  <2> QED
    BY <1>1, <2>1
<1>3. Corpus!Tokens(l) \in T
  OBVIOUS
<1> HIDE DEF T, n
<1> DEFINE A == Append(TokensOf(t), Corpus!Tokens(l))
<1>4. /\ A \in [1 .. n + 1 -> T] /\ A[n + 1] = Corpus!Tokens(l)
      /\ \A i \in 1 .. n : A[i] = TokensOf(t)[i]
  BY <1>2, <1>3, AppendIs
<1>5. TokensOf(u) = [i \in 1 .. n + 1 |-> Corpus!Tokens(u[i])]
  BY <1>1 DEF TokensOf
<1>6. \A i \in 1 .. n : TokensOf(t)[i] = Corpus!Tokens(t[i])
  BY <1>1 DEF TokensOf
<1> HIDE DEF A
<1>7. \A i \in 1 .. n + 1 : A[i] = Corpus!Tokens(u[i])
  <2> SUFFICES ASSUME NEW i \in 1 .. n + 1 PROVE A[i] = Corpus!Tokens(u[i])
    OBVIOUS
  <2>1. i = n + 1 \/ i \in 1 .. n
    BY <1>1
  <2> QED
    BY <1>1, <1>4, <1>6, <2>1
<1>8. A = [i \in 1 .. n + 1 |-> Corpus!Tokens(u[i])]
  BY <1>4, <1>7
<1> QED
  BY <1>5, <1>8 DEF u, A

\* One more case, by the points of each.
LEMMA PointsMore ==
  ASSUME NEW o \in Seq(Corpus!CaseRecords), NEW c \in Corpus!CaseRecords
  PROVE  /\ PointsOf(o) \in Seq(Seq(Points))
         /\ Corpus!FlattenSeq(PointsOf(Append(o, c)))
              = Corpus!FlattenSeq(PointsOf(o)) \o c.points
<1> DEFINE u == Append(o, c)
           n == Len(o)
<1>1. /\ n \in Nat /\ DOMAIN o = 1 .. n /\ DOMAIN u = 1 .. n + 1
      /\ o \in [1 .. n -> Corpus!CaseRecords]
      /\ u[n + 1] = c /\ \A i \in 1 .. n : u[i] = o[i]
  BY AppendProperties, LenProperties
<1> HIDE DEF u, n
<1>2. \A d \in Corpus!CaseRecords : d.points \in Seq(Points)
  BY DEF Corpus!CaseRecords
<1>3. PointsOf(o) \in [1 .. n -> Seq(Points)]
  BY <1>1, <1>2 DEF PointsOf
<1>4. PointsOf(o) \in Seq(Seq(Points)) /\ Len(PointsOf(o)) = n
  BY <1>1, <1>3
<1> DEFINE A == Append(PointsOf(o), c.points)
<1>5. /\ A \in [1 .. n + 1 -> Seq(Points)] /\ A[n + 1] = c.points
      /\ \A i \in 1 .. n : A[i] = PointsOf(o)[i]
  BY <1>2, <1>4, AppendIs
<1>6. PointsOf(u) = [i \in 1 .. n + 1 |-> u[i].points]
  BY <1>1 DEF PointsOf
<1>7. \A i \in 1 .. n : PointsOf(o)[i] = o[i].points
  BY <1>1 DEF PointsOf
<1> HIDE DEF A
<1>8. \A i \in 1 .. n + 1 : A[i] = u[i].points
  <2> SUFFICES ASSUME NEW i \in 1 .. n + 1 PROVE A[i] = u[i].points
    OBVIOUS
  <2>1. i = n + 1 \/ i \in 1 .. n
    BY <1>1
  <2> QED
    BY <1>1, <1>5, <1>7, <2>1
<1>9. A = PointsOf(u)
  BY <1>5, <1>6, <1>8
<1>10. Corpus!FlattenSeq(A) = Corpus!FlattenSeq(PointsOf(o)) \o c.points
  BY <1>2, <1>4, FlattenAppend DEF A
<1> QED
  BY <1>4, <1>9, <1>10 DEF u

\* Lines of other keywords and comments count nothing.
LEMMA CountsOther ==
  ASSUME NEW D, NEW t \in Seq(D), NEW l \in D, NEW o, Counts(t, o),
         l.keyword # "case", l.keyword # "expect"
  PROVE  Counts(Append(t, l), o)
<1>1. LinesIn(Append(t, l), "case") = LinesIn(t, "case")
  BY LineMore
<1>2. LinesIn(Append(t, l), "expect") = LinesIn(t, "expect")
  BY LineMore
<1> QED
  BY <1>1, <1>2 DEF Counts

\* A case line opens a case of a new name, with no expectation.
LEMMA CountsOpen ==
  ASSUME NEW D, NEW t \in Seq(D), NEW l \in D, l.keyword = "case",
         NEW o \in Seq(Corpus!CaseRecords), NEW c \in Corpus!CaseRecords, Counts(t, o),
         \A i \in DOMAIN o : o[i].name # c.name,
         \A f \in Families : c.expect[f] = None
  PROVE  Counts(Append(t, l), Append(o, c))
<1> DEFINE u == Append(o, c)
           n == Len(o)
<1>1. /\ n \in Nat /\ DOMAIN o = 1 .. n /\ DOMAIN u = 1 .. n + 1
      /\ u[n + 1] = c /\ \A i \in 1 .. n : u[i] = o[i]
  BY AppendProperties, LenProperties
<1>2. Len(u) = n + 1
  BY AppendProperties
<1> HIDE DEF u
<1>3. Cardinality(LinesIn(Append(t, l), "case")) = Cardinality(LinesIn(t, "case")) + 1
  BY LineMore
<1>4. LinesIn(Append(t, l), "expect") = LinesIn(t, "expect")
  BY LineMore
<1>5. Expectations(u) = Expectations(o)
  <2>1. ASSUME NEW i \in 1 .. n + 1, NEW f \in Families, u[i].expect[f] # None
        PROVE  i \in 1 .. n /\ o[i].expect[f] # None
    <3>1. i # n + 1
      BY <1>1, <2>1
    <3>2. i \in 1 .. n
      BY <1>1, <3>1
    <3> QED
      BY <1>1, <2>1, <3>2
  <2>2. ASSUME NEW i \in 1 .. n, NEW f \in Families, o[i].expect[f] # None
        PROVE  i \in 1 .. n + 1 /\ u[i].expect[f] # None
    BY <1>1, <2>2
  <2> HIDE DEF n
  <2> QED
    BY <1>1, <2>1, <2>2 DEF Expectations
<1>6. ASSUME NEW i \in 1 .. n + 1, NEW j \in 1 .. n + 1, u[i].name = u[j].name
      PROVE  i = j
  <2>1. i \in 1 .. n \/ i = n + 1
    BY <1>1
  <2>2. j \in 1 .. n \/ j = n + 1
    BY <1>1
  <2> HIDE DEF n
  <2> QED
    BY <1>1, <1>6, <2>1, <2>2 DEF Counts
<1> QED
  BY <1>1, <1>2, <1>3, <1>4, <1>5, <1>6 DEF Counts, u

\* The case being read changes in neither its name nor its expectations.
LEMMA CountsAlike ==
  ASSUME NEW t, NEW cs \in Seq(Corpus!CaseRecords), NEW c \in Corpus!CaseRecords,
         NEW d \in Corpus!CaseRecords, d.name = c.name, d.expect = c.expect,
         Counts(t, Append(cs, c))
  PROVE  Counts(t, Append(cs, d))
<1> DEFINE u == Append(cs, c)
           v == Append(cs, d)
           n == Len(cs)
<1>1. /\ n \in Nat /\ DOMAIN u = 1 .. n + 1 /\ DOMAIN v = 1 .. n + 1
      /\ Len(u) = n + 1 /\ Len(v) = n + 1
      /\ u[n + 1] = c /\ v[n + 1] = d /\ \A i \in 1 .. n : u[i] = cs[i] /\ v[i] = cs[i]
  BY AppendProperties, LenProperties
<1> HIDE DEF u, v, n
<1>2. ASSUME NEW i \in 1 .. n + 1
      PROVE  u[i].name = v[i].name /\ u[i].expect = v[i].expect
  <2>1. i = n + 1 \/ i \in 1 .. n
    BY <1>1
  <2> QED
    BY <1>1, <2>1
<1>3. Expectations(u) = Expectations(v)
  BY <1>1, <1>2 DEF Expectations
<1>4. Counts(t, u)
  BY DEF u
<1> QED
  BY <1>1, <1>2, <1>3, <1>4 DEF Counts, v

\* An expect line is an expectation the case being read did not have.
LEMMA CountsExpect ==
  ASSUME NEW D, NEW t \in Seq(D), NEW l \in D, l.keyword = "expect",
         NEW cs \in Seq(Corpus!CaseRecords), NEW c \in Corpus!CaseRecords,
         NEW f \in Families, c.expect[f] = None, NEW kind, kind # None,
         NEW d \in Corpus!CaseRecords, d.name = c.name,
         d.expect = [c.expect EXCEPT ![f] = kind],
         Counts(t, Append(cs, c))
  PROVE  Counts(Append(t, l), Append(cs, d))
<1> DEFINE u == Append(cs, c)
           v == Append(cs, d)
           n == Len(cs)
<1>1. /\ n \in Nat /\ DOMAIN u = 1 .. n + 1 /\ DOMAIN v = 1 .. n + 1
      /\ Len(u) = n + 1 /\ Len(v) = n + 1
      /\ u[n + 1] = c /\ v[n + 1] = d /\ \A i \in 1 .. n : u[i] = cs[i] /\ v[i] = cs[i]
  BY AppendProperties, LenProperties
<1> HIDE DEF u, v, n
<1>2. c.expect \in [Families -> Corpus!Outcomes \cup {None}]
  BY DEF Corpus!CaseRecords
<1>3. d.expect[f] = kind /\ \A g \in Families : g # f => d.expect[g] = c.expect[g]
  BY <1>2
<1>4. n + 1 \in 1 .. n + 1 /\ n + 1 \notin 1 .. n
  BY <1>1
<1>5. \A i \in 1 .. n + 1 : i = n + 1 \/ i \in 1 .. n
  BY <1>1
<1>6. Expectations(v) = Expectations(u) \cup {<<n + 1, f>>}
  <2>1. ASSUME NEW i \in 1 .. n + 1, NEW g \in Families
        PROVE  v[i].expect[g] # None
                 <=> u[i].expect[g] # None \/ (i = n + 1 /\ g = f)
    <3>1. CASE i = n + 1
      <4>1. CASE g = f
        BY <1>1, <1>3, <3>1, <4>1
      <4>2. CASE g # f
        BY <1>1, <1>3, <3>1, <4>2
      <4> QED
        BY <4>1, <4>2
    <3>2. CASE i # n + 1
      <4>1. u[i] = v[i]
        BY <1>1, <1>5, <3>2
      <4> QED
        BY <3>2, <4>1
    <3> QED
      BY <3>1, <3>2
  <2>2. ASSUME NEW e \in (1 .. n + 1) \X Families
        PROVE  e \in Expectations(v) <=> e \in Expectations(u) \cup {<<n + 1, f>>}
    <3>1. PICK i \in 1 .. n + 1, g \in Families : e = <<i, g>>
      BY <2>2
    <3>2. e[1] = i /\ e[2] = g
      BY <3>1
    <3>3. e \in Expectations(v) <=> v[i].expect[g] # None
      BY <1>1, <3>2 DEF Expectations
    <3>4. e \in Expectations(u) <=> u[i].expect[g] # None
      BY <1>1, <3>2 DEF Expectations
    <3>5. e = <<n + 1, f>> <=> i = n + 1 /\ g = f
      BY <3>1
    <3> QED
      BY <2>1, <3>3, <3>4, <3>5
  <2>3. Expectations(v) \subseteq (1 .. n + 1) \X Families
    BY <1>1 DEF Expectations
  <2>4. Expectations(u) \cup {<<n + 1, f>>} \subseteq (1 .. n + 1) \X Families
    BY <1>1, <1>4 DEF Expectations
  <2> QED
    BY <2>2, <2>3, <2>4
<1>7. <<n + 1, f>> \notin Expectations(u)
  BY <1>1 DEF Expectations
<1>8. Counts(t, u)
  BY DEF u
<1>9. /\ IsFiniteSet(Expectations(v))
      /\ Cardinality(Expectations(v)) = Cardinality(Expectations(u)) + 1
  BY <1>6, <1>7, <1>8, FS_AddElement DEF Counts
<1>10. ASSUME NEW i \in 1 .. n + 1 PROVE u[i].name = v[i].name
  BY <1>1, <1>5
<1>11. Cardinality(LinesIn(Append(t, l), "expect")) = Cardinality(LinesIn(t, "expect")) + 1
  BY LineMore
<1>12. LinesIn(Append(t, l), "case") = LinesIn(t, "case")
  BY LineMore
<1> QED
  BY <1>1, <1>8, <1>9, <1>10, <1>11, <1>12 DEF Counts, v

\* A line without points, and a case without points.
LEMMA HoldsOther ==
  ASSUME NEW D, NEW t \in Seq(D), NEW l \in D, l.keyword # "points", NEW o, Holds(t, o)
  PROVE  Holds(Append(t, l), o)
<1>1. Corpus!Tokens(l) = << >> /\ << >> \in Seq(Points)
  BY DEF Corpus!Tokens
<1>2. TokensOf(Append(t, l)) = Append(TokensOf(t), << >>)
  BY <1>1, TokensMore
<1>3. TokensOf(t) \in Seq(Seq(Points))
  BY DEF Holds
<1>4. Append(TokensOf(t), << >>) \in Seq(Seq(Points))
  BY <1>1, <1>3, AppendProperties
<1>5. Corpus!FlattenSeq(Append(TokensOf(t), << >>)) = Corpus!FlattenSeq(TokensOf(t)) \o << >>
  BY <1>1, <1>3, FlattenAppend
<1>6. Corpus!FlattenSeq(TokensOf(t)) \in Seq(Points)
  BY <1>3, FlattenType, LenProperties
<1>7. Corpus!FlattenSeq(TokensOf(t)) \o << >> = Corpus!FlattenSeq(TokensOf(t))
  BY <1>6, ConcatEmptySeq
<1> QED
  BY <1>2, <1>4, <1>5, <1>7 DEF Holds

\* A case that opens has no points yet.
LEMMA HoldsOpen ==
  ASSUME NEW t, NEW o \in Seq(Corpus!CaseRecords), NEW c \in Corpus!CaseRecords,
         c.points = << >>, Holds(t, o)
  PROVE  Holds(t, Append(o, c))
<1>1. PointsOf(o) \in Seq(Seq(Points))
  BY PointsMore
<1>2. Corpus!FlattenSeq(PointsOf(Append(o, c))) = Corpus!FlattenSeq(PointsOf(o)) \o << >>
  BY PointsMore
<1>3. Corpus!FlattenSeq(PointsOf(o)) \in Seq(Points)
  BY <1>1, FlattenType, LenProperties
<1>4. Corpus!FlattenSeq(PointsOf(o)) \o << >> = Corpus!FlattenSeq(PointsOf(o))
  BY <1>3, ConcatEmptySeq
<1> QED
  BY <1>2, <1>4 DEF Holds

\* Only the points of the cases matter.
LEMMA HoldsAlike ==
  ASSUME NEW t, NEW cs \in Seq(Corpus!CaseRecords), NEW c \in Corpus!CaseRecords,
         NEW d \in Corpus!CaseRecords, d.points = c.points, Holds(t, Append(cs, c))
  PROVE  Holds(t, Append(cs, d))
<1>1. Corpus!FlattenSeq(PointsOf(Append(cs, c))) = Corpus!FlattenSeq(PointsOf(cs)) \o c.points
  BY PointsMore
<1>2. Corpus!FlattenSeq(PointsOf(Append(cs, d))) = Corpus!FlattenSeq(PointsOf(cs)) \o c.points
  BY PointsMore
<1> QED
  BY <1>1, <1>2 DEF Holds

\* A line of points is appended to those of the case being read.
LEMMA HoldsPoints ==
  ASSUME NEW D, NEW t \in Seq(D), NEW l \in D, l.keyword = "points", l.tokens \in Seq(Points),
         NEW cs \in Seq(Corpus!CaseRecords), NEW c \in Corpus!CaseRecords,
         NEW d \in Corpus!CaseRecords, d.points = c.points \o l.tokens, Holds(t, Append(cs, c))
  PROVE  Holds(Append(t, l), Append(cs, d))
<1> DEFINE F(x) == Corpus!FlattenSeq(x)
           P == PointsOf(cs)
           T == TokensOf(t)
<1>1. P \in Seq(Seq(Points)) /\ F(PointsOf(Append(cs, c))) = F(P) \o c.points
  BY PointsMore
<1>2. F(PointsOf(Append(cs, d))) = F(P) \o (c.points \o l.tokens)
  BY PointsMore
<1>3. F(P) \in Seq(Points)
  BY <1>1, FlattenType, LenProperties
<1>4. c.points \in Seq(Points)
  BY DEF Corpus!CaseRecords
<1>5. (F(P) \o c.points) \o l.tokens = F(P) \o (c.points \o l.tokens)
  <2>1. ASSUME NEW a \in Seq(Points), NEW b \in Seq(Points), NEW e \in Seq(Points)
        PROVE  (a \o b) \o e = a \o (b \o e)
    BY ConcatAssociative
  <2> HIDE DEF F, P
  <2> QED
    BY <1>3, <1>4, <2>1
<1>6. T \in Seq(Seq(Points)) /\ F(T) = F(P) \o c.points
  BY <1>1 DEF Holds
<1>7. TokensOf(Append(t, l)) = Append(T, l.tokens)
  <2>1. Corpus!Tokens(l) = l.tokens
    BY DEF Corpus!Tokens
  <2> QED
    BY <2>1, TokensMore
<1>8. F(Append(T, l.tokens)) = F(T) \o l.tokens
  BY <1>6, FlattenAppend
<1>9. Append(T, l.tokens) \in Seq(Seq(Points))
  BY <1>6, AppendProperties
<1> HIDE DEF F, P, T
<1>10. F(TokensOf(Append(t, l))) = F(PointsOf(Append(cs, d)))
  BY <1>2, <1>5, <1>6, <1>7, <1>8
<1> QED
  BY <1>7, <1>9, <1>10 DEF Holds, F

\* A new case is one, with no points and no expectations.
LEMMA NewCaseIs ==
  ASSUME NEW x \in Names
  PROVE  /\ Corpus!NewCase(x) \in Corpus!CaseRecords
         /\ Corpus!NewCase(x).name = x /\ Corpus!NewCase(x).points = << >>
         /\ \A f \in Families : Corpus!NewCase(x).expect[f] = None
<1> DEFINE none == [f \in Families |-> None]
           r == [name |-> x, k |-> None, depth |-> "f32", origin |-> "",
                 optimum |-> None, expect |-> none, points |-> << >>]
<1>1. none \in [Families -> Corpus!Outcomes \cup {None}] /\ \A f \in Families : none[f] = None
  OBVIOUS
<1>2. Corpus!NewCase(x) = r
  BY DEF Corpus!NewCase
<1> HIDE DEF none
<1>3. /\ r.name = x /\ r.k = None /\ r.depth = "f32" /\ r.origin = "" /\ r.optimum = None
      /\ r.expect = none /\ r.points = << >>
  OBVIOUS
<1>4. r \in Corpus!CaseRecords
  <2>1. << >> \in Seq(Points)
    OBVIOUS
  <2> QED
    BY <1>1, <2>1 DEF Corpus!CaseRecords, Corpus!Depths
<1> HIDE DEF r
<1> QED
  BY <1>1, <1>2, <1>3, <1>4

\* The case being read stays a case, and keeps what the line is not about.
LEMMA WithIs ==
  ASSUME NEW c \in Corpus!CaseRecords, NEW l \in Corpus!Lines, Corpus!Fits(c, l),
         l.keyword # "end"
  PROVE  /\ Corpus!With(c, l) \in Corpus!CaseRecords /\ Corpus!With(c, l).name = c.name
         /\ l.keyword \in {"k", "depth", "origin", "optimum", "expect", "points"}
         /\ IF l.keyword = "expect"
            THEN /\ l.family \in Families /\ c.expect[l.family] = None
                 /\ l.kind \in Corpus!Outcomes
                 /\ Corpus!With(c, l).expect = [c.expect EXCEPT ![l.family] = l.kind]
            ELSE Corpus!With(c, l).expect = c.expect
         /\ IF l.keyword = "points"
            THEN /\ l.tokens \in Seq(Points)
                 /\ Corpus!With(c, l).points = c.points \o l.tokens
            ELSE Corpus!With(c, l).points = c.points
<1>0. /\ c = [name |-> c.name, k |-> c.k, depth |-> c.depth, origin |-> c.origin,
              optimum |-> c.optimum, expect |-> c.expect, points |-> c.points]
      /\ c.name \in Names /\ c.k \in {"3", None} /\ c.depth \in Corpus!Depths
      /\ c.origin \in {"", "text"} /\ c.optimum \in {"1 proof", None}
      /\ c.expect \in [Families -> Corpus!Outcomes \cup {None}]
      /\ c.points \in Seq(Points)
  BY DEF Corpus!CaseRecords
<1>1. CASE l.keyword = "k"
  <2>1. l.value = "3"
    BY <1>1, LineIs DEF Corpus!Fits
  <2>2. Corpus!With(c, l) = [c EXCEPT !.k = "3"]
    BY <1>1, <2>1 DEF Corpus!With
  <2> QED
    BY <1>0, <1>1, <2>2 DEF Corpus!CaseRecords
<1>2. CASE l.keyword = "depth"
  <2>1. l.value \in Corpus!Depths
    BY <1>2, LineIs DEF Corpus!Fits
  <2>2. Corpus!With(c, l) = [c EXCEPT !.depth = l.value]
    BY <1>2 DEF Corpus!With
  <2> QED
    BY <1>0, <1>2, <2>1, <2>2 DEF Corpus!CaseRecords
<1>3. CASE l.keyword = "origin"
  <2>1. l.value = "text"
    BY <1>3, LineIs DEF Corpus!Fits
  <2>2. Corpus!With(c, l) = [c EXCEPT !.origin = "text"]
    BY <1>3, <2>1 DEF Corpus!With
  <2> QED
    BY <1>0, <1>3, <2>2 DEF Corpus!CaseRecords
<1>4. CASE l.keyword = "optimum"
  <2>1. l.value = "1 proof"
    BY <1>4, LineIs DEF Corpus!Fits
  <2>2. Corpus!With(c, l) = [c EXCEPT !.optimum = "1 proof"]
    BY <1>4, <2>1 DEF Corpus!With
  <2> QED
    BY <1>0, <1>4, <2>2 DEF Corpus!CaseRecords
<1>5. CASE l.keyword = "expect"
  <2>1. l.family \in Families /\ c.expect[l.family] = None /\ l.kind \in Corpus!Outcomes
    BY <1>5, LineIs DEF Corpus!Fits
  <2>2. Corpus!With(c, l) = [c EXCEPT !.expect[l.family] = l.kind]
    BY <1>5 DEF Corpus!With
  <2> DEFINE e == [c.expect EXCEPT ![l.family] = l.kind]
  <2>3. e \in [Families -> Corpus!Outcomes \cup {None}]
    BY <1>0, <2>1
  <2>4. Corpus!With(c, l) = [c EXCEPT !.expect = e]
    BY <2>2
  <2> HIDE DEF e
  <2>5. Corpus!With(c, l) \in Corpus!CaseRecords /\ Corpus!With(c, l).expect = e
        /\ Corpus!With(c, l).name = c.name /\ Corpus!With(c, l).points = c.points
    BY <1>0, <2>3, <2>4 DEF Corpus!CaseRecords
  <2> QED
    BY <1>5, <2>1, <2>5 DEF e
<1>6. CASE l.keyword = "points"
  <2>1. Corpus!Range(l.tokens) \subseteq Points
    BY <1>6 DEF Corpus!Fits
  <2>2. PICK p : l.tokens = <<p>>
    BY <1>6, LineIs
  <2>3. p \in Points
    <3>1. l.tokens[1] = p /\ 1 \in DOMAIN l.tokens
      BY <2>2
    <3> QED
      BY <2>1, <3>1 DEF Corpus!Range
  <2>4. l.tokens \in Seq(Points)
    BY <2>2, <2>3
  <2>5. Corpus!With(c, l) = [c EXCEPT !.points = c.points \o l.tokens]
    BY <1>6 DEF Corpus!With
  <2>6. c.points \o l.tokens \in Seq(Points)
    BY <1>0, <2>4, ConcatProperties
  <2> QED
    BY <1>0, <1>6, <2>4, <2>5, <2>6 DEF Corpus!CaseRecords
<1> QED
  BY <1>1, <1>2, <1>3, <1>4, <1>5, <1>6 DEF Corpus!Fits

\* Nothing has been read at first.
LEMMA CorpusInitially == Corpus!CorpusAssumption /\ Corpus!Init => CorpusInv
<1> SUFFICES ASSUME Corpus!CorpusAssumption, Corpus!Init PROVE CorpusInv
  OBVIOUS
<1>1. text = << >> /\ parser = [current |-> None, cases |-> << >>, error |-> FALSE]
  BY DEF Corpus!Init, Corpus!Start
<1>2. text \in Seq(Corpus!Lines) /\ parser \in Parsers
  BY <1>1 DEF Parsers
<1>3. Opened(parser) = << >>
  BY <1>1 DEF Opened
<1>4. \A keyword : LinesIn(<< >>, keyword) = {}
  BY DEF LinesIn
<1>5. Expectations(<< >>) = {}
  BY DEF Expectations
<1>6. IsFiniteSet({}) /\ Cardinality({}) = 0
  BY FS_EmptySet
<1>7. Counts(<< >>, << >>)
  <2> DEFINE o == << >>
  <2>1. Len(o) = 0 /\ DOMAIN o = {} /\ Expectations(o) = {} /\ \A keyword : LinesIn(o, keyword) = {}
    BY <1>4, <1>5
  <2> HIDE DEF o
  <2>2. Counts(o, o)
    BY <1>6, <2>1 DEF Counts
  <2> QED
    BY <2>2 DEF o
<1>8. TokensOf(<< >>) = << >> /\ PointsOf(<< >>) = << >>
  BY DEF TokensOf, PointsOf
<1>9. Holds(<< >>, << >>)
  <2>1. << >> \in Seq(Seq(Points))
    OBVIOUS
  <2> QED
    BY <1>8, <2>1, Zenon DEF Holds
<1> QED
  BY <1>1, <1>2, <1>3, <1>7, <1>9 DEF CorpusInv

\* A parser by its fields.
LEMMA ParserIs ==
  ASSUME NEW c \in Corpus!CaseRecords \cup {None}, NEW cs \in Seq(Finished), NEW e, e = FALSE
  PROVE  LET r == [current |-> c, cases |-> cs, error |-> e]
         IN  r \in Parsers /\ r.current = c /\ r.cases = cs /\ r.error = FALSE
BY DEF Parsers

\* A line keeps the invariant, whatever it is and wherever it comes.
LEMMA LineKeeps ==
  ASSUME Corpus!CorpusAssumption, CorpusInv, NEW l \in Corpus!Lines, Corpus!ReadLine(l)
  PROVE  CorpusInv'
<1>1. ~ parser.error /\ parser' = Corpus!Step(parser, l)
  BY DEF Corpus!ReadLine
<1>2. IF l.keyword \in {"case", "points", "expect"}
      THEN text' = Append(text, l) ELSE text' = text
  BY DEF Corpus!ReadLine
<1>3. /\ text \in Seq(Corpus!Lines) /\ parser \in Parsers
      /\ Counts(text, Opened(parser)) /\ Holds(text, Opened(parser))
  BY <1>1 DEF CorpusInv
<1>4. text' \in Seq(Corpus!Lines)
  BY <1>2, <1>3, AppendProperties
<1>5. \A c \in Corpus!CaseRecords : c # None
  BY DEF Corpus!CorpusAssumption
<1>6. /\ parser = [current |-> parser.current, cases |-> parser.cases, error |-> parser.error]
      /\ parser.current \in Corpus!CaseRecords \cup {None} /\ parser.cases \in Seq(Finished)
      /\ parser.error = FALSE
  BY <1>1, <1>3 DEF Parsers
<1>7. parser.cases \in Seq(Corpus!CaseRecords)
  <2>1. Finished \subseteq Corpus!CaseRecords
    BY DEF Finished
  <2> QED
    BY <1>6, <2>1, SeqMonotonic
<1>8. CASE parser' = [parser EXCEPT !.error = TRUE]
  <2>1. parser' \in Parsers /\ parser'.error
    BY <1>6, <1>8 DEF Parsers
  <2> QED
    BY <1>4, <2>1 DEF CorpusInv
<1>9. CASE l.keyword = "#"
  <2>1. parser' = parser /\ text' = text
    BY <1>1, <1>2, <1>9 DEF Corpus!Step
  <2> QED
    BY <2>1 DEF CorpusInv, Opened
<1>10. CASE l.keyword = "case" /\ Corpus!MayOpen(parser, l)
  <2> DEFINE c == Corpus!NewCase(l.name)
  <2>1. /\ parser.current = None /\ l.name \in Names
        /\ \A i \in DOMAIN parser.cases : parser.cases[i].name # l.name
    BY <1>10 DEF Corpus!MayOpen
  <2>2. parser' = [parser EXCEPT !.current = c] /\ text' = Append(text, l)
    BY <1>1, <1>2, <1>10 DEF Corpus!Step
  <2>3. /\ c \in Corpus!CaseRecords /\ c.name = l.name /\ c.points = << >>
        /\ \A f \in Families : c.expect[f] = None
    BY <2>1, NewCaseIs
  <2> HIDE DEF c
  <2>4. parser' = [current |-> c, cases |-> parser.cases, error |-> parser.error]
    BY <1>6, <2>2
  <2>5. parser' \in Parsers /\ parser'.current = c /\ parser'.cases = parser.cases
    <3>1. c \in Corpus!CaseRecords \cup {None}
      BY <2>3
    <3> DEFINE r == [current |-> c, cases |-> parser.cases, error |-> parser.error]
    <3>2. r \in Parsers /\ r.current = c /\ r.cases = parser.cases /\ r.error = FALSE
      BY <1>6, <3>1, ParserIs
    <3>3. parser' = r
      BY <2>4
    <3> HIDE DEF r
    <3> QED
      BY <3>2, <3>3
  <2>6. Opened(parser) = parser.cases
    BY <2>1 DEF Opened
  <2>7. Opened(parser') = Append(parser.cases, c)
    BY <1>5, <2>3, <2>5 DEF Opened
  <2>8. Counts(text', Append(parser.cases, c))
    BY <1>3, <1>7, <1>10, <2>1, <2>2, <2>3, <2>6, CountsOpen
  <2>9. Holds(text, Append(parser.cases, c))
    BY <1>3, <1>7, <2>3, <2>6, HoldsOpen
  <2>10. Holds(text', Append(parser.cases, c))
    BY <1>3, <1>10, <2>2, <2>9, HoldsOther
  <2> QED
    BY <1>4, <2>5, <2>7, <2>8, <2>10 DEF CorpusInv, Opened
<1>11. CASE parser.current # None /\ Corpus!Fits(parser.current, l) /\ l.keyword = "end"
  <2> DEFINE c == parser.current
  <2>1. c \in Corpus!CaseRecords /\ c \in Finished
    BY <1>6, <1>11 DEF Corpus!Fits, Finished
  <2>2. text' = text
    BY <1>2, <1>11
  <2>3. parser' = [parser EXCEPT !.cases = Append(parser.cases, c), !.current = None]
    BY <1>1, <1>11 DEF Corpus!Step
  <2>4. parser' = [current |-> None, cases |-> Append(parser.cases, c), error |-> parser.error]
    BY <1>6, <2>3
  <2>5. Append(parser.cases, c) \in Seq(Finished)
    BY <1>6, <2>1, AppendProperties
  <2>6. parser' \in Parsers /\ parser'.current = None /\ parser'.cases = Append(parser.cases, c)
    BY <1>6, <2>4, <2>5 DEF Parsers
  <2>7. Opened(parser) = Append(parser.cases, c)
    BY <1>11 DEF Opened
  <2>8. Opened(parser') = Append(parser.cases, c)
    BY <2>6 DEF Opened
  <2> QED
    BY <1>3, <2>2, <2>6, <2>7, <2>8 DEF CorpusInv, Opened
<1>12. CASE /\ parser.current # None /\ Corpus!Fits(parser.current, l)
            /\ l.keyword \notin {"#", "case", "end"}
  <2> DEFINE c == parser.current
             d == Corpus!With(c, l)
             cs == parser.cases
  <2>1. c \in Corpus!CaseRecords
    BY <1>6, <1>12
  <2>2. /\ d \in Corpus!CaseRecords /\ d.name = c.name
        /\ l.keyword \in {"k", "depth", "origin", "optimum", "expect", "points"}
        /\ IF l.keyword = "expect"
           THEN /\ l.family \in Families /\ c.expect[l.family] = None
                /\ l.kind \in Corpus!Outcomes
                /\ d.expect = [c.expect EXCEPT ![l.family] = l.kind]
           ELSE d.expect = c.expect
        /\ IF l.keyword = "points"
           THEN l.tokens \in Seq(Points) /\ d.points = c.points \o l.tokens
           ELSE d.points = c.points
    BY <1>12, <2>1, WithIs
  <2>3. parser' = [parser EXCEPT !.current = d]
    BY <1>1, <1>12 DEF Corpus!Step
  <2>4. Opened(parser) = Append(cs, c)
    BY <1>12 DEF Opened
  <2> HIDE DEF d
  <2>5. parser' = [current |-> d, cases |-> cs, error |-> parser.error]
    BY <1>6, <2>3
  <2>6. parser' \in Parsers /\ parser'.current = d /\ parser'.cases = cs
    <3>1. d \in Corpus!CaseRecords \cup {None}
      BY <2>2
    <3> DEFINE r == [current |-> d, cases |-> cs, error |-> parser.error]
    <3>2. r \in Parsers /\ r.current = d /\ r.cases = cs /\ r.error = FALSE
      BY <1>6, <3>1, ParserIs
    <3>3. parser' = r
      BY <2>5
    <3> HIDE DEF r
    <3> QED
      BY <3>2, <3>3
  <2>7. Opened(parser') = Append(cs, d)
    BY <1>5, <2>2, <2>6 DEF Opened
  <2>8. Counts(text, Append(cs, c)) /\ Holds(text, Append(cs, c)) /\ cs \in Seq(Corpus!CaseRecords)
    BY <1>3, <1>7, <2>4
  <2> HIDE DEF c, cs
  <2>9. Counts(text', Append(cs, d)) /\ Holds(text', Append(cs, d))
    <3>1. CASE l.keyword = "expect"
      <4>1. text' = Append(text, l)
        BY <1>2, <3>1
      <4>2. l.family \in Families /\ c.expect[l.family] = None /\ l.kind # None
            /\ d.expect = [c.expect EXCEPT ![l.family] = l.kind] /\ d.points = c.points
        BY <2>2, <3>1 DEF Corpus!CorpusAssumption
      <4>3. Counts(text', Append(cs, d))
        BY <1>3, <2>1, <2>2, <2>8, <3>1, <4>1, <4>2, CountsExpect
      <4>4. Holds(text, Append(cs, d))
        BY <2>1, <2>2, <2>8, <4>2, HoldsAlike
      <4>5. Holds(text', Append(cs, d))
        BY <1>3, <3>1, <4>1, <4>4, HoldsOther
      <4> QED
        BY <4>3, <4>5
    <3>2. CASE l.keyword = "points"
      <4>1. text' = Append(text, l)
        BY <1>2, <3>2
      <4>2. l.tokens \in Seq(Points) /\ d.points = c.points \o l.tokens /\ d.expect = c.expect
        BY <2>2, <3>2
      <4>3. Counts(text, Append(cs, d))
        BY <2>1, <2>2, <2>8, <4>2, CountsAlike
      <4>4. Counts(text', Append(cs, d))
        BY <1>3, <3>2, <4>1, <4>3, CountsOther
      <4>5. Holds(text', Append(cs, d))
        BY <1>3, <2>1, <2>2, <2>8, <3>2, <4>1, <4>2, HoldsPoints
      <4> QED
        BY <4>4, <4>5
    <3>3. CASE l.keyword \notin {"expect", "points"}
      <4>1. text' = text /\ d.expect = c.expect /\ d.points = c.points
        BY <1>2, <1>12, <2>2, <3>3
      <4>2. Counts(text, Append(cs, d))
        BY <2>1, <2>2, <2>8, <4>1, CountsAlike
      <4>3. Holds(text, Append(cs, d))
        BY <2>1, <2>2, <2>8, <4>1, HoldsAlike
      <4> QED
        BY <4>1, <4>2, <4>3
    <3> QED
      BY <3>1, <3>2, <3>3
  <2> QED
    BY <1>4, <2>6, <2>7, <2>9 DEF CorpusInv, Opened
<1>13. \/ parser' = [parser EXCEPT !.error = TRUE]
       \/ l.keyword = "#"
       \/ l.keyword = "case" /\ Corpus!MayOpen(parser, l)
       \/ parser.current # None /\ Corpus!Fits(parser.current, l) /\ l.keyword = "end"
       \/ /\ parser.current # None /\ Corpus!Fits(parser.current, l)
          /\ l.keyword \notin {"#", "case", "end"}
  BY <1>1 DEF Corpus!Step
<1> QED
  BY <1>8, <1>9, <1>10, <1>11, <1>12, <1>13

\* Each step keeps the invariant.
LEMMA CorpusNext ==
  Corpus!CorpusAssumption /\ CorpusInv /\ [Corpus!Next]_(Corpus!vars) => CorpusInv'
<1> SUFFICES ASSUME Corpus!CorpusAssumption, CorpusInv, [Corpus!Next]_(Corpus!vars)
             PROVE  CorpusInv'
  OBVIOUS
<1>1. ASSUME NEW l \in Corpus!Lines, Corpus!ReadLine(l) PROVE CorpusInv'
  BY <1>1, LineKeeps
<1>2. CASE Corpus!EndOfFile
  <2>1. parser' = [parser EXCEPT !.error = TRUE] /\ text' = text
    BY <1>2 DEF Corpus!EndOfFile
  <2>2. parser' \in Parsers /\ parser'.error
    BY <2>1 DEF CorpusInv, Parsers
  <2> QED
    BY <2>1, <2>2 DEF CorpusInv
<1>3. CASE UNCHANGED Corpus!vars
  BY <1>3 DEF CorpusInv, Opened, Corpus!vars
<1> QED
  BY <1>1, <1>2, <1>3 DEF Corpus!Next

\* What a corpus read to its end has.
LEMMA AcceptedHas ==
  ASSUME CorpusInv PROVE Corpus!CasesComplete /\ Corpus!NothingDropped
<1> SUFFICES ASSUME Corpus!Accepted PROVE Corpus!CasesComplete /\ Corpus!NothingDropped
  BY DEF Corpus!CasesComplete, Corpus!NothingDropped
<1> DEFINE o == parser.cases
<1>1. Opened(parser) = o /\ ~ parser.error
  BY DEF Corpus!Accepted, Opened
<1>2. Counts(text, o) /\ Holds(text, o) /\ o \in Seq(Finished)
  BY <1>1 DEF CorpusInv, Parsers
<1>3. \A S : Corpus!Cardinality(S) = Cardinality(S)
  BY Zenon DEF Corpus!Cardinality, Cardinality
<1>4. \A keyword : Corpus!LinesOf(keyword) = LinesIn(text, keyword)
  BY DEF Corpus!LinesOf, LinesIn
<1>5. ASSUME NEW i \in DOMAIN o PROVE o[i].k # None /\ o[i].origin # ""
  <2>1. o[i] \in Finished
    BY <1>2, LenProperties
  <2> QED
    BY <2>1 DEF Finished
<1>6. Corpus!CasesComplete
  BY <1>2, <1>3, <1>4, <1>5 DEF Corpus!CasesComplete, Counts
<1>7. Corpus!NothingDropped
  BY <1>2, <1>3, <1>4 DEF Corpus!NothingDropped, Counts, Holds, Expectations, PointsOf, TokensOf
<1> QED
  BY <1>6, <1>7

-----------------------------------------------------------------------------
(* What corpus_entry prints, and that parse_corpus reads it back.            *)
Parses(f, s, n) ==
  f = [i \in 0 .. n |-> IF i = 0 THEN Corpus!Start ELSE Corpus!Step(f[i - 1], s[i])]

\* There is such a function, up to any length,
LEMMA ParsesExist ==
  ASSUME NEW s, NEW n \in Nat
  PROVE  \E f : Parses(f, s, n)
<1> DEFINE S == {m \in 0 .. n : \E f : Parses(f, s, m)}
<1>1. 0 \in S
  <2> DEFINE f == [i \in 0 .. 0 |-> Corpus!Start]
  <2>1. f = [i \in 0 .. 0 |-> IF i = 0 THEN Corpus!Start ELSE Corpus!Step(f[i - 1], s[i])]
    <3> DEFINE h == [i \in 0 .. 0 |-> IF i = 0 THEN Corpus!Start ELSE Corpus!Step(f[i - 1], s[i])]
    <3>1. \A i \in 0 .. 0 : i = 0
      OBVIOUS
    <3>2. \A i \in 0 .. 0 : h[i] = f[i]
      BY <3>1
    <3> QED
      BY <3>2
  <2> HIDE DEF f
  <2>2. Parses(f, s, 0)
    BY <2>1, Zenon DEF Parses
  <2> QED
    BY <2>2
<1>2. ASSUME NEW m \in 0 .. n - 1, m \in S PROVE m + 1 \in S
  <2>1. PICK f : Parses(f, s, m)
    BY <1>2
  <2> DEFINE next(i) == IF i = 0 THEN Corpus!Start ELSE Corpus!Step(f[i - 1], s[i])
             g == [i \in 0 .. m + 1 |-> next(i)]
  <2>2. \A i \in 0 .. m : f[i] = next(i)
    BY <2>1 DEF Parses
  <2>3. \A i \in 0 .. m + 1 : i # 0 => i - 1 \in 0 .. m
    OBVIOUS
  <2>4. \A i \in 0 .. m : g[i] = next(i)
    OBVIOUS
  <2>5. \A i \in 0 .. m : g[i] = f[i]
    BY <2>2, <2>4
  <2>6. \A i \in 0 .. m + 1 :
            next(i) = IF i = 0 THEN Corpus!Start ELSE Corpus!Step(g[i - 1], s[i])
    <3> HIDE DEF g
    <3> QED
      BY <2>3, <2>5
  <2>7. g = [i \in 0 .. m + 1 |->
                IF i = 0 THEN Corpus!Start ELSE Corpus!Step(g[i - 1], s[i])]
    <3> DEFINE h == [i \in 0 .. m + 1 |->
                        IF i = 0 THEN Corpus!Start ELSE Corpus!Step(g[i - 1], s[i])]
    <3> SUFFICES g = h
      OBVIOUS
    <3>1. g = [i \in 0 .. m + 1 |-> next(i)]
      OBVIOUS
    <3> HIDE DEF g, next
    <3> QED
      BY <2>6, <3>1
  <2>8. Parses(g, s, m + 1)
    BY <2>7, Zenon DEF Parses
  <2>9. m + 1 \in 0 .. n
    OBVIOUS
  <2> QED
    BY <2>8, <2>9
<1>3. \A i \in 0 .. n : i \in S
  <2> HIDE DEF S
  <2> QED
    BY <1>1, <1>2, UpTo
<1> QED
  BY <1>3

\* and Parsed is its last value.
LEMMA ParsedIs ==
  ASSUME NEW s, NEW n \in Nat, Len(s) = n
  PROVE  \E f : /\ f[0] = Corpus!Start /\ Corpus!Parsed(s) = f[n]
               /\ \A i \in 1 .. n : f[i] = Corpus!Step(f[i - 1], s[i])
<1> DEFINE f == CHOOSE f : Parses(f, s, Len(s))
<1>1. Corpus!Parsed(s) = f[Len(s)]
  BY DEF Corpus!Parsed, Parses
<1>2. Parses(f, s, n)
  BY ParsesExist
<1> HIDE DEF f
<1>3. f[0] = Corpus!Start /\ \A i \in 1 .. n : f[i] = Corpus!Step(f[i - 1], s[i])
  BY <1>2 DEF Parses
<1> QED
  BY <1>1, <1>3

\* The least number of lines that hold n points, d on each.
LEMMA LinesNeeded ==
  ASSUME NEW n \in Nat, NEW d \in Nat \ {0}, NEW m, m = (n + d - 1) \div d
  PROVE  /\ m \in Nat /\ (m = 0 => n = 0) /\ (m # 0 => (m - 1) * d <= n)
         /\ \A i \in 0 .. m - 1 : i * d \in 0 .. n
<1> DEFINE a == n + d - 1
<1>1. a \in Nat
  OBVIOUS
<1>2. m \in Nat /\ a = d * m + (a % d) /\ a % d \in 0 .. d - 1
  BY <1>1
<1>3. m = 0 => n = 0
  BY <1>2
<1>4. d * m <= a
  BY <1>2
<1>5. (m - 1) * d = d * m - d
  BY <1>2
<1>6. (m - 1) * d <= n
  BY <1>2, <1>4, <1>5
<1>7. ASSUME NEW i \in 0 .. m - 1 PROVE i * d \in 0 .. n
  <2>1. (m - 1) - i \in Nat /\ i \in Nat
    BY <1>2
  <2>2. \A x \in Nat : x * d \in Nat
    OBVIOUS
  <2>3. (m - 1) * d = i * d + ((m - 1) - i) * d
    BY <1>2
  <2>4. i * d \in Nat /\ ((m - 1) - i) * d \in Nat
    BY <2>1, <2>2
  <2> QED
    BY <1>6, <2>3, <2>4
<1> QED
  BY <1>2, <1>3, <1>6, <1>7

IsFourParts(s, A, B, C, E) ==
  LET a == Len(A)
      b == Len(B)
      c == Len(C)
      e == Len(E)
  IN  /\ Len(s) = a + b + c + e
      /\ \A i \in 1 .. a : s[i] = A[i]
      /\ \A i \in 1 .. b : s[a + i] = B[i]
      /\ \A i \in 1 .. c : s[a + b + i] = C[i]
      /\ \A i \in 1 .. e : s[a + b + c + i] = E[i]

\* The elements of four sequences in a row.
LEMMA FourParts ==
  ASSUME NEW D, NEW A \in Seq(D), NEW B \in Seq(D), NEW C \in Seq(D), NEW E \in Seq(D)
  PROVE  IsFourParts(A \o B \o C \o E, A, B, C, E)
<1> DEFINE s == A \o B \o C \o E
           a == Len(A)
           b == Len(B)
           c == Len(C)
           e == Len(E)
<1>0. a \in Nat /\ b \in Nat /\ c \in Nat /\ e \in Nat
  BY LenProperties
<1> DEFINE p == A \o B
           q == p \o C
<1>1. /\ p \in Seq(D) /\ Len(p) = a + b
      /\ \A i \in 1 .. a + b : p[i] = IF i <= a THEN A[i] ELSE B[i - a]
  BY ConcatProperties
<1> HIDE DEF p
<1>2. /\ q \in Seq(D) /\ Len(q) = a + b + c
      /\ \A i \in 1 .. a + b + c : q[i] = IF i <= a + b THEN p[i] ELSE C[i - (a + b)]
  <2>1. p \in Seq(D)
    BY <1>1
  <2>2. /\ q \in Seq(D) /\ Len(q) = Len(p) + Len(C)
        /\ \A i \in 1 .. Len(p) + Len(C) :
              q[i] = IF i <= Len(p) THEN p[i] ELSE C[i - Len(p)]
    BY <2>1, ConcatProperties
  <2>3. Len(p) = a + b
    BY <1>1
  <2> HIDE DEF q
  <2> QED
    BY <2>2, <2>3
<1> HIDE DEF q
<1>3. /\ Len(s) = a + b + c + e
      /\ \A i \in 1 .. a + b + c + e :
            s[i] = IF i <= a + b + c THEN q[i] ELSE E[i - (a + b + c)]
  <2>1. s = q \o E
    BY DEF p, q
  <2> HIDE DEF s
  <2>2. q \in Seq(D) /\ Len(q) = a + b + c
    BY <1>2
  <2>3. /\ Len(s) = Len(q) + Len(E)
        /\ \A i \in 1 .. Len(q) + Len(E) :
              s[i] = IF i <= Len(q) THEN q[i] ELSE E[i - Len(q)]
    <3>1. q \in Seq(D)
      BY <2>2
    <3> QED
      BY <2>1, <3>1, ConcatProperties
  <2> QED
    BY <2>2, <2>3
<1> HIDE DEF s, a, b, c, e
<1>4. ASSUME NEW i \in 1 .. a PROVE s[i] = A[i]
  BY <1>0, <1>1, <1>2, <1>3
<1>5. ASSUME NEW i \in 1 .. b PROVE s[a + i] = B[i]
  <2>1. p[a + i] = B[i]
    BY <1>0, <1>1
  <2>2. q[a + i] = p[a + i]
    BY <1>0, <1>2
  <2>3. s[a + i] = q[a + i]
    BY <1>0, <1>3
  <2> QED
    BY <2>1, <2>2, <2>3
<1>6. ASSUME NEW i \in 1 .. c PROVE s[a + b + i] = C[i]
  <2>1. q[a + b + i] = C[i]
    BY <1>0, <1>2
  <2>2. s[a + b + i] = q[a + b + i]
    BY <1>0, <1>3
  <2> QED
    BY <2>1, <2>2
<1>7. ASSUME NEW i \in 1 .. e PROVE s[a + b + c + i] = E[i]
  BY <1>0, <1>3
<1> QED
  BY <1>3, <1>4, <1>5, <1>6, <1>7 DEF s, a, b, c, e, IsFourParts

\* The lines of an entry: m lines of points, up to the point last[i] each.
IsEntry(L, c, h, m, last) ==
  /\ m \in Nat /\ h = (IF c.depth = "f32" THEN 3 ELSE 4) /\ Len(L) = h + m + 1
  /\ last[0] = 0 /\ last[m] = Len(c.points)
  /\ \A i \in 1 .. m : last[i - 1] \in 0 .. last[i] /\ last[i] \in 0 .. Len(c.points)
  /\ L[1] = [keyword |-> "case", name |-> c.name]
  /\ L[2] = [keyword |-> "origin", value |-> c.origin]
  /\ L[3] = [keyword |-> "k", value |-> c.k]
  /\ c.depth # "f32" => L[4] = [keyword |-> "depth", value |-> c.depth]
  /\ \A i \in 1 .. m : L[h + i] = [keyword |-> "points",
                                   tokens |-> SubSeq(c.points, last[i - 1] + 1, last[i])]
  /\ L[h + m + 1] = [keyword |-> "end"]

\* The lines of CorpusEntry: h before the points, m of points, and the end.
LEMMA EntryIs ==
  ASSUME Corpus!CorpusAssumption, NEW c \in Finished
  PROVE  \E h, m, last : IsEntry(Corpus!CorpusEntry(c), c, h, m, last)
<1> DEFINE n == Len(c.points)
           m == (n + PerLine - 1) \div PerLine
           last == [i \in 0 .. m |-> IF i = m THEN n ELSE i * PerLine]
           first(i) == (i - 1) * PerLine + 1
           end(i) == IF i = m THEN n ELSE i * PerLine
           chunk(i) == [keyword |-> "points", tokens |-> SubSeq(c.points, first(i), end(i))]
           A == <<[keyword |-> "case", name |-> c.name],
                  [keyword |-> "origin", value |-> c.origin],
                  [keyword |-> "k", value |-> c.k]>>
           d == [keyword |-> "depth", value |-> c.depth]
           B == IF c.depth = "f32" THEN << >> ELSE <<d>>
           C == [i \in 1 .. m |-> chunk(i)]
           E == <<[keyword |-> "end"]>>
           D == {A[1], A[2], A[3], d, E[1]} \cup {chunk(i) : i \in 1 .. m}
           L == Corpus!CorpusEntry(c)
           h == 3 + Len(B)
<1>1. n \in Nat /\ PerLine \in Nat \ {0}
  <2>1. c.points \in Seq(Points)
    BY DEF Finished, Corpus!CaseRecords
  <2> QED
    BY <2>1, LenProperties DEF Corpus!CorpusAssumption
<1>2. /\ m \in Nat /\ (m = 0 => n = 0) /\ (m # 0 => (m - 1) * PerLine <= n)
      /\ \A i \in 0 .. m - 1 : i * PerLine \in 0 .. n
  <2> HIDE DEF n
  <2> QED
    BY <1>1, LinesNeeded
<1>3. L = A \o B \o C \o E
  BY DEF Corpus!CorpusEntry
<1> HIDE DEF m
<1>4. A \in Seq(D) /\ Len(A) = 3
  OBVIOUS
<1>5. B \in Seq(D) /\ Len(B) = (IF c.depth = "f32" THEN 0 ELSE 1)
  <2>1. d \in D
    OBVIOUS
  <2> HIDE DEF d, D
  <2> QED
    BY <2>1
<1>6. C \in Seq(D) /\ Len(C) = m
  <2> HIDE DEF chunk
  <2>1. \A i \in 1 .. m : chunk(i) \in D
    OBVIOUS
  <2> HIDE DEF D
  <2>2. C \in [1 .. m -> D]
    BY <2>1
  <2> QED
    BY <1>2, <2>2
<1>7. E \in Seq(D) /\ Len(E) = 1
  OBVIOUS
<1>8. /\ Len(L) = 3 + Len(B) + m + 1
      /\ \A i \in 1 .. 3 : L[i] = A[i]
      /\ \A i \in 1 .. Len(B) : L[3 + i] = B[i]
      /\ \A i \in 1 .. m : L[3 + Len(B) + i] = C[i]
      /\ \A i \in 1 .. 1 : L[3 + Len(B) + m + i] = E[i]
  <2> HIDE DEF L, A, B, C, D, E
  <2>1. /\ Len(L) = Len(A) + Len(B) + Len(C) + Len(E)
        /\ \A i \in 1 .. Len(A) : L[i] = A[i]
        /\ \A i \in 1 .. Len(B) : L[Len(A) + i] = B[i]
        /\ \A i \in 1 .. Len(C) : L[Len(A) + Len(B) + i] = C[i]
        /\ \A i \in 1 .. Len(E) : L[Len(A) + Len(B) + Len(C) + i] = E[i]
    <3>1. A \in Seq(D) /\ B \in Seq(D) /\ C \in Seq(D) /\ E \in Seq(D)
      BY <1>4, <1>5, <1>6, <1>7
    <3>2. IsFourParts(A \o B \o C \o E, A, B, C, E)
      BY <3>1, FourParts
    <3>3. IsFourParts(L, A, B, C, E)
      BY <1>3, <3>2
    <3> QED
      BY <3>3 DEF IsFourParts
  <2>2. Len(A) = 3 /\ Len(C) = m /\ Len(E) = 1
    BY <1>4, <1>6, <1>7
  <2> QED
    BY <2>1, <2>2
<1>9. \A i \in 1 .. m : /\ last[i - 1] + 1 = first(i) /\ last[i] = end(i)
                        /\ last[i - 1] \in 0 .. last[i] /\ last[i] \in 0 .. n
  <2> SUFFICES ASSUME NEW i \in 1 .. m
               PROVE  /\ last[i - 1] + 1 = first(i) /\ last[i] = end(i)
                      /\ last[i - 1] \in 0 .. last[i] /\ last[i] \in 0 .. n
    OBVIOUS
  <2>1. i - 1 \in 0 .. m - 1 /\ i - 1 # m /\ i - 1 \in 0 .. m /\ i \in 0 .. m /\ m # 0
    BY <1>2
  <2>2. last[i - 1] = (i - 1) * PerLine /\ last[i] = end(i)
    BY <2>1
  <2>3. (i - 1) * PerLine \in 0 .. n
    BY <1>2, <2>1
  <2>4. CASE i = m
    <3>1. end(i) = n
      BY <2>4
    <3> QED
      BY <1>1, <2>2, <2>3, <3>1
  <2>5. CASE i # m
    <3>1. i \in 0 .. m - 1 /\ end(i) = i * PerLine
      BY <1>2, <2>5
    <3>2. i * PerLine \in 0 .. n
      BY <1>2, <3>1
    <3>3. (i - 1) * PerLine = i * PerLine - PerLine
      BY <1>1
    <3>4. (i - 1) * PerLine <= i * PerLine
      BY <1>1, <2>3, <3>2, <3>3
    <3> QED
      BY <1>1, <2>2, <2>3, <3>1, <3>2, <3>4
  <2> QED
    BY <2>4, <2>5
<1>10. last[0] = 0 /\ last[m] = n
  <2>1. 0 \in 0 .. m /\ m \in 0 .. m /\ 0 * PerLine = 0
    BY <1>1, <1>2
  <2> QED
    BY <1>2, <2>1
<1>11. \A i \in 1 .. m : L[h + i] = [keyword |-> "points",
                                    tokens |-> SubSeq(c.points, last[i - 1] + 1, last[i])]
  <2> SUFFICES ASSUME NEW i \in 1 .. m
               PROVE  L[h + i] = [keyword |-> "points",
                                  tokens |-> SubSeq(c.points, last[i - 1] + 1, last[i])]
    OBVIOUS
  <2>1. L[h + i] = C[i]
    BY <1>8
  <2>2. C[i] = chunk(i)
    OBVIOUS
  <2>3. last[i - 1] + 1 = first(i) /\ last[i] = end(i)
    BY <1>9
  <2> HIDE DEF L, C, last, first, end
  <2> QED
    BY <2>1, <2>2, <2>3
<1>12. L[1] = A[1] /\ L[2] = A[2] /\ L[3] = A[3]
  <2> HIDE DEF L, A
  <2> QED
    BY <1>8
<1>13. L[h + m + 1] = E[1]
  <2> HIDE DEF L, E, B
  <2> QED
    BY <1>8
<1>14. ASSUME c.depth # "f32" PROVE L[4] = d
  <2>1. B[1] = d /\ Len(B) = 1
    BY <1>14
  <2> HIDE DEF L, B, d
  <2> QED
    BY <1>8, <2>1
<1>15. h = (IF c.depth = "f32" THEN 3 ELSE 4) /\ Len(L) = h + m + 1
  <2> HIDE DEF L, B
  <2> QED
    BY <1>2, <1>5, <1>8
<1> HIDE DEF L, h, last
<1>16. IsEntry(L, c, h, m, last)
  BY <1>2, <1>9, <1>10, <1>11, <1>12, <1>13, <1>14, <1>15 DEF IsEntry
<1> QED
  BY <1>16 DEF L

CaseOf(n, k, d, o, u, e, p) ==
  [name |-> n, k |-> k, depth |-> d, origin |-> o, optimum |-> u, expect |-> e, points |-> p]

\* What With does to a case given by its fields.
LEMMA CaseWith ==
  ASSUME NEW a1, NEW a2, NEW a3, NEW a4, NEW a5, NEW a6, NEW a7, NEW l
  PROVE  /\ l.keyword = "k" => (Corpus!With(CaseOf(a1, a2, a3, a4, a5, a6, a7), l)
                                  = CaseOf(a1, l.value, a3, a4, a5, a6, a7))
         /\ l.keyword = "depth" => (Corpus!With(CaseOf(a1, a2, a3, a4, a5, a6, a7), l)
                                      = CaseOf(a1, a2, l.value, a4, a5, a6, a7))
         /\ l.keyword = "origin" => (Corpus!With(CaseOf(a1, a2, a3, a4, a5, a6, a7), l)
                                       = CaseOf(a1, a2, a3, l.value, a5, a6, a7))
<1> DEFINE c == CaseOf(a1, a2, a3, a4, a5, a6, a7)
           v == l.value
<1>1. c = CaseOf(a1, a2, a3, a4, a5, a6, a7)
  OBVIOUS
<1> HIDE DEF c
<1>2. /\ l.keyword = "k" => Corpus!With(c, l) = [c EXCEPT !.k = v]
      /\ l.keyword = "depth" => Corpus!With(c, l) = [c EXCEPT !.depth = v]
      /\ l.keyword = "origin" => Corpus!With(c, l) = [c EXCEPT !.origin = v]
  BY DEF Corpus!With
<1> HIDE DEF v
<1>3. [c EXCEPT !.k = v] = CaseOf(a1, v, a3, a4, a5, a6, a7)
  BY <1>1 DEF CaseOf
<1>4. [c EXCEPT !.depth = v] = CaseOf(a1, a2, v, a4, a5, a6, a7)
  BY <1>1 DEF CaseOf
<1>5. [c EXCEPT !.origin = v] = CaseOf(a1, a2, a3, v, a5, a6, a7)
  BY <1>1 DEF CaseOf
<1> QED
  BY <1>1, <1>2, <1>3, <1>4, <1>5 DEF v

\* The case c as an entry has it, when the points p of it have been read.
ReadSoFar(c, p) ==
  CaseOf(c.name, c.k, c.depth, c.origin, None, [f \in Families |-> None], p)

Reading(r) == [current |-> r, cases |-> << >>, error |-> FALSE]

\* A line of a case, read where it fits.
LEMMA StepReads ==
  ASSUME NEW r, r # None, NEW l, l.keyword \notin {"#", "case", "end"}, Corpus!Fits(r, l)
  PROVE  Corpus!Step(Reading(r), l) = Reading(Corpus!With(r, l))
<1>1. ~ Reading(r).error /\ Reading(r).current = r
  BY DEF Reading
<1>2. Corpus!Step(Reading(r), l) = [Reading(r) EXCEPT !.current = Corpus!With(r, l)]
  BY <1>1 DEF Corpus!Step
<1> QED
  BY <1>2 DEF Reading

\* The lines before the points.
LEMMA HeaderReads ==
  ASSUME Corpus!CorpusAssumption, NEW c \in Finished, NEW L, NEW h, NEW m, NEW last,
         IsEntry(L, c, h, m, last), NEW f, f[0] = Corpus!Start,
         \A i \in 1 .. h : f[i] = Corpus!Step(f[i - 1], L[i])
  PROVE  f[h] = Reading(ReadSoFar(c, << >>))
<1> DEFINE none == [g \in Families |-> None]
           r(d, o, k) == CaseOf(c.name, k, d, o, None, none, << >>)
<1>1. /\ c.name \in Names /\ c.k = "3" /\ c.depth \in {"f32", "i32"} /\ c.origin = "text"
  BY DEF Finished, Corpus!CaseRecords, Corpus!Depths
<1>2. none \in [Families -> Corpus!Outcomes \cup {None}] /\ << >> \in Seq(Points)
  OBVIOUS
<1> HIDE DEF none
<1>3. ASSUME NEW d \in {"f32", "i32"}, NEW o \in {"", "text"}, NEW k \in {"3", None}
      PROVE  r(d, o, k) # None
  <2>1. r(d, o, k) \in Corpus!CaseRecords
    BY <1>1, <1>2 DEF Corpus!CaseRecords, Corpus!Depths, CaseOf
  <2> QED
    BY <2>1 DEF Corpus!CorpusAssumption
<1>4. h \in {3, 4}
  BY DEF IsEntry
<1>5. /\ f[1] = Corpus!Step(f[0], L[1]) /\ f[2] = Corpus!Step(f[1], L[2])
      /\ f[3] = Corpus!Step(f[2], L[3])
      /\ h = 4 => f[4] = Corpus!Step(f[3], L[4])
  BY <1>4
<1>6. f[1] = Reading(r("f32", "", None))
  <2> DEFINE l == [keyword |-> "case", name |-> c.name]
             s == Corpus!Start
  <2>1. L[1] = l /\ l.keyword = "case" /\ l.name = c.name
    BY DEF IsEntry
  <2>2. s.current = None /\ s.cases = << >> /\ ~ s.error
    BY DEF Corpus!Start
  <2> HIDE DEF l, s
  <2>3. Corpus!MayOpen(s, l)
    BY <1>1, <2>1, <2>2 DEF Corpus!MayOpen
  <2>4. Corpus!Step(s, l) = [s EXCEPT !.current = Corpus!NewCase(c.name)]
    BY <2>1, <2>2, <2>3 DEF Corpus!Step
  <2>5. Corpus!NewCase(c.name) = r("f32", "", None)
    BY DEF Corpus!NewCase, none, CaseOf
  <2>6. [s EXCEPT !.current = Corpus!NewCase(c.name)] = Reading(Corpus!NewCase(c.name))
    <3> DEFINE n == Corpus!NewCase(c.name)
               e == << >>
               no == FALSE
    <3>1. s = [current |-> None, cases |-> e, error |-> no]
      BY DEF s, Corpus!Start
    <3> HIDE DEF n, e, no
    <3>2. [s EXCEPT !.current = n] = [current |-> n, cases |-> e, error |-> no]
      BY <3>1
    <3> QED
      BY <3>2 DEF Reading, n, e, no
  <2> QED
    BY <1>5, <2>1, <2>4, <2>5, <2>6 DEF s
<1>7. f[2] = Reading(r("f32", "text", None))
  <2> DEFINE l == [keyword |-> "origin", value |-> c.origin]
             q == r("f32", "", None)
  <2>1. L[2] = l /\ l.keyword = "origin" /\ l.value = "text"
    BY <1>1 DEF IsEntry
  <2>2. q # None
    BY <1>3
  <2> HIDE DEF l
  <2>3. Corpus!Fits(q, l)
    BY <2>1 DEF Corpus!Fits
  <2>4. Corpus!With(q, l) = r("f32", "text", None)
    <3> DEFINE no == ""
               single == "f32"
               empty == << >>
    <3>1. q = CaseOf(c.name, None, single, no, None, none, empty)
      OBVIOUS
    <3> HIDE DEF no, single, empty, q
    <3>2. Corpus!With(q, l) = CaseOf(c.name, None, single, l.value, None, none, empty)
      BY <2>1, <3>1, CaseWith
    <3> QED
      BY <2>1, <3>2 DEF single, empty
  <2>6. Corpus!Step(Reading(q), l) = Reading(Corpus!With(q, l))
    <3> HIDE DEF q
    <3> QED
      BY <2>1, <2>2, <2>3, StepReads
  <2> QED
    BY <1>5, <1>6, <2>1, <2>4, <2>6
<1>8. f[3] = Reading(r("f32", "text", "3"))
  <2> DEFINE l == [keyword |-> "k", value |-> c.k]
             q == r("f32", "text", None)
  <2>1. L[3] = l /\ l.keyword = "k" /\ l.value = "3"
    BY <1>1 DEF IsEntry
  <2>2. q # None /\ q.k = None
    BY <1>3 DEF CaseOf
  <2> HIDE DEF l
  <2>3. Corpus!Fits(q, l)
    BY <2>1, <2>2 DEF Corpus!Fits
  <2>4. Corpus!With(q, l) = r("f32", "text", "3")
    BY <2>1, CaseWith
  <2>6. Corpus!Step(Reading(q), l) = Reading(Corpus!With(q, l))
    <3> HIDE DEF q
    <3> QED
      BY <2>1, <2>2, <2>3, StepReads
  <2> QED
    BY <1>5, <1>7, <2>1, <2>4, <2>6
<1>9. ReadSoFar(c, << >>) = r(c.depth, "text", "3")
  BY <1>1 DEF ReadSoFar, none
<1>10. CASE c.depth = "f32"
  <2>1. h = 3
    BY <1>10 DEF IsEntry
  <2> QED
    BY <1>8, <1>9, <1>10, <2>1
<1>11. CASE c.depth # "f32"
  <2> DEFINE l == [keyword |-> "depth", value |-> c.depth]
             q == r("f32", "text", "3")
  <2>1. L[4] = l /\ l.keyword = "depth" /\ l.value = c.depth /\ h = 4
    BY <1>11 DEF IsEntry
  <2>2. q # None
    BY <1>3
  <2> HIDE DEF l
  <2>3. Corpus!Fits(q, l)
    BY <1>1, <2>1 DEF Corpus!Fits
  <2>4. Corpus!With(q, l) = r(c.depth, "text", "3")
    BY <2>1, CaseWith
  <2>6. Corpus!Step(Reading(q), l) = Reading(Corpus!With(q, l))
    <3> HIDE DEF q
    <3> QED
      BY <2>1, <2>2, <2>3, StepReads
  <2> QED
    BY <1>5, <1>8, <1>9, <2>1, <2>4, <2>6
<1> QED
  BY <1>10, <1>11

\* One line of points continues where the one before it stopped.
LEMMA ChunkReads ==
  ASSUME Corpus!CorpusAssumption, NEW c \in Finished,
         NEW a, NEW b, a \in 0 .. b, b \in 0 .. Len(c.points),
         NEW l, l = [keyword |-> "points", tokens |-> SubSeq(c.points, a + 1, b)]
  PROVE  Corpus!Step(Reading(ReadSoFar(c, SubSeq(c.points, 1, a))), l)
           = Reading(ReadSoFar(c, SubSeq(c.points, 1, b)))
<1> DEFINE p == c.points
           q == ReadSoFar(c, SubSeq(p, 1, a))
<1>1. p \in Seq(Points) /\ Len(p) \in Nat /\ p \in [1 .. Len(p) -> Points]
  <2>1. p \in Seq(Points)
    BY DEF Finished, Corpus!CaseRecords
  <2> QED
    BY <2>1, LenProperties
<1>2. a \in Nat /\ b \in Nat /\ a <= b /\ b <= Len(p)
  BY <1>1
<1>3. SubSeq(p, 1, a) \in Seq(Points) /\ SubSeq(p, a + 1, b) \in Seq(Points)
  <2>1. \A i \in 1 .. a : p[i] \in Points
    BY <1>1, <1>2
  <2>2. \A i \in a + 1 .. b : p[i] \in Points
    BY <1>1, <1>2
  <2> HIDE DEF p
  <2>3. SubSeq(p, 1, a) \in Seq(Points)
    BY <1>2, <2>1, SubSeqProperties
  <2>4. SubSeq(p, a + 1, b) \in Seq(Points)
    BY <1>2, <2>2, SubSeqProperties
  <2> QED
    BY <2>3, <2>4
<1>4. SubSeq(p, 1, a) \o SubSeq(p, a + 1, b) = SubSeq(p, 1, b)
  <2>1. 1 \in 1 .. Len(p) + 1 /\ a \in 1 - 1 .. Len(p) /\ b \in a .. Len(p)
    BY <1>1, <1>2
  <2> HIDE DEF p
  <2> QED
    BY <1>1, <2>1, ConcatAdjacentSubSeq
<1>5. l.keyword = "points" /\ l.tokens = SubSeq(p, a + 1, b)
  OBVIOUS
<1>6. Corpus!Fits(q, l)
  <2>1. \A i \in DOMAIN l.tokens : l.tokens[i] \in Points
    BY <1>3, <1>5
  <2>2. Corpus!Range(l.tokens) \subseteq Points
    BY <2>1 DEF Corpus!Range
  <2> QED
    BY <1>5, <2>2 DEF Corpus!Fits
<1>7. q # None
  <2>1. /\ c.name \in Names /\ c.k \in {"3", None} /\ c.depth \in Corpus!Depths
        /\ c.origin \in {"", "text"}
    BY DEF Finished, Corpus!CaseRecords
  <2> DEFINE none == [f \in Families |-> None]
  <2>2. none \in [Families -> Corpus!Outcomes \cup {None}]
    OBVIOUS
  <2> DEFINE s == SubSeq(p, 1, a)
  <2>3. s \in Seq(Points)
    BY <1>3
  <2>4. q = [name |-> c.name, k |-> c.k, depth |-> c.depth, origin |-> c.origin,
             optimum |-> None, expect |-> none, points |-> s]
    BY DEF ReadSoFar, CaseOf
  <2> HIDE DEF none, s, q
  <2>5. q \in Corpus!CaseRecords
    BY <2>1, <2>2, <2>3, <2>4 DEF Corpus!CaseRecords
  <2> QED
    BY <2>5 DEF Corpus!CorpusAssumption
<1>8. Corpus!With(q, l) = ReadSoFar(c, SubSeq(p, 1, a) \o l.tokens)
  <2> DEFINE none == [f \in Families |-> None]
             s == SubSeq(p, 1, a)
             t == s \o l.tokens
             n == c.name
             k == c.k
             d == c.depth
             o == c.origin
  <2>1. q = CaseOf(n, k, d, o, None, none, s) /\ ReadSoFar(c, t) = CaseOf(n, k, d, o, None, none, t)
        /\ q.points = s
    BY DEF ReadSoFar, CaseOf
  <2> HIDE DEF none, s, q, n, k, d, o
  <2>2. Corpus!With(q, l) = [q EXCEPT !.points = t]
    <3>1. Corpus!With(q, l) = [q EXCEPT !.points = q.points \o l.tokens]
      BY <1>5 DEF Corpus!With
    <3> QED
      BY <2>1, <3>1
  <2> HIDE DEF t
  <2>3. [q EXCEPT !.points = t] = CaseOf(n, k, d, o, None, none, t)
    BY <2>1 DEF CaseOf
  <2> QED
    BY <2>1, <2>2, <2>3 DEF s, t
<1>10. Corpus!Step(Reading(q), l) = Reading(Corpus!With(q, l))
  <2> HIDE DEF q
  <2> QED
    BY <1>5, <1>6, <1>7, StepReads
<1> QED
  BY <1>4, <1>5, <1>8, <1>10

\* An entry printed for the corpus is read back.
LEMMA EntryParses ==
  ASSUME Corpus!CorpusAssumption, NEW c \in Finished
  PROVE  Corpus!Parsed(Corpus!CorpusEntry(c)).cases = <<ReadSoFar(c, c.points)>>
<1> DEFINE L == Corpus!CorpusEntry(c)
           p == c.points
<1>1. PICK h, m, last : IsEntry(L, c, h, m, last)
  BY EntryIs
<1> HIDE DEF L
<1>2. m \in Nat /\ h \in {3, 4} /\ Len(L) = h + m + 1 /\ h + m + 1 \in Nat
  BY <1>1 DEF IsEntry
<1>3. PICK f : /\ f[0] = Corpus!Start /\ Corpus!Parsed(L) = f[h + m + 1]
               /\ \A i \in 1 .. h + m + 1 : f[i] = Corpus!Step(f[i - 1], L[i])
  BY <1>2, ParsedIs
<1>4. f[h] = Reading(ReadSoFar(c, << >>))
  <2>1. \A i \in 1 .. h : f[i] = Corpus!Step(f[i - 1], L[i])
    BY <1>2, <1>3
  <2> QED
    BY <1>1, <1>3, <2>1, HeaderReads
<1>5. p \in Seq(Points)
  BY DEF Finished, Corpus!CaseRecords
<1> DEFINE Read(i) == f[h + i] = Reading(ReadSoFar(c, SubSeq(p, 1, last[i])))
           S == {i \in 0 .. m : Read(i)}
<1>6. 0 \in S
  <2>1. last[0] = 0 /\ h + 0 = h /\ 0 \in 0 .. m
    BY <1>1, <1>2 DEF IsEntry
  <2>2. SubSeq(p, 1, 0) = << >>
    BY SubSeqEmpty
  <2> QED
    BY <1>4, <2>1, <2>2
<1>7. ASSUME NEW i \in 0 .. m - 1, i \in S PROVE i + 1 \in S
  <2>1. i + 1 \in 1 .. m /\ (i + 1) - 1 = i /\ i + 1 \in 0 .. m
    BY <1>2
  <2>2. last[i] \in 0 .. last[i + 1] /\ last[i + 1] \in 0 .. Len(p)
        /\ L[h + (i + 1)] = [keyword |-> "points", tokens |-> SubSeq(p, last[i] + 1, last[i + 1])]
    BY <1>1, <2>1 DEF IsEntry
  <2>3. h + (i + 1) \in 1 .. h + m + 1 /\ (h + (i + 1)) - 1 = h + i
    BY <1>2, <2>1
  <2>4. f[h + (i + 1)] = Corpus!Step(f[h + i], L[h + (i + 1)])
    BY <1>3, <2>3
  <2>5. f[h + i] = Reading(ReadSoFar(c, SubSeq(p, 1, last[i])))
    BY <1>7
  <2> DEFINE k == L[h + (i + 1)]
             a == last[i]
             b == last[i + 1]
  <2>7. a \in 0 .. b /\ b \in 0 .. Len(c.points)
        /\ k = [keyword |-> "points", tokens |-> SubSeq(c.points, a + 1, b)]
    BY <2>2
  <2> HIDE DEF k, a, b
  <2>8. Corpus!Step(Reading(ReadSoFar(c, SubSeq(c.points, 1, a))), k)
          = Reading(ReadSoFar(c, SubSeq(c.points, 1, b)))
    BY <2>7, ChunkReads
  <2>6. Read(i + 1)
    BY <2>4, <2>5, <2>8 DEF k, a, b
  <2> QED
    BY <2>1, <2>6
<1>8. m \in S
  <2> HIDE DEF S
  <2>1. \A i \in 0 .. m : i \in S
    BY <1>2, <1>6, <1>7, UpTo
  <2> QED
    BY <1>2, <2>1
<1>9. f[h + m] = Reading(ReadSoFar(c, p))
  <2>1. last[m] = Len(p)
    BY <1>1 DEF IsEntry
  <2>2. SubSeq(p, 1, Len(p)) = p
    BY <1>5, SubSeqFull
  <2> QED
    BY <1>8, <2>1, <2>2
<1> DEFINE q == ReadSoFar(c, p)
           l == [keyword |-> "end"]
<1>10. f[h + m + 1] = Corpus!Step(Reading(q), l)
  <2>1. h + m + 1 \in 1 .. h + m + 1 /\ (h + m + 1) - 1 = h + m /\ L[h + m + 1] = l
    BY <1>1, <1>2 DEF IsEntry
  <2> QED
    BY <1>3, <1>9, <2>1
<1>11. q # None /\ q.k # None /\ q.origin # ""
  <2>1. c.name \in Names /\ c.k \in {"3", None} /\ c.depth \in Corpus!Depths
        /\ c.origin \in {"", "text"} /\ c.k # None /\ c.origin # ""
    BY DEF Finished, Corpus!CaseRecords
  <2> DEFINE none == [g \in Families |-> None]
  <2>2. none \in [Families -> Corpus!Outcomes \cup {None}]
    OBVIOUS
  <2>3. q = [name |-> c.name, k |-> c.k, depth |-> c.depth, origin |-> c.origin,
             optimum |-> None, expect |-> none, points |-> p]
    BY DEF ReadSoFar, CaseOf
  <2>4. q.k = c.k /\ q.origin = c.origin
    BY DEF ReadSoFar, CaseOf
  <2> HIDE DEF none, q, p
  <2>5. q \in Corpus!CaseRecords
    BY <1>5, <2>1, <2>2, <2>3 DEF Corpus!CaseRecords
  <2> QED
    BY <2>1, <2>4, <2>5 DEF Corpus!CorpusAssumption
<1>12. Corpus!Step(Reading(q), l).cases = <<q>>
  <2> DEFINE s == Reading(q)
  <2>1. s.current = q /\ s.cases = << >> /\ ~ s.error
    BY DEF Reading
  <2>2. l.keyword = "end"
    OBVIOUS
  <2>3. s = [current |-> q, cases |-> << >>, error |-> FALSE]
    BY DEF Reading
  <2> HIDE DEF q, l, s
  <2>4. Corpus!Fits(q, l)
    BY <1>11, <2>2 DEF Corpus!Fits
  <2>5. Corpus!Step(s, l) = [s EXCEPT !.cases = Append(s.cases, s.current), !.current = None]
    BY <1>11, <2>1, <2>2, <2>4 DEF Corpus!Step
  <2>6. [s EXCEPT !.cases = Append(s.cases, s.current), !.current = None].cases
          = Append(s.cases, s.current)
    BY <2>3
  <2>7. Append(<< >>, q) = <<q>>
    OBVIOUS
  <2> QED
    BY <2>1, <2>5, <2>6, <2>7 DEF s
<1> QED
  BY <1>3, <1>10, <1>12 DEF L

\* Every case that has been read is read back from its entry.
LEMMA EntriesReadBack ==
  ASSUME Corpus!CorpusAssumption, CorpusInv PROVE Corpus!EntryReadsBack
<1> SUFFICES ASSUME NEW i \in DOMAIN parser.cases
             PROVE  LET c == parser.cases[i]
                    IN  Corpus!Parsed(Corpus!CorpusEntry(c)).cases
                          = <<[c EXCEPT !.optimum = None,
                                        !.expect = [f \in Families |-> None]]>>
  BY DEF Corpus!EntryReadsBack
<1> DEFINE c == parser.cases[i]
<1>1. parser.cases \in Seq(Finished)
  BY DEF CorpusInv, Parsers
<1>2. c \in Finished
  BY <1>1, LenProperties
<1> HIDE DEF c
<1>3. Corpus!Parsed(Corpus!CorpusEntry(c)).cases = <<ReadSoFar(c, c.points)>>
  BY <1>2, EntryParses
<1>4. [c EXCEPT !.optimum = None, !.expect = [f \in Families |-> None]] = ReadSoFar(c, c.points)
  <2> DEFINE none == [f \in Families |-> None]
             d == [c EXCEPT !.optimum = None]
  <2>1. PICK a1, a2, a3, a4, a5, a6, a7 : c = CaseOf(a1, a2, a3, a4, a5, a6, a7)
    BY <1>2 DEF Finished, Corpus!CaseRecords, CaseOf
  <2>2. c.name = a1 /\ c.k = a2 /\ c.depth = a3 /\ c.origin = a4 /\ c.points = a7
    BY <2>1 DEF CaseOf
  <2> HIDE DEF none
  <2>3. d = CaseOf(a1, a2, a3, a4, None, a6, a7)
    BY <2>1 DEF CaseOf
  <2> HIDE DEF d
  <2>4. [d EXCEPT !.expect = none] = CaseOf(a1, a2, a3, a4, None, none, a7)
    BY <2>3 DEF CaseOf
  <2>5. ReadSoFar(c, c.points) = CaseOf(a1, a2, a3, a4, None, none, a7)
    BY <2>2 DEF ReadSoFar, none
  <2> QED
    BY <2>4, <2>5 DEF none, d
<1> QED
  BY <1>3, <1>4 DEF c

\* The corpus by itself.
LEMMA CorpusSound ==
    ASSUME Corpus!CorpusAssumption
    PROVE  Corpus!Spec => []Corpus!CorpusKept
<1>1. Corpus!Init => CorpusInv
  BY CorpusInitially
<1>2. CorpusInv /\ [Corpus!Next]_(Corpus!vars) => CorpusInv'
  BY CorpusNext
<1>3. CorpusInv => Corpus!CorpusKept
  BY AcceptedHas, EntriesReadBack DEF Corpus!CorpusKept
<1> QED  BY <1>1, <1>2, <1>3, PTL DEF Corpus!Spec

-----------------------------------------------------------------------------
\* What the runner makes of its children is what they did, for any corpus and
\* any children: an outcome tells what the child did and of which library, and
\* the counts, the report and the exit status tell what the outcomes are.
THEOREM VerdictsMean == PartsSpec => []VerdictMeans
<1> DEFINE Here == part = "verdict"
<1>1. PartsInit => (Here => Verdict!Init)
  BY DEF PartsInit
<1>2. [PartsNext]_partsVars => /\ Here => [Verdict!Next]_(Verdict!vars) /\ Here'
                               /\ ~ Here => ~ Here'
  BY DEF PartsNext, partsVars, verdictVars, Verdict!vars
<1>3. Verdict!Spec => []Verdict!VerdictMeans
  BY VerdictsSound, PolygonAssumption
<1>4. (Here => Verdict!VerdictMeans) => VerdictMeans
  BY DEF VerdictMeans
<1> HIDE DEF Here
<1> QED  BY <1>1, <1>2, <1>3, <1>4, PTL DEF PartsSpec, Verdict!Spec

\* Of any corpus that parse_corpus reads to its end, with any names, points and
\* families, every case, point and expectation of the text is kept, in its case
\* and in its order, and the entry that corpus_entry prints of a case, however
\* many points go on a line, is read back as that case.
THEOREM CorpusIsKept == PartsSpec => []CorpusKept
<1> DEFINE Here == part = "corpus"
<1>1. PartsInit => (Here => Corpus!Init)
  BY DEF PartsInit
<1>2. [PartsNext]_partsVars => /\ Here => [Corpus!Next]_(Corpus!vars) /\ Here'
                               /\ ~ Here => ~ Here'
  BY DEF PartsNext, partsVars, corpusVars, Corpus!vars
<1>3. Corpus!Spec => []Corpus!CorpusKept
  BY CorpusSound, PolygonAssumption
<1>4. (Here => Corpus!CorpusKept) => CorpusKept
  BY DEF CorpusKept
<1> HIDE DEF Here
<1> QED  BY <1>1, <1>2, <1>3, <1>4, PTL DEF PartsSpec, Corpus!Spec

\* On any grid, the hull of any set of points is its extreme points, once each and
\* counterclockwise, and passes the script's own tests in both orientations;
\* each triangle on three of its edges encloses the points, and no rectangle
\* around them is less than the least with a side along an edge: what
\* convex_hull, flush_triangle_area and minimum_rectangle_area give is what a
\* returned polygon should be compared with.
THEOREM HullAndCompetitorsAreSound == PartsSpec => []CompetitorsSound
<1>1. Drawn => CompetitorsSound
  BY CompetitorsOf, PolygonAssumption DEF Drawn, CompetitorsSound
<1> QED  BY <1>1, DrawnInitially, DrawnNext, PTL DEF PartsSpec

\* Of any polygon with an area on any grid, however it turns and whether it
\* crosses itself, check_enclosure finds every point that is not in the hull of
\* the vertices outside an edge; and of a polygon that keeps to one side of its
\* edges it finds only such points outside.
THEOREM EdgeTestsDecideWhatIsEnclosed == PartsSpec => []EdgeTestsDecideEnclosure
<1>1. Drawn => EdgeTestsDecideEnclosure
  BY DecideOf, PolygonAssumption DEF Drawn, EdgeTestsDecideEnclosure
<1> QED  BY <1>1, DrawnInitially, DrawnNext, PTL DEF PartsSpec
=============================================================================
