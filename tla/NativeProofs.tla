---------------------------- MODULE NativeProofs ----------------------------
(***************************************************************************)
(* The native boundary: what holds of the bounds arithmetic in any format, *)
(* and of the error channel for any tasks and messages.                    *)
(***************************************************************************)
EXTENDS NativeBounds, ErrorChannel, NaturalsInduction, WellFoundedInduction, TLAPS

-----------------------------------------------------------------------------
(* Sets of naturals, and the powers of two.                                *)

NatLT == {p \in Nat \X Nat : p[1] < p[2]}

LEMMA LeastNatural ==
  ASSUME NEW S \in SUBSET Nat, S # {}
  PROVE  \E m \in S : \A n \in S : m <= n
<1>1. IsWellFoundedOn(NatLT, Nat)
  BY NatLessThanWellFounded, Zenon DEF OpToRel, NatLT
<1>2. PICK m \in S : \A n \in S : ~ (<<n, m>> \in NatLT)
  BY <1>1, WFMin
<1>3. ASSUME NEW n \in S PROVE m <= n
  <2>1. n \in Nat /\ m \in Nat
    OBVIOUS
  <2>2. <<n, m>> \in NatLT <=> n < m
    BY <2>1 DEF NatLT
  <2>3. QED
    BY <1>2, <2>1, <2>2
<1>4. QED
  BY <1>3

LEMMA AllNaturals ==
  ASSUME NEW S \in SUBSET Nat, 0 \in S, \A n \in S : n + 1 \in S
  PROVE  \A n \in Nat : n \in S
<1>1. SUFFICES ASSUME Nat \ S # {} PROVE FALSE
  OBVIOUS
<1>2. PICK m \in Nat \ S : \A n \in Nat \ S : m <= n
  BY <1>1, LeastNatural
<1>3. m # 0 /\ m - 1 \in Nat
  BY <1>2
<1>4. m - 1 \in S
  BY <1>2, <1>3
<1>5. QED
  BY <1>2, <1>3, <1>4

\* The function that TwoTo is, up to a bound and then everywhere.
Doubles(f, S) == f = [n \in S |-> IF n = 0 THEN 1 ELSE 2 * f[n - 1]]

LEMMA DoublesAgree ==
  ASSUME NEW f, NEW g, NEW i \in Nat, NEW j \in Nat,
         Doubles(f, 0 .. i), Doubles(g, 0 .. j)
  PROVE  \A n \in Nat : n <= i /\ n <= j => f[n] = g[n]
<1> DEFINE S == {n \in Nat : n <= i /\ n <= j => f[n] = g[n]}
<1>1. /\ \A n \in 0 .. i : f[n] = IF n = 0 THEN 1 ELSE 2 * f[n - 1]
      /\ \A n \in 0 .. j : g[n] = IF n = 0 THEN 1 ELSE 2 * g[n - 1]
  BY DEF Doubles
<1>2. 0 \in S
  BY <1>1
<1>3. ASSUME NEW n \in S PROVE n + 1 \in S
  BY <1>1
<1>4. S \in SUBSET Nat
  OBVIOUS
<1>5. \A n \in Nat : n \in S
  <2> HIDE DEF S
  <2>1. QED
    BY <1>2, <1>3, <1>4, AllNaturals
<1>6. QED
  BY <1>5

LEMMA DoublesExist ==
  ASSUME NEW i \in Nat
  PROVE  \E f : Doubles(f, 0 .. i)
<1> DEFINE S == {n \in Nat : \E f : Doubles(f, 0 .. n)}
<1>1. 0 \in S
  <2>1. Doubles([n \in 0 .. 0 |-> 1], 0 .. 0)
    BY DEF Doubles
  <2>2. QED
    BY <2>1
<1>2. ASSUME NEW m \in S PROVE m + 1 \in S
  <2>1. PICK f : Doubles(f, 0 .. m)
    OBVIOUS
  <2> DEFINE g == [n \in 0 .. m + 1 |-> IF n = 0 THEN 1 ELSE 2 * f[n - 1]]
  <2>2. \A n \in 0 .. m : g[n] = f[n]
    BY <2>1 DEF Doubles
  <2>3. ASSUME NEW n \in 0 .. m + 1
        PROVE  g[n] = IF n = 0 THEN 1 ELSE 2 * g[n - 1]
    <3>1. n # 0 => n - 1 \in 0 .. m
      OBVIOUS
    <3>2. g[n] = IF n = 0 THEN 1 ELSE 2 * f[n - 1]
      OBVIOUS
    <3> HIDE DEF g
    <3>3. QED
      BY <2>2, <3>1, <3>2
  <2>4. g = [n \in 0 .. m + 1 |-> g[n]]
    OBVIOUS
  <2>5. Doubles(g, 0 .. m + 1)
    <3> HIDE DEF g
    <3>1. QED
      BY <2>3, <2>4 DEF Doubles
  <2>6. QED
    BY <2>5
<1>3. S \in SUBSET Nat
  OBVIOUS
<1>4. i \in S
  <2> HIDE DEF S
  <2>1. QED
    BY <1>1, <1>2, <1>3, AllNaturals
<1>5. QED
  BY <1>4

LEMMA TwoToDoubles ==
  /\ TwoTo[0] = 1
  /\ \A n \in Nat : TwoTo[n + 1] = 2 * TwoTo[n]
<1> DEFINE f(i) == CHOOSE g : Doubles(g, 0 .. i)
           h == [n \in Nat |-> f(n)[n]]
<1>1. \A i \in Nat : Doubles(f(i), 0 .. i)
  BY DoublesExist
<1>2. ASSUME NEW n \in Nat
      PROVE  h[n] = IF n = 0 THEN 1 ELSE 2 * h[n - 1]
  <2>1. f(n)[n] = IF n = 0 THEN 1 ELSE 2 * f(n)[n - 1]
    <3>1. \A F : Doubles(F, 0 .. n) => F[n] = IF n = 0 THEN 1 ELSE 2 * F[n - 1]
      BY DEF Doubles
    <3> HIDE DEF f
    <3>2. QED
      BY <1>1, <3>1
  <2>2. n # 0 => n - 1 \in Nat /\ f(n)[n - 1] = f(n - 1)[n - 1]
    <3> HIDE DEF f
    <3>1. QED
      BY <1>1, DoublesAgree
  <2> HIDE DEF f
  <2>3. QED
    BY <2>1, <2>2
<1>3. Doubles(h, Nat)
  <2> HIDE DEF f
  <2>1. \A n \in Nat : h[n] = IF n = 0 THEN 1 ELSE 2 * h[n - 1]
    BY <1>2
  <2>2. h = [n \in Nat |-> h[n]]
    OBVIOUS
  <2> HIDE DEF h
  <2>3. QED
    BY <2>1, <2>2 DEF Doubles
<1>4. Doubles(TwoTo, Nat)
  <2> HIDE DEF h, f
  <2>1. TwoTo = CHOOSE g : Doubles(g, Nat)
    BY DEF TwoTo, Doubles
  <2>2. QED
    BY <1>3, <2>1
<1>5. \A n \in Nat : TwoTo[n] = IF n = 0 THEN 1 ELSE 2 * TwoTo[n - 1]
  <2>1. \A g : Doubles(g, Nat) => \A n \in Nat : g[n] = IF n = 0 THEN 1 ELSE 2 * g[n - 1]
    BY DEF Doubles
  <2>2. QED
    BY <1>4, <2>1
<1>6. QED
  BY <1>5

LEMMA TwoToPositive == \A n \in Nat : TwoTo[n] \in Nat /\ TwoTo[n] > 0
<1> DEFINE S == {n \in Nat : TwoTo[n] \in Nat /\ TwoTo[n] > 0}
<1>1. 0 \in S /\ S \in SUBSET Nat
  BY TwoToDoubles
<1>2. ASSUME NEW n \in S PROVE n + 1 \in S
  BY TwoToDoubles
<1>3. \A n \in Nat : n \in S
  <2> HIDE DEF S
  <2>1. QED
    BY <1>1, <1>2, AllNaturals
<1>4. QED
  BY <1>3

LEMMA TwoToSum ==
  ASSUME NEW m \in Nat, NEW n \in Nat
  PROVE  TwoTo[m + n] = TwoTo[m] * TwoTo[n]
<1> DEFINE S == {k \in Nat : TwoTo[m + k] = TwoTo[m] * TwoTo[k]}
<1>1. 0 \in S /\ S \in SUBSET Nat
  BY TwoToDoubles, TwoToPositive
<1>2. ASSUME NEW k \in S PROVE k + 1 \in S
  <2>1. /\ TwoTo[m + k + 1] = 2 * TwoTo[m + k] /\ TwoTo[k + 1] = 2 * TwoTo[k]
        /\ m + k + 1 = m + (k + 1)
    BY TwoToDoubles
  <2>2. TwoTo[m] \in Nat /\ TwoTo[k] \in Nat
    BY TwoToPositive
  <2>3. QED
    BY <2>1, <2>2
<1>3. n \in S
  <2> HIDE DEF S
  <2>1. QED
    BY <1>1, <1>2, AllNaturals
<1>4. QED
  BY <1>3

LEMMA TwoToDivides ==
  ASSUME NEW m \in Nat, NEW n \in Nat, m <= n
  PROVE  \E c \in Nat : c > 0 /\ TwoTo[n] = c * TwoTo[m]
<1>1. n - m \in Nat /\ n = m + (n - m)
  OBVIOUS
<1>2. TwoTo[n] = TwoTo[m] * TwoTo[n - m]
  BY <1>1, TwoToSum
<1>3. /\ TwoTo[n - m] \in Nat /\ TwoTo[n - m] > 0
      /\ TwoTo[m] * TwoTo[n - m] = TwoTo[n - m] * TwoTo[m]
  BY <1>1, TwoToPositive
<1>4. QED
  BY <1>2, <1>3

-----------------------------------------------------------------------------
(* The numbers of the format, had it no largest exponent.                  *)

Grid == {y \in Int : \E m \in Int, e \in Nat :
             Magnitude(m) < TwoTo[Precision] /\ y = m * TwoTo[e]}

Bounded(z) == Magnitude(z) < TwoTo[Precision + MaxExponent + 4]

LEMMA GridSymmetric ==
  ASSUME NEW y \in Grid
  PROVE  -y \in Grid
<1>1. PICK m \in Int, e \in Nat : Magnitude(m) < TwoTo[Precision] /\ y = m * TwoTo[e]
  BY DEF Grid
<1>2. -m \in Int /\ Magnitude(-m) = Magnitude(m)
  BY DEF Magnitude
<1>3. TwoTo[e] \in Nat
  BY TwoToPositive
<1>4. -y = (-m) * TwoTo[e] /\ -y \in Int
  BY <1>1, <1>3
<1>5. QED
  BY <1>1, <1>2, <1>4 DEF Grid

\* A number at or above a binade is a multiple of the binade's unit.
LEMMA MultipleOfBinade ==
  ASSUME NEW y \in Grid, NEW e \in Nat, e > 0 => Magnitude(y) >= TwoTo[Precision + e - 1]
  PROVE  \E n \in Int : y = n * TwoTo[e]
<1>1. PICK m \in Int, f \in Nat : Magnitude(m) < TwoTo[Precision] /\ y = m * TwoTo[f]
  BY DEF Grid
<1>2. CASE e <= f
  <2>1. PICK c \in Nat : TwoTo[f] = c * TwoTo[e]
    BY <1>2, TwoToDivides
  <2>2. TwoTo[e] \in Nat
    BY TwoToPositive
  <2>3. y = (m * c) * TwoTo[e] /\ m * c \in Int
    <3>1. \A u, v, w \in Int : u * (v * w) = (u * v) * w
      OBVIOUS
    <3>2. QED
      BY <1>1, <2>1, <2>2, <3>1
  <2>4. QED
    BY <2>3
<1>3. CASE f < e
  <2>1. f <= e - 1 /\ e - 1 \in Nat /\ Precision \in Nat /\ Precision + (e - 1) = Precision + e - 1
    BY <1>3, FormatAssumption
  <2>2. PICK c \in Nat : c > 0 /\ TwoTo[e - 1] = c * TwoTo[f]
    BY <2>1, TwoToDivides
  <2>3. TwoTo[Precision + e - 1] = TwoTo[Precision] * TwoTo[e - 1]
    BY <2>1, TwoToSum
  <2> DEFINE P == TwoTo[Precision]
             F == TwoTo[f]
             a == Magnitude(m)
  <2>4. P \in Nat /\ F \in Nat /\ F > 0 /\ a \in Nat /\ a < P
    BY <1>1, <2>1, TwoToPositive DEF Magnitude
  <2>5. Magnitude(y) = a * F
    <3>1. y = m * F
      BY <1>1
    <3>2. m < 0 => m * F < 0 /\ -(m * F) = (-m) * F
      BY <2>4
    <3>3. ~(m < 0) => m * F >= 0
      BY <2>4
    <3>4. QED
      BY <3>1, <3>2, <3>3 DEF Magnitude
  <2>6. Magnitude(y) >= P * (c * F)
    BY <1>3, <2>2, <2>3
  <2> HIDE DEF P, F, a
  <2>7. a * F < P * F /\ P * F \in Nat
    BY <2>4
  <2>8. P * (c * F) >= P * F
    <3>1. P * (c * F) = c * (P * F) /\ c >= 1
      BY <2>2, <2>4
    <3>2. \A q \in Nat : c * q >= q
      BY <3>1
    <3>3. QED
      BY <2>7, <3>1, <3>2
  <2>9. QED
    BY <2>4, <2>5, <2>6, <2>7, <2>8
<1>4. QED
  BY <1>2, <1>3

\* A multiple of a unit below the end of its binade is a number.
LEMMA MultipleInGrid ==
  ASSUME NEW n \in Int, NEW e \in Nat, Magnitude(n * TwoTo[e]) < TwoTo[Precision + e]
  PROVE  n * TwoTo[e] \in Grid
<1> DEFINE P == TwoTo[Precision]
           D == TwoTo[e]
<1>1. P \in Nat /\ D \in Nat /\ D > 0 /\ TwoTo[Precision + e] = P * D
  BY FormatAssumption, TwoToPositive, TwoToSum
<1>2. n * D \in Int /\ Magnitude(n * D) < P * D
  BY <1>1
<1>3. Magnitude(n) < P
  <2> HIDE DEF P, D
  <2>1. CASE n >= P
    <3>1. n * D >= P * D /\ P * D >= 0
      BY <1>1, <2>1
    <3>2. QED
      BY <1>1, <1>2, <3>1 DEF Magnitude
  <2>2. CASE -n >= P
    <3>1. (-n) * D >= P * D /\ P * D >= 0 /\ (-n) * D = -(n * D)
      BY <1>1, <2>2
    <3>2. QED
      BY <1>1, <1>2, <3>1 DEF Magnitude
  <2>3. QED
    BY <1>1, <2>1, <2>2 DEF Magnitude
<1>4. QED
  BY <1>2, <1>3 DEF Grid

-----------------------------------------------------------------------------
(* Rounding.                                                               *)

LEMMA ExponentIs ==
  ASSUME NEW z \in Int, Bounded(z)
  PROVE  /\ Exponent(z) \in Nat
         /\ Magnitude(z) < TwoTo[Precision + Exponent(z)]
         /\ Exponent(z) > 0 => Magnitude(z) >= TwoTo[Precision + Exponent(z) - 1]
<1> DEFINE S == {e \in Nat : Magnitude(z) < TwoTo[Precision + e]}
           T == {e \in 0 .. MaxExponent + 4 :
                     /\ Magnitude(z) < TwoTo[Precision + e]
                     /\ e > 0 => Magnitude(z) >= TwoTo[Precision + e - 1]}
<1>1. Precision \in Nat /\ MaxExponent \in Nat /\ Magnitude(z) \in Nat
  BY FormatAssumption DEF Magnitude
<1>2. MaxExponent + 4 \in S
  <2>1. Precision + (MaxExponent + 4) = Precision + MaxExponent + 4
    BY <1>1
  <2>2. QED
    BY <1>1, <2>1 DEF Bounded
<1>3. PICK e \in S : \A d \in S : e <= d
  <2>1. S \in SUBSET Nat /\ S # {}
    BY <1>2
  <2> HIDE DEF S
  <2>2. QED
    BY <2>1, LeastNatural
<1>4. e \in 0 .. MaxExponent + 4
  BY <1>1, <1>2, <1>3
<1>5. e > 0 => Magnitude(z) >= TwoTo[Precision + e - 1]
  <2>1. SUFFICES ASSUME e > 0 PROVE Magnitude(z) >= TwoTo[Precision + e - 1]
    OBVIOUS
  <2>2. e - 1 \in Nat /\ e - 1 \notin S /\ Precision + (e - 1) = Precision + e - 1
    BY <1>1, <1>3, <2>1
  <2>3. TwoTo[Precision + e - 1] \in Nat
    BY <1>1, <2>2, TwoToPositive
  <2>4. QED
    BY <1>1, <2>2, <2>3
<1>6. e \in T
  BY <1>3, <1>4, <1>5
<1>7. Exponent(z) \in T
  BY <1>6 DEF Exponent
<1>8. QED
  BY <1>1, <1>7

\* Nearest is a nearest multiple of the unit.
LEMMA NearestIs ==
  ASSUME NEW z \in Int, NEW e \in Nat
  PROVE  /\ Nearest(z, e) \in Nat
         /\ Nearest(z, e) * TwoTo[e] \in Nat
         /\ 2 * Magnitude(Nearest(z, e) * TwoTo[e] - Magnitude(z)) <= TwoTo[e]
         /\ e = 0 => Nearest(z, e) * TwoTo[e] = Magnitude(z)
<1> DEFINE D == TwoTo[e]
           a == Magnitude(z)
           q == a \div D
           r == a % D
           n == Nearest(z, e)
<1>1. D \in Nat /\ D > 0 /\ a \in Nat /\ (e = 0 => D = 1)
  BY TwoToPositive, TwoToDoubles DEF Magnitude
<1>2. q \in Nat /\ r \in 0 .. D - 1 /\ a = q * D + r
  <2> HIDE DEF D, a
  <2>1. QED
    BY <1>1
<1>3. n = IF 2 * r > D \/ (2 * r = D /\ q % 2 = 1) THEN q + 1 ELSE q
  BY DEF Nearest
<1>4. (q + 1) * D = q * D + D /\ q * D \in Nat
  <2> HIDE DEF q, D
  <2>1. QED
    BY <1>1, <1>2
<1> HIDE DEF q, r, D, a, n
<1>5. \/ n = q /\ 2 * r <= D
      \/ n = q + 1 /\ 2 * r >= D
  BY <1>1, <1>2, <1>3
<1>6. /\ n \in Nat /\ n * D \in Nat
      /\ 2 * Magnitude(n * D - a) <= D
      /\ e = 0 => n * D = a
  <2>1. CASE n = q /\ 2 * r <= D
    BY <1>1, <1>2, <1>4, <2>1 DEF Magnitude
  <2>2. CASE n = q + 1 /\ 2 * r >= D
    BY <1>1, <1>2, <1>4, <2>2 DEF Magnitude
  <2>3. QED
    BY <1>5, <2>1, <2>2
<1>7. QED
  BY <1>6 DEF n, D, a

\* How far the n-th multiple of D is from a.
Off(n, D, a) == Magnitude(n * D - a)

LEMMA NearestClosest ==
  ASSUME NEW a \in Int, NEW D \in Nat, NEW n \in Int, NEW k \in Int,
         2 * Off(n, D, a) <= D
  PROVE  Off(n, D, a) <= Off(k, D, a)
<1> DEFINE u == n * D
           v == k * D
<1>1. u \in Int /\ v \in Int
  OBVIOUS
<1>2. n = k => u = v
  OBVIOUS
<1>3. n < k => v >= u + D
  <2>1. n < k => v - u = (k - n) * D /\ k - n >= 1
    OBVIOUS
  <2>2. \A j \in Int : j >= 1 => j * D >= D
    OBVIOUS
  <2>3. QED
    <3> HIDE DEF u, v
    <3>1. n < k => v - u >= D
      BY <2>1, <2>2
    <3>2. QED
      BY <1>1, <3>1
<1>4. k < n => u >= v + D
  <2>1. k < n => u - v = (n - k) * D /\ n - k >= 1
    OBVIOUS
  <2>2. \A j \in Int : j >= 1 => j * D >= D
    OBVIOUS
  <2>3. QED
    <3> HIDE DEF u, v
    <3>1. k < n => u - v >= D
      BY <2>1, <2>2
    <3>2. QED
      BY <1>1, <3>1
<1>5. 2 * Magnitude(u - a) <= D
  BY DEF Off
<1> HIDE DEF u, v
<1>6. Magnitude(u - a) <= Magnitude(v - a)
  BY <1>1, <1>2, <1>3, <1>4, <1>5 DEF Magnitude
<1>7. QED
  BY <1>6 DEF u, v, Off

\* The result of Machine when no exponent is too large.
Round(z) ==
  LET v == Nearest(z, Exponent(z)) * TwoTo[Exponent(z)]
  IN  IF z < 0 THEN -v ELSE v

\* Rounding yields a number of the format, and none is closer.
LEMMA RoundClosest ==
  ASSUME NEW z \in Int, Bounded(z), NEW y \in Grid
  PROVE  Round(z) \in Int /\ Magnitude(Round(z) - z) <= Magnitude(y - z)
<1> DEFINE e == Exponent(z)
           D == TwoTo[e]
           a == Magnitude(z)
           n == Nearest(z, e)
           w == IF z < 0 THEN -y ELSE y
<1>1. /\ e \in Nat /\ a \in Nat
      /\ e > 0 => a >= TwoTo[Precision + e - 1]
  BY ExponentIs DEF Magnitude
<1>2. /\ D \in Nat /\ D > 0
      /\ n \in Nat /\ n * D \in Nat
      /\ 2 * Magnitude(n * D - a) <= D
      /\ e = 0 => n * D = a
  <2> HIDE DEF e
  <2>1. QED
    BY <1>1, TwoToPositive, NearestIs
<1>3. y \in Int /\ w \in Grid /\ w \in Int
  BY GridSymmetric DEF Grid
<1>4. /\ 2 * Off(n, D, a) <= D
      /\ a \in Int /\ D \in Nat /\ n \in Int
  BY <1>1, <1>2 DEF Off
<1>5. Magnitude(n * D - a) <= Magnitude(w - a)
  <2> HIDE DEF e, D, n, w, a
  <2>1. CASE e = 0
    <3>1. Magnitude(n * D - a) = 0
      BY <1>1, <1>2, <2>1 DEF Magnitude
    <3>2. QED
      BY <1>1, <1>3, <3>1 DEF Magnitude
  <2>2. CASE e > 0 /\ Magnitude(w) >= TwoTo[Precision + e - 1]
    <3>1. PICK k \in Int : w = k * D
      BY <1>1, <1>3, <2>2, MultipleOfBinade DEF D
    <3>2. Off(n, D, a) <= Off(k, D, a)
      BY <1>4, NearestClosest, Zenon
    <3>3. QED
      BY <3>1, <3>2 DEF Off
  <2>3. CASE e > 0 /\ ~(Magnitude(w) >= TwoTo[Precision + e - 1])
    <3> DEFINE k == TwoTo[Precision - 1]
    <3>1. /\ Precision - 1 \in Nat /\ Precision - 1 + e = Precision + e - 1
      BY <1>1, FormatAssumption
    <3>2. k \in Nat /\ TwoTo[Precision + e - 1] = k * D
      BY <1>1, <3>1, TwoToPositive, TwoToSum DEF D
    <3> HIDE DEF k
    <3>3. Off(n, D, a) <= Off(k, D, a)
      <4>1. k \in Int
        BY <3>2
      <4>2. QED
        BY <1>4, <4>1, NearestClosest, Zenon
    <3>4. k * D \in Nat /\ a >= k * D /\ Magnitude(w) < k * D
      BY <1>1, <1>2, <1>3, <2>3, <3>2 DEF Magnitude
    <3>5. QED
      BY <1>1, <1>2, <1>3, <3>3, <3>4 DEF Off, Magnitude
  <2>4. QED
    BY <1>1, <2>1, <2>2, <2>3
<1>6. Round(z) = IF z < 0 THEN -(n * D) ELSE n * D
  BY DEF Round
<1> HIDE DEF e, D, n
<1>7. QED
  BY <1>2, <1>3, <1>5, <1>6 DEF Magnitude

LEMMA RoundInGrid ==
  ASSUME NEW z \in Int, Bounded(z)
  PROVE  Round(z) \in Grid
<1> DEFINE e == Exponent(z)
           D == TwoTo[e]
           P == TwoTo[Precision]
           a == Magnitude(z)
           n == Nearest(z, e)
<1>1. /\ e \in Nat /\ a \in Nat /\ P \in Nat
      /\ a < P * D
  <2>1. e \in Nat /\ a \in Nat /\ a < TwoTo[Precision + e]
    BY ExponentIs DEF Magnitude
  <2>2. QED
    <3> HIDE DEF e
    <3>1. QED
      BY <2>1, FormatAssumption, TwoToPositive, TwoToSum
<1>2. /\ D \in Nat /\ D > 0
      /\ n \in Nat /\ n * D \in Nat
      /\ 2 * Magnitude(n * D - a) <= D
  <2> HIDE DEF e
  <2>1. QED
    BY <1>1, TwoToPositive, NearestIs
<1>3. n <= P
  <2> HIDE DEF n, P, D, a
  <2>1. SUFFICES ASSUME n >= P + 1 PROVE FALSE
    BY <1>1, <1>2
  <2>2. n * D >= (P + 1) * D /\ (P + 1) * D = P * D + D /\ P * D \in Nat
    BY <1>1, <1>2, <2>1
  <2>3. QED
    BY <1>1, <1>2, <2>2 DEF Magnitude
<1>4. n * D \in Grid
  <2>1. CASE n < P
    <3> HIDE DEF e
    <3>1. Magnitude(n) < P
      BY <1>2, <2>1 DEF Magnitude
    <3>2. QED
      BY <1>1, <1>2, <3>1 DEF Grid
  <2>2. CASE n = P
    <3>1. /\ Precision + e \in Nat /\ n * D = TwoTo[Precision + e]
          /\ TwoTo[Precision + e] \in Nat
      <4> HIDE DEF e
      <4>1. Precision \in Nat /\ Precision + e \in Nat
        BY <1>1, FormatAssumption
      <4>2. TwoTo[Precision + e] = P * D /\ TwoTo[Precision + e] \in Nat
        BY <1>1, <4>1, TwoToSum, TwoToPositive
      <4>3. QED
        <5> HIDE DEF n, P, D
        <5>1. QED
          BY <2>2, <4>1, <4>2
    <3>2. n * D = 1 * TwoTo[Precision + e]
      BY <3>1
    <3>3. Magnitude(1) < P
      <4>1. Precision - 1 \in Nat /\ P = 2 * TwoTo[Precision - 1]
        <5>1. Precision - 1 \in Nat /\ Precision - 1 + 1 = Precision
          BY FormatAssumption
        <5>2. QED
          BY <5>1, TwoToDoubles
      <4>2. TwoTo[Precision - 1] \in Nat /\ TwoTo[Precision - 1] > 0
        BY <4>1, TwoToPositive
      <4>3. QED
        BY <4>1, <4>2 DEF Magnitude
    <3> HIDE DEF n, D
    <3>4. QED
      BY <1>2, <3>1, <3>2, <3>3 DEF Grid
  <2>3. QED
    BY <1>1, <1>2, <1>3, <2>1, <2>2
<1>5. Round(z) = IF z < 0 THEN -(n * D) ELSE n * D
  BY DEF Round
<1> HIDE DEF n, D
<1>6. QED
  BY <1>4, <1>5, GridSymmetric

\* With four bits, the error is at most a sixteenth of the number.
LEMMA RoundError ==
  ASSUME NEW z \in Int, Bounded(z)
  PROVE  16 * Magnitude(Round(z) - z) <= Magnitude(z)
<1> DEFINE e == Exponent(z)
           D == TwoTo[e]
           a == Magnitude(z)
           n == Nearest(z, e)
<1>1. /\ e \in Nat /\ a \in Nat
      /\ e > 0 => a >= TwoTo[Precision + e - 1]
  BY ExponentIs DEF Magnitude
<1>2. /\ D \in Nat /\ D > 0
      /\ n \in Nat /\ n * D \in Nat
      /\ 2 * Magnitude(n * D - a) <= D
      /\ e = 0 => n * D = a
  <2> HIDE DEF e
  <2>1. QED
    BY <1>1, TwoToPositive, NearestIs
<1>3. e > 0 => a >= 8 * D
  <2>1. SUFFICES ASSUME e > 0 PROVE a >= 8 * D
    OBVIOUS
  <2> DEFINE h == Precision - 4
  <2> HIDE DEF e
  <2>2. h \in Nat /\ Precision + e - 1 = (h + 3) + e
    BY <1>1, FormatAssumption
  <2> HIDE DEF h
  <2>3. TwoTo[Precision + e - 1] = TwoTo[h + 3] * D
    <3>1. h + 3 \in Nat
      BY <2>2
    <3>2. QED
      BY <1>1, <2>2, <3>1, TwoToSum
  <2>4. TwoTo[h + 3] >= 8
    <3>1. /\ TwoTo[h] \in Nat /\ TwoTo[h] > 0
          /\ TwoTo[h + 1] = 2 * TwoTo[h]
          /\ TwoTo[h + 1 + 1] = 2 * TwoTo[h + 1]
          /\ TwoTo[h + 1 + 1 + 1] = 2 * TwoTo[h + 1 + 1]
          /\ h + 1 + 1 + 1 = h + 3
      BY <2>2, TwoToDoubles, TwoToPositive
    <3>2. QED
      BY <3>1
  <2>5. \A k \in Nat : k >= 8 => k * D >= 8 * D
    BY <1>2
  <2>6. TwoTo[h + 3] \in Nat
    BY <2>2, TwoToPositive
  <2>7. QED
    BY <1>1, <1>2, <2>1, <2>3, <2>4, <2>5, <2>6
<1>4. Round(z) = IF z < 0 THEN -(n * D) ELSE n * D
  BY DEF Round
<1>5. 16 * Magnitude(n * D - a) <= a
  <2> HIDE DEF n, D, e, a
  <2>1. QED
    BY <1>1, <1>2, <1>3 DEF Magnitude
<1> HIDE DEF n, D
<1>6. QED
  BY <1>2, <1>4, <1>5 DEF Magnitude

\* What Machine returns when it is finite.
LEMMA MachineIs ==
  ASSUME NEW z \in Int, Bounded(z), Is_Finite(Machine(z))
  PROVE  /\ Machine(z) = Round(z)
         /\ Machine(z) \in Grid
         /\ Magnitude(Machine(z)) <= Largest
<1> DEFINE v == Nearest(z, Exponent(z)) * TwoTo[Exponent(z)]
<1>1. v \in Nat
  BY ExponentIs, NearestIs
<1>2. Largest \in Int
  BY FormatAssumption, TwoToPositive DEF Largest
<1>3. Machine(z) = IF v > Largest THEN NotFinite ELSE IF z < 0 THEN -v ELSE v
  BY DEF Machine
<1>4. Round(z) = IF z < 0 THEN -v ELSE v
  BY DEF Round
<1> HIDE DEF v
<1>5. ~(v > Largest) /\ Machine(z) = Round(z)
  BY <1>3, <1>4 DEF Is_Finite
<1>6. Magnitude(Round(z)) = v
  BY <1>1, <1>4 DEF Magnitude
<1>7. QED
  BY <1>1, <1>2, <1>5, <1>6, RoundInGrid

-----------------------------------------------------------------------------
(* One coordinate of the rectangle and of the super-triangle.              *)

\* Numbers within a factor of two lie on one scale: each is a multiple of g,
\* and each multiple of 2 g is one of them.
LEMMA OneScale ==
  ASSUME NEW lo \in Nat, NEW hi \in Nat, lo <= hi, hi < 2 * lo, Bounded(lo)
  PROVE  \E g \in Nat :
           /\ g > 0
           /\ \A y \in Grid : Magnitude(y) >= lo => \E n \in Int : y = n * g
           /\ \A n \in Int : Magnitude(n * (2 * g)) <= hi => n * (2 * g) \in Grid
<1> DEFINE e == Exponent(lo)
           g == TwoTo[e]
<1>1. /\ Magnitude(lo) = lo
      /\ e \in Nat /\ lo < TwoTo[Precision + e]
      /\ e > 0 => lo >= TwoTo[Precision + e - 1]
  <2>1. Magnitude(lo) = lo
    BY DEF Magnitude
  <2>2. QED
    BY <2>1, ExponentIs
<1> HIDE DEF e
<1>2. Precision \in Nat /\ Precision + e \in Nat /\ Precision + (e + 1) = Precision + e + 1
  BY <1>1, FormatAssumption
<1>3. /\ g \in Nat /\ g > 0 /\ TwoTo[e + 1] = 2 * g
      /\ TwoTo[Precision + (e + 1)] = 2 * TwoTo[Precision + e]
      /\ TwoTo[Precision + e] \in Nat
      /\ e > 0 => TwoTo[Precision + e - 1] \in Nat
  BY <1>1, <1>2, TwoToDoubles, TwoToPositive
<1>4. ASSUME NEW y \in Grid, Magnitude(y) >= lo
      PROVE  \E n \in Int : y = n * g
  <2>1. e > 0 => Magnitude(y) >= TwoTo[Precision + e - 1]
    <3>1. Magnitude(y) \in Nat
      BY DEF Grid, Magnitude
    <3>2. QED
      BY <1>1, <1>3, <1>4, <3>1
  <2>2. QED
    BY <1>1, <2>1, MultipleOfBinade
<1>5. ASSUME NEW n \in Int, Magnitude(n * (2 * g)) <= hi
      PROVE  n * (2 * g) \in Grid
  <2>1. e + 1 \in Nat /\ n * TwoTo[e + 1] = n * (2 * g)
    BY <1>1, <1>3
  <2>2. Magnitude(n * TwoTo[e + 1]) < TwoTo[Precision + (e + 1)]
    <3>1. n * (2 * g) \in Int
      BY <1>3
    <3>2. Magnitude(n * (2 * g)) \in Nat
      BY <3>1 DEF Magnitude
    <3>3. Magnitude(n * TwoTo[e + 1]) = Magnitude(n * (2 * g))
      BY <2>1
    <3>4. QED
      BY <1>1, <1>3, <1>5, <3>2, <3>3
  <2>3. QED
    BY <2>1, <2>2, MultipleInGrid
<1>6. QED
  BY <1>3, <1>4, <1>5

\* What is known of one coordinate of an accepted rectangle: it starts at x and
\* is w long, the longer side is m, and the super-triangle's scale is b.
Advances(x, w, m, f, b) ==
  /\ x \in Grid /\ w \in Grid /\ m \in Grid /\ f \in Factors
  /\ 0 < w /\ w <= m
  /\ Bounded(x) /\ Bounded(f * m) /\ Bounded(x + w) /\ Bounded(x + b) /\ Bounded(x - b)
  /\ b = Round(f * m)
  /\ x < Round(x + w)

LEMMA Scale ==
  ASSUME NEW x, NEW w, NEW m, NEW f, NEW b, Advances(x, w, m, f, b)
  PROVE  /\ x \in Int /\ w \in Int /\ b \in Int /\ 0 < w
         /\ 16 * b >= 45 * w
         /\ Round(x + w) \in Grid /\ Round(x + w) \in Int
         /\ x < Round(x + w) /\ Round(x + w) <= x + 2 * w
         /\ Round(x + b) \in Int /\ Round(x - b) \in Int
<1>1. /\ x \in Int /\ w \in Int /\ m \in Int /\ f \in {3, 6}
      /\ 0 < w /\ w <= m /\ f * m \in Int
  BY DEF Advances, Grid, Factors
<1>2. b \in Int /\ 16 * Magnitude(b - f * m) <= Magnitude(f * m)
  BY <1>1, RoundClosest, RoundError DEF Advances
<1>3. 16 * b >= 45 * w
  <2>1. CASE f = 3
    BY <1>1, <1>2, <2>1 DEF Magnitude
  <2>2. CASE f = 6
    BY <1>1, <1>2, <2>2 DEF Magnitude
  <2>3. QED
    BY <1>1, <2>1, <2>2
<1>4. /\ x + w \in Int /\ Round(x + w) \in Grid /\ Round(x + w) \in Int
      /\ Magnitude(Round(x + w) - (x + w)) <= Magnitude(x - (x + w))
  BY <1>1, RoundClosest, RoundInGrid DEF Advances
<1>5. x < Round(x + w)
  BY DEF Advances
<1>6. Round(x + w) <= x + 2 * w
  BY <1>1, <1>4, <1>5 DEF Magnitude
<1>7. Round(x + b) \in Int /\ Round(x - b) \in Int
  <2>1. x + b \in Int /\ x - b \in Int
    BY <1>1, <1>2
  <2>2. QED
    BY <2>1, RoundClosest DEF Advances
<1>8. QED
  BY <1>1, <1>2, <1>3, <1>4, <1>5, <1>6, <1>7

\* The far vertex advances at least as far as the rectangle.
LEMMA VertexBeyond ==
  ASSUME NEW x, NEW w, NEW m, NEW f, NEW b, Advances(x, w, m, f, b)
  PROVE  Round(x + w) <= Round(x + b)
<1> DEFINE r == Round(x + w)
           a == Round(x + b)
<1>1. /\ x \in Int /\ w \in Int /\ b \in Int /\ 0 < w /\ 16 * b >= 45 * w
      /\ r \in Grid /\ r \in Int /\ r <= x + 2 * w /\ a \in Int
  BY Scale
<1>2. x + b \in Int /\ Bounded(x + b)
  BY <1>1 DEF Advances
<1>3. Magnitude(a - (x + b)) <= Magnitude(r - (x + b))
  <2> HIDE DEF r
  <2>1. QED
    BY <1>1, <1>2, RoundClosest
<1> HIDE DEF r, a
<1>4. QED
  BY <1>1, <1>3 DEF Magnitude, r, a

\* The near vertex retreats, also over a binade boundary.
LEMMA VertexRetreats ==
  ASSUME NEW x, NEW w, NEW m, NEW f, NEW b, Advances(x, w, m, f, b)
  PROVE  Round(x - b) < x
<1> DEFINE r == Round(x + w)
           c == Round(x - b)
<1>1. /\ x \in Int /\ w \in Int /\ b \in Int /\ 0 < w /\ 16 * b >= 45 * w
      /\ r \in Grid /\ r \in Int /\ x < r /\ r <= x + 2 * w /\ c \in Int
  BY Scale
<1>2. x \in Grid /\ Bounded(x) /\ x - b \in Int /\ Bounded(x - b)
  BY <1>1 DEF Advances
<1>3. CASE Magnitude(x) <= 10 * b
  <2>1. 16 * Magnitude(c - (x - b)) <= Magnitude(x - b)
    BY <1>2, RoundError
  <2> HIDE DEF r, c
  <2>2. QED
    BY <1>1, <1>3, <2>1 DEF Magnitude, c
<1>4. CASE Magnitude(x) > 10 * b
  <2> DEFINE lo == Magnitude(x) - b
             hi == Magnitude(x) + 2 * b
  <2> HIDE DEF r, c
  <2>1. lo \in Nat /\ hi \in Nat /\ lo <= hi /\ hi < 2 * lo
    BY <1>1, <1>4 DEF Magnitude
  <2>2. Bounded(lo)
    <3>1. Magnitude(lo) <= Magnitude(x) /\ Magnitude(lo) \in Nat /\ Magnitude(x) \in Nat
      BY <1>1, <1>4, <2>1 DEF Magnitude
    <3>2. TwoTo[Precision + MaxExponent + 4] \in Nat
      BY FormatAssumption, TwoToPositive
    <3> HIDE DEF lo
    <3>3. QED
      BY <1>2, <3>1, <3>2 DEF Bounded
  <2>3. Magnitude(x) >= lo /\ Magnitude(r) >= lo
    BY <1>1, <1>4 DEF Magnitude
  <2> HIDE DEF lo, hi
  <2>4. PICK g \in Nat :
          /\ g > 0
          /\ \A y \in Grid : Magnitude(y) >= lo => \E n \in Int : y = n * g
          /\ \A n \in Int : Magnitude(n * (2 * g)) <= hi => n * (2 * g) \in Grid
    BY <2>1, <2>2, OneScale
  <2>5. PICK i \in Int : x = i * g
    BY <1>2, <2>3, <2>4
  <2>6. PICK j \in Int : r = j * g
    BY <1>1, <2>3, <2>4
  <2>7. r - x >= g
    <3>1. i < j
      <4>1. SUFFICES ASSUME i >= j PROVE FALSE
        OBVIOUS
      <4>2. i * g >= j * g
        BY <4>1
      <4>3. QED
        BY <1>1, <2>5, <2>6, <4>2
    <3>2. (j - i) * g >= g /\ (j - i) * g = j * g - i * g
      <4>1. j - i \in Int /\ j - i >= 1
        BY <3>1
      <4>2. \A q \in Int : q >= 1 => q * g >= g
        OBVIOUS
      <4>3. QED
        BY <4>1, <4>2
    <3>3. QED
      BY <2>5, <2>6, <3>2
  <2>8. PICK h \in Int : i = 2 * h + 1 \/ i = 2 * h + 2
    <3>1. (i - 1) \div 2 \in Int /\ (i - 1) % 2 \in {0, 1}
          /\ i - 1 = 2 * ((i - 1) \div 2) + ((i - 1) % 2)
      OBVIOUS
    <3>2. QED
      BY <3>1
  <2> DEFINE y == h * (2 * g)
  <2>9. y \in Int /\ (x = y + g \/ x = y + 2 * g)
    <3>1. y = (2 * h) * g /\ y \in Int
      OBVIOUS
    <3>2. (2 * h + 1) * g = (2 * h) * g + g /\ (2 * h + 2) * g = (2 * h) * g + 2 * g
      OBVIOUS
    <3>3. QED
      BY <2>5, <2>8, <3>1, <3>2
  <2>10. Magnitude(y) <= hi
    <3> HIDE DEF y
    <3>1. QED
      BY <1>1, <2>7, <2>9 DEF Magnitude, hi
  <2>11. y \in Grid
    BY <2>4, <2>10
  <2> HIDE DEF y
  <2>12. Magnitude(c - (x - b)) <= Magnitude(y - (x - b))
    BY <1>2, <2>11, RoundClosest DEF c
  <2>13. c < x
    <3>1. g < b
      BY <1>1, <2>7
    <3>2. y - (x - b) = b - g \/ y - (x - b) = b - 2 * g
      BY <1>1, <2>9
    <3>3. Magnitude(y - (x - b)) < b
      BY <1>1, <2>4, <3>1, <3>2 DEF Magnitude
    <3>4. c \in Int /\ Magnitude(c - (x - b)) < b
      <4>1. c \in Int /\ Magnitude(c - (x - b)) \in Int /\ Magnitude(y - (x - b)) \in Int
        BY <1>1, <2>9 DEF Magnitude
      <4>2. QED
        BY <1>1, <2>12, <3>3, <4>1
    <3>5. QED
      BY <1>1, <3>4 DEF Magnitude
  <2>14. QED
    BY <2>13 DEF c
<1>5. QED
  <2>1. Magnitude(x) \in Int
    BY <1>1 DEF Magnitude
  <2>2. QED
    BY <1>1, <1>3, <1>4, <2>1

\* A number between x and the rectangle's end lies before the middle between x
\* and the far vertex.
LEMMA LessThanHalf ==
  ASSUME NEW x, NEW w, NEW m, NEW f, NEW b, Advances(x, w, m, f, b),
         NEW p \in Grid, x <= p, p < Round(x + w)
  PROVE  2 * (p - x) < Round(x + b) - x
<1> DEFINE r == Round(x + w)
           a == Round(x + b)
<1>1. /\ x \in Int /\ w \in Int /\ b \in Int /\ 0 < w /\ 16 * b >= 45 * w
      /\ r \in Grid /\ r \in Int /\ x < r /\ r <= x + 2 * w /\ a \in Int
      /\ p \in Int /\ x <= p /\ p < r
  BY Scale DEF Grid
<1>2. /\ x \in Grid /\ Bounded(x)
      /\ x + b \in Int /\ Bounded(x + b)
      /\ x + w \in Int /\ Bounded(x + w)
  BY <1>1 DEF Advances
<1>3. r + p <= 2 * (x + w)
  <2>1. Magnitude(r - (x + w)) <= Magnitude(p - (x + w))
    BY <1>2, RoundClosest
  <2> HIDE DEF r, a
  <2>2. QED
    BY <1>1, <2>1 DEF Magnitude
<1>4. CASE p = x
  <2>1. r <= a
    BY VertexBeyond
  <2> HIDE DEF r, a
  <2>2. QED
    BY <1>1, <1>4, <2>1 DEF a
<1>5. CASE x < p /\ Magnitude(x) <= 3 * b
  <2>1. 16 * Magnitude(a - (x + b)) <= Magnitude(x + b)
    BY <1>2, RoundError
  <2> HIDE DEF r, a
  <2>2. p - x < w
    BY <1>1, <1>3
  <2>3. 16 * (a - x) >= 12 * b
    BY <1>1, <1>5, <2>1 DEF Magnitude
  <2>4. QED
    BY <1>1, <2>2, <2>3 DEF a
<1>6. CASE x < p /\ Magnitude(x) > 3 * b
  <2> DEFINE lo == IF x < 0 THEN Magnitude(x) - b ELSE x
             hi == IF x < 0 THEN Magnitude(x) ELSE x + b
  <2> HIDE DEF r, a
  <2>1. lo \in Nat /\ hi \in Nat /\ lo <= hi /\ hi < 2 * lo
    BY <1>1, <1>6 DEF Magnitude
  <2>2. Bounded(lo)
    <3>1. Magnitude(lo) <= Magnitude(x) /\ Magnitude(lo) \in Nat /\ Magnitude(x) \in Nat
      BY <1>1, <1>6, <2>1 DEF Magnitude
    <3>2. TwoTo[Precision + MaxExponent + 4] \in Nat
      BY FormatAssumption, TwoToPositive
    <3> HIDE DEF lo
    <3>3. QED
      BY <1>2, <3>1, <3>2 DEF Bounded
  <2>3. Magnitude(x) >= lo /\ Magnitude(p) >= lo /\ Magnitude(r) >= lo
    BY <1>1, <1>6 DEF Magnitude
  <2> HIDE DEF lo, hi
  <2>4. PICK g \in Nat :
          /\ g > 0
          /\ \A y \in Grid : Magnitude(y) >= lo => \E n \in Int : y = n * g
          /\ \A n \in Int : Magnitude(n * (2 * g)) <= hi => n * (2 * g) \in Grid
    BY <2>1, <2>2, OneScale
  <2>5. PICK i \in Int : x = i * g
    BY <1>2, <2>3, <2>4
  <2>6. PICK j \in Int : p = j * g
    BY <2>3, <2>4
  <2>7. PICK k \in Int : r = k * g
    BY <1>1, <2>3, <2>4
  <2>8. \A s, t \in Int : s * g < t * g => s * g + g <= t * g
    <3>1. SUFFICES ASSUME NEW s \in Int, NEW t \in Int, s * g < t * g
                   PROVE  s * g + g <= t * g
      OBVIOUS
    <3>2. s < t
      <4>1. SUFFICES ASSUME s >= t PROVE FALSE
        OBVIOUS
      <4>2. s * g >= t * g
        BY <4>1
      <4>3. QED
        BY <3>1, <4>2
    <3>3. t - s \in Int /\ t - s >= 1 /\ (t - s) * g = t * g - s * g
      BY <3>2
    <3>4. \A q \in Int : q >= 1 => q * g >= g
      OBVIOUS
    <3>5. QED
      BY <3>3, <3>4
  <2>9. p - x >= g /\ r - p >= g
    <3>1. i * g + g <= j * g
      BY <1>1, <1>6, <2>5, <2>6, <2>8
    <3>2. j * g + g <= k * g
      BY <1>1, <2>6, <2>7, <2>8
    <3>3. QED
      BY <2>5, <2>6, <2>7, <3>1, <3>2
  <2> DEFINE n == 2 * j - i
  <2>10. PICK h \in Int : 2 * h = n + 1 \/ 2 * h = n + 2
    <3>1. n \in Int
      OBVIOUS
    <3> HIDE DEF n
    <3> DEFINE q == (n + 2) \div 2
    <3>2. q \in Int /\ (n + 2 = 2 * q \/ n + 2 = 2 * q + 1)
      BY <3>1
    <3> HIDE DEF q
    <3>3. 2 * q = n + 1 \/ 2 * q = n + 2
      BY <3>1, <3>2
    <3>4. QED
      BY <3>2, <3>3
  <2> DEFINE y == h * (2 * g)
  <2>11. y \in Int /\ (y = x + 2 * (p - x) + g \/ y = x + 2 * (p - x) + 2 * g)
    <3>1. y = (2 * h) * g /\ y \in Int
      OBVIOUS
    <3>2. /\ (n + 1) * g = 2 * (j * g) - i * g + g
          /\ (n + 2) * g = 2 * (j * g) - i * g + 2 * g
      OBVIOUS
    <3>3. /\ (n + 1) * g = x + 2 * (p - x) + g
          /\ (n + 2) * g = x + 2 * (p - x) + 2 * g
      BY <1>1, <2>5, <2>6, <3>2
    <3> HIDE DEF n
    <3>4. QED
      BY <2>10, <3>1, <3>3
  <2> HIDE DEF y, n
  <2>12. y <= x + b
    <3>1. 2 * w >= g + 2 * (p - x)
      BY <1>1, <1>3, <2>9
    <3>2. b >= 2 * (p - x) + 2 * g
      BY <1>1, <2>4, <2>9, <3>1
    <3>3. QED
      BY <1>1, <2>11, <3>2
  <2>13. x + 2 * (p - x) < y
    BY <1>1, <2>4, <2>11
  <2>14. y \in Grid
    <3>1. Magnitude(y) <= hi
      BY <1>1, <1>6, <2>11, <2>12, <2>13 DEF Magnitude, hi
    <3>2. QED
      BY <2>4, <3>1 DEF y
  <2>15. Magnitude(a - (x + b)) <= Magnitude(y - (x + b))
    BY <1>2, <2>14, RoundClosest DEF a
  <2>16. a >= y
    BY <1>1, <2>11, <2>12, <2>15 DEF Magnitude
  <2>17. QED
    BY <1>1, <2>11, <2>13, <2>16 DEF a
<1>7. QED
  <2>1. Magnitude(x) \in Int
    BY <1>1 DEF Magnitude
  <2>2. QED
    BY <1>1, <1>4, <1>5, <1>6, <2>1

-----------------------------------------------------------------------------
(* The super-triangle's orientation.                                       *)

LEMMA ProductPositive ==
  ASSUME NEW a \in Int, NEW b \in Int, a > 0, b > 0
  PROVE  a * b \in Int /\ a * b > 0
OBVIOUS

\* The last claim of the comment on Validate_Native_Bounds: once A is strictly
\* right of the origin, B strictly below and C strictly left and above, the
\* exact determinant of the super-triangle is positive, so its three vertices
\* are distinct and not collinear, whatever was rounded to obtain them.
THEOREM DeterminantPositive ==
  ASSUME NEW x \in Int, NEW y \in Int,
         NEW ax \in Int, NEW by \in Int, NEW cx \in Int, NEW cy \in Int,
         ax > x, by > y, cx < x, cy < y
  PROVE  Orientation([x |-> ax, y |-> y], [x |-> x, y |-> by],
                     [x |-> cx, y |-> cy]) > 0
<1> DEFINE a == ax - x
           b == by - y
           c == x - cx
           d == y - cy
<1>1. /\ a \in Int /\ b \in Int /\ c \in Int /\ d \in Int
      /\ a > 0 /\ b > 0 /\ c > 0 /\ d > 0
  OBVIOUS
<1>2. /\ a * d \in Int /\ a * d > 0
      /\ b * c \in Int /\ b * c > 0
      /\ a * b \in Int /\ a * b > 0
  <2> HIDE DEF a, b, c, d
  <2>1. QED
    BY <1>1, ProductPositive
<1>3. Orientation([x |-> ax, y |-> y], [x |-> x, y |-> by],
                  [x |-> cx, y |-> cy])
         = (x - ax) * (cy - y) - (by - y) * (cx - ax)
  BY DEF Orientation
<1>4. (x - ax) * (cy - y) - (by - y) * (cx - ax) = a * d + b * c + a * b
  OBVIOUS
<1>5. QED
  <2> HIDE DEF a, b, c, d
  <2>1. a * d + b * c + a * b > 0
    BY <1>2
  <2>2. QED
    BY <1>3, <1>4, <2>1

\* A point closer to the origin than half of both far vertices is inside.
LEMMA CornerInside ==
  ASSUME NEW x \in Int, NEW y \in Int,
         NEW ax \in Int, NEW by \in Int, NEW cx \in Int, NEW cy \in Int,
         ax > x, by > y, cx < x, cy < y,
         NEW px \in Int, NEW py \in Int, x <= px, y <= py,
         2 * (px - x) < ax - x, 2 * (py - y) < by - y
  PROVE  LET A == [x |-> ax, y |-> y]
             B == [x |-> x, y |-> by]
             C == [x |-> cx, y |-> cy]
             p == [x |-> px, y |-> py]
         IN  Orientation(A, B, p) > 0 /\ Orientation(B, C, p) > 0 /\ Orientation(C, A, p) > 0
<1> DEFINE a == ax - x
           b == by - y
           c == x - cx
           d == y - cy
           u == px - x
           v == py - y
<1>1. /\ a \in Int /\ b \in Int /\ c \in Int /\ d \in Int /\ u \in Nat /\ v \in Nat
      /\ a > 0 /\ b > 0 /\ c > 0 /\ d > 0
      /\ 2 * u < a /\ 2 * v < b
  OBVIOUS
<1>2. /\ (x - ax) * (py - y) - (by - y) * (px - ax) = a * (b - v) - b * u
      /\ (cx - x) * (py - by) - (cy - by) * (px - x) = c * (b - v) + (b + d) * u
      /\ (ax - cx) * (py - cy) - (y - cy) * (px - cx) = (a + c) * v + d * (a - u)
  OBVIOUS
<1>3. /\ 2 * (a * (b - v) - b * u) = a * (b - 2 * v) + b * (a - 2 * u)
      /\ a * (b - 2 * v) > 0 /\ b * (a - 2 * u) > 0
      /\ c * (b - v) > 0 /\ (b + d) * u >= 0
      /\ (a + c) * v >= 0 /\ d * (a - u) > 0
  <2> HIDE DEF a, b, c, d, u, v
  <2>1. /\ b - 2 * v \in Int /\ b - 2 * v > 0 /\ a - 2 * u \in Int /\ a - 2 * u > 0
        /\ b - v \in Int /\ b - v > 0 /\ a - u \in Int /\ a - u > 0
        /\ b + d \in Nat /\ a + c \in Nat
    BY <1>1
  <2>2. a * (b - 2 * v) > 0 /\ b * (a - 2 * u) > 0 /\ c * (b - v) > 0 /\ d * (a - u) > 0
    BY <1>1, <2>1, ProductPositive
  <2>3. (b + d) * u >= 0 /\ (a + c) * v >= 0
    <3>1. \A q, k \in Nat : q * k >= 0
      OBVIOUS
    <3>2. QED
      BY <1>1, <2>1, <3>1
  <2>4. 2 * (a * (b - v) - b * u) = a * (b - 2 * v) + b * (a - 2 * u)
    BY <1>1
  <2>5. QED
    BY <2>2, <2>3, <2>4
<1>4. /\ a * (b - v) - b * u > 0
      /\ c * (b - v) + (b + d) * u > 0
      /\ (a + c) * v + d * (a - u) > 0
  <2>1. /\ a * (b - v) - b * u \in Int /\ a * (b - 2 * v) \in Int /\ b * (a - 2 * u) \in Int
        /\ c * (b - v) \in Int /\ (b + d) * u \in Int
        /\ (a + c) * v \in Int /\ d * (a - u) \in Int
    <3> HIDE DEF a, b, c, d, u, v
    <3>1. QED
      BY <1>1
  <2> DEFINE s == a * (b - v) - b * u
             t == a * (b - 2 * v)
             w == b * (a - 2 * u)
             e == c * (b - v)
             f == (b + d) * u
             g == (a + c) * v
             h == d * (a - u)
  <2>2. /\ s \in Int /\ t \in Int /\ w \in Int /\ e \in Int /\ f \in Int /\ g \in Int /\ h \in Int
        /\ 2 * s = t + w /\ t > 0 /\ w > 0 /\ e > 0 /\ f >= 0 /\ g >= 0 /\ h > 0
    BY <1>3, <2>1
  <2>3. s > 0 /\ e + f > 0 /\ g + h > 0
    <3> HIDE DEF s, t, w, e, f, g, h
    <3>1. QED
      BY <2>2
  <2>4. QED
    BY <2>3
<1> HIDE DEF a, b, c, d, u, v
<1>5. QED
  BY <1>2, <1>4 DEF Orientation

-----------------------------------------------------------------------------
(* The initialization.                                                     *)

LEMMA FloatsAre ==
  ASSUME NEW u \in Floats
  PROVE  u \in Int /\ u \in Grid /\ Magnitude(u) <= Largest
<1> DEFINE P == TwoTo[Precision]
           Q == TwoTo[MaxExponent]
<1>1. P \in Nat /\ P > 0 /\ Q \in Nat /\ Q > 0 /\ MaxExponent \in Nat /\ Largest = (P - 1) * Q
  BY FormatAssumption, TwoToPositive DEF Largest
<1>2. ASSUME NEW v \in Magnitudes
      PROVE  v \in Nat /\ v \in Grid /\ v <= Largest
  <2>1. PICK m \in 0 .. P - 1, e \in 0 .. MaxExponent : v = m * TwoTo[e]
    BY <1>2 DEF Magnitudes, Significands
  <2>2. e \in Nat /\ e <= MaxExponent /\ m \in Nat /\ m <= P - 1
    BY <1>1, <2>1
  <2> DEFINE D == TwoTo[e]
  <2>3. D \in Nat /\ v = m * D
    BY <2>1, <2>2, TwoToPositive
  <2>4. PICK c \in Nat : c > 0 /\ Q = c * D
    BY <1>1, <2>2, TwoToDivides
  <2>5. v \in Nat /\ v \in Grid
    <3>1. Magnitude(m) < P /\ v \in Nat
      <4> HIDE DEF P, D
      <4>1. QED
        BY <1>1, <2>2, <2>3 DEF Magnitude
    <3>2. QED
      BY <2>2, <2>3, <3>1 DEF Grid
  <2>6. D <= Q
    <3> HIDE DEF D, Q
    <3>1. \A k \in Nat : k > 0 => D <= k * D
      BY <2>3
    <3>2. QED
      BY <2>4, <3>1
  <2>7. m * D <= (P - 1) * Q
    <3> HIDE DEF D, Q, P
    <3>1. m * D <= m * Q /\ m * Q <= (P - 1) * Q
      BY <1>1, <2>2, <2>3, <2>6
    <3>2. m * D \in Int /\ m * Q \in Int /\ (P - 1) * Q \in Int
      BY <1>1, <2>2, <2>3
    <3>3. QED
      BY <3>1, <3>2
  <2>8. QED
    BY <1>1, <2>3, <2>5, <2>7
<1>3. CASE u \in Magnitudes
  <2>1. u \in Nat /\ u \in Grid /\ u <= Largest
    BY <1>2, <1>3
  <2>2. QED
    BY <2>1 DEF Magnitude
<1>4. CASE u \in {-v : v \in Magnitudes}
  <2>1. PICK v \in Magnitudes : u = -v
    BY <1>4
  <2>2. v \in Nat /\ v \in Grid /\ v <= Largest
    BY <1>2
  <2>3. QED
    BY <2>1, <2>2, GridSymmetric DEF Magnitude
<1>5. QED
  BY <1>3, <1>4 DEF Floats

\* No sum and no product of an initialization leaves the range of Exponent.
LEMMA SumsBounded ==
  ASSUME NEW z \in Int, Magnitude(z) <= 6 * Largest
  PROVE  Bounded(z)
<1> DEFINE P == TwoTo[Precision]
           Q == TwoTo[MaxExponent]
           N == Precision + MaxExponent
<1>1. P \in Nat /\ P > 0 /\ Q \in Nat /\ Q > 0 /\ Largest = (P - 1) * Q /\ N \in Nat
  BY FormatAssumption, TwoToPositive DEF Largest
<1>2. TwoTo[N] = P * Q /\ TwoTo[N] \in Nat
  <2>1. Precision \in Nat /\ MaxExponent \in Nat
    BY FormatAssumption
  <2>2. TwoTo[N] = P * Q
    BY <2>1, TwoToSum
  <2>3. QED
    BY <1>1, <2>2, TwoToPositive
<1>3. (P - 1) * Q = P * Q - Q /\ (P - 1) * Q >= 0 /\ P * Q \in Nat
  <2> HIDE DEF P, Q
  <2>1. P - 1 \in Nat
    BY <1>1
  <2>2. \A j, k \in Nat : j * k >= 0
    OBVIOUS
  <2>3. QED
    BY <1>1, <2>1, <2>2
<1> HIDE DEF N
<1>4. TwoTo[N + 4] = 16 * TwoTo[N] /\ TwoTo[N + 4] \in Nat
  <2>1. /\ TwoTo[N + 1] = 2 * TwoTo[N]
        /\ TwoTo[N + 1 + 1] = 2 * TwoTo[N + 1]
        /\ TwoTo[N + 1 + 1 + 1] = 2 * TwoTo[N + 1 + 1]
        /\ TwoTo[N + 1 + 1 + 1 + 1] = 2 * TwoTo[N + 1 + 1 + 1]
        /\ N + 1 + 1 + 1 + 1 = N + 4
    BY <1>1, TwoToDoubles
  <2>2. QED
    BY <1>2, <2>1
<1>5. Magnitude(z) < TwoTo[N + 4]
  <2>1. Magnitude(z) \in Int
    BY DEF Magnitude
  <2> HIDE DEF P, Q
  <2>2. QED
    BY <1>1, <1>2, <1>3, <1>4, <2>1
<1>6. QED
  BY <1>5 DEF Bounded, N

\* One axis of an accepted rectangle.
Accepts(b, f, x, w) ==
  /\ x \in {b.x, b.y} /\ w \in {b.width, b.height}
  /\ Is_Finite(Machine(x + w)) /\ Machine(x + w) > x
  /\ Is_Finite(Machine(x + Big(b, f))) /\ Is_Finite(Machine(x - Big(b, f)))

Rectangles == [x : XCoordinates, y : YCoordinates, width : Extents, height : Extents]

LEMMA AcceptedAdvances ==
  ASSUME NEW b \in Rectangles, NEW f \in Factors, Validate_Native_Bounds(b, f),
         NEW x, NEW w, Accepts(b, f, x, w)
  PROVE  /\ x \in Floats /\ x \in Int /\ x \in Grid
         /\ Machine(x + w) = Round(x + w) /\ Machine(x + w) \in Int
         /\ Machine(x + Big(b, f)) = Round(x + Big(b, f)) /\ Machine(x + Big(b, f)) \in Int
         /\ Machine(x - Big(b, f)) = Round(x - Big(b, f)) /\ Machine(x - Big(b, f)) \in Int
         /\ Advances(x, w, Larger(b.width, b.height), f, Big(b, f))
<1> DEFINE m == Larger(b.width, b.height)
           big == Big(b, f)
<1>1. /\ b.x \in Floats /\ b.y \in Floats /\ b.width \in Floats /\ b.height \in Floats
      /\ b.width > 0 /\ b.height > 0
  BY FormatAssumption DEF Rectangles, Validate_Native_Bounds, FiniteFields, Is_Finite
<1>2. x \in Floats /\ w \in Floats /\ m \in Floats
  BY <1>1 DEF Accepts, Larger
<1>3. Largest \in Int
  BY FormatAssumption, TwoToPositive DEF Largest
<1>4. /\ x \in Int /\ x \in Grid /\ Magnitude(x) <= Largest
      /\ w \in Int /\ w \in Grid /\ Magnitude(w) <= Largest
      /\ m \in Int /\ m \in Grid /\ Magnitude(m) <= Largest
  BY <1>2, FloatsAre
<1>5. 0 < w /\ w <= m
  <2>1. b.width \in Int /\ b.height \in Int
    BY <1>1, FloatsAre
  <2>2. QED
    BY <1>1, <2>1 DEF Accepts, Larger
<1>6. f \in Int /\ f \in {3, 6} /\ f * m \in Int /\ Magnitude(f * m) <= 6 * Largest
  <2>1. f = 3 \/ f = 6
    BY DEF Factors
  <2> HIDE DEF m
  <2>2. QED
    BY <1>3, <1>4, <1>5, <2>1 DEF Magnitude
<1>7. Bounded(f * m)
  <2> HIDE DEF m
  <2>1. QED
    BY <1>6, SumsBounded
<1>8. /\ big = Round(f * m) /\ big \in Grid /\ big \in Int
      /\ Magnitude(big) <= Largest
  <2>1. big = Machine(f * m) /\ Is_Finite(Machine(f * m))
    BY DEF Big, Validate_Native_Bounds
  <2> HIDE DEF m, big
  <2>2. QED
    BY <1>6, <1>7, <2>1, MachineIs DEF Grid
<1> HIDE DEF m, big
<1>9. /\ Bounded(x) /\ Bounded(x + w) /\ Bounded(x + big) /\ Bounded(x - big)
      /\ x + w \in Int /\ x + big \in Int /\ x - big \in Int
  <2>1. /\ x + w \in Int /\ x + big \in Int /\ x - big \in Int
        /\ Magnitude(x) <= 6 * Largest /\ Magnitude(x + w) <= 6 * Largest
        /\ Magnitude(x + big) <= 6 * Largest /\ Magnitude(x - big) <= 6 * Largest
    BY <1>3, <1>4, <1>8 DEF Magnitude
  <2>2. QED
    BY <1>4, <2>1, SumsBounded
<1>10. /\ Is_Finite(Machine(x + w)) /\ Machine(x + w) > x
       /\ Is_Finite(Machine(x + big)) /\ Is_Finite(Machine(x - big))
  BY DEF Accepts, big
<1>11. /\ Machine(x + w) = Round(x + w) /\ Machine(x + w) \in Int
       /\ Machine(x + big) = Round(x + big) /\ Machine(x + big) \in Int
       /\ Machine(x - big) = Round(x - big) /\ Machine(x - big) \in Int
  BY <1>9, <1>10, MachineIs DEF Grid
<1>12. x < Round(x + w)
  BY <1>4, <1>10, <1>11
<1>13. Advances(x, w, m, f, big)
  BY <1>4, <1>5, <1>7, <1>8, <1>9, <1>12 DEF Advances
<1>14. QED
  BY <1>2, <1>4, <1>11, <1>13 DEF m, big

\* There is a last number below an upper limit, since there is one.
LEMMA BeforeIs ==
  ASSUME NEW v \in Int, NEW x \in Floats, x < v
  PROVE  Before(v) \in Floats /\ Before(v) < v /\ x <= Before(v)
<1> DEFINE S == {v - u : u \in {t \in Floats : t < v}}
<1>1. S \in SUBSET Nat /\ S # {}
  <2>1. \A u \in Floats : u \in Int
    BY FloatsAre
  <2>2. QED
    BY <2>1
<1>2. PICK k \in S : \A n \in S : k <= n
  <2> HIDE DEF S
  <2>1. QED
    BY <1>1, LeastNatural
<1>3. PICK u \in Floats : u < v /\ k = v - u
  BY <1>2
<1>4. ASSUME NEW t \in Floats, t < v
      PROVE  t <= u
  <2>1. v - t \in S /\ t \in Int /\ u \in Int
    BY <1>4, FloatsAre
  <2> HIDE DEF S
  <2>2. QED
    BY <1>2, <1>3, <2>1
<1>5. /\ Before(v) \in Floats /\ Before(v) < v
      /\ \A t \in Floats : t < v => t <= Before(v)
  BY <1>3, <1>4 DEF Before
<1>6. QED
  BY <1>5

\* What an initialization leaves is what it computed from bounds it accepted.
NativeInv ==
  /\ bounds \in Rectangles
  /\ factor \in Factors
  /\ phase = "ready" => /\ Validate_Native_Bounds(bounds, factor)
                        /\ limits = Limits(bounds)
                        /\ triangle = SuperTriangle(bounds, factor)

LEMMA NativeInitially == Init => NativeInv
  BY DEF Init, NativeInv, Rectangles

LEMMA NativeStep == NativeInv /\ [Next]_vars => NativeInv'
<1> SUFFICES ASSUME NativeInv, [Next]_vars PROVE NativeInv'
  OBVIOUS
<1>1. CASE Rejects
  BY <1>1 DEF NativeInv, Rejects
<1>2. CASE Initializes
  <2>1. /\ bounds' = bounds /\ factor' = factor
        /\ Validate_Native_Bounds(bounds, factor)
        /\ limits' = Limits(bounds) /\ triangle' = SuperTriangle(bounds, factor)
    BY <1>2 DEF Initializes
  <2>2. QED
    BY <2>1, Zenon DEF NativeInv
<1>3. CASE UNCHANGED vars
  BY <1>3 DEF NativeInv, vars
<1>4. QED
  BY <1>1, <1>2, <1>3 DEF Next

LEMMA NativeSound == NativeInv => SuperTriangleSound
<1> SUFFICES ASSUME NativeInv, phase = "ready"
             PROVE  SuperTriangleSound
  BY DEF SuperTriangleSound, SuperTriangleProper, BoundsInsideTriangle
<1> DEFINE big == Big(bounds, factor)
           x == bounds.x
           y == bounds.y
           w == bounds.width
           h == bounds.height
           m == Larger(w, h)
           ax == Machine(x + big)
           by == Machine(y + big)
           cx == Machine(x - big)
           cy == Machine(y - big)
           A == [x |-> ax, y |-> y]
           B == [x |-> x, y |-> by]
           C == [x |-> cx, y |-> cy]
<1>1. /\ bounds \in Rectangles /\ factor \in Factors
      /\ Validate_Native_Bounds(bounds, factor)
      /\ limits = Limits(bounds) /\ triangle = SuperTriangle(bounds, factor)
  BY DEF NativeInv
<1>2. Accepts(bounds, factor, x, w) /\ Accepts(bounds, factor, y, h)
  BY <1>1 DEF Accepts, Validate_Native_Bounds, Right, Bottom
<1>3. /\ x \in Floats /\ x \in Int /\ x \in Grid
      /\ Machine(x + w) = Round(x + w) /\ Machine(x + w) \in Int
      /\ ax = Round(x + big) /\ ax \in Int
      /\ cx = Round(x - big) /\ cx \in Int
      /\ Advances(x, w, m, factor, big)
  BY <1>1, <1>2, AcceptedAdvances
<1>4. /\ y \in Floats /\ y \in Int /\ y \in Grid
      /\ Machine(y + h) = Round(y + h) /\ Machine(y + h) \in Int
      /\ by = Round(y + big) /\ by \in Int
      /\ cy = Round(y - big) /\ cy \in Int
      /\ Advances(y, h, m, factor, big)
  BY <1>1, <1>2, AcceptedAdvances
<1>5. triangle = <<A, B, C>>
  BY <1>1 DEF SuperTriangle
<1>6. /\ limits.left = x /\ limits.right = Machine(x + w)
      /\ limits.top = y /\ limits.bottom = Machine(y + h)
  BY <1>1 DEF Limits, Right, Bottom
<1> HIDE DEF big, x, y, w, h, m, ax, by, cx, cy
<1>7. /\ x < Machine(x + w) /\ Machine(x + w) <= ax /\ cx < x
      /\ y < Machine(y + h) /\ Machine(y + h) <= by /\ cy < y
  BY <1>3, <1>4, Scale, VertexBeyond, VertexRetreats
<1>8. ax > x /\ by > y
  BY <1>3, <1>4, <1>7
<1>9. SuperTriangleProper
  <2>1. Orientation(A, B, C) > 0
    BY <1>3, <1>4, <1>7, <1>8, DeterminantPositive
  <2>2. /\ triangle[1] = A /\ triangle[2] = B /\ triangle[3] = C
        /\ A.x = ax /\ B.y = by /\ C.x = cx /\ C.y = cy
    BY <1>5
  <2> HIDE DEF A, B, C
  <2>3. triangle[1].x > x /\ triangle[2].y > y /\ triangle[3].x < x /\ triangle[3].y < y
    BY <1>7, <1>8, <2>2
  <2>4. QED
    BY <2>1, <2>2, <2>3 DEF SuperTriangleProper, x, y
<1>10. ASSUME NEW px \in {x, Before(Machine(x + w))}, NEW py \in {y, Before(Machine(y + h))}
       PROVE  Inside([x |-> px, y |-> py])
  <2>1. px \in Floats /\ x <= px /\ px < Machine(x + w)
    BY <1>3, <1>7, <1>10, BeforeIs
  <2>2. py \in Floats /\ y <= py /\ py < Machine(y + h)
    BY <1>4, <1>7, <1>10, BeforeIs
  <2>3. px \in Grid /\ px \in Int /\ py \in Grid /\ py \in Int
    BY <2>1, <2>2, FloatsAre
  <2>4. 2 * (px - x) < ax - x
    BY <1>3, <2>1, <2>3, LessThanHalf
  <2>5. 2 * (py - y) < by - y
    BY <1>4, <2>2, <2>3, LessThanHalf
  <2> DEFINE p == [x |-> px, y |-> py]
  <2>6. Orientation(A, B, p) > 0 /\ Orientation(B, C, p) > 0 /\ Orientation(C, A, p) > 0
    <3>1. x \in Int /\ y \in Int /\ ax \in Int /\ by \in Int /\ cx \in Int /\ cy \in Int
      BY <1>3, <1>4
    <3>2. ax > x /\ by > y /\ cx < x /\ cy < y
      BY <1>7, <1>8
    <3>3. px \in Int /\ py \in Int /\ x <= px /\ y <= py
      BY <2>1, <2>2, <2>3
    <3>4. QED
      BY <2>4, <2>5, <3>1, <3>2, <3>3, CornerInside, Zenon
  <2>7. /\ triangle[1] = A /\ triangle[2] = B /\ triangle[3] = C
        /\ (1 % 3) + 1 = 2 /\ (2 % 3) + 1 = 3 /\ (3 % 3) + 1 = 1
    BY <1>5
  <2> HIDE DEF A, B, C, p
  <2>8. ASSUME NEW i \in 1 .. 3
        PROVE  Orientation(triangle[i], triangle[(i % 3) + 1], p) > 0
    <3>1. i = 1 \/ i = 2 \/ i = 3
      OBVIOUS
    <3>2. QED
      BY <2>6, <2>7, <3>1
  <2>9. QED
    BY <2>8 DEF Inside, p
<1>11. BoundsInsideTriangle
  BY <1>6, <1>10 DEF BoundsInsideTriangle
<1>12. QED
  BY <1>9, <1>11 DEF SuperTriangleSound

\* In every format of at least four bits, whatever is rounded on the way: the
\* super-triangle of a rectangle that Validate_Native_Bounds accepts is not
\* degenerate, lies around the origin, and holds every point that an insertion
\* into the rectangle may name (the comment of Validate_Native_Bounds).
THEOREM TriangleAroundBounds == Spec => []SuperTriangleSound
<1>1. Spec => []NativeInv
  BY NativeInitially, NativeStep, PTL DEF Spec
<1>2. QED
  BY <1>1, NativeSound, PTL

-----------------------------------------------------------------------------
(* The error channel: an exception carries its own task's text. The        *)
(* invariant follows a text from the buffer to the copy to the exception;  *)
(* what makes it inductive is that no task but t writes Buffer(t).         *)

ErrorTypeOK ==
    /\ at \in [Tasks -> {"Ada", "native", "returned", "read"}]
    /\ last_error_message \in [Tasks -> Texts]
    /\ status \in [Tasks -> Failure \cup {"ok"}]
    /\ cause \in [Tasks -> Messages \cup {None}]
    /\ Diagnostic \in [Tasks -> Texts]
    /\ raised \in [Tasks -> Texts \cup {None}]

\* The status is the outcome of the call that set the cause, and the text of
\* a failure is where the call's progress says.
Followed(t) ==
    /\ at[t] = "native" => cause[t] = None
    /\ at[t] # "native" => (status[t] = "ok" <=> cause[t] = None)
    /\ at[t] = "returned" /\ cause[t] # None => last_error_message[t] = Expected(t)
    /\ at[t] = "read" /\ cause[t] # None => Diagnostic[t] = Expected(t)
    /\ at[t] # "Ada" => raised[t] = None
    /\ at[t] = "Ada" => raised[t] = Expected(t)

ErrorInv == ErrorTypeOK /\ \A t \in Tasks : Followed(t)

LEMMA InitFollowed == ErrorInit => ErrorInv
  BY ErrorAssumption
  DEF ErrorInit, ErrorInv, ErrorTypeOK, Followed, Expected, Failure

LEMMA SetErrorFollowed ==
  ASSUME ErrorInv, NEW t \in Tasks, NEW s \in Failure, NEW m \in Messages,
         SetError(t, s, m)
  PROVE  ErrorInv'
<1>1. m # None /\ s # "ok" /\ Cut[m] \in Texts
  BY ErrorAssumption DEF Failure
<1>2. ErrorTypeOK'
  BY <1>1 DEF ErrorInv, ErrorTypeOK, SetError, Buffer
<1>3. ASSUME NEW u \in Tasks PROVE Followed(u)'
  BY <1>1 DEF ErrorInv, ErrorTypeOK, Followed, Expected, SetError, Buffer
<1>4. QED
  BY <1>2, <1>3 DEF ErrorInv

LEMMA StepFollowed == ErrorInv /\ [ErrorNext]_errorVars => ErrorInv'
<1> SUFFICES ASSUME ErrorInv, [ErrorNext]_errorVars PROVE ErrorInv'
  OBVIOUS
<1> USE DEF ErrorInv, ErrorTypeOK, Followed, Expected
<1>1. CASE UNCHANGED errorVars
  BY <1>1 DEF errorVars
<1>2. ASSUME NEW t \in Tasks, ClearError(t) PROVE ErrorInv'
  BY <1>2, ErrorAssumption DEF ClearError, Buffer
<1>3. ASSUME NEW t \in Tasks, InvalidArgument(t) PROVE ErrorInv'
  BY <1>3, SetErrorFollowed DEF InvalidArgument, Failure, Messages
<1>4. ASSUME NEW t \in Tasks, TranslateCurrentException(t) PROVE ErrorInv'
  BY <1>4, SetErrorFollowed DEF TranslateCurrentException, Failure, Messages
<1>5. ASSUME NEW t \in Tasks, Succeeds(t) PROVE ErrorInv'
  BY <1>5 DEF Succeeds
<1>6. ASSUME NEW t \in Tasks, ReturnUnread(t) PROVE ErrorInv'
  BY <1>6 DEF ReturnUnread
<1>7. ASSUME NEW t \in Tasks, LastErrorMessage(t) PROVE ErrorInv'
  BY <1>7 DEF LastErrorMessage, Buffer
<1>8. ASSUME NEW t \in Tasks, RaiseOnError(t) PROVE ErrorInv'
  BY <1>8 DEF RaiseOnError
<1>9. QED
  BY <1>1, <1>2, <1>3, <1>4, <1>5, <1>6, <1>7, <1>8 DEF ErrorNext, ErrorStep

\* An exception carries the text of its own task's failing native call, and a
\* call that succeeded raises none, for any number of tasks and messages.
THEOREM OwnDiagnostic == ErrorSpec => []RaisesOwnDiagnostic
<1>1. ErrorInv => RaisesOwnDiagnostic
  BY DEF ErrorInv, Followed, RaisesOwnDiagnostic
<1>2. QED
  BY <1>1, InitFollowed, StepFollowed, PTL DEF ErrorSpec
=============================================================================
