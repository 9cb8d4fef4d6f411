--------------------------- MODULE ChildrenProofs ---------------------------
(***************************************************************************)
(* The two ways the research scripts run children, for any number of them: *)
(* the pool of the polygon research, and the evidence runners.             *)
(***************************************************************************)
EXTENDS MCChildren, SequenceTheorems, FiniteSetTheorems, TLAPS

-----------------------------------------------------------------------------
(* The pool.                                                               *)

Distinct(s) == \A a, b \in 1 .. Len(s) : s[a] = s[b] => a = b
In(j, s) == \E a \in 1 .. Len(s) : s[a] = j

\* The children that the generator still has to look at, in both halves of its
\* loop: a pass moves a child from scan to kept, or drops it with its record.
Watched == IF pc = "fill" THEN running ELSE kept \o scan

Open == pc \notin {"closed", "abandoned"}

\* Who is running is who is watched, who has not started is who is pending.
QueuesHold ==
    Open => /\ Len(Watched) <= Parallel /\ Distinct(Watched)
            /\ \A j \in Jobs : proc[j] \in {"alive", "zombie"} <=> In(j, Watched)
            /\ Distinct(pending)
            /\ \A j \in Jobs : proc[j] = "none" <=> In(j, pending)

VictimFirst == pc \in {"kill", "wait"} => scan # <<>> /\ victim = Head(scan)

YieldedReaped == \A a \in 1 .. Len(yielded) : proc[yielded[a].job] \in {"reaped", "reused"}

KilledTimedOut ==
    \A j \in Jobs : j \in killed <=>
        \/ \E a \in 1 .. Len(yielded) : yielded[a].job = j /\ yielded[a].timedOut
        \/ pc = "wait" /\ j = victim

FewChildren == IsFiniteSet(Children) /\ BoundedConcurrency

PoolInv ==
    /\ TypeOK /\ QueuesHold /\ VictimFirst /\ YieldedOnce /\ YieldedReaped
    /\ KillsOnlyChildren /\ KilledTimedOut /\ FewChildren

LEMMA ConstantsOfPool == JobCount \in Nat /\ Parallel \in Nat \ {0}
BY PoolAssumption

LEMMA PoolTypes ==
    ASSUME TypeOK
    PROVE  /\ Watched \in Seq(Jobs) /\ Len(Watched) \in Nat
           /\ pending \in Seq(Jobs) /\ scan \in Seq(Jobs) /\ kept \in Seq(Jobs)
           /\ running \in Seq(Jobs)
           /\ proc \in [Jobs -> {"none", "alive", "zombie", "reaped", "reused"}]
BY DEF TypeOK, Watched

LEMMA YieldedJobs == TypeOK => \A a \in 1 .. Len(yielded) : yielded[a].job \in Jobs
<1> SUFFICES ASSUME TypeOK, NEW a \in 1 .. Len(yielded) PROVE yielded[a].job \in Jobs
  OBVIOUS
<1>1. yielded \in Seq([job : Jobs, timedOut : BOOLEAN])
  BY DEF TypeOK
<1>2. yielded[a] \in [job : Jobs, timedOut : BOOLEAN]
  BY <1>1, ElementOfSeq
<1> QED  BY <1>2

\* A set that a sequence lists has at most as many elements.
LEMMA AtMostLen ==
    ASSUME NEW T, NEW s \in Seq(T), NEW S, \A x \in S : In(x, s)
    PROVE  IsFiniteSet(S) /\ Cardinality(S) <= Len(s)
<1> DEFINE D == 1 .. Len(s)
           I == {s[a] : a \in D}
           f == [a \in D |-> s[a]]
<1>1. Len(s) \in Nat
  OBVIOUS
<1>2. IsFiniteSet(D) /\ Cardinality(D) = Len(s)
  BY <1>1, FS_Interval
<1>3. f \in Surjection(D, I)
  BY DEF Surjection
<1>4. IsFiniteSet(I) /\ Cardinality(I) <= Cardinality(D)
  <2> HIDE DEF D, I, f
  <2>1. QED
    BY <1>2, <1>3, FS_Surjection
<1>5. S \subseteq I
  BY DEF In
<1> HIDE DEF I
<1>6. IsFiniteSet(S) /\ Cardinality(S) <= Cardinality(I)
  BY <1>4, <1>5, FS_Subset
<1>7. Cardinality(S) \in Nat /\ Cardinality(I) \in Nat
  BY <1>4, <1>6, FS_CardinalityType
<1> QED  BY <1>1, <1>2, <1>4, <1>6, <1>7

LEMMA BoundedByWatched ==
    ASSUME TypeOK, Len(Watched) <= Parallel,
           \A j \in Jobs : proc[j] \in {"alive", "zombie"} => In(j, Watched)
    PROVE  FewChildren
<1>1. IsFiniteSet(Children) /\ Cardinality(Children) <= Len(Watched)
  BY PoolTypes, AtMostLen DEF Children
<1>2. Cardinality(Children) \in Nat
  BY <1>1, FS_CardinalityType
<1> QED  BY <1>1, <1>2, PoolTypes, ConstantsOfPool DEF FewChildren, BoundedConcurrency

LEMMA PoolInitially == Init => PoolInv
<1> SUFFICES ASSUME Init PROVE PoolInv
  OBVIOUS
<1>1. pending \in Seq(Jobs) /\ Len(pending) = JobCount /\ \A j \in Jobs : pending[j] = j
  BY ConstantsOfPool DEF Init, Jobs
<1>2. TypeOK
  BY <1>1 DEF Init, TypeOK
<1>3. Watched = <<>> /\ pc = "fill" /\ yielded = <<>> /\ killed = {} /\ Len(yielded) = 0
      /\ Len(Watched) = 0
  BY DEF Init, Watched
<1>4. \A j \in Jobs : proc[j] = "none"
  BY DEF Init
<1>5. Distinct(pending) /\ \A j \in Jobs : In(j, pending)
  BY <1>1 DEF Distinct, In, Jobs
<1>6. Len(Watched) <= Parallel /\ Distinct(Watched) /\ \A j \in Jobs : ~In(j, Watched)
  BY <1>3, ConstantsOfPool DEF Distinct, In
<1>7. FewChildren
  BY <1>2, <1>4, <1>6, BoundedByWatched
<1> QED  BY <1>2, <1>3, <1>4, <1>5, <1>6, <1>7 DEF PoolInv, YieldedOnce, QueuesHold, VictimFirst, YieldedReaped,
     KillsOnlyChildren, KilledTimedOut

LEMMA InAppend ==
    ASSUME NEW T, NEW s \in Seq(T), NEW x \in T
    PROVE  /\ Append(s, x) \in Seq(T) /\ Len(Append(s, x)) = Len(s) + 1
           /\ \A j : In(j, Append(s, x)) <=> In(j, s) \/ j = x
           /\ Distinct(s) /\ ~In(x, s) => Distinct(Append(s, x))
<1>1. Append(s, x) \in Seq(T) /\ Len(Append(s, x)) = Len(s) + 1 /\ Len(s) \in Nat
  OBVIOUS
<1>2. \A a \in 1 .. Len(s) : Append(s, x)[a] = s[a]
  OBVIOUS
<1>3. Append(s, x)[Len(s) + 1] = x
  OBVIOUS
<1>4. 1 .. Len(Append(s, x)) = 1 .. Len(s) \cup {Len(s) + 1}
  BY <1>1
<1> QED  BY <1>1, <1>2, <1>3, <1>4 DEF In, Distinct

LEMMA InTail ==
    ASSUME NEW T, NEW s \in Seq(T), s # <<>>
    PROVE  /\ Head(s) \in T /\ Tail(s) \in Seq(T) /\ Len(Tail(s)) = Len(s) - 1
           /\ In(Head(s), s)
           /\ \A j : In(j, s) <=> j = Head(s) \/ In(j, Tail(s))
           /\ Distinct(s) => Distinct(Tail(s)) /\ ~In(Head(s), Tail(s))
<1>1. Len(s) \in Nat \ {0} /\ Head(s) = s[1] /\ Head(s) \in T
  BY EmptySeq
<1>2. Tail(s) \in Seq(T) /\ Len(Tail(s)) = Len(s) - 1
      /\ \A a \in 1 .. Len(s) - 1 : Tail(s)[a] = s[a + 1]
  BY HeadTailProperties
<1>3. \A a \in 1 .. Len(s) : a # 1 => a - 1 \in 1 .. Len(s) - 1 /\ Tail(s)[a - 1] = s[a]
  BY <1>1, <1>2
<1>4. ASSUME NEW j PROVE In(j, s) <=> j = Head(s) \/ In(j, Tail(s))
  <2>1. In(j, s) => j = Head(s) \/ In(j, Tail(s))
    BY <1>1, <1>2, <1>3 DEF In
  <2>2. ASSUME In(j, Tail(s)) PROVE In(j, s)
    <3>1. PICK a \in 1 .. Len(s) - 1 : Tail(s)[a] = j
      BY <1>2, <2>2 DEF In
    <3>2. a + 1 \in 1 .. Len(s) /\ s[a + 1] = j
      BY <1>1, <1>2, <3>1
    <3> QED  BY <3>2 DEF In
  <2>3. In(Head(s), s)
    BY <1>1 DEF In
  <2> QED  BY <2>1, <2>2, <2>3
<1>5. ASSUME Distinct(s) PROVE Distinct(Tail(s)) /\ ~In(Head(s), Tail(s))
  BY <1>1, <1>2, <1>5 DEF In, Distinct
<1> QED  BY <1>1, <1>2, <1>4, <1>5

LEMMA InConcat ==
    ASSUME NEW T, NEW s \in Seq(T), NEW t \in Seq(T)
    PROVE  /\ s \o t \in Seq(T) /\ Len(s \o t) = Len(s) + Len(t)
           /\ \A j : In(j, s \o t) <=> In(j, s) \/ In(j, t)
           /\ Distinct(s \o t) <=> /\ Distinct(s) /\ Distinct(t)
                                   /\ \A j : ~(In(j, s) /\ In(j, t))
<1>1. s \o t \in Seq(T) /\ Len(s \o t) = Len(s) + Len(t)
      /\ Len(s) \in Nat /\ Len(t) \in Nat
  BY ConcatProperties
<1>2. \A a \in 1 .. Len(s) : (s \o t)[a] = s[a] /\ a \in 1 .. Len(s \o t)
  BY <1>1, ConcatProperties
<1>3. \A a \in 1 .. Len(t) : (s \o t)[a + Len(s)] = t[a] /\ a + Len(s) \in 1 .. Len(s \o t)
  BY <1>1, ConcatProperties
<1>4. \A a \in 1 .. Len(s \o t) : a \in 1 .. Len(s) \/ a - Len(s) \in 1 .. Len(t)
  BY <1>1
<1>5. \A a \in 1 .. Len(s \o t) : a \in 1 .. Len(s)
         \/ (a - Len(s) \in 1 .. Len(t) /\ (s \o t)[a] = t[a - Len(s)])
  <2> TAKE a \in 1 .. Len(s \o t)
  <2>1. a - Len(s) + Len(s) = a
    BY <1>1
  <2> QED  BY <1>3, <1>4, <2>1
<1>6. ASSUME NEW j PROVE In(j, s \o t) <=> In(j, s) \/ In(j, t)
  BY <1>2, <1>3, <1>5 DEF In
<1>7. ASSUME Distinct(s \o t)
      PROVE  Distinct(s) /\ Distinct(t) /\ \A j : ~(In(j, s) /\ In(j, t))
  <2>1. Distinct(s)
    BY <1>2, <1>7 DEF Distinct
  <2>2. Distinct(t)
    <3> SUFFICES ASSUME NEW a \in 1 .. Len(t), NEW b \in 1 .. Len(t), t[a] = t[b]
                 PROVE  a = b
      BY DEF Distinct
    <3>1. a + Len(s) = b + Len(s)
      BY <1>3, <1>7 DEF Distinct
    <3> QED  BY <1>1, <3>1
  <2>3. ASSUME NEW j, In(j, s), In(j, t) PROVE FALSE
    <3>1. PICK a \in 1 .. Len(s) : s[a] = j
      BY <2>3 DEF In
    <3>2. PICK b \in 1 .. Len(t) : t[b] = j
      BY <2>3 DEF In
    <3>3. a = b + Len(s)
      BY <1>2, <1>3, <1>7, <3>1, <3>2 DEF Distinct
    <3> QED  BY <1>1, <3>3
  <2> QED  BY <2>1, <2>2, <2>3
<1>8. ASSUME Distinct(s), Distinct(t), \A j : ~(In(j, s) /\ In(j, t))
      PROVE  Distinct(s \o t)
  <2> SUFFICES ASSUME NEW a \in 1 .. Len(s \o t), NEW b \in 1 .. Len(s \o t),
                      (s \o t)[a] = (s \o t)[b]
               PROVE  a = b
    BY DEF Distinct
  <2>1. CASE a \in 1 .. Len(s) /\ b \in 1 .. Len(s)
    BY <1>2, <1>8, <2>1 DEF Distinct
  <2>2. CASE a \notin 1 .. Len(s) /\ b \notin 1 .. Len(s)
    <3>1. a - Len(s) = b - Len(s)
      BY <1>5, <1>8, <2>2 DEF Distinct
    <3> QED  BY <1>1, <3>1
  <2>3. CASE a \in 1 .. Len(s) /\ b \notin 1 .. Len(s)
    BY <1>2, <1>5, <1>8, <2>3 DEF In
  <2>4. CASE a \notin 1 .. Len(s) /\ b \in 1 .. Len(s)
    BY <1>2, <1>5, <1>8, <2>4 DEF In
  <2> QED  BY <2>1, <2>2, <2>3, <2>4
<1> QED  BY <1>1, <1>6, <1>7, <1>8

\* What a pass does with the child it looks at: it is kept, or dropped.
LEMMA ScanKeeps ==
    ASSUME NEW T, NEW K \in Seq(T), NEW S \in Seq(T), S # <<>>
    PROVE  Append(K, Head(S)) \o Tail(S) = K \o S
<1> DEFINE A == Append(K, Head(S)) \o Tail(S)
           B == K \o S
<1>1. Head(S) = S[1] /\ Head(S) \in T /\ Tail(S) \in Seq(T) /\ Len(Tail(S)) = Len(S) - 1
      /\ \A a \in 1 .. Len(S) - 1 : Tail(S)[a] = S[a + 1]
  BY InTail, HeadTailProperties
<1>2. Append(K, Head(S)) \in Seq(T) /\ Len(Append(K, Head(S))) = Len(K) + 1
      /\ Len(K) \in Nat /\ Len(S) \in Nat \ {0}
  BY <1>1, EmptySeq
<1>3. A \in Seq(T) /\ B \in Seq(T) /\ Len(A) = Len(B) /\ Len(B) = Len(K) + Len(S)
  BY <1>1, <1>2, ConcatProperties
<1>4. ASSUME NEW a \in 1 .. Len(B) PROVE A[a] = B[a]
  <2>1. CASE a <= Len(K)
    BY <1>1, <1>2, <1>3, <2>1
  <2>2. CASE a = Len(K) + 1
    BY <1>1, <1>2, <1>3, <2>2
  <2>3. CASE a > Len(K) + 1
    <3> DEFINE d == a - Len(K)
    <3>1. d \in 2 .. Len(S) /\ d - 1 \in 1 .. Len(S) - 1 /\ d - 1 + 1 = d
      BY <1>2, <1>3, <2>3
    <3>2. Tail(S)[d - 1] = S[d]
      BY <1>1, <3>1
    <3>3. A[a] = Tail(S)[d - 1]
      BY <1>1, <1>2, <1>3, <2>3
    <3>4. B[a] = S[d]
      BY <1>2, <1>3, <2>3
    <3> QED  BY <3>2, <3>3, <3>4
  <2> QED  BY <1>2, <1>3, <2>1, <2>2, <2>3
<1> HIDE DEF A, B
<1>5. A = B
  BY <1>3, <1>4, SeqEqual
<1> QED  BY <1>5 DEF A, B

LEMMA ScanDrops ==
    ASSUME NEW T, NEW K \in Seq(T), NEW S \in Seq(T), S # <<>>, Distinct(K \o S)
    PROVE  /\ Distinct(K \o Tail(S)) /\ Len(K \o Tail(S)) < Len(K \o S)
           /\ \A j : In(j, K \o Tail(S)) <=> In(j, K \o S) /\ j # Head(S)
<1>1. /\ Head(S) \in T /\ Tail(S) \in Seq(T) /\ Len(Tail(S)) = Len(S) - 1
      /\ \A j : In(j, S) <=> j = Head(S) \/ In(j, Tail(S))
      /\ Distinct(S) => Distinct(Tail(S)) /\ ~In(Head(S), Tail(S))
  BY InTail
<1>2. /\ Len(K \o S) = Len(K) + Len(S)
      /\ \A j : In(j, K \o S) <=> In(j, K) \/ In(j, S)
      /\ Distinct(K) /\ Distinct(S) /\ \A j : ~(In(j, K) /\ In(j, S))
  BY InConcat
<1>3. /\ Len(K \o Tail(S)) = Len(K) + Len(Tail(S))
      /\ \A j : In(j, K \o Tail(S)) <=> In(j, K) \/ In(j, Tail(S))
      /\ Distinct(K \o Tail(S)) <=> /\ Distinct(K) /\ Distinct(Tail(S))
                                    /\ \A j : ~(In(j, K) /\ In(j, Tail(S)))
  BY <1>1, InConcat
<1>4. Len(K) \in Nat /\ Len(S) \in Nat
  OBVIOUS
<1> QED  BY <1>1, <1>2, <1>3, <1>4

\* A child whose record is appended was not yielded before, so none is twice.
LEMMA YieldsOnce ==
    ASSUME PoolInv, NEW j \in Jobs, NEW late \in BOOLEAN,
           proc[j] \in {"alive", "zombie"},
           yielded' = Append(yielded, [job |-> j, timedOut |-> late])
    PROVE  /\ Len(yielded') = Len(yielded) + 1 /\ Len(yielded) \in Nat
           /\ yielded' \in Seq([job : Jobs, timedOut : BOOLEAN])
           /\ \A a \in 1 .. Len(yielded) : yielded'[a] = yielded[a] /\ yielded[a].job # j
           /\ yielded'[Len(yielded) + 1].job = j
           /\ yielded'[Len(yielded) + 1].timedOut = late
           /\ YieldedOnce'
<1> DEFINE r == [job |-> j, timedOut |-> late]
<1>1. yielded \in Seq([job : Jobs, timedOut : BOOLEAN]) /\ r \in [job : Jobs, timedOut : BOOLEAN]
  BY DEF PoolInv, TypeOK
<1>2. Len(yielded') = Len(yielded) + 1 /\ Len(yielded) \in Nat
      /\ yielded' \in Seq([job : Jobs, timedOut : BOOLEAN])
      /\ \A a \in 1 .. Len(yielded) : yielded'[a] = yielded[a]
      /\ yielded'[Len(yielded) + 1] = r
  BY <1>1
<1>3. \A a \in 1 .. Len(yielded) : yielded[a].job # j
  BY DEF PoolInv, YieldedReaped
<1>4. YieldedOnce'
  BY <1>2, <1>3 DEF PoolInv, YieldedOnce
<1> QED  BY <1>2, <1>3, <1>4

\* A step that leaves the watched and the pending alone keeps the queues, if it
\* changes no child but from alive to ended, or between reaped and reused.
LEMMA QueuesKept ==
    ASSUME PoolInv, TypeOK', Open, Watched' = Watched, pending' = pending,
           \A j \in Jobs : /\ proc'[j] \in {"alive", "zombie"} <=> proc[j] \in {"alive", "zombie"}
                           /\ proc'[j] = "none" <=> proc[j] = "none"
    PROVE  QueuesHold' /\ FewChildren'
<1>1. QueuesHold /\ FewChildren /\ TypeOK
  BY DEF PoolInv
<1>2. QueuesHold'
  BY <1>1 DEF QueuesHold, Distinct, In
<1>3. Children' = Children
  BY DEF Children, Jobs
<1> QED  BY <1>1, <1>2, <1>3 DEF FewChildren, BoundedConcurrency

\* Nothing is said of the queues of a closed generator; its children stay.
LEMMA ClosedKept ==
    ASSUME PoolInv, ~Open',
           \A j \in Jobs : proc'[j] \in {"alive", "zombie"} <=> proc[j] \in {"alive", "zombie"}
    PROVE  QueuesHold' /\ FewChildren'
<1>1. Children' = Children
  BY DEF Children, Jobs
<1> QED  BY <1>1 DEF PoolInv, QueuesHold, FewChildren, BoundedConcurrency

\* A step of the children or of time.
LEMMA WorldStep ==
    ASSUME PoolInv, NEW j \in Jobs, ChildEnds(j) \/ Elapse(j) \/ Reuse(j)
    PROVE  PoolInv'
<1>0. TypeOK /\ QueuesHold /\ VictimFirst /\ YieldedOnce /\ YieldedReaped
      /\ KillsOnlyChildren /\ KilledTimedOut /\ FewChildren
  BY DEF PoolInv
<1>1. UNCHANGED <<pending, running, scan, kept, victim, yielded, pc, killed>>
  BY DEF ChildEnds, Elapse, Reuse
<1>2. /\ TypeOK'
      /\ \A i \in Jobs : /\ proc'[i] \in {"alive", "zombie"} <=> proc[i] \in {"alive", "zombie"}
                         /\ proc'[i] = "none" <=> proc[i] = "none"
                         /\ proc[i] \in {"reaped", "reused"} => proc'[i] \in {"reaped", "reused"}
  <2>1. CASE ChildEnds(j)
    BY <1>0, <2>1 DEF ChildEnds, TypeOK
  <2>2. CASE Elapse(j)
    BY <1>0, <2>2 DEF Elapse, TypeOK
  <2>3. CASE Reuse(j)
    BY <1>0, <2>3 DEF Reuse, TypeOK
  <2> QED  BY <2>1, <2>2, <2>3
<1>3. Watched' = Watched /\ (Open' <=> Open)
  BY <1>1 DEF Watched, Open
<1>4. QueuesHold' /\ FewChildren'
  BY <1>1, <1>2, <1>3, QueuesKept, ClosedKept
<1>5. VictimFirst' /\ YieldedOnce' /\ KillsOnlyChildren' /\ KilledTimedOut'
  BY <1>0, <1>1 DEF VictimFirst, YieldedOnce, KillsOnlyChildren, KilledTimedOut
<1>6. YieldedReaped'
  BY <1>0, <1>1, <1>2, YieldedJobs DEF YieldedReaped
<1> QED  BY <1>2, <1>4, <1>5, <1>6 DEF PoolInv

LEMMA FillStep == PoolInv /\ Fill => PoolInv'
<1> SUFFICES ASSUME PoolInv, Fill PROVE PoolInv'
  OBVIOUS
<1> DEFINE j == Head(pending)
<1>0. TypeOK /\ QueuesHold /\ VictimFirst /\ YieldedOnce /\ YieldedReaped
      /\ KillsOnlyChildren /\ KilledTimedOut /\ FewChildren
  BY DEF PoolInv
<1>1. /\ pc = "fill" /\ pending # <<>> /\ Len(running) < Parallel
      /\ proc' = [proc EXCEPT ![j] = "alive"]
      /\ running' = Append(running, j) /\ pending' = Tail(pending)
      /\ UNCHANGED <<overdue, scan, kept, victim, yielded, pc, killed>>
  BY DEF Fill
<1>2. /\ j \in Jobs /\ pending' \in Seq(Jobs) /\ In(j, pending)
      /\ \A i : In(i, pending) <=> i = j \/ In(i, pending')
      /\ Distinct(pending) => Distinct(pending') /\ ~In(j, pending')
  BY <1>0, <1>1, InTail DEF TypeOK
<1>3. /\ running' \in Seq(Jobs) /\ Len(running') = Len(running) + 1
      /\ \A i : In(i, running') <=> In(i, running) \/ i = j
      /\ Distinct(running) /\ ~In(j, running) => Distinct(running')
  BY <1>0, <1>1, <1>2, InAppend DEF TypeOK
<1>4. Open /\ Open' /\ Watched = running /\ Watched' = running'
  BY <1>1 DEF Open, Watched
<1>5. TypeOK'
  BY <1>0, <1>1, <1>2, <1>3 DEF TypeOK
<1>6. proc[j] = "none" /\ ~In(j, running)
  BY <1>0, <1>2, <1>4 DEF QueuesHold
<1>7. \A i \in Jobs : proc'[i] = IF i = j THEN "alive" ELSE proc[i]
  BY <1>0, <1>1 DEF TypeOK
<1>8. QueuesHold'
  <2>1. Len(running') <= Parallel
    BY <1>0, <1>1, <1>3, ConstantsOfPool DEF TypeOK
  <2>2. Distinct(running') /\ Distinct(pending')
    BY <1>0, <1>2, <1>3, <1>4, <1>6 DEF QueuesHold
  <2>3. \A i \in Jobs : proc'[i] \in {"alive", "zombie"} <=> In(i, running')
    BY <1>0, <1>3, <1>4, <1>7 DEF QueuesHold
  <2>4. \A i \in Jobs : proc'[i] = "none" <=> In(i, pending')
    BY <1>0, <1>2, <1>4, <1>7 DEF QueuesHold
  <2>5. Len(Watched') <= Parallel /\ Distinct(Watched')
        /\ \A i \in Jobs : proc'[i] \in {"alive", "zombie"} <=> In(i, Watched')
    BY <1>4, <2>1, <2>2, <2>3
  <2> QED  BY <2>2, <2>4, <2>5 DEF QueuesHold, Distinct, In
<1>9. FewChildren'
  <2>1. Len(running') <= Parallel /\ running' \in Seq(Jobs)
    BY <1>0, <1>1, <1>3, ConstantsOfPool DEF TypeOK
  <2>2. \A i \in Children' : In(i, running')
    BY <1>0, <1>3, <1>4, <1>7 DEF QueuesHold, Children, Jobs
  <2>3. IsFiniteSet(Children') /\ Cardinality(Children') <= Len(running')
    BY <2>1, <2>2, AtMostLen
  <2>4. Cardinality(Children') \in Nat /\ Len(running') \in Nat
    BY <2>1, <2>3, FS_CardinalityType
  <2> QED  BY <2>1, <2>3, <2>4, ConstantsOfPool DEF FewChildren, BoundedConcurrency
<1>10. VictimFirst' /\ YieldedOnce' /\ KillsOnlyChildren' /\ KilledTimedOut'
  BY <1>0, <1>1 DEF VictimFirst, YieldedOnce, KillsOnlyChildren, KilledTimedOut, Jobs
<1>11. YieldedReaped'
  BY <1>0, <1>1, <1>6, <1>7, YieldedJobs DEF YieldedReaped
<1> QED  BY <1>5, <1>8, <1>9, <1>10, <1>11 DEF PoolInv

LEMMA PassSteps == PoolInv /\ (BeginPass \/ EndPass) => PoolInv'
<1> SUFFICES ASSUME PoolInv, BeginPass \/ EndPass PROVE PoolInv'
  OBVIOUS
<1>0. TypeOK /\ QueuesHold /\ VictimFirst /\ YieldedOnce /\ YieldedReaped
      /\ KillsOnlyChildren /\ KilledTimedOut /\ FewChildren
  BY DEF PoolInv
<1>1. UNCHANGED <<proc, overdue, pending, victim, yielded, killed>>
  BY DEF BeginPass, EndPass
<1>2. TypeOK' /\ Open /\ Watched' = Watched
  <2>1. CASE BeginPass
    <3>1. running \in Seq(Jobs) /\ <<>> \o running = running
      BY <1>0 DEF TypeOK
    <3> QED  BY <1>0, <2>1, <3>1 DEF BeginPass, TypeOK, Watched, Open
  <2>2. CASE EndPass
    <3>1. kept \in Seq(Jobs) /\ kept \o <<>> = kept
      BY <1>0 DEF TypeOK
    <3> QED  BY <1>0, <2>2, <3>1 DEF EndPass, TypeOK, Watched, Open
  <2> QED  BY <2>1, <2>2
<1>3. QueuesHold' /\ FewChildren'
  BY <1>1, <1>2, QueuesKept
<1>4. pc \notin {"kill", "wait"} /\ pc' \notin {"kill", "wait"}
  BY DEF BeginPass, EndPass
<1>5. VictimFirst' /\ YieldedOnce' /\ KillsOnlyChildren' /\ KilledTimedOut' /\ YieldedReaped'
  BY <1>0, <1>1, <1>4 DEF VictimFirst, YieldedOnce, KillsOnlyChildren, KilledTimedOut,
     YieldedReaped, Jobs
<1> QED  BY <1>2, <1>3, <1>5 DEF PoolInv

LEMMA ConsumerStep == PoolInv /\ Consumer => PoolInv'
<1> SUFFICES ASSUME PoolInv, Consumer PROVE PoolInv'
  OBVIOUS
<1>0. TypeOK /\ QueuesHold /\ VictimFirst /\ YieldedOnce /\ YieldedReaped
      /\ KillsOnlyChildren /\ KilledTimedOut /\ FewChildren
  BY DEF PoolInv
<1>1. UNCHANGED <<proc, overdue, pending, running, scan, kept, victim, yielded, killed>>
      /\ pc = "consume" /\ pc' \in {"poll", "abandoned"}
  BY DEF Consumer, Resume, Abandon
<1>2. TypeOK' /\ Open /\ Watched' = Watched
  BY <1>0, <1>1 DEF TypeOK, Open, Watched
<1>3. QueuesHold' /\ FewChildren'
  BY <1>1, <1>2, QueuesKept
<1>4. VictimFirst' /\ YieldedOnce' /\ KillsOnlyChildren' /\ KilledTimedOut' /\ YieldedReaped'
  BY <1>0, <1>1 DEF VictimFirst, YieldedOnce, KillsOnlyChildren, KilledTimedOut,
     YieldedReaped, Jobs
<1> QED  BY <1>2, <1>3, <1>4 DEF PoolInv

\* killpg() finds the child alive or ended, never reaped, so it kills the child.
LEMMA KillStep == PoolInv /\ KillGroup => PoolInv'
<1> SUFFICES ASSUME PoolInv, KillGroup PROVE PoolInv'
  OBVIOUS
<1>0. TypeOK /\ QueuesHold /\ VictimFirst /\ YieldedOnce /\ YieldedReaped
      /\ KillsOnlyChildren /\ KilledTimedOut /\ FewChildren
  BY DEF PoolInv
<1>1. /\ pc = "kill" /\ pc' = "wait"
      /\ killed' = killed \cup {IF proc[victim] = "reused" THEN - victim ELSE victim}
      /\ proc' = [proc EXCEPT ![victim] = IF @ = "alive" THEN "zombie" ELSE @]
      /\ UNCHANGED <<overdue, pending, running, scan, kept, victim, yielded>>
  BY DEF KillGroup
<1>2. Open /\ Watched = kept \o scan /\ Watched' = Watched
  BY <1>1 DEF Open, Watched
<1>3. victim \in Jobs /\ In(victim, Watched)
  <2>1. scan # <<>> /\ victim = Head(scan) /\ scan \in Seq(Jobs) /\ kept \in Seq(Jobs)
    BY <1>0, <1>1 DEF VictimFirst, TypeOK
  <2> QED  BY <1>2, <2>1, InTail, InConcat
<1>4. proc[victim] \in {"alive", "zombie"}
  BY <1>0, <1>2, <1>3 DEF QueuesHold
<1>5. killed' = killed \cup {victim}
  BY <1>1, <1>4
<1>6. \A i \in Jobs : proc'[i] = IF i = victim THEN "zombie" ELSE proc[i]
  BY <1>0, <1>1, <1>4 DEF TypeOK
<1>7. TypeOK'
  BY <1>0, <1>1, <1>3, <1>5 DEF TypeOK
<1>8. QueuesHold' /\ FewChildren'
  BY <1>1, <1>2, <1>4, <1>6, <1>7, QueuesKept
<1>9. VictimFirst' /\ YieldedOnce' /\ KillsOnlyChildren' /\ KilledTimedOut'
  BY <1>0, <1>1, <1>3, <1>5 DEF VictimFirst, YieldedOnce, KillsOnlyChildren, KilledTimedOut, Jobs
<1>10. YieldedReaped'
  BY <1>0, <1>1, <1>4, <1>6, YieldedJobs DEF YieldedReaped
<1> QED  BY <1>7, <1>8, <1>9, <1>10 DEF PoolInv

\* The child at the head of the pass is yielded: its end was polled, or it was
\* killed and waited for.
LEMMA YieldStep ==
    ASSUME PoolInv, NEW j \in Jobs, NEW late \in BOOLEAN,
           pc \in {"poll", "wait"}, scan # <<>>, j = Head(scan),
           pc = "wait" <=> late, pc = "wait" => victim = j,
           pc = "poll" => victim' = victim, pc = "wait" => victim' = 0,
           proc[j] # "alive",
           proc' = [proc EXCEPT ![j] = IF @ = "zombie" THEN "reaped" ELSE @],
           yielded' = Append(yielded, [job |-> j, timedOut |-> late]),
           scan' = Tail(scan), pc' = "consume",
           UNCHANGED <<overdue, pending, running, kept, killed>>
    PROVE  PoolInv'
<1>0. TypeOK /\ QueuesHold /\ VictimFirst /\ YieldedOnce /\ YieldedReaped
      /\ KillsOnlyChildren /\ KilledTimedOut /\ FewChildren
  BY DEF PoolInv
<1>1. Open /\ Open' /\ Watched = kept \o scan /\ Watched' = kept \o Tail(scan)
  BY DEF Open, Watched
<1>2. scan \in Seq(Jobs) /\ kept \in Seq(Jobs) /\ scan' \in Seq(Jobs) /\ In(j, Watched)
  BY <1>0, <1>1, InTail, InConcat DEF TypeOK
<1>3. /\ Distinct(Watched') /\ Len(Watched') < Len(Watched)
      /\ \A i : In(i, Watched') <=> In(i, Watched) /\ i # j
  BY <1>0, <1>1, <1>2, ScanDrops DEF QueuesHold
<1>4. proc[j] = "zombie"
  BY <1>0, <1>1, <1>2 DEF QueuesHold
<1>5. \A i \in Jobs : proc'[i] = IF i = j THEN "reaped" ELSE proc[i]
  BY <1>0, <1>4 DEF TypeOK
<1>6. /\ Len(yielded') = Len(yielded) + 1 /\ Len(yielded) \in Nat
      /\ yielded' \in Seq([job : Jobs, timedOut : BOOLEAN])
      /\ \A a \in 1 .. Len(yielded) : yielded'[a] = yielded[a] /\ yielded[a].job # j
      /\ yielded'[Len(yielded) + 1].job = j
      /\ yielded'[Len(yielded) + 1].timedOut = late
      /\ YieldedOnce'
  BY <1>4, YieldsOnce
<1>7. TypeOK'
  BY <1>0, <1>2, <1>6 DEF TypeOK
<1>8. Len(Watched') \in Nat /\ Len(Watched) \in Nat /\ Watched' \in Seq(Jobs)
  BY <1>0, <1>1, <1>2, ConcatProperties
<1>9. QueuesHold'
  <2>1. Len(Watched') <= Parallel
    BY <1>0, <1>1, <1>3, <1>8, ConstantsOfPool DEF QueuesHold
  <2>2. \A i \in Jobs : proc'[i] \in {"alive", "zombie"} <=> In(i, Watched')
    BY <1>0, <1>1, <1>3, <1>5 DEF QueuesHold
  <2>3. \A i \in Jobs : proc'[i] = "none" <=> In(i, pending)
    BY <1>0, <1>1, <1>4, <1>5 DEF QueuesHold
  <2> QED  BY <1>0, <1>1, <1>3, <2>1, <2>2, <2>3 DEF QueuesHold, Distinct, In
<1>10. FewChildren'
  <2>1. \A i \in Children' : In(i, Watched')
    BY <1>0, <1>1, <1>3, <1>5 DEF QueuesHold, Children, Jobs
  <2>2. IsFiniteSet(Children') /\ Cardinality(Children') <= Len(Watched')
    BY <1>8, <2>1, AtMostLen
  <2>3. Cardinality(Children') \in Nat /\ Len(Watched) <= Parallel
    BY <1>0, <1>1, <2>2, FS_CardinalityType DEF QueuesHold
  <2> QED  BY <1>3, <1>8, <2>2, <2>3, ConstantsOfPool DEF FewChildren, BoundedConcurrency
<1>11. VictimFirst' /\ KillsOnlyChildren'
  BY <1>0 DEF VictimFirst, KillsOnlyChildren, Jobs
<1>12. YieldedReaped'
  <2>1. \A a \in 1 .. Len(yielded') : a \in 1 .. Len(yielded) \/ a = Len(yielded) + 1
    BY <1>6
  <2> QED  BY <1>0, <1>4, <1>5, <1>6, <2>1, YieldedJobs DEF YieldedReaped
<1>13. KilledTimedOut'
  <2> SUFFICES ASSUME NEW i \in Jobs
               PROVE  i \in killed <=>
                        \E a \in 1 .. Len(yielded') : yielded'[a].job = i /\ yielded'[a].timedOut
    BY DEF KilledTimedOut, Jobs
  <2>1. \A a \in 1 .. Len(yielded') : a \in 1 .. Len(yielded) \/ a = Len(yielded) + 1
    BY <1>6
  <2>2. Len(yielded) + 1 \in 1 .. Len(yielded') /\ 1 .. Len(yielded) \subseteq 1 .. Len(yielded')
    BY <1>6
  <2>3. i \in killed <=> \/ \E a \in 1 .. Len(yielded) : yielded[a].job = i /\ yielded[a].timedOut
                         \/ pc = "wait" /\ i = victim
    BY <1>0 DEF KilledTimedOut
  <2>4. CASE i = j
    BY <1>6, <2>1, <2>2, <2>3, <2>4
  <2>5. CASE i # j
    BY <1>6, <2>1, <2>2, <2>3, <2>5
  <2> QED  BY <2>4, <2>5
<1> QED  BY <1>6, <1>7, <1>9, <1>10, <1>11, <1>12, <1>13 DEF PoolInv

LEMMA PollStep == PoolInv /\ Poll => PoolInv'
<1> SUFFICES ASSUME PoolInv, Poll PROVE PoolInv'
  OBVIOUS
<1> DEFINE j == Head(scan)
<1>0. TypeOK /\ QueuesHold /\ VictimFirst /\ YieldedOnce /\ YieldedReaped
      /\ KillsOnlyChildren /\ KilledTimedOut /\ FewChildren
  BY DEF PoolInv
<1>1. /\ pc = "poll" /\ scan # <<>> /\ UNCHANGED <<overdue, pending, running, killed>>
      /\ scan \in Seq(Jobs) /\ kept \in Seq(Jobs) /\ j \in Jobs /\ Tail(scan) \in Seq(Jobs)
  BY <1>0, InTail DEF Poll, TypeOK
<1>2. CASE /\ proc[j] = "alive" /\ j \notin overdue
           /\ kept' = Append(kept, j) /\ scan' = Tail(scan)
           /\ UNCHANGED <<proc, victim, yielded, pc>>
  <2>1. Open /\ Watched' = Watched
    BY <1>1, <1>2, ScanKeeps DEF Open, Watched
  <2>2. TypeOK'
    BY <1>0, <1>1, <1>2 DEF TypeOK
  <2>3. QueuesHold' /\ FewChildren'
    BY <1>1, <1>2, <2>1, <2>2, QueuesKept
  <2>4. VictimFirst' /\ YieldedOnce' /\ KillsOnlyChildren' /\ KilledTimedOut' /\ YieldedReaped'
    BY <1>0, <1>1, <1>2 DEF VictimFirst, YieldedOnce, KillsOnlyChildren, KilledTimedOut,
       YieldedReaped, Jobs
  <2> QED  BY <2>2, <2>3, <2>4 DEF PoolInv
<1>3. CASE /\ proc[j] = "alive" /\ j \in overdue
           /\ victim' = j /\ pc' = "kill" /\ UNCHANGED <<proc, kept, scan, yielded>>
  <2>1. Open /\ Watched' = Watched
    BY <1>1, <1>3 DEF Open, Watched
  <2>2. TypeOK'
    BY <1>0, <1>1, <1>3 DEF TypeOK
  <2>3. QueuesHold' /\ FewChildren'
    BY <1>1, <1>3, <2>1, <2>2, QueuesKept
  <2>4. VictimFirst' /\ YieldedOnce' /\ KillsOnlyChildren' /\ KilledTimedOut' /\ YieldedReaped'
    BY <1>0, <1>1, <1>3 DEF VictimFirst, YieldedOnce, KillsOnlyChildren, KilledTimedOut,
       YieldedReaped, Jobs
  <2> QED  BY <2>2, <2>3, <2>4 DEF PoolInv
<1>4. CASE /\ proc[j] # "alive"
           /\ proc' = [proc EXCEPT ![j] = IF @ = "zombie" THEN "reaped" ELSE @]
           /\ yielded' = Append(yielded, [job |-> j, timedOut |-> FALSE])
           /\ scan' = Tail(scan) /\ pc' = "consume" /\ UNCHANGED <<kept, victim>>
  BY <1>1, <1>4, YieldStep
<1> QED  BY <1>2, <1>3, <1>4 DEF Poll

LEMMA WaitStep == PoolInv /\ Wait => PoolInv'
<1> SUFFICES ASSUME PoolInv, Wait PROVE PoolInv'
  OBVIOUS
<1>1. TypeOK /\ pc = "wait" /\ scan # <<>> /\ victim = Head(scan) /\ victim \in Jobs
  BY InTail DEF PoolInv, VictimFirst, Wait, TypeOK
<1> QED  BY <1>1, YieldStep DEF Wait

LEMMA PoolStep == PoolInv /\ [Next]_vars => PoolInv'
<1>1. ASSUME PoolInv, UNCHANGED vars PROVE PoolInv'
  <2>0. TypeOK /\ QueuesHold /\ VictimFirst /\ YieldedOnce /\ YieldedReaped
        /\ KillsOnlyChildren /\ KilledTimedOut /\ FewChildren
    BY <1>1 DEF PoolInv
  <2>1. UNCHANGED <<proc, overdue, pending, running, scan, kept, victim, yielded, pc, killed>>
    BY <1>1 DEF vars
  <2>2. TypeOK'
    BY <2>0, <2>1 DEF TypeOK
  <2>3. Watched' = Watched /\ (Open' <=> Open)
    BY <2>1 DEF Watched, Open
  <2>4. QueuesHold' /\ FewChildren'
    BY <1>1, <2>1, <2>2, <2>3, QueuesKept, ClosedKept
  <2>5. VictimFirst' /\ YieldedOnce' /\ KillsOnlyChildren' /\ KilledTimedOut' /\ YieldedReaped'
    BY <2>0, <2>1 DEF VictimFirst, YieldedOnce, KillsOnlyChildren, KilledTimedOut,
       YieldedReaped, Jobs
  <2> QED  BY <2>2, <2>4, <2>5 DEF PoolInv
<1> QED
  BY <1>1, WorldStep, FillStep, PassSteps, PollStep, KillStep, WaitStep, ConsumerStep
  DEF Next, Generator

LEMMA PoolInvSound == PoolInv => PoolSound
<1> SUFFICES ASSUME PoolInv PROVE PoolSound
  OBVIOUS
<1>0. TypeOK /\ QueuesHold /\ YieldedOnce /\ YieldedReaped /\ KillsOnlyChildren
      /\ KilledTimedOut /\ BoundedConcurrency
  BY DEF PoolInv, FewChildren
<1>1. TimeoutMeansKilled
  <2> SUFFICES ASSUME NEW a \in 1 .. Len(yielded)
               PROVE  yielded[a].timedOut <=> yielded[a].job \in killed
    BY DEF TimeoutMeansKilled
  <2>1. yielded[a].job \in Jobs /\ proc[yielded[a].job] \in {"reaped", "reused"}
    BY <1>0, YieldedJobs DEF YieldedReaped
  <2>2. pc = "wait" => proc[victim] \in {"alive", "zombie"}
    <3> SUFFICES ASSUME pc = "wait" PROVE proc[victim] \in {"alive", "zombie"}
      OBVIOUS
    <3>1. scan # <<>> /\ victim = Head(scan) /\ scan \in Seq(Jobs) /\ kept \in Seq(Jobs)
      BY DEF PoolInv, VictimFirst, TypeOK
    <3>2. victim \in Jobs /\ In(victim, kept \o scan)
      BY <3>1, InTail, InConcat
    <3> QED  BY <1>0, <3>2 DEF QueuesHold, Open, Watched
  <2> QED  BY <1>0, <2>1, <2>2 DEF KilledTimedOut, YieldedOnce
<1>2. NoChildForgotten
  <2> SUFFICES ASSUME pc \notin {"closed", "abandoned"}, NEW j \in Children
               PROVE  \/ j \in Range(scan) \cup Range(kept)
                      \/ pc = "fill" /\ j \in Range(running)
    BY DEF NoChildForgotten
  <2>1. In(j, Watched)
    BY <1>0 DEF QueuesHold, Open, Children
  <2>2. \A s \in Seq(Jobs) : In(j, s) => j \in Range(s)
    BY DEF In, Range
  <2>3. scan \in Seq(Jobs) /\ kept \in Seq(Jobs) /\ running \in Seq(Jobs)
    BY <1>0 DEF TypeOK
  <2> QED  BY <2>1, <2>2, <2>3, InConcat DEF Watched
<1> QED  BY <1>0, <1>1, <1>2 DEF PoolSound

(* The pool by itself.                                                       *)
LEMMA PoolStaysSound == Init /\ [][Next]_vars => []PoolSound
<1>1. Init /\ [][Next]_vars => []PoolInv
  BY PoolInitially, PoolStep, PTL
<1> QED  BY <1>1, PoolInvSound, PTL

-----------------------------------------------------------------------------
(* The evidence runners.                                                   *)

LEMMA EvidenceConstants ==
    /\ \A s \in Selections : s \in Seq({"known", "unknown", "malformed"})
    /\ Codes \subseteq Int /\ None \notin Codes \cup {-9, 0, 1, 2}
    /\ None \notin Versions \cup Evidence!Files /\ None \notin Evidence!Child
BY EvidenceAssumption DEF Evidence!EvidenceRunAssumption

LEMMA KeysAre ==
    /\ Evidence!Keys = {"compile", "runtime", "object", "runtime_object"}
    /\ Evidence!ToSet(Evidence!IdentityKeys) = {"compile", "runtime", "object"}
<1>1. Evidence!ToSet(Evidence!IdentityKeys) = {"compile", "runtime", "object"}
  <2>1. DOMAIN Evidence!IdentityKeys = 1 .. 3
    BY DEF Evidence!IdentityKeys
  <2>2. 1 .. 3 = {1, 2, 3}
    OBVIOUS
  <2> QED  BY <2>1, <2>2 DEF Evidence!ToSet, Evidence!IdentityKeys
<1> QED  BY <1>1 DEF Evidence!Keys

\* What a child says of itself: two lines, or three when it found its library.
LEMMA IdentityLines ==
    ASSUME NEW truth \in Evidence!Truths
    PROVE  LET own == Evidence!identity(truth) IN
           /\ own \in Seq(Evidence!Lines) /\ Len(own) \in {2, 3}
           /\ Len(own) = 2 <=> truth.object = None
           /\ own[1] = [key |-> "compile", value |-> truth.compile]
           /\ own[2] = [key |-> "runtime", value |-> truth.runtime]
           /\ Len(own) = 3 => own[3] = [key |-> "object", value |-> truth.object]
           /\ truth.compile # None /\ truth.runtime # None
<1> DEFINE c == [key |-> "compile", value |-> truth.compile]
           r == [key |-> "runtime", value |-> truth.runtime]
           o == [key |-> "object", value |-> truth.object]
<1>1. c \in Evidence!Lines /\ r \in Evidence!Lines /\ o \in Evidence!Lines
      /\ truth.compile # None /\ truth.runtime # None
  BY EvidenceConstants, KeysAre DEF Evidence!Truths, Evidence!Lines
<1>2. Evidence!identity(truth) = IF truth.object = None THEN <<c, r>> ELSE Append(<<c, r>>, o)
  BY DEF Evidence!identity
<1> HIDE DEF c, r, o
<1>3. <<c, r>> \in Seq(Evidence!Lines) /\ Len(<<c, r>>) = 2 /\ <<c, r>>[1] = c /\ <<c, r>>[2] = r
  BY <1>1
<1>4. /\ Append(<<c, r>>, o) \in Seq(Evidence!Lines) /\ Len(Append(<<c, r>>, o)) = 3
      /\ Append(<<c, r>>, o)[1] = c /\ Append(<<c, r>>, o)[2] = r
      /\ Append(<<c, r>>, o)[3] = o
  BY <1>1, <1>3
<1> QED  BY <1>1, <1>2, <1>3, <1>4 DEF c, r, o

\* The child has printed nothing, or its identity, then perhaps its case's own
\* line, and then whatever it likes.
Printed(c) ==
    LET own == Evidence!identity(c.truth) IN
    c.out = <<>> \/ /\ Len(c.out) >= Len(own)
                    /\ \A i \in 1 .. Len(own) : c.out[i] = own[i]
                    /\ Len(c.out) > Len(own) => c.out[Len(own) + 1].key = "input"

LEMMA MinOfLeast ==
    ASSUME NEW S \in SUBSET Int, NEW m \in S, \A x \in S : m <= x
    PROVE  Evidence!Min(S) = m
<1> DEFINE least(x) == \A y \in S : x <= y
<1>1. Evidence!Min(S) = CHOOSE x \in S : least(x)
  BY DEF Evidence!Min
<1>2. m \in S /\ least(m)
  OBVIOUS
<1> HIDE DEF least
<1>3. Evidence!Min(S) \in S /\ least(Evidence!Min(S))
  BY <1>1, <1>2
<1>4. Evidence!Min(S) \in Int /\ m \in Int
  BY <1>3
<1>5. Evidence!Min(S) <= m /\ m <= Evidence!Min(S)
  BY <1>2, <1>3 DEF least
<1> HIDE DEF least
<1> QED  BY <1>4, <1>5

LEMMA MaxOfOne == ASSUME NEW m \in Int PROVE Evidence!Max({m}) = m
BY DEF Evidence!Max

\* The header ends before the case's own line, so it is the identity itself.
LEMMA HeaderIsIdentity ==
    ASSUME NEW c \in Evidence!Child, Printed(c), c.out # <<>>
    PROVE  LET own == Evidence!identity(c.truth) IN
           /\ Evidence!Header(c.out) \in Seq(Evidence!Lines)
           /\ Len(Evidence!Header(c.out)) = Len(own)
           /\ \A i \in 1 .. Len(own) : Evidence!Header(c.out)[i] = own[i]
<1> DEFINE own == Evidence!identity(c.truth)
           out == c.out
           n == Len(own)
           others == {i \in DOMAIN out : out[i].key \notin Evidence!Keys}
<1>1. c.truth \in Evidence!Truths /\ out \in Seq(Evidence!Lines)
  BY DEF Evidence!Child
<1>2. own \in Seq(Evidence!Lines) /\ n \in {2, 3} /\ \A i \in 1 .. n : own[i].key \in Evidence!Keys
  <2>0. n \in {2, 3} /\ own \in Seq(Evidence!Lines)
    BY <1>1, IdentityLines
  <2>1. \A i \in 1 .. n : i = 1 \/ i = 2 \/ (i = 3 /\ n = 3)
    <3> HIDE DEF n
    <3> QED  BY <2>0
  <2>2. own[1].key = "compile" /\ own[2].key = "runtime" /\ (n = 3 => own[3].key = "object")
    <3>1. /\ own[1] = [key |-> "compile", value |-> c.truth.compile]
          /\ own[2] = [key |-> "runtime", value |-> c.truth.runtime]
          /\ n = 3 => own[3] = [key |-> "object", value |-> c.truth.object]
      BY <1>1, IdentityLines
    <3> HIDE DEF own, n
    <3> QED  BY <3>1
  <2> QED  BY <2>0, <2>1, <2>2, KeysAre
<1>3. /\ Len(out) \in Nat /\ Len(out) >= n /\ DOMAIN out = 1 .. Len(out)
      /\ \A i \in 1 .. n : out[i] = own[i]
      /\ Len(out) > n => out[n + 1].key = "input"
  BY <1>1 DEF Printed
<1>4. Evidence!Header(out) = SubSeq(out, 1, n)
  <2>1. CASE Len(out) = n
    <3>1. others = {}
      BY <1>2, <1>3, <2>1
    <3> QED  BY <2>1, <3>1 DEF Evidence!Header
  <2>2. CASE Len(out) > n
    <3>1. n + 1 \in others
      BY <1>2, <1>3, <2>2, KeysAre
    <3>2. \A i \in others : n + 1 <= i
      BY <1>2, <1>3
    <3>3. others \subseteq Int
      BY <1>3
    <3> HIDE DEF others
    <3>4. Evidence!Min(others) = n + 1
      BY <3>1, <3>2, <3>3, MinOfLeast
    <3>5. n + 1 - 1 = n /\ others # {}
      BY <1>2, <3>1
    <3>6. Evidence!Header(out) = SubSeq(out, 1, IF others = {} THEN Len(out)
                                                ELSE Evidence!Min(others) - 1)
      BY DEF Evidence!Header, others
    <3> QED  BY <3>4, <3>5, <3>6
  <2> QED  BY <1>2, <1>3, <2>1, <2>2
<1> HIDE DEF own, out
<1>5. /\ SubSeq(out, 1, n) \in Seq(Evidence!Lines) /\ Len(SubSeq(out, 1, n)) = n
      /\ \A i \in 1 .. n : SubSeq(out, 1, n)[i] = out[i]
  BY <1>1, <1>2, <1>3
<1> QED  BY <1>3, <1>4, <1>5 DEF own, out

\* What is taken from a header is what the child said, and an output of nothing
\* says nothing: evidence that counts is sound.
LEMMA ValidIsSound ==
    ASSUME NEW c \in Evidence!Child, Printed(c), program \in {"risk", "upstream"},
           Evidence!ValidEvidence(c.out)
    PROVE  Evidence!Sound(c.truth)
<1> DEFINE own == Evidence!identity(c.truth)
           h == Evidence!Header(c.out)
<1>1. Evidence!parse_identity(c.out) = "ok"
      /\ (program = "upstream" => Evidence!ValueOf(c.out, "object") \in InPrefix)
  BY DEF Evidence!ValidEvidence, Evidence!object_in_prefix
<1>2. /\ Evidence!ValueOf(c.out, "compile") # None
      /\ Evidence!ValueOf(c.out, "object") # None
      /\ Evidence!ValueOf(c.out, "compile") = Evidence!ValueOf(c.out, "runtime")
  BY <1>1, KeysAre DEF Evidence!parse_identity
<1>3. c.out # <<>>
  <2> SUFFICES ASSUME c.out = <<>> PROVE FALSE
    OBVIOUS
  <2>1. DOMAIN h = {}
    BY DEF Evidence!Header
  <2> HIDE DEF h
  <2>2. Evidence!ValueOf(c.out, "compile") = None
    BY <2>1 DEF Evidence!ValueOf, h
  <2> QED  BY <1>2, <2>2
<1>4. /\ h \in Seq(Evidence!Lines) /\ Len(h) = Len(own) /\ \A i \in 1 .. Len(own) : h[i] = own[i]
  BY <1>3, HeaderIsIdentity
<1>5. /\ Len(own) \in {2, 3}
      /\ Len(own) = 2 <=> c.truth.object = None
      /\ own[1] = [key |-> "compile", value |-> c.truth.compile]
      /\ own[2] = [key |-> "runtime", value |-> c.truth.runtime]
      /\ Len(own) = 3 => own[3] = [key |-> "object", value |-> c.truth.object]
      /\ c.truth \in Evidence!Truths
  BY IdentityLines DEF Evidence!Child
<1> HIDE DEF own, h
<1>6. /\ DOMAIN h = 1 .. Len(own) /\ 1 \in DOMAIN h /\ 2 \in DOMAIN h
      /\ h[1].key = "compile" /\ h[2].key = "runtime"
      /\ h[1].value = c.truth.compile /\ h[2].value = c.truth.runtime
      /\ \A i \in DOMAIN h : i = 1 \/ i = 2 \/ (i = 3 /\ Len(own) = 3)
      /\ Len(own) = 3 => /\ 3 \in DOMAIN h /\ h[3].key = "object"
                         /\ h[3].value = c.truth.object
  BY <1>4, <1>5
<1>7. Evidence!ValueOf(c.out, "compile") = c.truth.compile
  <2>1. {i \in DOMAIN h : h[i].key = "compile"} = {1}
    BY <1>6
  <2> QED  BY <1>6, <2>1, MaxOfOne DEF Evidence!ValueOf, h
<1>8. Evidence!ValueOf(c.out, "runtime") = c.truth.runtime
  <2>1. {i \in DOMAIN h : h[i].key = "runtime"} = {2}
    BY <1>6
  <2> QED  BY <1>6, <2>1, MaxOfOne DEF Evidence!ValueOf, h
<1>9. Evidence!ValueOf(c.out, "object") = c.truth.object
  <2>1. CASE Len(own) = 2
    <3>1. {i \in DOMAIN h : h[i].key = "object"} = {}
      BY <1>6, <2>1
    <3> QED  BY <1>5, <2>1, <3>1 DEF Evidence!ValueOf, h
  <2>2. CASE Len(own) = 3
    <3>1. {i \in DOMAIN h : h[i].key = "object"} = {3}
      BY <1>6, <2>2
    <3> QED  BY <1>6, <2>2, <3>1, MaxOfOne DEF Evidence!ValueOf, h
  <2> QED  BY <1>5, <2>1, <2>2
<1> QED  BY <1>1, <1>2, <1>7, <1>8, <1>9 DEF Evidence!Sound

Row == [outcome : {"timeout", "signal", "returned", "cv_exception", "usage_error", "exit"},
        valid : BOOLEAN, sound : BOOLEAN, leftover : BOOLEAN]

\* One conjunct a line of run_case's discipline: a child is recorded with its
\* printed lines, a killed group has ended, and a row that is valid is sound.
EvidenceInv ==
    /\ program \in {"risk", "upstream"}
    /\ selected \in Seq({"known", "unknown", "malformed"})
    /\ wait \in {"waiting", "returned", "late", "killed"}
    /\ exit \in {None, 0, 1, 2}
    /\ child # None => /\ child \in Evidence!Child /\ Printed(child)
                       /\ Len(results) < Len(selected) /\ exit = None
    /\ wait = "killed" => child # None /\ child.code # None /\ ~child.helper
    /\ wait = "late" => child # None
    /\ child = None => wait = "waiting"
    /\ results \in Seq(Row) /\ Len(results) <= Len(selected)
    /\ \A i \in 1 .. Len(results) : /\ results[i].valid => results[i].sound
                                    /\ results[i].outcome = "timeout" => ~results[i].leftover
    /\ exit = 0 => /\ Len(results) = Len(selected)
                   /\ \A i \in 1 .. Len(results) : results[i].valid

LEMMA EvidenceInvSound == EvidenceInv => Evidence!EvidenceSound
<1> SUFFICES ASSUME EvidenceInv PROVE Evidence!EvidenceSound
  OBVIOUS
<1>1. DOMAIN results = 1 .. Len(results) /\ \A i \in DOMAIN results : results[i] \in Row
  BY DEF EvidenceInv
<1>2. Evidence!TypeOK
  BY <1>1 DEF EvidenceInv, Evidence!TypeOK, Row, Evidence!Child
<1>3. Evidence!CleanExitIsEvidence
  BY <1>1 DEF EvidenceInv, Evidence!CleanExitIsEvidence
<1>4. Evidence!TimedOutGroupIsGone
  BY <1>1 DEF EvidenceInv, Evidence!TimedOutGroupIsGone
<1> QED  BY <1>2, <1>3, <1>4 DEF Evidence!EvidenceSound

LEMMA EvidenceInitially == Evidence!Init => EvidenceInv
<1> SUFFICES ASSUME Evidence!Init PROVE EvidenceInv
  OBVIOUS
<1>1. /\ program \in {"risk", "upstream"} /\ selected \in Seq({"known", "unknown", "malformed"})
      /\ child = None /\ wait = "waiting" /\ results = <<>> /\ exit = None
  BY EvidenceConstants DEF Evidence!Init
<1>2. results \in Seq(Row) /\ Len(results) = 0 /\ Len(selected) \in Nat /\ exit # 0
  BY <1>1, EvidenceConstants
<1> QED  BY <1>1, <1>2 DEF EvidenceInv

\* Of the child's own steps, none leaves it without the lines it has printed.
LEMMA ChildStep ==
    ASSUME EvidenceInv,
           Evidence!PrintIdentity \/ Evidence!PrintBody \/ Evidence!StartHelper \/ Evidence!ChildEnds
    PROVE  EvidenceInv'
<1>1. /\ UNCHANGED <<program, selected, wait, results, exit>>
      /\ child # None /\ child.code = None
  BY DEF Evidence!PrintIdentity, Evidence!PrintBody, Evidence!StartHelper, Evidence!ChildEnds,
         Evidence!Running
<1>2. child \in Evidence!Child /\ Printed(child) /\ child.truth \in Evidence!Truths
      /\ child.out \in Seq(Evidence!Lines) /\ Len(child.out) \in Nat
  BY <1>1 DEF EvidenceInv, Evidence!Child
<1> DEFINE own == Evidence!identity(child.truth)
<1>3. own \in Seq(Evidence!Lines) /\ Len(own) \in {2, 3}
  BY <1>2, IdentityLines
<1>4. child' \in Evidence!Child /\ Printed(child')
  <2>1. CASE Evidence!PrintIdentity
    <3>1. child' = [child EXCEPT !.out = own]
      BY <2>1 DEF Evidence!PrintIdentity
    <3>2. child' \in Evidence!Child /\ child'.out = own /\ child'.truth = child.truth
      BY <1>2, <1>3, <3>1 DEF Evidence!Child
    <3> HIDE DEF own
    <3>3. Len(own) >= Len(own) /\ ~(Len(own) > Len(own))
      BY <1>3
    <3> QED  BY <3>2, <3>3 DEF Printed, own
  <2>2. CASE Evidence!PrintBody
    <3>1. PICK line \in IF Len(child.out) = Len(own) THEN {Evidence!OwnLine}
                                                     ELSE Evidence!BodyLines :
             child' = [child EXCEPT !.out = Append(@, line)]
      BY <2>2 DEF Evidence!PrintBody
    <3>2. line \in Evidence!Lines /\ (Len(child.out) = Len(own) => line.key = "input")
      BY <3>1, KeysAre DEF Evidence!OwnLine, Evidence!BodyLines, Evidence!Files, Evidence!Lines
    <3>2a. Append(child.out, line) \in Seq(Evidence!Lines)
      BY <1>2, <3>2
    <3>2b. child' = [child EXCEPT !.out = Append(child.out, line)]
      BY <3>1
    <3>3. child' \in Evidence!Child /\ child'.out = Append(child.out, line) /\ child'.truth = child.truth
      BY <1>2, <3>2a, <3>2b DEF Evidence!Child
    <3>4. child.out # <<>>
      BY <2>2 DEF Evidence!PrintBody
    <3>5. /\ Len(child.out) >= Len(own)
          /\ \A i \in 1 .. Len(own) : child.out[i] = own[i]
          /\ Len(child.out) > Len(own) => child.out[Len(own) + 1].key = "input"
      BY <1>2, <3>4 DEF Printed
    <3> HIDE DEF own
    <3>6. /\ Len(Append(child.out, line)) = Len(child.out) + 1
          /\ \A i \in 1 .. Len(child.out) : Append(child.out, line)[i] = child.out[i]
          /\ Append(child.out, line)[Len(child.out) + 1] = line
      BY <1>2, <3>2
    <3>7. /\ Len(child'.out) >= Len(own)
          /\ \A i \in 1 .. Len(own) : child'.out[i] = own[i]
          /\ Len(child'.out) > Len(own) => child'.out[Len(own) + 1].key = "input"
      BY <1>2, <1>3, <3>2, <3>3, <3>5, <3>6
    <3> QED  BY <3>3, <3>7 DEF Printed, own
  <2>3. CASE Evidence!StartHelper
    <3>1. child' = [child EXCEPT !.helper = TRUE]
      BY <2>3 DEF Evidence!StartHelper
    <3>2. child' \in Evidence!Child /\ child'.out = child.out /\ child'.truth = child.truth
      BY <1>2, <3>1 DEF Evidence!Child
    <3> QED  BY <1>2, <3>2 DEF Printed
  <2>4. CASE Evidence!ChildEnds
    <3>1. PICK code \in Codes : child' = [child EXCEPT !.code = code]
      BY <2>4 DEF Evidence!ChildEnds
    <3>2. child' \in Evidence!Child /\ child'.out = child.out /\ child'.truth = child.truth
      BY <1>2, <3>1 DEF Evidence!Child
    <3> QED  BY <1>2, <3>2 DEF Printed
  <2> QED  BY <2>1, <2>2, <2>3, <2>4
<1>5. child' # None
  BY <1>4, EvidenceConstants
<1>6. wait # "killed"
  BY <1>1 DEF EvidenceInv
<1> QED  BY <1>1, <1>4, <1>5, <1>6 DEF EvidenceInv

\* The record of a child that has ended: what counts is sound, and a killed
\* group left nothing.
LEMMA RecordStep == EvidenceInv /\ Evidence!Record => EvidenceInv'
<1> SUFFICES ASSUME EvidenceInv, Evidence!Record PROVE EvidenceInv'
  OBVIOUS
<1> DEFINE row == [outcome |-> Evidence!classify(child.code, wait = "killed"),
                   valid |-> Evidence!ValidEvidence(child.out),
                   sound |-> Evidence!Sound(child.truth), leftover |-> child.helper]
<1>1. /\ wait \in {"returned", "killed"} /\ child.code # None
      /\ results' = Append(results, row) /\ child' = None /\ wait' = "waiting"
      /\ UNCHANGED <<program, selected, report, exit>>
  BY DEF Evidence!Record
<1>2. child # None /\ child \in Evidence!Child /\ Printed(child)
      /\ program \in {"risk", "upstream"} /\ Len(results) < Len(selected) /\ exit = None
  BY <1>1 DEF EvidenceInv
<1>3. child.code \in Int /\ child.helper \in BOOLEAN
  <2>1. child.code \in Codes \cup {None, -9} /\ child.helper \in BOOLEAN
    BY <1>2 DEF Evidence!Child
  <2>2. child.code \in Codes \/ child.code = -9
    BY <1>1, <2>1
  <2>2a. -9 \in Int
    OBVIOUS
  <2>3. child.code \in Int
    BY <2>2, <2>2a, EvidenceConstants
  <2> QED  BY <2>1, <2>3
<1>4. Evidence!classify(child.code, wait = "killed") \in
          {"timeout", "signal", "returned", "cv_exception", "usage_error", "exit"}
  <2>1. DOMAIN Evidence!Names = {0, 10, 64}
        /\ \A c \in {0, 10, 64} : Evidence!Names[c] \in {"returned", "cv_exception", "usage_error"}
    BY DEF Evidence!Names
  <2> QED  BY <1>3, <2>1 DEF Evidence!classify
<1>5. Evidence!ValidEvidence(child.out) \in BOOLEAN /\ Evidence!Sound(child.truth) \in BOOLEAN
  BY DEF Evidence!ValidEvidence, Evidence!Sound
<1>6. row \in Row
  BY <1>3, <1>4, <1>5 DEF Row
<1>7. row.valid => row.sound
  BY <1>2, ValidIsSound
<1>8. row.outcome = "timeout" => ~row.leftover
  <2>1. DOMAIN Evidence!Names = {0, 10, 64}
        /\ \A c \in {0, 10, 64} : Evidence!Names[c] # "timeout"
    BY DEF Evidence!Names
  <2>2. row.outcome = "timeout" => wait = "killed"
    BY <2>1 DEF Evidence!classify
  <2> QED  BY <2>2 DEF EvidenceInv
<1> HIDE DEF row
<1>9. results \in Seq(Row) /\ Len(results) \in Nat /\ Len(selected) \in Nat
  BY DEF EvidenceInv
<1>10. /\ results' \in Seq(Row) /\ Len(results') = Len(results) + 1
       /\ \A i \in 1 .. Len(results) : results'[i] = results[i]
       /\ results'[Len(results) + 1] = row
  BY <1>1, <1>6, <1>9
<1>11. \A i \in 1 .. Len(results') : i \in 1 .. Len(results) \/ i = Len(results) + 1
  BY <1>9, <1>10
<1>12. \A i \in 1 .. Len(results') : /\ results'[i].valid => results'[i].sound
                                     /\ results'[i].outcome = "timeout" => ~results'[i].leftover
  BY <1>7, <1>8, <1>10, <1>11 DEF EvidenceInv
<1>13. Len(results') <= Len(selected) /\ exit # 0
  BY <1>2, <1>9, <1>10, EvidenceConstants
<1> QED  BY <1>1, <1>10, <1>12, <1>13 DEF EvidenceInv

LEMMA RunnerStep == EvidenceInv /\ Evidence!Runner => EvidenceInv'
<1> SUFFICES ASSUME EvidenceInv, Evidence!Runner PROVE EvidenceInv'
  OBVIOUS
<1>1. CASE Evidence!Popen
  <2>1. PICK truth \in Evidence!Truths :
           child' = [truth |-> truth, out |-> <<>>, code |-> None, helper |-> FALSE]
    BY <1>1 DEF Evidence!Popen
  <2>2. child' \in Evidence!Child /\ Printed(child') /\ child' # None
    <3>1. <<>> \in Seq(Evidence!Lines)
      OBVIOUS
    <3>2. child' \in Evidence!Child /\ child'.out = <<>>
      BY <2>1, <3>1 DEF Evidence!Child
    <3> QED  BY <3>2, EvidenceConstants DEF Printed
  <2>3. wait = "waiting"
    BY <1>1 DEF EvidenceInv, Evidence!Popen, Evidence!MoreCases
  <2> QED  BY <1>1, <2>2, <2>3 DEF EvidenceInv, Evidence!Popen, Evidence!MoreCases
<1>2. CASE Evidence!BadItem
  BY <1>2 DEF EvidenceInv, Evidence!BadItem, Evidence!MoreCases
<1>3. CASE Evidence!WaitReturns \/ Evidence!TimeoutExpires
  BY <1>3 DEF EvidenceInv, Evidence!WaitReturns, Evidence!TimeoutExpires, Evidence!Running
<1>4. CASE Evidence!KillGroup
  <2>1. child \in Evidence!Child /\ child # None /\ Printed(child)
    BY <1>4 DEF EvidenceInv, Evidence!KillGroup
  <2>2. child' = [child EXCEPT !.code = IF @ = None THEN -9 ELSE @, !.helper = FALSE]
    BY <1>4 DEF Evidence!KillGroup, Evidence!Killed
  <2>3. /\ child' \in Evidence!Child /\ child'.out = child.out /\ child'.truth = child.truth
        /\ child'.code # None /\ ~child'.helper
    BY <2>1, <2>2, EvidenceConstants DEF Evidence!Child
  <2>4. child' # None /\ Printed(child')
    BY <2>1, <2>3, EvidenceConstants DEF Printed
  <2> QED  BY <1>4, <2>1, <2>3, <2>4 DEF EvidenceInv, Evidence!KillGroup
<1>5. CASE Evidence!Record
  BY <1>5, RecordStep
<1>6. CASE Evidence!Finish
  <2>1. /\ child = None /\ Len(results) = Len(selected) /\ exit' = Evidence!ExitCode(results)
        /\ UNCHANGED <<program, selected, child, wait, results>>
    BY <1>6 DEF Evidence!Finish
  <2>2. DOMAIN results = 1 .. Len(results)
    BY DEF EvidenceInv
  <2>3. exit' \in {0, 2} /\ (exit' = 0 => \A i \in 1 .. Len(results) : results[i].valid)
    BY <2>1, <2>2 DEF Evidence!ExitCode
  <2> QED  BY <2>1, <2>3 DEF EvidenceInv
<1> QED  BY <1>1, <1>2, <1>3, <1>4, <1>5, <1>6 DEF Evidence!Runner

(* The evidence runners by themselves.                                       *)
LEMMA EvidenceStaysSound ==
    Evidence!Init /\ [][Evidence!Next]_(Evidence!vars) => []Evidence!EvidenceSound
<1>1. EvidenceInv /\ [Evidence!Next]_Evidence!vars => EvidenceInv'
  <2>1. EvidenceInv /\ UNCHANGED Evidence!vars => EvidenceInv'
    BY DEF EvidenceInv, Evidence!vars
  <2> QED  BY <2>1, RunnerStep, ChildStep DEF Evidence!Next
<1>2. Evidence!Init /\ [][Evidence!Next]_(Evidence!vars) => []EvidenceInv
  BY <1>1, EvidenceInitially, PTL
<1> QED  BY <1>2, EvidenceInvSound, PTL

-----------------------------------------------------------------------------
(* The children, the processes killed and the records agree at every moment, *)
(* whatever the jobs and the --jobs option, however the children end, run    *)
(* out of time and give their process ids away, and wherever the consumer    *)
(* gives up (run_jobs).                                                      *)
THEOREM PoolKeeps == PartsSpec => []PoolKeepsChildren
<1> DEFINE Here == part = "pool"
<1>1. PartsInit => (Here => Init)
  BY DEF PartsInit
<1>2. [PartsNext]_partsVars => (Here => [Next]_vars /\ Here') /\ (~ Here => ~ Here')
  BY DEF PartsNext, partsVars, vars
<1>3. Init /\ [][Next]_vars => []PoolSound
  BY PoolStaysSound
<1>4. (Here => PoolSound) => PoolKeepsChildren
  BY DEF PoolKeepsChildren
<1> HIDE DEF Here
<1> QED  BY <1>1, <1>2, <1>3, <1>4, PTL DEF PartsSpec

(* A run of either evidence runner that ends without a complaint rests on    *)
(* the library that was meant in every case, whatever the cases print, and   *)
(* nothing of a case that timed out runs beside the next, whatever ends when *)
(* (run_case, parse_identity, main).                                         *)
THEOREM EvidenceHolds == PartsSpec => []EvidenceSound
<1> DEFINE Here == part = "evidence"
<1>1. PartsInit => (Here => Evidence!Init)
  BY DEF PartsInit
<1>2. [PartsNext]_partsVars => /\ Here => [Evidence!Next]_(Evidence!vars) /\ Here'
                               /\ ~ Here => ~ Here'
  BY DEF PartsNext, partsVars, evidenceVars, Evidence!vars
<1>3. Evidence!Init /\ [][Evidence!Next]_(Evidence!vars) => []Evidence!EvidenceSound
  BY EvidenceStaysSound
<1>4. (Here => Evidence!EvidenceSound) => EvidenceSound
  BY DEF EvidenceSound
<1> HIDE DEF Here
<1> QED  BY <1>1, <1>2, <1>3, <1>4, PTL DEF PartsSpec
=============================================================================
