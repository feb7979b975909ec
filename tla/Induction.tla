------------------------------ MODULE Induction ------------------------------
(***************************************************************************)
(* Induction and recursive functions without operator parameters: what is  *)
(* to be proved of all numbers is given as the set of the numbers it is    *)
(* true of, and a recursive function by the functions its body is made of. *)
(* The loops of the models are recursive functions whose argument is the   *)
(* state of the loop: they exist because a bounded measure shrinks.        *)
(***************************************************************************)
EXTENDS Integers, FiniteSetTheorems, WellFoundedInduction, TLAPS

LEMMA SmallestOf ==
  ASSUME NEW T, T \subseteq Nat, T # {}
  PROVE  \E n \in T : \A m \in T : n <= m
<1> DEFINE R == OpToRel(<, Nat)
<1>1. IsWellFoundedOn(R, Nat)
  BY NatLessThanWellFounded
<1>2. \A x, y \in Nat : <<y, x>> \in R <=> y < x
  BY DEF OpToRel
<1> HIDE DEF R
<1>3. PICK n \in T : \A m \in T : ~(<<m, n>> \in R)
  BY <1>1, WFMin
<1>4. ASSUME NEW m \in T PROVE n <= m
  <2>1. n \in Nat /\ m \in Nat OBVIOUS
  <2>2. ~(m < n)
    BY <1>2, <1>3, <2>1
  <2> QED BY <2>1, <2>2
<1> QED BY <1>4

LEMMA SetInduction ==
  ASSUME NEW T, 0 \in T, \A n \in Nat : n \in T => n + 1 \in T
  PROVE  Nat \subseteq T
<1> SUFFICES ASSUME ~(Nat \subseteq T) PROVE FALSE OBVIOUS
<1> DEFINE Out == Nat \ T
<1>1. Out \subseteq Nat /\ Out # {} OBVIOUS
<1> HIDE DEF Out
<1>2. PICK n \in Out : \A m \in Out : n <= m
  BY <1>1, SmallestOf
<1>3. n \in Nat /\ n # 0 /\ n \notin T
  BY <1>2 DEF Out
<1>4. n - 1 \in Nat /\ n - 1 + 1 = n
  BY <1>3
<1>5. n - 1 \notin Out
  BY <1>2, <1>4
<1> QED BY <1>3, <1>4, <1>5 DEF Out

\* From a to b, upwards.
LEMMA IntervalInduction ==
  ASSUME NEW a \in Int, NEW b \in Int, NEW T, a \in T,
         \A n \in a .. b - 1 : n \in T => n + 1 \in T
  PROVE  \A n \in a .. b : n \in T
<1> DEFINE U == {k \in Nat : a + k <= b => a + k \in T}
<1>1. 0 \in U OBVIOUS
<1>2. ASSUME NEW k \in Nat, k \in U PROVE k + 1 \in U
  <2> SUFFICES ASSUME a + (k + 1) <= b PROVE a + (k + 1) \in T OBVIOUS
  <2>1. a + k \in a .. b - 1 /\ a + k \in T
    BY <1>2
  <2>2. a + k + 1 \in T
    BY <2>1
  <2> QED BY <2>2
<1> HIDE DEF U
<1>3. Nat \subseteq U
  BY <1>1, <1>2, SetInduction
<1>4. ASSUME NEW n \in a .. b PROVE n \in T
  <2>1. n - a \in Nat /\ a + (n - a) = n /\ n <= b OBVIOUS
  <2>2. n - a \in U
    BY <1>3, <2>1
  <2> QED BY <2>1, <2>2 DEF U
<1> QED BY <1>4

LEMMA UpwardInduction ==
  ASSUME NEW N \in Nat, NEW T, 0 \in T, \A n \in 0 .. N - 1 : n \in T => n + 1 \in T
  PROVE  \A n \in 0 .. N : n \in T
<1>1. 0 \in Int /\ N \in Int OBVIOUS
<1> QED BY <1>1, IntervalInduction

\* A bounded set of numbers has a greatest element.
LEMMA GreatestOf ==
  ASSUME NEW k \in Nat, NEW T, T \subseteq 0 .. k, T # {}
  PROVE  \E n \in T : \A m \in T : n >= m
<1> DEFINE U == {j \in Nat : k - j \in T}
<1>1. U # {}
  <2>1. PICK n \in T : TRUE OBVIOUS
  <2>2. k - n \in Nat /\ k - (k - n) = n
    BY <2>1
  <2> QED BY <2>1, <2>2
<1>2. U \subseteq Nat OBVIOUS
<1>3. \A m \in T : m \in Nat /\ k - m \in U
  OBVIOUS
<1>4. \A j \in U : j \in Nat /\ k - j \in T
  OBVIOUS
<1> HIDE DEF U
<1>5. PICK j \in U : \A i \in U : j <= i
  BY <1>1, <1>2, SmallestOf
<1>6. \A m \in T : k - j >= m
  BY <1>3, <1>4, <1>5
<1> QED BY <1>4, <1>5, <1>6

IsLoop(f, D, stop, out, next) ==
  f = [x \in D |-> IF x \in stop THEN out[x] ELSE f[next[x]]]

\* A loop: stop are the states it stops in, out what it returns there, next what
\* its body does to the others.
LEMMA LoopExists ==
  ASSUME NEW D, NEW N \in Nat, NEW m \in [D -> 0 .. N],
         NEW stop, NEW out, NEW next,
         \A x \in D \ stop : next[x] \in D /\ m[next[x]] < m[x]
  PROVE  \E f : IsLoop(f, D, stop, out, next)
<1> DEFINE Body(f, x) == IF x \in stop THEN out[x] ELSE f[next[x]]
           T == {n \in Nat : \E f : \A x \in D : m[x] < n => f[x] = Body(f, x)}
<1>1. 0 \in T
  BY \A x \in D : ~(m[x] < 0)
<1>2. ASSUME NEW n \in Nat, n \in T PROVE n + 1 \in T
  <2>1. PICK f : \A x \in D : m[x] < n => f[x] = Body(f, x)
    BY <1>2
  <2> DEFINE g == [x \in D |-> IF m[x] < n THEN f[x] ELSE Body(f, x)]
  <2>2. ASSUME NEW x \in D, m[x] < n + 1 PROVE g[x] = Body(g, x)
    <3>1. CASE x \in stop
      BY <2>1, <3>1
    <3>2. CASE x \notin stop
      <4>1. next[x] \in D /\ m[next[x]] < n
        <5>1. next[x] \in D /\ m[next[x]] < m[x]
          BY <3>2
        <5>2. m[x] \in Nat /\ m[next[x]] \in Nat
          BY <5>1
        <5> QED BY <2>2, <5>1, <5>2
      <4>2. g[next[x]] = f[next[x]]
        BY <4>1
      <4>3. g[x] = f[next[x]]
        BY <2>1, <3>2
      <4> QED BY <3>2, <4>2, <4>3
    <3> QED BY <3>1, <3>2
  <2> HIDE DEF g
  <2>3. \E h : \A x \in D : m[x] < n + 1 => h[x] = Body(h, x)
    BY <2>2
  <2> QED BY <2>3
<1> HIDE DEF T
<1>3. N + 1 \in T
  BY <1>1, <1>2, SetInduction
<1>4. PICK f : \A x \in D : m[x] < N + 1 => f[x] = Body(f, x)
  BY <1>3 DEF T
<1>5. \A x \in D : f[x] = Body(f, x)
  BY <1>4
<1> DEFINE g == [x \in D |-> f[x]]
<1>6. \A x \in D : g[x] = Body(g, x)
  BY <1>5
<1>7. g = [x \in D |-> Body(g, x)]
  BY <1>6
<1>8. IsLoop(g, D, stop, out, next)
  BY <1>7 DEF IsLoop
<1> QED BY <1>8

IsFold(f, N, S, base, step) ==
  /\ f \in [0 .. N -> S]
  /\ f[0] = base
  /\ \A n \in 1 .. N : f[n] = step[<<f[n - 1], n>>]

\* A fold over 1 .. N.
LEMMA FoldExists ==
  ASSUME NEW N \in Nat, NEW S, NEW base \in S, NEW step \in [S \X (1 .. N) -> S]
  PROVE  \E f : IsFold(f, N, S, base, step)
<1> DEFINE Fold(f, k) == IsFold(f, k, S, base, step)
           T == {k \in Nat : \E f : Fold(f, k)}
<1>1. 0 \in T
  <2>1. Fold([n \in 0 .. 0 |-> base], 0)
    BY DEF IsFold
  <2> HIDE DEF Fold
  <2> QED BY <2>1
<1>2. ASSUME NEW k \in 0 .. N - 1, k \in T PROVE k + 1 \in T
  <2>1. PICK f : Fold(f, k)
    BY <1>2
  <2> USE DEF IsFold
  <2> DEFINE g == [n \in 0 .. k + 1 |-> IF n <= k THEN f[n] ELSE step[<<f[k], k + 1>>]]
  <2>2. g \in [0 .. k + 1 -> S]
    <3>1. f[k] \in S /\ k + 1 \in 1 .. N
      BY <2>1
    <3>2. step[<<f[k], k + 1>>] \in S
      BY <3>1
    <3>3. \A n \in 0 .. k + 1 : n <= k => n \in 0 .. k
      OBVIOUS
    <3> QED BY <2>1, <3>2, <3>3
  <2>3. g[0] = base
    BY <2>1
  <2>4. ASSUME NEW n \in 1 .. k + 1 PROVE g[n] = step[<<g[n - 1], n>>]
    <3>1. n - 1 \in 0 .. k /\ g[n - 1] = f[n - 1]
      OBVIOUS
    <3>2. CASE n <= k
      <4>1. n \in 1 .. k /\ g[n] = f[n]
        BY <3>2
      <4> QED BY <2>1, <3>1, <4>1
    <3>3. CASE ~(n <= k)
      <4>1. n = k + 1 /\ n - 1 = k
        BY <3>3
      <4> QED BY <3>1, <3>3, <4>1
    <3> QED BY <3>2, <3>3
  <2>5. Fold(g, k + 1)
    BY <2>2, <2>3, <2>4
  <2> HIDE DEF Fold, g
  <2> QED BY <2>5
<1> HIDE DEF T
<1>3. N \in T
  BY <1>1, <1>2, IntervalInduction
<1> QED BY <1>3 DEF T

CountTo(E, p) == Cardinality({i \in E : i <= p})

\* The elements of a set of numbers up to a number are one more with each number
\* of the set that is passed.
LEMMA CountUpTo ==
  ASSUME NEW k \in Nat, NEW E, E \subseteq 1 .. k, NEW p \in 0 .. k
  PROVE  /\ CountTo(E, p) \in Nat
         /\ CountTo(E, 0) = 0
         /\ p < k /\ p + 1 \in E => CountTo(E, p + 1) = CountTo(E, p) + 1
         /\ p < k /\ p + 1 \notin E => CountTo(E, p + 1) = CountTo(E, p)
         /\ \A q \in 0 .. k : p < q /\ q \in E => CountTo(E, p) < CountTo(E, q)
<1> DEFINE Upto(q) == {i \in E : i <= q}
<1>1. \A i \in E : i \in Int /\ i >= 1 /\ i <= k
  OBVIOUS
<1>2. IsFiniteSet(E)
  BY FS_Interval, FS_Subset, 1 \in Int, k \in Int
<1>3. ASSUME NEW q PROVE IsFiniteSet(Upto(q)) /\ Cardinality(Upto(q)) \in Nat
  <2>1. Upto(q) \in SUBSET E OBVIOUS
  <2> QED BY ONLY <1>2, <2>1, FS_Subset, FS_CardinalityType
<1>4. Cardinality(Upto(0)) = 0
  <2>1. \A i \in E : ~(i <= 0)
    BY <1>1
  <2>2. Upto(0) = {}
    BY <2>1, Zenon
  <2> QED BY <2>2, FS_EmptySet
<1>5. ASSUME p < k
      PROVE  Cardinality(Upto(p + 1)) = IF p + 1 \in E THEN Cardinality(Upto(p)) + 1
                                        ELSE Cardinality(Upto(p))
  <2>1. \A i \in E : i <= p + 1 <=> i <= p \/ i = p + 1
    BY <1>1
  <2>2. ~(p + 1 <= p) OBVIOUS
  <2>3. CASE p + 1 \in E
    <3>1. Upto(p + 1) = Upto(p) \cup {p + 1} /\ p + 1 \notin Upto(p)
      BY <2>1, <2>2, <2>3, Zenon
    <3>2. Cardinality(Upto(p) \cup {p + 1}) = Cardinality(Upto(p)) + 1
      BY ONLY <1>3, <3>1, FS_AddElement
    <3> QED BY <2>3, <3>1, <3>2
  <2>4. CASE p + 1 \notin E
    <3>1. Upto(p + 1) = Upto(p)
      BY <2>1, <2>4, Zenon
    <3> QED BY <2>4, <3>1
  <2> QED BY <2>3, <2>4
<1>6. ASSUME NEW q \in 0 .. k, p < q, q \in E
      PROVE  Cardinality(Upto(p)) < Cardinality(Upto(q))
  <2>1. q <= q /\ ~(q <= p) /\ \A i \in E : i <= p => i <= q
    BY <1>1, <1>6
  <2>2. Upto(p) \subseteq Upto(q) /\ q \in Upto(q) /\ q \notin Upto(p)
    BY <1>6, <2>1, Zenon
  <2>3. /\ Cardinality(Upto(p)) <= Cardinality(Upto(q))
        /\ Cardinality(Upto(p)) = Cardinality(Upto(q)) => Upto(p) = Upto(q)
    BY ONLY <1>3, <2>2, FS_Subset
  <2>4. Upto(p) # Upto(q)
    BY <2>2
  <2>5. Cardinality(Upto(p)) \in Nat /\ Cardinality(Upto(q)) \in Nat
    BY <1>3
  <2> HIDE DEF Upto
  <2> QED BY <2>3, <2>4, <2>5
<1>7. Cardinality(Upto(p)) \in Nat
  BY <1>3
<1> QED BY <1>4, <1>5, <1>6, <1>7 DEF CountTo
=============================================================================
