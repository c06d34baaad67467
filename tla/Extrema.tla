------------------------------ MODULE Extrema ------------------------------
(***************************************************************************)
(* The least and the greatest of sets of integers, for the proofs about    *)
(* code that takes a minimum, a maximum, the newest row or the next        *)
(* number.  That a set of naturals has a least element is also the form of *)
(* induction the proofs use: a set of counterexamples has none.            *)
(***************************************************************************)
EXTENDS Integers, Sequences, FiniteSetsExt, WellFoundedInduction, TLAPS

\* A set of naturals has a least element.
LEMMA LeastNatural ==
    ASSUME NEW S \in SUBSET Nat, S # {}
    PROVE  \E x \in S : \A y \in S : x <= y
<1> DEFINE Less == {ss \in Nat \X Nat : ss[1] < ss[2]}
<1>1. OpToRel(<, Nat) = Less
  BY DEF OpToRel
<1>2. IsWellFoundedOn(Less, Nat)
  BY <1>1, NatLessThanWellFounded
<1>3. PICK x \in S : \A y \in S : <<y, x>> \notin Less
  BY <1>2, WFMin
<1>4. ASSUME NEW y \in S
      PROVE  x <= y
  <2>1. x \in Nat /\ y \in Nat /\ <<y, x>> \in Nat \X Nat
    OBVIOUS
  <2>2. y < x => <<y, x>> \in Less
    BY <2>1
  <2> QED BY <1>3, <2>1, <2>2
<1> QED BY <1>4

\* A set of integers has a least element if it has a lower bound.
LEMMA LeastInteger ==
    ASSUME NEW S \in SUBSET Int, S # {}, NEW low \in Int, \A y \in S : low <= y
    PROVE  \E x \in S : \A y \in S : x <= y
<1> DEFINE T == {n \in Nat : \E y \in S : n = y - low}
<1>1. T \in SUBSET Nat /\ T # {}
  <2>1. PICK y \in S : TRUE
    OBVIOUS
  <2>2. y - low \in Nat
    OBVIOUS
  <2> QED BY <2>2
<1> HIDE DEF T
<1>2. PICK n \in T : \A m \in T : n <= m
  BY <1>1, LeastNatural
<1>3. PICK x \in S : n = x - low
  BY <1>2 DEF T
<1>4. \A y \in S : y - low \in T
  BY DEF T
<1>5. \A y \in S : x <= y
  BY <1>2, <1>3, <1>4
<1> QED BY <1>5

\* A set of integers has a greatest element if it has an upper bound.
LEMMA GreatestInteger ==
    ASSUME NEW S \in SUBSET Int, S # {}, NEW high \in Int, \A y \in S : y <= high
    PROVE  \E x \in S : \A y \in S : y <= x
<1> DEFINE T == {n \in Nat : \E y \in S : n = high - y}
<1>1. T \in SUBSET Nat /\ T # {}
  <2>1. PICK y \in S : TRUE
    OBVIOUS
  <2>2. high - y \in Nat
    OBVIOUS
  <2> QED BY <2>2
<1> HIDE DEF T
<1>2. PICK n \in T : \A m \in T : n <= m
  BY <1>1, LeastNatural
<1>3. PICK x \in S : n = high - x
  BY <1>2 DEF T
<1>4. \A y \in S : high - y \in T
  BY DEF T
<1>5. \A y \in S : y <= x
  BY <1>2, <1>3, <1>4
<1> QED BY <1>5

\* What Min is of a set with a lower bound.
LEMMA MinOf ==
    ASSUME NEW S \in SUBSET Int, S # {}, NEW low \in Int, \A y \in S : low <= y
    PROVE  Min(S) \in S /\ \A y \in S : Min(S) <= y
BY LeastInteger DEF Min

\* What Max is of a set with an upper bound.
LEMMA MaxOf ==
    ASSUME NEW S \in SUBSET Int, S # {}, NEW high \in Int, \A y \in S : y <= high
    PROVE  Max(S) \in S /\ \A y \in S : Max(S) >= y
<1>1. PICK x \in S : \A y \in S : y <= x
  BY GreatestInteger
<1>2. \A y \in S : x >= y
  BY <1>1
<1> QED BY <1>2 DEF Max

\* Finitely many integers have an upper bound.
LEMMA BoundedAbove ==
    ASSUME NEW n \in Nat, NEW f, \A k \in 1..n : f[k] \in Int
    PROVE  \E high \in Int : \A k \in 1..n : f[k] <= high
<1> DEFINE Bounded(m) == \E high \in Int : \A k \in 1..m : f[k] <= high
           Unbounded == {m \in Nat : m <= n /\ ~ Bounded(m)}
<1>1. Bounded(0)
  OBVIOUS
<1>2. ASSUME NEW m \in 1..n, Bounded(m - 1)
      PROVE  Bounded(m)
  <2>1. PICK high \in Int : \A k \in 1..m - 1 : f[k] <= high
    BY <1>2
  <2> DEFINE higher == IF f[m] <= high THEN high ELSE f[m]
  <2>2. f[m] \in Int /\ \A k \in 1..m : f[k] \in Int /\ (k = m \/ k \in 1..m - 1)
    OBVIOUS
  <2>3. higher \in Int /\ \A k \in 1..m : f[k] <= higher
    BY <2>1, <2>2
  <2> QED BY <2>3
<1> HIDE DEF Bounded
<1>3. Unbounded = {}
  <2> SUFFICES ASSUME Unbounded # {} PROVE FALSE
    OBVIOUS
  <2>1. PICK m \in Unbounded : \A k \in Unbounded : m <= k
    BY LeastNatural
  <2>2. m \in 1..n /\ m - 1 \in Nat /\ ~ (m <= m - 1) /\ m - 1 <= n
    BY <1>1
  <2>3. Bounded(m - 1)
    BY <2>1, <2>2
  <2> QED BY <1>2, <2>2, <2>3
<1>4. Bounded(n)
  BY <1>3
<1> QED BY <1>4 DEF Bounded

\* The greater of two integers.
LEMMA MaxOfTwo ==
    ASSUME NEW a \in Int, NEW b \in Int
    PROVE  Max({a, b}) = IF a >= b THEN a ELSE b
<1> DEFINE m == IF a >= b THEN a ELSE b
<1>1. {a, b} \in SUBSET Int /\ {a, b} # {} /\ m \in Int /\ \A y \in {a, b} : y <= m
  OBVIOUS
<1>2. Max({a, b}) \in {a, b} /\ \A y \in {a, b} : Max({a, b}) >= y
  BY <1>1, MaxOf
<1> QED BY <1>2

\* The lesser of two integers.
LEMMA MinOfTwo ==
    ASSUME NEW a \in Int, NEW b \in Int
    PROVE  Min({a, b}) = IF a <= b THEN a ELSE b
<1> DEFINE m == IF a <= b THEN a ELSE b
<1>1. {a, b} \in SUBSET Int /\ {a, b} # {} /\ m \in Int /\ \A y \in {a, b} : m <= y
  OBVIOUS
<1>2. Min({a, b}) \in {a, b} /\ \A y \in {a, b} : Min({a, b}) <= y
  BY <1>1, MinOf
<1> QED BY <1>2

\* A finite set has an element where a function to the integers is greatest.
LEMMA GreatestOfFinite ==
    ASSUME NEW S, IsFiniteSet(S), S # {}, NEW f, \A x \in S : f[x] \in Int
    PROVE  \E x \in S : \A y \in S : f[y] <= f[x]
<1>1. PICK s \in Seq(S) : \A x \in S : \E n \in 1..Len(s) : s[n] = x
  BY DEF IsFiniteSet
<1> DEFINE g == [n \in 1..Len(s) |-> f[s[n]]]
           values == {f[x] : x \in S}
<1>2. Len(s) \in Nat /\ \A n \in 1..Len(s) : s[n] \in S
  OBVIOUS
<1>3. \A n \in 1..Len(s) : g[n] \in Int
  BY <1>2
<1>4. PICK high \in Int : \A n \in 1..Len(s) : g[n] <= high
  <2> HIDE DEF g
  <2> QED BY <1>2, <1>3, BoundedAbove
<1>5. values \in SUBSET Int /\ values # {} /\ \A v \in values : v <= high
  <2>1. ASSUME NEW x \in S PROVE f[x] <= high
    <3>1. PICK n \in 1..Len(s) : s[n] = x
      BY <1>1
    <3>2. g[n] = f[x]
      BY <3>1
    <3> QED BY <1>4, <3>2
  <2> QED BY <2>1
<1>6. PICK v \in values : \A w \in values : w <= v
  BY <1>4, <1>5, GreatestInteger
<1>7. PICK x \in S : f[x] = v
  BY <1>6
<1> QED BY <1>6, <1>7
=============================================================================
