-------------------------------- MODULE SumLemmas --------------------------------
(***************************************************************************)
(* What the sum of a function over a finite set is: induction over numbers *)
(* and finite sets in a form that quantifies over sets, not predicates,    *)
(* the recursive definition of the sum, and the laws the models need;      *)
(* repetition of a step.                                                   *)
(***************************************************************************)
EXTENDS Integers, FiniteSets, Functions, FiniteSetTheorems, WellFoundedInduction, TLAPS

-----------------------------------------------------------------------------
(* Induction. *)

LEMMA LeastNumber ==
  ASSUME NEW P \in SUBSET Nat, P # {}
  PROVE  \E n \in P : \A m \in P : n <= m
<1>1. IsWellFoundedOn(OpToRel(<, Nat), Nat)
  BY NatLessThanWellFounded
<1>2. PICK n \in P : \A m \in P : <<m, n>> \notin OpToRel(<, Nat)
  BY <1>1, WFMin
<1>3. \A m \in P : ~(m < n)
  BY <1>2 DEF OpToRel
<1> QED BY <1>3

\* A set that has 0 and with every number its successor has every number.
LEMMA NumberInduction ==
  ASSUME NEW P \in SUBSET Nat, 0 \in P, \A n \in P : n + 1 \in P
  PROVE  P = Nat
<1> SUFFICES ASSUME P # Nat PROVE FALSE
  OBVIOUS
<1>1. Nat \ P # {} /\ Nat \ P \in SUBSET Nat
  OBVIOUS
<1>2. PICK n \in Nat \ P : \A m \in Nat \ P : n <= m
  BY <1>1, LeastNumber
<1>3. n # 0 /\ n - 1 \in Nat
  BY <1>2
<1>4. n - 1 \in P
  BY <1>2, <1>3
<1>5. (n - 1) + 1 = n
  BY <1>2
<1> QED BY <1>2, <1>4, <1>5

\* A family that has every set whose proper subsets it has.
LEMMA SubsetInduction ==
  ASSUME NEW S, IsFiniteSet(S), NEW P \in SUBSET SUBSET S,
         \A T \in SUBSET S : (\A U \in SUBSET T : U # T => U \in P) => T \in P
  PROVE  SUBSET S = P
<1> SUFFICES ASSUME (SUBSET S) \ P # {} PROVE FALSE
  OBVIOUS
<1> DEFINE Bad == (SUBSET S) \ P
           Sizes == {n \in Nat : \E T \in Bad : Cardinality(T) = n}
<1>1. \A T \in SUBSET S : IsFiniteSet(T) /\ Cardinality(T) \in Nat
  BY FS_Subset, FS_CardinalityType
<1>2. Sizes # {} /\ Sizes \in SUBSET Nat
  BY <1>1
<1>3. PICK n \in Sizes : \A m \in Sizes : n <= m
  BY <1>2, LeastNumber
<1>4. PICK T \in Bad : Cardinality(T) = n
  BY <1>3
<1>5. ASSUME NEW U \in SUBSET T, U # T
      PROVE  U \in P
  <2>1. Cardinality(U) < Cardinality(T)
    <3>1. Cardinality(U) <= Cardinality(T) /\ (Cardinality(T) = Cardinality(U) => T = U)
      BY <1>1, FS_Subset
    <3> QED BY <3>1, <1>1, <1>5
  <2>2. U \in SUBSET S
    OBVIOUS
  <2>3. U \in Bad => Cardinality(U) \in Sizes
    BY <1>1, <2>2
  <2> QED BY <1>1, <1>3, <1>4, <2>1, <2>2, <2>3
<1> QED BY <1>4, <1>5

\* A family that has {} and with every set the set and one element more.
LEMMA ElementInduction ==
  ASSUME NEW S, IsFiniteSet(S), NEW P \in SUBSET SUBSET S, {} \in P,
         \A T \in P : \A x \in S \ T : T \cup {x} \in P
  PROVE  SUBSET S = P
<1>1. ASSUME NEW T \in SUBSET S, \A U \in SUBSET T : U # T => U \in P
      PROVE  T \in P
  <2>1. CASE T = {}
    BY <2>1
  <2>2. CASE T # {}
    <3>1. PICK x \in T : TRUE
      BY <2>2
    <3>2. T \ {x} \in P
      BY <1>1, <3>1
    <3>3. (T \ {x}) \cup {x} \in P
      BY <3>2, <3>1
    <3> QED BY <3>3, <3>1
  <2> QED BY <2>1, <2>2
<1> QED BY <1>1, SubsetInduction

\* A finite set of numbers has a largest one.
LEMMA LargestNumber ==
  ASSUME NEW S \in SUBSET Nat, IsFiniteSet(S), S # {}
  PROVE  \E m \in S : \A n \in S : m >= n
<1> DEFINE Topped(T) == T = {} \/ \E m \in T : \A n \in T : m >= n
           P == {T \in SUBSET S : Topped(T)}
<1>1. {} \in P
  OBVIOUS
<1>2. ASSUME NEW T \in P, NEW x \in S \ T PROVE T \cup {x} \in P
  <2>1. CASE T = {}
    BY <2>1
  <2>2. CASE T # {}
    <3>1. PICK m \in T : \A n \in T : m >= n
      BY <2>2
    <3>2. CASE m >= x
      BY <3>1, <3>2
    <3>3. CASE ~(m >= x)
      <4>1. x >= x /\ \A n \in T : x >= n
        BY <3>1, <3>3
      <4> QED BY <4>1
    <3> QED BY <3>2, <3>3
  <2> QED BY <2>1, <2>2
<1>3. P \in SUBSET SUBSET S /\ \A T \in P : \A x \in S \ T : T \cup {x} \in P
  BY <1>2
<1>4. SUBSET S = P
  <2> HIDE DEF P
  <2> QED BY <1>1, <1>3, ElementInduction
<1> QED BY <1>4

\* A step can be repeated from any start.
LEMMA IterationExists ==
  ASSUME NEW A, NEW s, s \in A, NEW step, step \in [A -> A]
  PROVE  \E h : h \in [Nat -> A] /\ h[0] = s /\ \A n \in Nat : h[n + 1] = step[h[n]]
<1> DEFINE Pre(f, n) == f \in [0 .. n -> A] /\ f[0] = s /\ \A k \in 0 .. n : k + 1 <= n => f[k + 1] = step[f[k]]
           P == {n \in Nat : \E f : Pre(f, n)}
<1>1. 0 \in P
  <2>1. PICK f : f = [k \in 0 .. 0 |-> s]
    OBVIOUS
  <2>2. Pre(f, 0)
    BY <2>1
  <2> QED BY <2>2
<1>2. ASSUME NEW n \in P PROVE n + 1 \in P
  <2>1. PICK f : Pre(f, n)
    OBVIOUS
  <2>2. n \in Nat /\ f[n] \in A
    BY <2>1
  <2>3. PICK g : g = [k \in 0 .. (n + 1) |-> IF k <= n THEN f[k] ELSE step[f[n]]]
    OBVIOUS
  <2>4. \A k \in 0 .. (n + 1) : g[k] \in A
    <3>1. ASSUME NEW k \in 0 .. (n + 1) PROVE g[k] \in A
      <4>1. CASE k <= n
        <5>1. k \in 0 .. n
          BY <2>2, <4>1
        <5> QED BY <2>1, <2>3, <4>1, <5>1
      <4>2. CASE ~(k <= n)
        BY <2>2, <2>3, <4>2
      <4> QED BY <4>1, <4>2
    <3> QED BY <3>1
  <2>5. g \in [0 .. (n + 1) -> A] /\ g[0] = s
    BY <2>1, <2>2, <2>3, <2>4
  <2>6. ASSUME NEW k \in 0 .. (n + 1), k + 1 <= n + 1 PROVE g[k + 1] = step[g[k]]
    <3>1. k \in 0 .. n /\ g[k] = f[k] /\ k + 1 \in 0 .. (n + 1)
      BY <2>2, <2>3, <2>6
    <3>2. CASE k + 1 <= n
      BY <2>1, <2>3, <3>1, <3>2
    <3>3. CASE ~(k + 1 <= n)
      <4>1. k = n
        BY <2>2, <3>1, <3>3
      <4> QED BY <2>3, <3>1, <3>3, <4>1
    <3> QED BY <3>2, <3>3
  <2>7. Pre(g, n + 1)
    BY <2>5, <2>6
  <2> QED BY <2>2, <2>7
<1>3. P = Nat
  <2>1. P \in SUBSET Nat /\ \A n \in P : n + 1 \in P
    BY <1>2
  <2> HIDE DEF P
  <2> QED BY <1>1, <2>1, NumberInduction
<1>4. ASSUME NEW n \in Nat, NEW m \in Nat, NEW f, NEW g, Pre(f, n), Pre(g, m)
      PROVE  \A k \in Nat : k <= n /\ k <= m => f[k] = g[k]
  <2> DEFINE Q == {k \in Nat : k <= n /\ k <= m => f[k] = g[k]}
  <2>1. 0 \in Q
    BY <1>4
  <2>2. ASSUME NEW k \in Q PROVE k + 1 \in Q
    <3>1. SUFFICES ASSUME k + 1 <= n, k + 1 <= m PROVE f[k + 1] = g[k + 1]
      OBVIOUS
    <3>2. k \in 0 .. n /\ k \in 0 .. m /\ f[k] = g[k]
      BY <3>1
    <3> QED BY <1>4, <3>1, <3>2
  <2>3. Q = Nat
    <3>1. Q \in SUBSET Nat /\ \A k \in Q : k + 1 \in Q
      BY <2>2
    <3> HIDE DEF Q
    <3> QED BY <2>1, <3>1, NumberInduction
  <2> QED BY <2>3
<1>5. PICK h : h = [n \in Nat |-> (CHOOSE f : Pre(f, n))[n]]
  OBVIOUS
<1>6. ASSUME NEW n \in Nat PROVE \E f : Pre(f, n) /\ h[n] = f[n]
  <2>1. \E f : Pre(f, n)
    BY <1>3
  <2>2. Pre((CHOOSE f : Pre(f, n)), n)
    <3> HIDE DEF Pre
    <3> QED BY <2>1
  <2> QED BY <1>5, <2>2
<1>7. ASSUME NEW n \in Nat PROVE h[n] \in A
  BY <1>6
<1>8. h[0] = s
  BY <1>6
<1>9. ASSUME NEW n \in Nat PROVE h[n + 1] = step[h[n]]
  <2>1. PICK f : Pre(f, n) /\ h[n] = f[n]
    BY <1>6
  <2>2. n + 1 \in Nat
    OBVIOUS
  <2>3. PICK g : Pre(g, n + 1) /\ h[n + 1] = g[n + 1]
    BY <1>6, <2>2
  <2>4. f[n] = g[n]
    <3> HIDE DEF Pre
    <3> QED BY <1>4, <2>1, <2>2, <2>3
  <2>5. n \in 0 .. (n + 1) /\ n + 1 <= n + 1
    OBVIOUS
  <2> QED BY <2>1, <2>3, <2>4, <2>5
<1>10. h \in [Nat -> A]
  <2> HIDE DEF Pre
  <2> QED BY <1>5, <1>7
<1> QED BY <1>8, <1>9, <1>10

\* A set of subsets that only grows, step by step, stops growing.
LEMMA GrowthStops ==
  ASSUME NEW S, IsFiniteSet(S), NEW step, step \in [SUBSET S -> SUBSET S], \A T \in SUBSET S : T \subseteq step[T],
         NEW w, w[0] \in SUBSET S, \A n \in Nat : w[n + 1] = step[w[n]]
  PROVE  /\ \A n \in Nat : w[n] \in SUBSET S /\ w[0] \subseteq w[n]
         /\ step[w[Cardinality(S)]] = w[Cardinality(S)]
<1>1. \A n \in Nat : w[n] \in SUBSET S /\ w[0] \subseteq w[n]
  <2> DEFINE P == {n \in Nat : w[n] \in SUBSET S /\ w[0] \subseteq w[n]}
  <2>1. 0 \in P
    OBVIOUS
  <2>2. ASSUME NEW n \in P PROVE n + 1 \in P
    OBVIOUS
  <2>3. P \in SUBSET Nat /\ \A n \in P : n + 1 \in P
    BY <2>2
  <2>4. P = Nat
    <3> HIDE DEF P
    <3> QED BY <2>1, <2>3, NumberInduction
  <2> QED BY <2>4
<1>2. Cardinality(S) \in Nat /\ \A T \in SUBSET S : IsFiniteSet(T) /\ Cardinality(T) \in Nat
  BY FS_Subset, FS_CardinalityType
<1> DEFINE P == {n \in Nat : step[w[n]] = w[n] \/ Cardinality(w[n]) >= n}
<1>3. 0 \in P
  <2>1. Cardinality(w[0]) \in Nat
    BY <1>1, <1>2
  <2> QED BY <2>1
<1>4. ASSUME NEW n \in P PROVE n + 1 \in P
  <2>1. w[n] \in SUBSET S /\ w[n + 1] \in SUBSET S /\ w[n] \subseteq w[n + 1] /\ n + 1 \in Nat /\ w[n + 1] = step[w[n]]
    BY <1>1
  <2>2. CASE step[w[n]] = w[n]
    BY <2>1, <2>2
  <2>3. CASE step[w[n]] # w[n]
    <3>1. Cardinality(w[n]) <= Cardinality(w[n + 1]) /\ Cardinality(w[n]) # Cardinality(w[n + 1])
      <4>1. IsFiniteSet(w[n + 1])
        BY <1>2, <2>1
      <4> QED BY <2>1, <2>3, <4>1, FS_Subset
    <3>2. Cardinality(w[n]) \in Nat /\ Cardinality(w[n + 1]) \in Nat
      BY <1>2, <2>1
    <3>3. Cardinality(w[n]) >= n
      BY <2>3
    <3>4. Cardinality(w[n + 1]) >= n + 1
      BY <3>1, <3>2, <3>3
    <3> QED BY <2>1, <3>4
  <2> QED BY <2>2, <2>3
<1>5. P = Nat
  <2>1. P \in SUBSET Nat /\ \A n \in P : n + 1 \in P
    BY <1>4
  <2> HIDE DEF P
  <2> QED BY <1>3, <2>1, NumberInduction
<1>6. PICK c : c = Cardinality(S)
  OBVIOUS
<1>7. step[w[c]] = w[c] \/ Cardinality(w[c]) >= c
  BY <1>2, <1>5, <1>6
<1>8. CASE Cardinality(w[c]) >= c
  <2>1. w[c] \in SUBSET S
    BY <1>1, <1>2, <1>6
  <2>2. Cardinality(w[c]) <= c /\ (Cardinality(w[c]) = c => w[c] = S)
    BY <1>6, <2>1, FS_Subset
  <2>3. w[c] = S
    BY <1>2, <1>6, <1>8, <2>1, <2>2
  <2>4. step[S] = S
    <3>1. PICK T : T = S /\ T \in SUBSET S
      OBVIOUS
    <3>2. T \subseteq step[T] /\ step[T] \in SUBSET S
      BY <3>1
    <3> QED BY <3>1, <3>2
  <2>5. step[w[c]] = w[c]
    BY <2>3, <2>4
  <2> QED BY <1>1, <1>6, <2>5
<1> QED BY <1>1, <1>6, <1>7, <1>8

-----------------------------------------------------------------------------
(* The recursion. *)

\* one element is added to the sum of the others
First(T) == CHOOSE x \in T : TRUE
AddFirst(f, g, T) == IF T = {} THEN 0 ELSE f[First(T)] + g[T \ {First(T)}]
IsPartialSum(f, g, P) == g = [T \in P |-> AddFirst(f, g, T)]

LEMMA FirstIn == ASSUME NEW T, T # {} PROVE First(T) \in T
BY DEF First

LEMMA SumUnfolds ==
  ASSUME NEW f, NEW S
  PROVE  SumFunctionOnSet(f, S) = (CHOOSE g : IsPartialSum(f, g, SUBSET S))[S]
BY DEF SumFunctionOnSet, FoldFunctionOnSet, MapThenFoldSet, IsPartialSum, AddFirst, First

LEMMA PartialSumExists ==
  ASSUME NEW f, NEW S, IsFiniteSet(S)
  PROVE  \E g : IsPartialSum(f, g, SUBSET S)
<1> DEFINE Small(n) == {T \in SUBSET S : Cardinality(T) <= n}
           P == {n \in Nat : \E g : IsPartialSum(f, g, Small(n))}
<1>0. \A T \in SUBSET S : IsFiniteSet(T) /\ Cardinality(T) \in Nat /\ Cardinality(T) <= Cardinality(S)
  BY FS_Subset, FS_CardinalityType
<1>1. 0 \in P
  <2>1. \A T \in Small(0) : T = {}
    BY <1>0, FS_EmptySet
  <2>2. IsPartialSum(f, [T \in Small(0) |-> 0], Small(0))
    BY <2>1 DEF IsPartialSum, AddFirst
  <2> QED BY <2>2
<1>2. ASSUME NEW n \in P
      PROVE  n + 1 \in P
  <2>1. PICK g : IsPartialSum(f, g, Small(n))
    OBVIOUS
  <2> DEFINE h == [T \in Small(n + 1) |-> AddFirst(f, g, T)]
  <2>2. ASSUME NEW T \in Small(n + 1), T # {}
        PROVE  T \ {First(T)} \in Small(n)
    <3>1. First(T) \in T
      BY <2>2, FirstIn
    <3>2. Cardinality(T \ {First(T)}) = Cardinality(T) - 1
      BY <3>1, <1>0, FS_RemoveElement
    <3> QED BY <3>2, <1>0
  <2>3. Small(n) \subseteq Small(n + 1)
    BY <1>0
  <2>4. \A T \in Small(n) : h[T] = g[T]
    BY <2>1, <2>3 DEF IsPartialSum
  <2>5. \A T \in Small(n + 1) : AddFirst(f, g, T) = AddFirst(f, h, T)
    BY <2>2, <2>4 DEF AddFirst
  <2>6. IsPartialSum(f, h, Small(n + 1))
    BY <2>5 DEF IsPartialSum
  <2> HIDE DEF Small, h
  <2>7. \E k : IsPartialSum(f, k, Small(n + 1))
    BY <2>6
  <2> QED BY <2>7
<1>3. P = Nat
  <2> HIDE DEF P
  <2>1. P \in SUBSET Nat
    BY DEF P
  <2> QED BY <1>1, <1>2, <2>1, NumberInduction
<1>4. Cardinality(S) \in P
  BY <1>0, <1>3
<1>5. Small(Cardinality(S)) = SUBSET S
  BY <1>0
<1> QED BY <1>4, <1>5

\* The sum over T, as the recursion for any larger set computes it.
LEMMA PartialSumIsSum ==
  ASSUME NEW f, NEW S, IsFiniteSet(S), NEW g, IsPartialSum(f, g, SUBSET S)
  PROVE  \A T \in SUBSET S : g[T] = SumFunctionOnSet(f, T)
<1>1. ASSUME NEW T \in SUBSET S, NEW h, IsPartialSum(f, h, SUBSET T)
      PROVE  g[T] = h[T]
  <2> DEFINE P == {U \in SUBSET T : g[U] = h[U]}
  <2>1. IsFiniteSet(T)
    BY FS_Subset
  <2>2. ASSUME NEW U \in SUBSET T, \A V \in SUBSET U : V # U => V \in P
        PROVE  U \in P
    <3>1. U # {} => First(U) \in U
      BY FirstIn
    <3>2. U # {} => U \ {First(U)} \in P
      BY <2>2, <3>1
    <3>3. AddFirst(f, g, U) = AddFirst(f, h, U)
      BY <3>2 DEF AddFirst
    <3>4. g[U] = AddFirst(f, g, U) /\ h[U] = AddFirst(f, h, U)
      BY <1>1 DEF IsPartialSum
    <3> QED BY <3>3, <3>4
  <2>3. P \in SUBSET SUBSET T
    OBVIOUS
  <2> HIDE DEF P
  <2>4. T \in P
    BY <2>1, <2>2, <2>3, SubsetInduction
  <2> QED BY <2>4 DEF P
<1>2. ASSUME NEW T \in SUBSET S
      PROVE  g[T] = SumFunctionOnSet(f, T)
  <2> DEFINE h == CHOOSE k : IsPartialSum(f, k, SUBSET T)
  <2>1. IsPartialSum(f, h, SUBSET T)
    BY FS_Subset, PartialSumExists
  <2>2. SumFunctionOnSet(f, T) = h[T]
    BY SumUnfolds
  <2> HIDE DEF h
  <2> QED BY <1>1, <2>1, <2>2
<1> QED BY <1>2

LEMMA SumOfEmpty ==
  ASSUME NEW f
  PROVE  SumFunctionOnSet(f, {}) = 0
<1>1. IsFiniteSet({})
  BY FS_EmptySet
<1>2. PICK g : IsPartialSum(f, g, SUBSET {})
  BY <1>1, PartialSumExists
<1>3. g[{}] = SumFunctionOnSet(f, {})
  BY <1>1, <1>2, PartialSumIsSum
<1>4. g[{}] = 0
  BY <1>2 DEF IsPartialSum, AddFirst
<1> QED BY <1>3, <1>4

LEMMA SumOfFirst ==
  ASSUME NEW f, NEW S, IsFiniteSet(S), S # {}
  PROVE  SumFunctionOnSet(f, S) = f[First(S)] + SumFunctionOnSet(f, S \ {First(S)})
<1>1. PICK g : IsPartialSum(f, g, SUBSET S)
  BY PartialSumExists
<1>2. g[S] = SumFunctionOnSet(f, S) /\ g[S \ {First(S)}] = SumFunctionOnSet(f, S \ {First(S)})
  <2>1. S \in SUBSET S /\ S \ {First(S)} \in SUBSET S
    OBVIOUS
  <2>2. \A T \in SUBSET S : g[T] = SumFunctionOnSet(f, T)
    BY <1>1, PartialSumIsSum
  <2> QED BY <2>1, <2>2
<1>3. g[S] = f[First(S)] + g[S \ {First(S)}]
  BY <1>1 DEF IsPartialSum, AddFirst
<1> QED BY <1>2, <1>3

-----------------------------------------------------------------------------
(* The laws. *)

\* A sum of integers is an integer.
LEMMA SumIsInt ==
  ASSUME NEW S, IsFiniteSet(S), NEW f, \A x \in S : f[x] \in Int
  PROVE  SumFunctionOnSet(f, S) \in Int
<1> DEFINE P == {T \in SUBSET S : SumFunctionOnSet(f, T) \in Int}
<1>1. ASSUME NEW T \in SUBSET S, \A U \in SUBSET T : U # T => U \in P
      PROVE  T \in P
  <2>1. CASE T = {}
    BY <2>1, SumOfEmpty
  <2>2. CASE T # {}
    <3>1. First(T) \in T /\ IsFiniteSet(T)
      BY <2>2, FirstIn, FS_Subset
    <3>2. T \ {First(T)} \in P
      BY <1>1, <3>1
    <3>3. SumFunctionOnSet(f, T) = f[First(T)] + SumFunctionOnSet(f, T \ {First(T)})
      BY <2>2, <3>1, SumOfFirst
    <3> QED BY <3>1, <3>2, <3>3
  <2> QED BY <2>1, <2>2
<1>2. P \in SUBSET SUBSET S
  OBVIOUS
<1> HIDE DEF P
<1>3. S \in P
  BY <1>1, <1>2, SubsetInduction
<1> QED BY <1>3 DEF P

\* Any element can be taken out of the sum.
LEMMA SumWithout ==
  ASSUME NEW S, IsFiniteSet(S), NEW f, \A x \in S : f[x] \in Int, NEW x \in S
  PROVE  SumFunctionOnSet(f, S) = f[x] + SumFunctionOnSet(f, S \ {x})
<1> DEFINE Out(T, y) == SumFunctionOnSet(f, T) = f[y] + SumFunctionOnSet(f, T \ {y})
           P == {T \in SUBSET S : \A y \in T : Out(T, y)}
<1>0. \A T \in SUBSET S : IsFiniteSet(T) /\ SumFunctionOnSet(f, T) \in Int
  BY FS_Subset, SumIsInt
<1>1. ASSUME NEW T \in SUBSET S, \A U \in SUBSET T : U # T => U \in P
      PROVE  T \in P
  <2>1. ASSUME NEW y \in T PROVE Out(T, y)
    <3> DEFINE z == First(T)
    <3>1. z \in T
      BY FirstIn
    <3>2. SumFunctionOnSet(f, T) = f[z] + SumFunctionOnSet(f, T \ {z})
      BY <1>0, SumOfFirst
    <3> HIDE DEF z
    <3>3. CASE y = z
      BY <3>2, <3>3
    <3>4. CASE y # z
      <4>1. y \in T \ {z} /\ z \in T \ {y}
        BY <3>1, <3>4
      <4>2. T \ {z} \in P /\ T \ {y} \in P
        BY <1>1, <3>1
      <4>3. /\ SumFunctionOnSet(f, T \ {z}) = f[y] + SumFunctionOnSet(f, (T \ {y}) \ {z})
            /\ SumFunctionOnSet(f, T \ {y}) = f[z] + SumFunctionOnSet(f, (T \ {y}) \ {z})
        <5>1. (T \ {z}) \ {y} = (T \ {y}) \ {z}
          OBVIOUS
        <5> QED BY <4>1, <4>2, <5>1
      <4>4. /\ SumFunctionOnSet(f, (T \ {y}) \ {z}) \in Int
            /\ SumFunctionOnSet(f, T \ {y}) \in Int /\ SumFunctionOnSet(f, T \ {z}) \in Int
            /\ f[y] \in Int /\ f[z] \in Int
        BY <1>0, <3>1
      <4> QED BY <3>2, <4>3, <4>4
    <3> QED BY <3>3, <3>4
  <2> QED BY <2>1
<1>2. P \in SUBSET SUBSET S
  OBVIOUS
<1> HIDE DEF P, Out
<1>3. S \in P
  BY <1>1, <1>2, SubsetInduction
<1> QED BY <1>3 DEF P, Out

\* A new element adds its value.
LEMMA SumWith ==
  ASSUME NEW S, IsFiniteSet(S), NEW x, x \notin S, NEW f, \A y \in S \cup {x} : f[y] \in Int
  PROVE  SumFunctionOnSet(f, S \cup {x}) = f[x] + SumFunctionOnSet(f, S)
<1>1. IsFiniteSet(S \cup {x}) /\ x \in S \cup {x}
  BY FS_AddElement
<1>2. (S \cup {x}) \ {x} = S
  OBVIOUS
<1> QED BY <1>1, <1>2, SumWithout

\* Only the values on the set count.
LEMMA SumOfSame ==
  ASSUME NEW S, IsFiniteSet(S), NEW f, NEW g, \A x \in S : f[x] = g[x]
  PROVE  SumFunctionOnSet(f, S) = SumFunctionOnSet(g, S)
<1> DEFINE P == {T \in SUBSET S : SumFunctionOnSet(f, T) = SumFunctionOnSet(g, T)}
<1>1. ASSUME NEW T \in SUBSET S, \A U \in SUBSET T : U # T => U \in P
      PROVE  T \in P
  <2>1. CASE T = {}
    BY <2>1, SumOfEmpty
  <2>2. CASE T # {}
    <3>1. First(T) \in T /\ IsFiniteSet(T)
      BY <2>2, FirstIn, FS_Subset
    <3>2. T \ {First(T)} \in P
      BY <1>1, <3>1
    <3>3. /\ SumFunctionOnSet(f, T) = f[First(T)] + SumFunctionOnSet(f, T \ {First(T)})
          /\ SumFunctionOnSet(g, T) = g[First(T)] + SumFunctionOnSet(g, T \ {First(T)})
      BY <2>2, <3>1, SumOfFirst
    <3> QED BY <3>1, <3>2, <3>3
  <2> QED BY <2>1, <2>2
<1>2. P \in SUBSET SUBSET S
  OBVIOUS
<1> HIDE DEF P
<1>3. S \in P
  BY <1>1, <1>2, SubsetInduction
<1> QED BY <1>3 DEF P

\* A change of one value changes the sum by as much.
LEMMA SumOfChange ==
  ASSUME NEW S, IsFiniteSet(S), NEW f, NEW g, NEW x \in S,
         \A y \in S : f[y] \in Int, g[x] \in Int,
         \A y \in S \ {x} : g[y] = f[y]
  PROVE  SumFunctionOnSet(g, S) = SumFunctionOnSet(f, S) + g[x] - f[x]
<1>1. \A y \in S : g[y] \in Int
  OBVIOUS
<1>2. IsFiniteSet(S \ {x})
  BY FS_RemoveElement
<1>3. SumFunctionOnSet(g, S \ {x}) = SumFunctionOnSet(f, S \ {x})
  BY <1>2, SumOfSame
<1>4. /\ SumFunctionOnSet(f, S) = f[x] + SumFunctionOnSet(f, S \ {x})
      /\ SumFunctionOnSet(g, S) = g[x] + SumFunctionOnSet(g, S \ {x})
  BY <1>1, SumWithout
<1>5. SumFunctionOnSet(f, S \ {x}) \in Int
  BY <1>2, SumIsInt
<1> QED BY <1>3, <1>4, <1>5

\* Two functions can be summed together or apart.
LEMMA SumOfTwo ==
  ASSUME NEW S, IsFiniteSet(S), NEW f, NEW g, NEW h,
         \A x \in S : f[x] \in Int /\ g[x] \in Int /\ h[x] = f[x] + g[x]
  PROVE  SumFunctionOnSet(h, S) = SumFunctionOnSet(f, S) + SumFunctionOnSet(g, S)
<1> DEFINE P == {T \in SUBSET S :
                   SumFunctionOnSet(h, T) = SumFunctionOnSet(f, T) + SumFunctionOnSet(g, T)}
<1>1. {} \in P
  BY SumOfEmpty
<1>2. ASSUME NEW T \in P, NEW x \in S \ T
      PROVE  T \cup {x} \in P
  <2>1. IsFiniteSet(T)
    BY FS_Subset
  <2>2. \A y \in T \cup {x} : f[y] \in Int /\ g[y] \in Int /\ h[y] \in Int
    OBVIOUS
  <2>3. /\ SumFunctionOnSet(f, T \cup {x}) = f[x] + SumFunctionOnSet(f, T)
        /\ SumFunctionOnSet(g, T \cup {x}) = g[x] + SumFunctionOnSet(g, T)
        /\ SumFunctionOnSet(h, T \cup {x}) = h[x] + SumFunctionOnSet(h, T)
    BY <2>1, <2>2, SumWith
  <2>4. SumFunctionOnSet(f, T) \in Int /\ SumFunctionOnSet(g, T) \in Int
    BY <2>1, <2>2, SumIsInt
  <2>5. SumFunctionOnSet(h, T \cup {x})
          = SumFunctionOnSet(f, T \cup {x}) + SumFunctionOnSet(g, T \cup {x})
    BY <2>2, <2>3, <2>4
  <2> QED BY <2>5
<1>3. P \in SUBSET SUBSET S
  OBVIOUS
<1>4. \A T \in P : \A x \in S \ T : T \cup {x} \in P
  BY <1>2
<1> HIDE DEF P
<1>5. SUBSET S = P
  BY <1>1, <1>3, <1>4, ElementInduction
<1>6. S \in P
  BY <1>5
<1> QED BY <1>6 DEF P

\* Two disjoint sets can be summed together or apart.
LEMMA SumOfUnion ==
  ASSUME NEW S, IsFiniteSet(S), NEW R, IsFiniteSet(R), S \cap R = {},
         NEW f, \A x \in S \cup R : f[x] \in Int
  PROVE  SumFunctionOnSet(f, S \cup R) = SumFunctionOnSet(f, S) + SumFunctionOnSet(f, R)
<1> DEFINE P == {T \in SUBSET S :
                   SumFunctionOnSet(f, T \cup R) = SumFunctionOnSet(f, T) + SumFunctionOnSet(f, R)}
<1>0. SumFunctionOnSet(f, R) \in Int
  BY SumIsInt
<1>1. {} \in P
  <2>1. {} \cup R = R
    OBVIOUS
  <2> QED BY <1>0, <2>1, SumOfEmpty
<1>2. ASSUME NEW T \in P, NEW x \in S \ T
      PROVE  T \cup {x} \in P
  <2>1. IsFiniteSet(T) /\ IsFiniteSet(T \cup R)
    BY FS_Subset, FS_Union
  <2>2. x \notin T \cup R /\ (T \cup {x}) \cup R = (T \cup R) \cup {x}
    OBVIOUS
  <2>3. SumFunctionOnSet(f, T \cup {x}) = f[x] + SumFunctionOnSet(f, T)
    BY <2>1, <2>2, SumWith, ZenonT(60)
  <2>4. SumFunctionOnSet(f, (T \cup R) \cup {x}) = f[x] + SumFunctionOnSet(f, T \cup R)
    BY <2>1, <2>2, SumWith
  <2>5. SumFunctionOnSet(f, T) \in Int /\ f[x] \in Int
    BY <2>1, SumIsInt
  <2>6. SumFunctionOnSet(f, (T \cup {x}) \cup R) = f[x] + SumFunctionOnSet(f, T \cup R)
    BY <2>2, <2>4
  <2>7. SumFunctionOnSet(f, T \cup R) = SumFunctionOnSet(f, T) + SumFunctionOnSet(f, R)
    OBVIOUS
  <2>8. SumFunctionOnSet(f, (T \cup {x}) \cup R)
          = SumFunctionOnSet(f, T \cup {x}) + SumFunctionOnSet(f, R)
    BY <1>0, <2>3, <2>5, <2>6, <2>7
  <2> QED BY <2>8
<1>3. P \in SUBSET SUBSET S
  OBVIOUS
<1>4. \A T \in P : \A x \in S \ T : T \cup {x} \in P
  BY <1>2
<1> HIDE DEF P
<1>5. SUBSET S = P
  BY <1>1, <1>3, <1>4, ElementInduction
<1>6. S \in P
  BY <1>5
<1> QED BY <1>6 DEF P

\* What is nowhere larger has no larger sum.
LEMMA SumOfLess ==
  ASSUME NEW S, IsFiniteSet(S), NEW f, NEW g,
         \A x \in S : f[x] \in Int /\ g[x] \in Int /\ f[x] <= g[x]
  PROVE  SumFunctionOnSet(f, S) <= SumFunctionOnSet(g, S)
<1> DEFINE P == {T \in SUBSET S : SumFunctionOnSet(f, T) <= SumFunctionOnSet(g, T)}
<1>1. {} \in P
  BY SumOfEmpty
<1>2. ASSUME NEW T \in P, NEW x \in S \ T
      PROVE  T \cup {x} \in P
  <2>1. IsFiniteSet(T)
    BY FS_Subset
  <2>2. \A y \in T \cup {x} : f[y] \in Int /\ g[y] \in Int
    OBVIOUS
  <2>3. /\ SumFunctionOnSet(f, T \cup {x}) = f[x] + SumFunctionOnSet(f, T)
        /\ SumFunctionOnSet(g, T \cup {x}) = g[x] + SumFunctionOnSet(g, T)
    BY <2>1, <2>2, SumWith
  <2>4. SumFunctionOnSet(f, T) \in Int /\ SumFunctionOnSet(g, T) \in Int
    BY <2>1, <2>2, SumIsInt
  <2>5. SumFunctionOnSet(f, T \cup {x}) <= SumFunctionOnSet(g, T \cup {x})
    BY <2>2, <2>3, <2>4
  <2> QED BY <2>5
<1>3. P \in SUBSET SUBSET S
  OBVIOUS
<1>4. \A T \in P : \A x \in S \ T : T \cup {x} \in P
  BY <1>2
<1> HIDE DEF P
<1>5. SUBSET S = P
  BY <1>1, <1>3, <1>4, ElementInduction
<1>6. S \in P
  BY <1>5
<1> QED BY <1>6 DEF P

\* The sum of nothing but zeros.
LEMMA SumOfZeros ==
  ASSUME NEW S, IsFiniteSet(S), NEW f, \A x \in S : f[x] = 0
  PROVE  SumFunctionOnSet(f, S) = 0
<1> DEFINE zero == [x \in S |-> 0]
<1>1. SumFunctionOnSet(f, S) = SumFunctionOnSet(zero, S)
  BY SumOfSame
<1>2. SumFunctionOnSet(zero, S) = SumFunctionOnSet(zero, S) + SumFunctionOnSet(zero, S)
  BY SumOfTwo
<1>3. SumFunctionOnSet(zero, S) \in Int
  BY SumIsInt
<1> HIDE DEF zero
<1>4. PICK z \in Int : z = SumFunctionOnSet(zero, S)
  BY <1>3
<1>5. z = z + z
  BY <1>2, <1>4
<1>6. z = 0
  <2> HIDE <1>4
  <2> QED BY <1>5
<1> QED BY <1>1, <1>4, <1>6

\* What is nowhere negative has a sum that no part of the set exceeds.
LEMMA SumOfPart ==
  ASSUME NEW S, IsFiniteSet(S), NEW T \in SUBSET S, NEW f, \A x \in S : f[x] \in Nat
  PROVE  /\ SumFunctionOnSet(f, T) \in Nat
         /\ SumFunctionOnSet(f, T) <= SumFunctionOnSet(f, S)
<1> DEFINE zero == [x \in S |-> 0]
<1>1. IsFiniteSet(T) /\ IsFiniteSet(S \ T) /\ T \cap (S \ T) = {} /\ T \cup (S \ T) = S
  BY FS_Subset
<1>2. ASSUME NEW U \in SUBSET S
      PROVE  SumFunctionOnSet(f, U) \in Nat
  <2>1. IsFiniteSet(U)
    BY FS_Subset
  <2>2. SumFunctionOnSet(zero, U) = 0
    BY <2>1, SumOfZeros
  <2>3. SumFunctionOnSet(zero, U) <= SumFunctionOnSet(f, U)
    BY <2>1, SumOfLess
  <2>4. SumFunctionOnSet(f, U) \in Int
    BY <2>1, SumIsInt
  <2> QED BY <2>2, <2>3, <2>4
<1>3. SumFunctionOnSet(f, S) = SumFunctionOnSet(f, T) + SumFunctionOnSet(f, S \ T)
  BY <1>1, SumOfUnion
<1>4. SumFunctionOnSet(f, T) \in Nat /\ SumFunctionOnSet(f, S \ T) \in Nat
  BY <1>2
<1> QED BY <1>3, <1>4

\* A sum over some of the elements is a sum over all that counts the others as 0.
LEMMA SumOfChosen ==
  ASSUME NEW S, IsFiniteSet(S), NEW T \in SUBSET S, NEW f, \A x \in T : f[x] \in Int
  PROVE  SumFunctionOnSet(f, T) = SumFunctionOnSet([x \in S |-> IF x \in T THEN f[x] ELSE 0], S)
<1> DEFINE g == [x \in S |-> IF x \in T THEN f[x] ELSE 0]
<1>1. IsFiniteSet(T) /\ IsFiniteSet(S \ T) /\ T \cap (S \ T) = {} /\ T \cup (S \ T) = S
  BY FS_Subset
<1>2. /\ \A x \in T \cup (S \ T) : g[x] \in Int
      /\ \A x \in T : f[x] = g[x]
      /\ \A x \in S \ T : g[x] = 0
  OBVIOUS
<1> HIDE DEF g
<1>3. SumFunctionOnSet(g, S) = SumFunctionOnSet(g, T) + SumFunctionOnSet(g, S \ T)
  BY <1>1, <1>2, SumOfUnion, ZenonT(60)
<1>4. SumFunctionOnSet(g, S \ T) = 0 /\ SumFunctionOnSet(f, T) = SumFunctionOnSet(g, T)
  BY <1>1, <1>2, SumOfZeros, SumOfSame
<1>5. SumFunctionOnSet(g, T) \in Int
  BY <1>1, <1>2, SumIsInt
<1>6. SumFunctionOnSet(f, T) = SumFunctionOnSet(g, S)
  BY <1>3, <1>4, <1>5
<1> QED BY <1>6 DEF g

LEMMA SumOfOne ==
  ASSUME NEW S, IsFiniteSet(S), NEW x \in S, NEW f, f[x] \in Int, \A y \in S \ {x} : f[y] = 0
  PROVE  SumFunctionOnSet(f, S) = f[x]
<1>1. SumFunctionOnSet(f, S \ {x}) = 0
  BY FS_RemoveElement, SumOfZeros
<1>2. \A y \in S : f[y] \in Int
  OBVIOUS
<1> QED BY <1>1, <1>2, SumWithout

\* Two sums may be taken in either order.
LEMMA SumSwap ==
  ASSUME NEW S, IsFiniteSet(S), NEW R, IsFiniteSet(R), NEW f,
         \A x \in S : \A y \in R : f[x][y] \in Int
  PROVE  SumFunctionOnSet([x \in S |-> SumFunctionOnSet(f[x], R)], S)
         = SumFunctionOnSet([y \in R |-> SumFunctionOnSet([x \in S |-> f[x][y]], S)], R)
<1> DEFINE row == [x \in S |-> SumFunctionOnSet(f[x], R)]
           of(y) == [x \in S |-> f[x][y]]
           col(T) == [y \in R |-> SumFunctionOnSet(of(y), T)]
           P == {T \in SUBSET S : SumFunctionOnSet(row, T) = SumFunctionOnSet(col(T), R)}
<1>1. {} \in P
  <2>1. \A y \in R : col({})[y] = 0
    BY SumOfEmpty
  <2>2. SumFunctionOnSet(col({}), R) = 0
    <3> DEFINE g == col({})
    <3>1. \A y \in R : g[y] = 0
      BY <2>1
    <3> HIDE DEF g
    <3>2. SumFunctionOnSet(g, R) = 0
      BY <3>1, SumOfZeros
    <3> QED BY <3>2 DEF g
  <2> QED BY <2>2, SumOfEmpty
<1>2. ASSUME NEW T \in P, NEW x \in S \ T
      PROVE  T \cup {x} \in P
  <2>1. T \in SUBSET S /\ IsFiniteSet(T) /\ SumFunctionOnSet(row, T) = SumFunctionOnSet(col(T), R)
    BY FS_Subset
  <2>2. \A y \in S : row[y] \in Int
    <3>1. ASSUME NEW y \in S PROVE SumFunctionOnSet(f[y], R) \in Int
      BY SumIsInt
    <3> QED BY <3>1
  <2>3. SumFunctionOnSet(row, T \cup {x}) = row[x] + SumFunctionOnSet(row, T)
    <3> HIDE DEF row
    <3> QED BY <2>1, <2>2, SumWith
  <2>4. ASSUME NEW y \in R
        PROVE  /\ SumFunctionOnSet(of(y), T \cup {x}) = f[x][y] + SumFunctionOnSet(of(y), T)
               /\ SumFunctionOnSet(of(y), T) \in Int
    <3> DEFINE g == of(y)
    <3>1. (\A z \in T \cup {x} : g[z] \in Int) /\ g[x] = f[x][y]
      BY <2>1
    <3> HIDE DEF g
    <3>2. SumFunctionOnSet(g, T \cup {x}) = g[x] + SumFunctionOnSet(g, T)
      BY <2>1, <3>1, SumWith
    <3>3. SumFunctionOnSet(g, T) \in Int
      BY <2>1, <3>1, SumIsInt
    <3>4. SumFunctionOnSet(g, T \cup {x}) = f[x][y] + SumFunctionOnSet(g, T)
      BY <3>1, <3>2
    <3> QED BY <3>3, <3>4 DEF g
  <2>5. SumFunctionOnSet(col(T \cup {x}), R) = SumFunctionOnSet(f[x], R) + SumFunctionOnSet(col(T), R)
    <3> DEFINE h == col(T \cup {x})
               g == col(T)
               k == f[x]
    <3>1. \A y \in R : k[y] \in Int /\ g[y] \in Int /\ h[y] = k[y] + g[y]
      BY <2>4
    <3> HIDE DEF h, g, k
    <3>2. SumFunctionOnSet(h, R) = SumFunctionOnSet(k, R) + SumFunctionOnSet(g, R)
      BY <3>1, SumOfTwo
    <3> QED BY <3>2 DEF h, g, k
  <2>6. row[x] = SumFunctionOnSet(f[x], R)
    OBVIOUS
  <2>7. SumFunctionOnSet(row, T \cup {x}) = SumFunctionOnSet(col(T \cup {x}), R)
    <3> HIDE DEF row, col
    <3> QED BY <2>1, <2>3, <2>5, <2>6
  <2> HIDE DEF row, col
  <2> QED BY <2>1, <2>7
<1>3. P \in SUBSET SUBSET S
  OBVIOUS
<1>4. \A T \in P : \A x \in S \ T : T \cup {x} \in P
  BY <1>2
<1>5. S \in P => SumFunctionOnSet(row, S) = SumFunctionOnSet(col(S), R)
  OBVIOUS
<1> HIDE DEF P, row, col, of
<1>6. SUBSET S = P
  BY <1>1, <1>3, <1>4, ElementInduction
<1>7. SumFunctionOnSet(row, S) = SumFunctionOnSet(col(S), R)
  BY <1>6, <1>5
<1> QED BY <1>7 DEF row, col, of

AddsRows(g, f, S, R) == \A x \in S : g[x] = SumFunctionOnSet(f[x], R)
Transposes(t, f, S, R) == \A x \in S : \A y \in R : f[x][y] \in Int /\ t[y][x] = f[x][y]

\* The sums of the rows and those of the columns have one sum.
LEMMA SumOfRows ==
  ASSUME NEW S, IsFiniteSet(S), NEW R, IsFiniteSet(R), NEW f, NEW t, Transposes(t, f, S, R),
         NEW g, AddsRows(g, f, S, R), NEW h, AddsRows(h, t, R, S)
  PROVE  SumFunctionOnSet(g, S) = SumFunctionOnSet(h, R)
<1>1. SumFunctionOnSet([x \in S |-> SumFunctionOnSet(f[x], R)], S)
      = SumFunctionOnSet([y \in R |-> SumFunctionOnSet([x \in S |-> f[x][y]], S)], R)
  BY SumSwap DEF Transposes
<1>2. PICK p, q : /\ p = [x \in S |-> SumFunctionOnSet(f[x], R)]
                  /\ q = [y \in R |-> SumFunctionOnSet([x \in S |-> f[x][y]], S)]
  OBVIOUS
<1>3. \A x \in S : g[x] = p[x]
  BY <1>2 DEF AddsRows
<1>4. ASSUME NEW y \in R PROVE h[y] = q[y]
  <2>1. PICK c : c = [x \in S |-> f[x][y]]
    OBVIOUS
  <2>2. q[y] = SumFunctionOnSet(c, S)
    BY <1>2, <2>1
  <2>3. \A x \in S : t[y][x] = c[x]
    BY <2>1 DEF Transposes
  <2>4. SumFunctionOnSet(t[y], S) = SumFunctionOnSet(c, S)
    BY <2>3, SumOfSame
  <2> QED BY <2>2, <2>4 DEF AddsRows
<1>5. SumFunctionOnSet(g, S) = SumFunctionOnSet(p, S) /\ SumFunctionOnSet(h, R) = SumFunctionOnSet(q, R)
  BY <1>3, <1>4, SumOfSame
<1> QED BY <1>1, <1>2, <1>5

LEMMA SumOfNegated ==
  ASSUME NEW S, IsFiniteSet(S), NEW f, \A x \in S : f[x] \in Int
  PROVE  SumFunctionOnSet([x \in S |-> -f[x]], S) = -SumFunctionOnSet(f, S)
<1> DEFINE g == [x \in S |-> -f[x]]
           h == [x \in S |-> 0]
<1>1. (\A x \in S : g[x] \in Int /\ h[x] = f[x] + g[x]) /\ \A x \in S : h[x] = 0
  OBVIOUS
<1> HIDE DEF g, h
<1>2. SumFunctionOnSet(h, S) = SumFunctionOnSet(f, S) + SumFunctionOnSet(g, S)
  BY <1>1, SumOfTwo
<1>3. SumFunctionOnSet(h, S) = 0
  BY <1>1, SumOfZeros
<1>4. SumFunctionOnSet(f, S) \in Int /\ SumFunctionOnSet(g, S) \in Int
  BY <1>1, SumIsInt
<1>5. SumFunctionOnSet(g, S) = -SumFunctionOnSet(f, S)
  BY <1>2, <1>3, <1>4
<1> QED BY <1>5 DEF g

\* Numbers that are nowhere negative add up to 0 only if each is 0.
LEMMA SumIsZero ==
  ASSUME NEW S, IsFiniteSet(S), NEW f, \A x \in S : f[x] \in Nat, SumFunctionOnSet(f, S) = 0
  PROVE  \A x \in S : f[x] = 0
<1> SUFFICES ASSUME NEW x \in S PROVE f[x] = 0
  OBVIOUS
<1>0. IsFiniteSet({x})
  BY FS_Singleton
<1>1. {x} \in SUBSET S /\ IsFiniteSet({x}) /\ x \in {x} /\ f[x] \in Int
  BY <1>0
<1>2. SumFunctionOnSet(f, {x}) = f[x]
  BY <1>1, SumOfOne
<1>3. SumFunctionOnSet(f, {x}) <= SumFunctionOnSet(f, S)
  BY <1>1, SumOfPart
<1> QED BY <1>2, <1>3

\* A sum of the same number.
LEMMA SumOfConstant ==
  ASSUME NEW S, IsFiniteSet(S), NEW c \in Int
  PROVE  SumFunctionOnSet([x \in S |-> c], S) = Cardinality(S) * c
<1> DEFINE f == [x \in S |-> c]
           P == {T \in SUBSET S : SumFunctionOnSet(f, T) = Cardinality(T) * c}
<1>1. {} \in P
  BY SumOfEmpty, FS_EmptySet
<1>2. ASSUME NEW T \in P, NEW x \in S \ T PROVE T \cup {x} \in P
  <2>1. T \in SUBSET S /\ IsFiniteSet(T) /\ SumFunctionOnSet(f, T) = Cardinality(T) * c
    BY FS_Subset
  <2>2. \A y \in T \cup {x} : f[y] \in Int
    BY <2>1
  <2>3. SumFunctionOnSet(f, T \cup {x}) = f[x] + SumFunctionOnSet(f, T)
    <3> HIDE DEF f
    <3> QED BY <2>1, <2>2, SumWith
  <2>4. Cardinality(T) \in Nat /\ Cardinality(T \cup {x}) = Cardinality(T) + 1
    BY <2>1, FS_AddElement, FS_CardinalityType
  <2>5. (Cardinality(T) + 1) * c = c + Cardinality(T) * c
    BY <2>4
  <2> QED BY <2>1, <2>3, <2>4, <2>5
<1>a. P \in SUBSET SUBSET S
  OBVIOUS
<1>b. \A T \in P : \A x \in S \ T : T \cup {x} \in P
  BY <1>2
<1>3. SUBSET S = P
  <2> HIDE DEF P
  <2> QED BY <1>1, <1>a, <1>b, ElementInduction
<1> QED BY <1>3

\* the terms of a sum may be counted by another set
\* A sum over other names of the same numbers.
LEMMA SumOfMoved ==
  ASSUME NEW S, IsFiniteSet(S), NEW R, NEW f, \A y \in R : f[y] \in Int,
         NEW h \in [S -> R], \A x, y \in S : h[x] = h[y] => x = y, \A y \in R : \E x \in S : h[x] = y
  PROVE  SumFunctionOnSet([x \in S |-> f[h[x]]], S) = SumFunctionOnSet(f, R)
<1> DEFINE g == [x \in S |-> f[h[x]]]
           To(T) == {h[x] : x \in T}
           P == {T \in SUBSET S : IsFiniteSet(To(T)) /\ SumFunctionOnSet(g, T) = SumFunctionOnSet(f, To(T))}
<1>1. {} \in P
  <2>1. To({}) = {}
    OBVIOUS
  <2>2. IsFiniteSet(To({})) /\ SumFunctionOnSet(g, {}) = SumFunctionOnSet(f, To({}))
    <3> HIDE DEF To, g
    <3> QED BY <2>1, SumOfEmpty, FS_EmptySet
  <2> QED BY <2>2
<1>2. ASSUME NEW T \in P, NEW x \in S \ T PROVE T \cup {x} \in P
  <2>1. T \in SUBSET S /\ IsFiniteSet(T) /\ IsFiniteSet(To(T)) /\ SumFunctionOnSet(g, T) = SumFunctionOnSet(f, To(T))
    BY FS_Subset
  <2>2. To(T \cup {x}) = To(T) \cup {h[x]} /\ h[x] \notin To(T) /\ h[x] \in R /\ To(T) \subseteq R /\ x \notin T
    BY <2>1
  <2>3. /\ \A y \in T \cup {x} : g[y] \in Int
        /\ \A y \in To(T) \cup {h[x]} : f[y] \in Int
        /\ g[x] = f[h[x]]
    BY <2>1, <2>2
  <2> HIDE DEF To, g
  <2>4. SumFunctionOnSet(g, T \cup {x}) = g[x] + SumFunctionOnSet(g, T)
    BY <2>1, <2>2, <2>3, SumWith
  <2>5. SumFunctionOnSet(f, To(T) \cup {h[x]}) = f[h[x]] + SumFunctionOnSet(f, To(T))
    BY <2>1, <2>2, <2>3, SumWith
  <2>6. IsFiniteSet(To(T \cup {x}))
    <3>1. IsFiniteSet(To(T) \cup {h[x]})
      BY <2>1, FS_AddElement
    <3> QED BY <2>2, <3>1
  <2> QED BY <2>1, <2>2, <2>3, <2>4, <2>5, <2>6
<1>a. P \in SUBSET SUBSET S
  OBVIOUS
<1>b. \A T \in P : \A x \in S \ T : T \cup {x} \in P
  BY <1>2
<1>3. SUBSET S = P
  <2> HIDE DEF P
  <2> QED BY <1>1, <1>a, <1>b, ElementInduction
<1>4. To(S) = R
  OBVIOUS
<1>5. SumFunctionOnSet(g, S) = SumFunctionOnSet(f, To(S))
  BY <1>3
<1> QED BY <1>4, <1>5

\* A common factor leaves a sum.
LEMMA SumOfMultiple ==
  ASSUME NEW S, IsFiniteSet(S), NEW f, NEW g, NEW a \in Int, \A x \in S : f[x] \in Int /\ g[x] = a * f[x]
  PROVE  SumFunctionOnSet(g, S) = a * SumFunctionOnSet(f, S)
<1> DEFINE P == {T \in SUBSET S : SumFunctionOnSet(g, T) = a * SumFunctionOnSet(f, T)}
<1>1. {} \in P
  BY SumOfEmpty
<1>2. ASSUME NEW T \in P, NEW x \in S \ T PROVE T \cup {x} \in P
  <2>1. IsFiniteSet(T) /\ T \in SUBSET S /\ SumFunctionOnSet(g, T) = a * SumFunctionOnSet(f, T)
    BY FS_Subset
  <2>2. PICK u, v : /\ u = f[x] /\ v = SumFunctionOnSet(f, T) /\ u \in Int /\ v \in Int
                    /\ g[x] = a * u /\ SumFunctionOnSet(g, T) = a * v /\ a * u \in Int
    BY <2>1, SumIsInt
  <2>3. \A y \in T \cup {x} : f[y] \in Int /\ g[y] \in Int
    <3>1. \A y \in T \cup {x} : f[y] \in Int /\ g[y] = a * f[y]
      BY <2>1
    <3>2. \A n \in Int : a * n \in Int
      OBVIOUS
    <3> QED BY <3>1, <3>2
  <2>4. /\ SumFunctionOnSet(f, T \cup {x}) = f[x] + SumFunctionOnSet(f, T)
        /\ SumFunctionOnSet(g, T \cup {x}) = g[x] + SumFunctionOnSet(g, T)
    BY <2>1, <2>3, SumWith
  <2>5. a * (u + v) = a * u + a * v
    BY <2>2
  <2> QED BY <2>1, <2>2, <2>4, <2>5
<1>3. P \in SUBSET SUBSET S /\ \A T \in P : \A x \in S \ T : T \cup {x} \in P
  BY <1>2
<1>4. SUBSET S = P
  <2> HIDE DEF P
  <2> QED BY <1>1, <1>3, ElementInduction
<1> QED BY <1>4
=============================================================================
