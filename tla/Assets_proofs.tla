---------------------------- MODULE Assets_proofs ----------------------------
(***************************************************************************)
(* An asset, its schedule, its status and the ledger agree through any     *)
(* order of depreciation, reversal, revaluation and disposal, and a period *)
(* is booked once however sweeps and requests interleave: for any assets,  *)
(* methods, schedules and values.  Only an asset that was changed while    *)
(* somebody posted it from an old copy, or whose entry was reversed on     *)
(* another screen, may differ.  Below: the income-tax worksheets of the    *)
(* books, for any incomes, losses, credits and numbers of runs.            *)
(***************************************************************************)
EXTENDS Assets, TaxWorksheet, SumLemmas, FiniteSetTheorems, SequenceTheorems, TLAPS

-----------------------------------------------------------------------------
(* The inductive invariant: each asset x agrees with its entries J, more so  *)
(* while nobody crossed it, and each poster works on what it loaded.         *)

\* the ledger of one asset, from its entries
CostIn(a, J) ==
  (IF \E j \in DOMAIN J : J[j].kind = "capitalize" THEN 0 ELSE Cost[a])
    + SumFunctionOnSet([j \in DOMAIN J |-> (1 - J[j].mirrored) * J[j].cost], DOMAIN J)
AccumulatedIn(J) ==
  SumFunctionOnSet([j \in DOMAIN J |-> (1 - J[j].mirrored) * J[j].accumulated], DOMAIN J)

\* a posted row names its entry
Names(x, J, i) ==
  LET j == x.rows[i].journal IN
  j \in DOMAIN J /\ J[j].kind = "depreciate" /\ J[j].row = i /\ J[j].mirrored \in {0, 1}
AllNamed(x, J) == \A i \in RowsPosted(x) : Names(x, J, i)
Linked(x, J) ==
  /\ AllNamed(x, J)
  /\ x.stage = "draft" => RowsPosted(x) = {} /\ x.status = "Draft"

\* the plan fits the value, whoever posts what
Fits(a, x) == Method[a] # "Manual" => AmountOver(x, RowsOpen(x)) <= BookValue(x)

\* the depreciation that stands is that of the rows
Matches(x, J) ==
  /\ \A i \in RowsPosted(x) :
       LET e == J[x.rows[i].journal] IN e.mirrored = 0 /\ e.accumulated = x.rows[i].amount /\ e.cost = 0
  /\ \A j \in DOMAIN J : J[j].kind = "depreciate" /\ J[j].mirrored = 0 =>
       J[j].row \in DOMAIN x.rows /\ x.rows[J[j].row].journal = j
Balanced(a, x, J) ==
  /\ x.stage = "cancelled" => x.status = "Cancelled"
  /\ x.stage # "cancelled" =>
       IF x.status \in {"Sold", "Scrapped"}
       THEN CostIn(a, J) = 0 /\ AccumulatedIn(J) = 0
       ELSE CostIn(a, J) = x.gross /\ AccumulatedIn(J) = Accumulated(x)

Own(J) == \A j \in DOMAIN J : ~J[j].foreign
Good(a, x, J, alone) ==
  /\ x \in AssetRow(a) /\ J \in Seq(Entry) /\ Linked(x, J) /\ Fits(a, x)
  /\ alone /\ Live(x) => x.status = StatusFor(x)
  /\ alone /\ Own(J) => Matches(x, J) /\ Balanced(a, x, J)

AssetsGood ==
  /\ asset = [a \in AssetIds |-> asset[a]]
  /\ journals \in [AssetIds -> Seq(Entry)] /\ crossed \subseteq AssetIds
  /\ \A a \in AssetIds : \/ asset[a] = NoAsset /\ journals[a] = <<>>
                         \/ Good(a, asset[a], journals[a], a \notin crossed)

\* the copy of an asset that nobody else changed is the asset
Desk == [todo : SUBSET AssetIds, on : AssetIds \cup {NoAsset},
         copy : {NoAsset} \cup UNION {AssetRow(a) : a \in AssetIds}, rows : SUBSET Nat,
         day : ScheduleDays \cup {0}]
Fresh(d) ==
  /\ \A a \in d.todo : Exists(a)
  /\ d.rows # {} =>
       /\ d.on \in AssetIds /\ Exists(d.on) /\ asset[d.on].stage # "draft"
       /\ d.copy \in AssetRow(d.on) /\ d.rows \subseteq DOMAIN d.copy.rows
       /\ d.on \notin crossed => d.copy = asset[d.on] /\ Live(d.copy) /\ d.rows \subseteq RowsOpen(d.copy)
Copies == poster \in [Posters -> Desk] /\ \A p \in Posters : Fresh(poster[p])

AssetInv == frozenUpto \in 0 .. LastDay /\ now \in ScheduleDays /\ AssetsGood /\ Copies

-----------------------------------------------------------------------------
(* What the rows of a schedule add up to.                                   *)

LEMMA HalfUpInt ==
  ASSUME NEW a \in Int, NEW b \in Nat, b > 0
  PROVE  HalfUp(a, b) \in Int
<1>1. 2 * b > 0 /\ 2 * b \in Int /\ 2 * a + b \in Int
  OBVIOUS
<1>2. (2 * a + b) \div (2 * b) \in Int
  BY <1>1
<1> QED BY <1>2 DEF HalfUp

LEMMA StraightLineAdds ==
  ASSUME NEW d \in Int, NEW n \in Nat
  PROVE  /\ StraightLine(d, n) \in [1 .. n -> Int]
         /\ n > 0 => SumFunctionOnSet(StraightLine(d, n), 1 .. n) = d
<1> DEFINE per == HalfUp(d, n)
           f == StraightLine(d, n)
           even == [i \in 1 .. n |-> per]
<1>1. f = [i \in 1 .. n |-> IF i < n THEN per ELSE d - (n - 1) * per]
  BY DEF StraightLine
<1>2. n > 0 => per \in Int
  BY HalfUpInt
<1>3. f \in [1 .. n -> Int]
  <2> HIDE DEF per, f
  <2>1. ASSUME NEW i \in 1 .. n PROVE (IF i < n THEN per ELSE d - (n - 1) * per) \in Int
    BY <1>2, <2>1
  <2> QED BY <1>1, <2>1
<1>4. ASSUME n > 0 PROVE SumFunctionOnSet(f, 1 .. n) = d
  <2>1. IsFiniteSet(1 .. n) /\ Cardinality(1 .. n) = n
    BY FS_Interval
  <2>2. n \in 1 .. n
    BY <1>4
  <2> HIDE DEF per
  <2>3. SumFunctionOnSet(even, 1 .. n) = n * per
    BY <1>2, <1>4, <2>1, SumOfConstant
  <2>4. /\ \A i \in 1 .. n : even[i] \in Int
        /\ f[n] \in Int /\ f[n] = d - (n - 1) * per /\ even[n] = per
        /\ \A i \in (1 .. n) \ {n} : f[i] = even[i]
    BY <1>1, <1>2, <1>3, <1>4, <2>2
  <2> HIDE DEF f, even
  <2>5. SumFunctionOnSet(f, 1 .. n) = SumFunctionOnSet(even, 1 .. n) + f[n] - even[n]
    <3>1. PICK S, z : S = 1 .. n /\ z = n
      OBVIOUS
    <3>2. /\ IsFiniteSet(S) /\ z \in S /\ \A i \in S : even[i] \in Int
          /\ f[z] \in Int /\ \A i \in S \ {z} : f[i] = even[i]
      BY <2>1, <2>2, <2>4, <3>1
    <3>3. SumFunctionOnSet(f, S) = SumFunctionOnSet(even, S) + f[z] - even[z]
      BY <3>2, SumOfChange
    <3> QED BY <3>1, <3>3
  <2>6. (n - 1) * per = n * per - per
    BY <1>2, <1>4
  <2>7. n * per \in Int
    BY <1>2, <1>4
  <2> QED BY <1>2, <1>4, <2>3, <2>4, <2>5, <2>6, <2>7
<1> QED BY <1>3, <1>4

LEMMA Telescope ==
  ASSUME NEW n \in Nat, NEW left \in [0 .. n -> Int]
  PROVE  SumFunctionOnSet([i \in 1 .. n |-> left[i - 1] - left[i]], 1 .. n) = left[0] - left[n]
<1> DEFINE f == [i \in 1 .. n |-> left[i - 1] - left[i]]
           P == {k \in Nat : k <= n => SumFunctionOnSet(f, 1 .. k) = left[0] - left[k]}
<1>1. 0 \in P
  <2>1. 1 .. 0 = {} /\ left[0] \in Int
    OBVIOUS
  <2>2. SumFunctionOnSet(f, 1 .. 0) = 0
    BY <2>1, SumOfEmpty
  <2> HIDE DEF f
  <2> QED BY <2>1, <2>2
<1>2. ASSUME NEW k \in P PROVE k + 1 \in P
  <2> SUFFICES ASSUME k + 1 <= n PROVE SumFunctionOnSet(f, 1 .. (k + 1)) = left[0] - left[k + 1]
    OBVIOUS
  <2>1. /\ k \in Nat /\ SumFunctionOnSet(f, 1 .. k) = left[0] - left[k]
        /\ left[0] \in Int /\ left[k] \in Int /\ left[k + 1] \in Int
    OBVIOUS
  <2>2. 1 .. (k + 1) = (1 .. k) \cup {k + 1} /\ k + 1 \notin 1 .. k
    BY <2>1
  <2>6. IsFiniteSet(1 .. k)
    BY <2>1, FS_Interval
  <2>3. ASSUME NEW i \in (1 .. k) \cup {k + 1} PROVE f[i] \in Int
    <3>1. i \in 1 .. n /\ i - 1 \in 0 .. n /\ i \in 0 .. n
      BY <2>1
    <3> QED BY <3>1
  <2>4. f[k + 1] = left[k] - left[k + 1]
    BY <2>1
  <2> HIDE DEF f
  <2>5. SumFunctionOnSet(f, (1 .. k) \cup {k + 1}) = f[k + 1] + SumFunctionOnSet(f, 1 .. k)
    BY <2>2, <2>3, <2>6, SumWith
  <2>7. SumFunctionOnSet(f, 1 .. (k + 1)) = f[k + 1] + SumFunctionOnSet(f, 1 .. k)
    BY <2>2, <2>5
  <2> QED BY <2>1, <2>4, <2>7
<1>3. P = Nat
  <2> HIDE DEF P
  <2>1. P \in SUBSET Nat
    BY DEF P
  <2> QED BY <1>1, <1>2, <2>1, NumberInduction
<1>4. n \in P
  BY <1>3
<1> HIDE DEF f
<1>5. SumFunctionOnSet(f, 1 .. n) = left[0] - left[n]
  BY <1>4
<1> QED BY <1>5 DEF f

\* what is left after period i, of what was left before it
LeftNext(book, salvage, n, rate, i, before) ==
  IF i = 0 THEN book
  ELSE IF i = n THEN salvage
  ELSE before - Larger(0, Smaller(HalfUp(before * rate, 100), before - salvage))

LEMMA LeftIsInt ==
  ASSUME NEW book \in Int, NEW salvage \in Int, NEW n \in Nat, NEW rate \in Nat, NEW i \in Nat, NEW before \in Int
  PROVE  LeftNext(book, salvage, n, rate, i, before) \in Int
<1>1. HalfUp(before * rate, 100) \in Int
  BY HalfUpInt
<1> QED BY <1>1 DEF LeftNext, Larger, Smaller

LEMMA LeftExists ==
  ASSUME NEW book \in Int, NEW salvage \in Int, NEW n \in Nat, NEW rate \in Nat
  PROVE  /\ LeftAfter(book, salvage, n, rate) \in [0 .. n -> Int]
         /\ LeftAfter(book, salvage, n, rate)[0] = book
         /\ n > 0 => LeftAfter(book, salvage, n, rate)[n] = salvage
<1> DEFINE N(i, before) == LeftNext(book, salvage, n, rate, i, before)
           P == {k \in Nat : \E g \in [0 .. k -> Int] : \A i \in 0 .. k : g[i] = N(i, g[i - 1])}
<1>0. \A i \in Nat, before \in Int : N(i, before) \in Int
  BY LeftIsInt
<1>z. \A before : N(0, before) = book
  BY DEF LeftNext
<1>n. n > 0 => \A before : N(n, before) = salvage
  BY DEF LeftNext
<1>d. LeftAfter(book, salvage, n, rate)
        = CHOOSE left : left = [i \in 0 .. n |-> IF i = 0 THEN book ELSE IF i = n THEN salvage
            ELSE left[i - 1] - Larger(0, Smaller(HalfUp(left[i - 1] * rate, 100), left[i - 1] - salvage))]
  BY DEF LeftAfter
<1>e. LeftAfter(book, salvage, n, rate) = CHOOSE left : left = [i \in 0 .. n |-> N(i, left[i - 1])]
  BY <1>d DEF LeftNext
<1> HIDE DEF N
<1>1. 0 \in P
  <2> DEFINE g == [i \in {0} |-> book]
  <2>1. 0 .. 0 = {0}
    OBVIOUS
  <2>2. g \in [0 .. 0 -> Int] /\ \A i \in 0 .. 0 : g[i] = N(i, g[i - 1])
    BY <1>z, <2>1
  <2> QED BY <2>2
<1>2. ASSUME NEW k \in P PROVE k + 1 \in P
  <2>1. PICK g \in [0 .. k -> Int] : \A i \in 0 .. k : g[i] = N(i, g[i - 1])
    OBVIOUS
  <2>0. k \in Nat /\ k \in 0 .. k /\ k + 1 \in Nat
    OBVIOUS
  <2> DEFINE v == N(k + 1, g[k])
             h == [i \in 0 .. (k + 1) |-> IF i = k + 1 THEN v ELSE g[i]]
  <2>2. v \in Int
    BY <1>0, <2>0
  <2>3. \A i \in 0 .. (k + 1) : i = k + 1 \/ (i \in 0 .. k /\ i # k + 1)
    BY <2>0
  <2>4. h \in [0 .. (k + 1) -> Int]
    <3> HIDE DEF v
    <3> QED BY <2>0, <2>1, <2>2, <2>3
  <2>5. ASSUME NEW i \in 0 .. (k + 1) PROVE h[i] = N(i, h[i - 1])
    <3>1. CASE i = k + 1
      <4>1. i - 1 = k /\ k \in 0 .. (k + 1) /\ k # k + 1
        BY <2>0, <3>1
      <4> QED BY <3>1, <4>1
    <3>2. CASE i = 0
      BY <1>z, <2>0, <2>1, <3>2
    <3>3. CASE i \in 0 .. k /\ i # 0
      <4>1. i - 1 \in 0 .. (k + 1) /\ i - 1 # k + 1 /\ i # k + 1
        BY <2>0, <3>3
      <4> QED BY <2>1, <3>3, <4>1
    <3> QED BY <2>3, <3>1, <3>2, <3>3
  <2> HIDE DEF h
  <2> QED BY <2>0, <2>4, <2>5
<1>3. n \in P
  <2>1. P = Nat
    <3> HIDE DEF P
    <3>1. P \in SUBSET Nat
      BY DEF P
    <3> QED BY <1>1, <1>2, <3>1, NumberInduction
  <2> QED BY <2>1
<1>4. PICK g \in [0 .. n -> Int] : \A i \in 0 .. n : g[i] = N(i, g[i - 1])
  BY <1>3
<1>5. g = [i \in 0 .. n |-> N(i, g[i - 1])]
  BY <1>4
<1> DEFINE left == LeftAfter(book, salvage, n, rate)
<1>6. left = [i \in 0 .. n |-> N(i, left[i - 1])]
  BY <1>5, <1>e
<1> HIDE DEF left
<1>7. \A i \in 0 .. n : left[i] = N(i, left[i - 1])
  BY <1>6
<1> DEFINE Q == {k \in Nat : k <= n => left[k] \in Int}
<1>8. 0 \in Q
  BY <1>7, <1>z
<1>9. ASSUME NEW k \in Q PROVE k + 1 \in Q
  <2> SUFFICES ASSUME k + 1 <= n PROVE left[k + 1] \in Int
    OBVIOUS
  <2>1. k \in Nat /\ left[k] \in Int /\ k + 1 \in 0 .. n /\ (k + 1) - 1 = k /\ k + 1 \in Nat
    OBVIOUS
  <2>2. left[k + 1] = N(k + 1, left[k])
    BY <1>7, <2>1
  <2>3. N(k + 1, left[k]) \in Int
    BY <1>0, <2>1
  <2> QED BY <2>2, <2>3
<1>10. Q = Nat
  <2> HIDE DEF Q
  <2>1. Q \in SUBSET Nat
    BY DEF Q
  <2> QED BY <1>8, <1>9, <2>1, NumberInduction
<1>11. \A i \in 0 .. n : left[i] \in Int
  BY <1>10
<1>12. left \in [0 .. n -> Int]
  BY <1>6, <1>11
<1>13. left[0] = book /\ (n > 0 => left[n] = salvage)
  BY <1>7, <1>z, <1>n
<1> QED BY <1>12, <1>13 DEF left

LEMMA WrittenDownAdds ==
  ASSUME NEW book \in Int, NEW salvage \in Int, NEW n \in Nat, NEW rate \in Nat
  PROVE  /\ WrittenDown(book, salvage, n, rate) \in [1 .. n -> Int]
         /\ n > 0 => SumFunctionOnSet(WrittenDown(book, salvage, n, rate), 1 .. n) = book - salvage
<1>1. PICK left : left = LeftAfter(book, salvage, n, rate)
  OBVIOUS
<1>2. left \in [0 .. n -> Int] /\ left[0] = book /\ (n > 0 => left[n] = salvage)
  <2>1. LeftAfter(book, salvage, n, rate) \in [0 .. n -> Int]
    BY LeftExists
  <2>2. LeftAfter(book, salvage, n, rate)[0] = book
    BY LeftExists
  <2>3. n > 0 => LeftAfter(book, salvage, n, rate)[n] = salvage
    BY LeftExists
  <2> QED BY <1>1, <2>1, <2>2, <2>3
<1>3. WrittenDown(book, salvage, n, rate) = [i \in 1 .. n |-> left[i - 1] - left[i]]
  BY <1>1 DEF WrittenDown
<1>4. ASSUME NEW i \in 1 .. n PROVE left[i - 1] - left[i] \in Int
  <2>1. i - 1 \in 0 .. n /\ i \in 0 .. n
    OBVIOUS
  <2> QED BY <1>2, <2>1
<1>5. SumFunctionOnSet([i \in 1 .. n |-> left[i - 1] - left[i]], 1 .. n) = left[0] - left[n]
  BY <1>2, Telescope
<1> QED BY <1>2, <1>3, <1>4, <1>5

LEMMA RescheduleAdds ==
  ASSUME NEW method, NEW rate \in Nat, NEW book \in Int, NEW salvage \in Int, NEW n \in Nat,
         book >= 0, salvage >= 0, n > 0
  PROVE  /\ Reschedule(method, rate, book, salvage, n) \in [1 .. n -> Int]
         /\ SumFunctionOnSet(Reschedule(method, rate, book, salvage, n), 1 .. n) <= book
<1>1. CASE method = "Written Down Value" /\ book > salvage
  <2>1. Reschedule(method, rate, book, salvage, n) = WrittenDown(book, salvage, n, rate)
    BY <1>1 DEF Reschedule
  <2>2. WrittenDown(book, salvage, n, rate) \in [1 .. n -> Int]
    BY WrittenDownAdds
  <2>3. SumFunctionOnSet(WrittenDown(book, salvage, n, rate), 1 .. n) = book - salvage
    BY WrittenDownAdds
  <2> QED BY <2>1, <2>2, <2>3
<1>2. CASE ~(method = "Written Down Value" /\ book > salvage)
  <2>1. PICK d : d = Larger(book - salvage, 0)
    OBVIOUS
  <2>2. d \in Int /\ d <= book
    BY <2>1 DEF Larger
  <2>3. Reschedule(method, rate, book, salvage, n) = StraightLine(d, n)
    BY <1>2, <2>1 DEF Reschedule
  <2>4. StraightLine(d, n) \in [1 .. n -> Int] /\ SumFunctionOnSet(StraightLine(d, n), 1 .. n) = d
    BY <2>2, StraightLineAdds
  <2> QED BY <2>2, <2>3, <2>4
<1> QED BY <1>1, <1>2

\* the rows of a schedule are numbered in order
RankIn(S) == [i \in S |-> Cardinality({k \in S : k <= i})]

LEMMA Ranks ==
  ASSUME NEW S \in SUBSET Nat, IsFiniteSet(S)
  PROVE  /\ Cardinality(S) \in Nat /\ RankIn(S) \in [S -> 1 .. Cardinality(S)]
         /\ \A i, j \in S : RankIn(S)[i] = RankIn(S)[j] => i = j
         /\ \A m \in 1 .. Cardinality(S) : \E i \in S : RankIn(S)[i] = m
<1> DEFINE Below(i) == {k \in S : k <= i}
           n == Cardinality(S)
           rank == RankIn(S)
<1>0. rank = [i \in S |-> Cardinality(Below(i))]
  BY DEF RankIn
<1> HIDE DEF rank, n
<1>1. n \in Nat
  BY FS_CardinalityType DEF n
<1>2. ASSUME NEW i \in S
      PROVE  IsFiniteSet(Below(i)) /\ Cardinality(Below(i)) \in 1 .. n /\ rank[i] = Cardinality(Below(i))
  <2>1. Below(i) \subseteq S /\ i \in Below(i)
    OBVIOUS
  <2> HIDE DEF Below
  <2>2. IsFiniteSet(Below(i)) /\ Cardinality(Below(i)) <= n /\ Cardinality(Below(i)) \in Nat
    BY <2>1, FS_Subset, FS_CardinalityType DEF n
  <2>3. Cardinality(Below(i)) # 0
    BY <2>1, <2>2, FS_EmptySet
  <2> QED BY <1>0, <1>1, <2>2, <2>3
<1>3. rank \in [S -> 1 .. n]
  BY <1>0, <1>2
<1>4. ASSUME NEW i \in S, NEW j \in S, i < j PROVE rank[i] # rank[j]
  <2>0. ASSUME NEW k \in Below(i) PROVE k \in Below(j)
    <3>1. k \in S /\ k \in Nat /\ i \in Nat /\ j \in Nat /\ k <= i
      OBVIOUS
    <3>2. k <= j
      BY <1>4, <3>1
    <3> QED BY <3>1, <3>2
  <2>1. Below(i) \subseteq Below(j) /\ j \in Below(j) /\ j \notin Below(i)
    <3>1. Below(i) \subseteq Below(j)
      BY <2>0
    <3>2. i \in Nat /\ j \in Nat /\ ~(j <= i) /\ j <= j
      BY <1>4
    <3> QED BY <3>1, <3>2
  <2> HIDE DEF Below
  <2>2. Cardinality(Below(i)) # Cardinality(Below(j))
    BY <1>2, <2>1, FS_Subset
  <2> QED BY <1>2, <2>2
<1>5. \A i, j \in S : rank[i] = rank[j] => i = j
  <2> SUFFICES ASSUME NEW i \in S, NEW j \in S, i # j PROVE rank[i] # rank[j]
    OBVIOUS
  <2>1. i < j \/ j < i
    OBVIOUS
  <2> QED BY <1>4, <2>1
<1>6. rank \in Injection(S, 1 .. n)
  BY <1>3, <1>5 DEF Injection, IsInjective
<1>7. IsFiniteSet(1 .. n) /\ Cardinality(1 .. n) = n
  BY <1>1, FS_Interval
<1> HIDE DEF Below
<1>8. rank \in Surjection(S, 1 .. n)
  BY <1>6, <1>7, FS_Injection DEF n
<1>9. \A m \in 1 .. n : \E i \in S : rank[i] = m
  BY <1>8 DEF Surjection
<1> QED BY <1>1, <1>3, <1>5, <1>9 DEF rank, n

-----------------------------------------------------------------------------
(* The rows of one asset. *)

Amounts(x) == [i \in DOMAIN x.rows |-> x.rows[i].amount]

LEMMA RowFacts ==
  ASSUME NEW a \in AssetIds, NEW x \in AssetRow(a)
  PROVE  /\ x.rows \in [DOMAIN DueOn[a] -> Row] /\ DOMAIN x.rows = DOMAIN DueOn[a]
         /\ IsFiniteSet(DOMAIN x.rows) /\ DOMAIN x.rows \subseteq Nat /\ DOMAIN DueOn[a] = 1 .. Len(DueOn[a])
         /\ IsFiniteSet(RowsPosted(x)) /\ RowsPosted(x) \subseteq DOMAIN x.rows
         /\ IsFiniteSet(RowsOpen(x)) /\ RowsOpen(x) \subseteq DOMAIN x.rows
         /\ RowsPosted(x) \cap RowsOpen(x) = {} /\ RowsPosted(x) \cup RowsOpen(x) = DOMAIN x.rows
         /\ \A i \in DOMAIN x.rows : x.rows[i].amount \in Int
<1>1. x.rows \in [DOMAIN DueOn[a] -> Row] /\ DOMAIN x.rows = DOMAIN DueOn[a]
  BY DEF AssetRow
<1>2. DueOn[a] \in Seq(ScheduleDays)
  BY AssetAssumption
<1>3. DOMAIN DueOn[a] = 1 .. Len(DueOn[a]) /\ Len(DueOn[a]) \in Nat
  BY <1>2
<1>4. IsFiniteSet(DOMAIN x.rows) /\ DOMAIN x.rows \subseteq Nat
  BY <1>1, <1>3, FS_Interval
<1>5. RowsPosted(x) \subseteq DOMAIN x.rows /\ RowsOpen(x) \subseteq DOMAIN x.rows
  BY DEF RowsPosted, RowsOpen
<1>6. RowsPosted(x) \cap RowsOpen(x) = {} /\ RowsPosted(x) \cup RowsOpen(x) = DOMAIN x.rows
  BY <1>5 DEF RowsOpen
<1>7. IsFiniteSet(RowsPosted(x)) /\ IsFiniteSet(RowsOpen(x))
  BY <1>4, <1>5, FS_Subset
<1>8. \A i \in DOMAIN x.rows : x.rows[i].amount \in Int
  BY <1>1 DEF Row
<1> QED BY <1>1, <1>3, <1>4, <1>5, <1>6, <1>7, <1>8

LEMMA AmountIsInt ==
  ASSUME NEW a \in AssetIds, NEW x \in AssetRow(a), NEW R \in SUBSET DOMAIN x.rows
  PROVE  IsFiniteSet(R) /\ AmountOver(x, R) \in Int
<1>1. IsFiniteSet(R)
  BY RowFacts, FS_Subset
<1>2. \A i \in R : Amounts(x)[i] \in Int
  BY RowFacts DEF Amounts
<1>3. SumFunctionOnSet(Amounts(x), R) \in Int
  BY <1>1, <1>2, SumIsInt
<1> QED BY <1>1, <1>3 DEF AmountOver, Amounts

LEMMA ValuesAreInts ==
  ASSUME NEW a \in AssetIds, NEW x \in AssetRow(a)
  PROVE  /\ Accumulated(x) \in Int /\ BookValue(x) \in Int /\ x.gross \in Nat /\ x.adjusted \in Int
         /\ AmountOver(x, RowsPosted(x)) \in Int /\ AmountOver(x, RowsOpen(x)) \in Int
         /\ StatusFor(x) \in {"Submitted", "Partially Depreciated", "Fully Depreciated"}
<1>1. AmountOver(x, RowsPosted(x)) \in Int /\ AmountOver(x, RowsOpen(x)) \in Int
  BY RowFacts, AmountIsInt
<1>2. x.gross \in Nat /\ x.adjusted \in Int
  BY DEF AssetRow
<1>3. StatusFor(x) \in {"Submitted", "Partially Depreciated", "Fully Depreciated"}
  BY DEF StatusFor
<1>4. Accumulated(x) \in Int
  BY <1>1, <1>2 DEF Accumulated
<1>5. BookValue(x) \in Int
  BY <1>2, <1>4 DEF BookValue
<1> QED BY <1>1, <1>2, <1>3, <1>4, <1>5

LEMMA AmountSplits ==
  ASSUME NEW a \in AssetIds, NEW x \in AssetRow(a)
  PROVE  AmountOver(x, DOMAIN x.rows) = AmountOver(x, RowsPosted(x)) + AmountOver(x, RowsOpen(x))
<1>1. \A i \in RowsPosted(x) \cup RowsOpen(x) : Amounts(x)[i] \in Int
  BY RowFacts DEF Amounts
<1>2. SumFunctionOnSet(Amounts(x), RowsPosted(x) \cup RowsOpen(x))
        = SumFunctionOnSet(Amounts(x), RowsPosted(x)) + SumFunctionOnSet(Amounts(x), RowsOpen(x))
  BY <1>1, RowFacts, SumOfUnion
<1>3. RowsPosted(x) \cup RowsOpen(x) = DOMAIN x.rows
  BY RowFacts
<1> QED BY <1>2, <1>3 DEF AmountOver, Amounts

LEMMA SameAmounts ==
  ASSUME NEW a \in AssetIds, NEW x \in AssetRow(a), NEW y, DOMAIN y.rows = DOMAIN x.rows,
         NEW R \in SUBSET DOMAIN x.rows, \A i \in R : y.rows[i].amount = x.rows[i].amount
  PROVE  AmountOver(y, R) = AmountOver(x, R)
<1>1. \A i \in R : Amounts(y)[i] = Amounts(x)[i]
  BY DEF Amounts
<1>2. IsFiniteSet(R)
  BY AmountIsInt
<1>3. SumFunctionOnSet(Amounts(y), R) = SumFunctionOnSet(Amounts(x), R)
  BY <1>1, <1>2, SumOfSame
<1> QED BY <1>3 DEF AmountOver, Amounts

LEMMA SalvageIsNat ==
  ASSUME NEW gross \in Nat, NEW percent \in Nat
  PROVE  SalvageOf(gross, percent) \in Int /\ SalvageOf(gross, percent) >= 0
<1>1. gross * percent \in Nat
  OBVIOUS
<1>2. PICK g \in Nat : g = gross * percent
  BY <1>1
<1>3. (2 * g + 100) \div (2 * 100) \in Int /\ (2 * g + 100) \div (2 * 100) >= 0
  OBVIOUS
<1> QED BY <1>2, <1>3 DEF SalvageOf, HalfUp

LEMMA AssetConstants ==
  ASSUME NEW a \in AssetIds
  PROVE  /\ DueOn[a] \in Seq(ScheduleDays) /\ Cost[a] \in Nat /\ Cost[a] > 0
         /\ Salvage[a] \in Nat /\ Rate[a] \in Nat
         /\ Method[a] \in {"Straight Line", "Written Down Value", "Manual"}
         /\ Method[a] = "Manual" => ManualAmounts[a] \in [DOMAIN DueOn[a] -> Nat]
         /\ DOMAIN DueOn[a] = 1 .. Len(DueOn[a]) /\ Len(DueOn[a]) \in Nat
<1>1. DueOn[a] \in Seq(ScheduleDays)
  BY AssetAssumption
<1>2. Cost[a] \in Nat /\ Cost[a] > 0
  <2>1. Cost[a] \in Nat \ {0}
    BY AssetAssumption
  <2> QED BY <2>1
<1>3. Salvage[a] \in Nat
  <2>1. Salvage[a] \in 0 .. 100
    BY AssetAssumption
  <2> QED BY <2>1
<1>4. Rate[a] \in Nat
  BY AssetAssumption
<1>5. Method[a] \in {"Straight Line", "Written Down Value", "Manual"}
  BY AssetAssumption
<1>6. Method[a] = "Manual" => ManualAmounts[a] \in [DOMAIN DueOn[a] -> Nat]
  BY AssetAssumption
<1>7. DOMAIN DueOn[a] = 1 .. Len(DueOn[a]) /\ Len(DueOn[a]) \in Nat
  BY <1>1
<1> QED BY <1>1, <1>2, <1>3, <1>4, <1>5, <1>6, <1>7

\* the first plan spreads what an asset cost above its salvage value
LEMMA FirstPlan ==
  ASSUME NEW a \in AssetIds
  PROVE  /\ FirstAmounts(a) \in [DOMAIN DueOn[a] -> Int]
         /\ Method[a] # "Manual" => SumFunctionOnSet(FirstAmounts(a), DOMAIN DueOn[a]) <= Cost[a]
<1> DEFINE f == FirstAmounts(a)
<1>1. PICK n : n = Len(DueOn[a])
  OBVIOUS
<1>2. PICK s : s = SalvageOf(Cost[a], Salvage[a])
  OBVIOUS
<1>3. DOMAIN DueOn[a] = 1 .. n /\ n \in Nat
  BY <1>1, AssetConstants
<1>4. s \in Int /\ s >= 0
  <2>1. Cost[a] \in Nat /\ Salvage[a] \in Nat
    BY AssetConstants
  <2> QED BY <1>2, <2>1, SalvageIsNat
<1>5. Cost[a] \in Int /\ Cost[a] > 0 /\ Cost[a] - s \in Int /\ Rate[a] \in Nat
  <2>1. Cost[a] \in Nat /\ Cost[a] > 0 /\ Rate[a] \in Nat
    BY AssetConstants
  <2> QED BY <1>4, <2>1
<1>6. CASE Method[a] = "Manual"
  <2>1. f = ManualAmounts[a]
    BY <1>6 DEF FirstAmounts
  <2>2. ManualAmounts[a] \in [DOMAIN DueOn[a] -> Nat]
    BY <1>6, AssetConstants
  <2>3. f \in [DOMAIN DueOn[a] -> Int]
    BY <2>1, <2>2
  <2> QED BY <1>6, <2>3
<1>7. ASSUME n > 0 \/ SumFunctionOnSet(f, 1 .. n) = 0, f \in [1 .. n -> Int],
             n > 0 => SumFunctionOnSet(f, 1 .. n) = Cost[a] - s
      PROVE  f \in [DOMAIN DueOn[a] -> Int] /\ SumFunctionOnSet(f, DOMAIN DueOn[a]) <= Cost[a]
  <2> HIDE DEF f
  <2>1. SumFunctionOnSet(f, 1 .. n) <= Cost[a]
    BY <1>4, <1>5, <1>7
  <2> QED BY <1>3, <1>7, <2>1
<1>8. n > 0 \/ SumFunctionOnSet(f, 1 .. n) = 0
  <2>1. n > 0 \/ 1 .. n = {}
    BY <1>3
  <2> QED BY <2>1, SumOfEmpty
<1>9. CASE Method[a] = "Straight Line"
  <2>1. f = StraightLine(Cost[a] - s, n)
    BY <1>1, <1>2, <1>9 DEF FirstAmounts
  <2>2. StraightLine(Cost[a] - s, n) \in [1 .. n -> Int]
    BY <1>3, <1>5, StraightLineAdds
  <2>3. n > 0 => SumFunctionOnSet(StraightLine(Cost[a] - s, n), 1 .. n) = Cost[a] - s
    BY <1>3, <1>5, StraightLineAdds
  <2> HIDE DEF f
  <2> QED BY <1>7, <1>8, <2>1, <2>2, <2>3 DEF f
<1>10. CASE Method[a] = "Written Down Value"
  <2>1. f = WrittenDown(Cost[a], s, n, Rate[a])
    BY <1>1, <1>2, <1>10 DEF FirstAmounts
  <2>2. WrittenDown(Cost[a], s, n, Rate[a]) \in [1 .. n -> Int]
    BY <1>3, <1>4, <1>5, WrittenDownAdds
  <2>3. n > 0 => SumFunctionOnSet(WrittenDown(Cost[a], s, n, Rate[a]), 1 .. n) = Cost[a] - s
    BY <1>3, <1>4, <1>5, WrittenDownAdds
  <2> HIDE DEF f
  <2> QED BY <1>7, <1>8, <2>1, <2>2, <2>3 DEF f
<1> QED BY <1>6, <1>9, <1>10, AssetConstants

\* a new asset has nothing posted and plans no more than it cost
LEMMA NewFacts ==
  ASSUME NEW a \in AssetIds, NEW stage \in {"draft", "submitted", "cancelled"}, NEW status \in Statuses,
         NEW x, x = NewAsset(a, stage, status)
  PROVE  /\ x \in AssetRow(a) /\ RowsPosted(x) = {} /\ Fits(a, x)
         /\ x.stage = stage /\ x.status = status /\ x.gross = Cost[a] /\ Accumulated(x) = 0
         /\ \A i \in DOMAIN x.rows : x.rows[i].journal = 0
<1>1. PICK f : f = FirstAmounts(a)
  OBVIOUS
<1>2. f \in [DOMAIN DueOn[a] -> Int]
  BY <1>1, FirstPlan
<1>3. Method[a] # "Manual" => SumFunctionOnSet(f, DOMAIN DueOn[a]) <= Cost[a]
  BY <1>1, FirstPlan
<1>4. x = [stage |-> stage, status |-> status, gross |-> Cost[a], adjusted |-> 0,
           rows |-> [i \in DOMAIN DueOn[a] |-> [due |-> DueOn[a][i], amount |-> f[i], journal |-> 0]]]
  BY <1>1 DEF NewAsset
<1>5. /\ x.stage = stage /\ x.status = status /\ x.gross = Cost[a] /\ x.adjusted = 0
      /\ DOMAIN x.rows = DOMAIN DueOn[a]
      /\ \A i \in DOMAIN x.rows : x.rows[i] = [due |-> DueOn[a][i], amount |-> f[i], journal |-> 0]
  BY <1>4
<1>6. Cost[a] \in Nat
  BY AssetConstants
<1>7. x \in AssetRow(a)
  <2>1. ASSUME NEW i \in DOMAIN DueOn[a] PROVE [due |-> DueOn[a][i], amount |-> f[i], journal |-> 0] \in Row
    <3>1. DueOn[a] \in Seq(ScheduleDays)
      BY AssetConstants
    <3>2. DueOn[a][i] \in ScheduleDays /\ f[i] \in Int
      BY <1>2, <3>1
    <3> QED BY <3>2 DEF Row
  <2> QED BY <1>4, <1>6, <2>1 DEF AssetRow
<1>8. \A i \in DOMAIN x.rows : x.rows[i].journal = 0 /\ x.rows[i].amount = f[i]
  <2>1. ASSUME NEW i \in DOMAIN x.rows PROVE x.rows[i].journal = 0 /\ x.rows[i].amount = f[i]
    <3>1. x.rows[i] = [due |-> DueOn[a][i], amount |-> f[i], journal |-> 0]
      BY <1>5
    <3> QED BY <3>1
  <2> QED BY <2>1
<1>9. RowsPosted(x) = {} /\ RowsOpen(x) = DOMAIN x.rows
  BY <1>8 DEF RowsPosted, RowsOpen
<1>10. AmountOver(x, RowsPosted(x)) = 0
  BY <1>9, SumOfEmpty DEF AmountOver
<1>11. Accumulated(x) = 0
  BY <1>5, <1>10 DEF Accumulated
<1>12. BookValue(x) = Cost[a]
  BY <1>5, <1>6, <1>11 DEF BookValue
<1>13. AmountOver(x, RowsOpen(x)) = SumFunctionOnSet(f, DOMAIN DueOn[a])
  <2>1. [i \in DOMAIN x.rows |-> x.rows[i].amount] = f
    BY <1>2, <1>5, <1>8
  <2> QED BY <1>5, <1>9, <2>1 DEF AmountOver
<1>14. Fits(a, x)
  BY <1>3, <1>12, <1>13 DEF Fits
<1> QED BY <1>5, <1>7, <1>8, <1>9, <1>11, <1>14

Replanned(a, x, value, y) ==
  /\ y \in AssetRow(a) /\ y.stage = x.stage /\ y.status = x.status
  /\ y.gross = x.gross /\ y.adjusted = x.adjusted
  /\ \A i \in DOMAIN x.rows : y.rows[i].journal = x.rows[i].journal
  /\ \A i \in RowsPosted(x) : y.rows[i].amount = x.rows[i].amount
  /\ Method[a] # "Manual" => AmountOver(y, RowsOpen(x)) <= value

\* a new plan fits the new value and leaves what is posted alone
LEMMA RescheduledFacts ==
  ASSUME NEW a \in AssetIds, NEW x \in AssetRow(a), NEW value \in Nat
  PROVE  Replanned(a, x, value, Rescheduled(a, x, value))
<1>0. PICK y : y = Rescheduled(a, x, value)
  OBVIOUS
<1> SUFFICES
         /\ y \in AssetRow(a) /\ y.stage = x.stage /\ y.status = x.status
         /\ y.gross = x.gross /\ y.adjusted = x.adjusted
         /\ \A i \in DOMAIN x.rows : y.rows[i].journal = x.rows[i].journal
         /\ \A i \in RowsPosted(x) : y.rows[i].amount = x.rows[i].amount
         /\ Method[a] # "Manual" => AmountOver(y, RowsOpen(x)) <= value
  BY <1>0 DEF Replanned
<1>1. PICK open : open = RowsOpen(x)
  OBVIOUS
<1>2. CASE open = {} \/ Method[a] = "Manual"
  <2>1. y = x
    BY <1>0, <1>1, <1>2 DEF Rescheduled
  <2>2. open = {} => AmountOver(x, open) = 0
    BY SumOfEmpty DEF AmountOver
  <2> QED BY <1>1, <1>2, <2>1, <2>2
<1>3. CASE open # {} /\ Method[a] # "Manual"
  <2>1. PICK s : s = SalvageOf(x.gross, Salvage[a])
    OBVIOUS
  <2>2. PICK n : n = Cardinality(open)
    OBVIOUS
  <2>3. PICK rank : rank = RankIn(open)
    OBVIOUS
  <2>4. PICK f : f = Reschedule(Method[a], Rate[a], value, s, n)
    OBVIOUS
  <2>5. Salvage[a] \in Nat /\ Rate[a] \in Nat
    BY AssetConstants
  <2>6. x.gross \in Nat /\ x.rows \in [DOMAIN DueOn[a] -> Row]
    BY DEF AssetRow
  <2>7. s \in Int /\ s >= 0
    BY <2>1, <2>5, <2>6, SalvageIsNat
  <2>8. IsFiniteSet(open) /\ open \in SUBSET Nat /\ open \subseteq DOMAIN x.rows /\ DOMAIN x.rows = DOMAIN DueOn[a]
    BY <1>1, RowFacts
  <2>9. n \in Nat /\ rank \in [open -> 1 .. n]
    BY <2>2, <2>3, <2>8, Ranks
  <2>10. \A i, j \in open : rank[i] = rank[j] => i = j
    BY <2>2, <2>3, <2>8, Ranks
  <2>11. \A m \in 1 .. n : \E i \in open : rank[i] = m
    BY <2>2, <2>3, <2>8, Ranks
  <2>12. n > 0
    <3>1. n # 0
      BY <1>3, <2>2, <2>8, FS_EmptySet
    <3> QED BY <2>9, <3>1
  <2>13. f \in [1 .. n -> Int]
    BY <2>4, <2>5, <2>7, <2>9, <2>12, RescheduleAdds
  <2>14. SumFunctionOnSet(f, 1 .. n) <= value
    BY <2>4, <2>5, <2>7, <2>9, <2>12, RescheduleAdds
  <2>15. \A i \in open : rank[i] = Cardinality({k \in open : k <= i})
    BY <2>3 DEF RankIn
  <2>16. y = [x EXCEPT !.rows = [i \in DOMAIN x.rows |->
                IF i \in open THEN [x.rows[i] EXCEPT !.amount = f[Cardinality({k \in open : k <= i})]]
                ELSE x.rows[i]]]
    BY <1>0, <1>1, <1>3, <2>1, <2>2, <2>4 DEF Rescheduled
  <2>17. /\ y.stage = x.stage /\ y.status = x.status /\ y.gross = x.gross /\ y.adjusted = x.adjusted
         /\ DOMAIN y.rows = DOMAIN x.rows /\ y = [x EXCEPT !.rows = y.rows]
         /\ y.rows = [i \in DOMAIN x.rows |-> y.rows[i]]
         /\ \A i \in open : y.rows[i] = [x.rows[i] EXCEPT !.amount = f[Cardinality({k \in open : k <= i})]]
         /\ \A i \in DOMAIN x.rows \ open : y.rows[i] = x.rows[i]
    BY <2>8, <2>16 DEF AssetRow
  <2>18. ASSUME NEW i \in open
         PROVE  y.rows[i].amount = f[rank[i]] /\ y.rows[i].journal = x.rows[i].journal /\ y.rows[i] \in Row
    <3>1. x.rows[i] \in Row
      BY <2>6, <2>8
    <3>2. f[rank[i]] \in Int
      BY <2>9, <2>13
    <3>3. y.rows[i] = [x.rows[i] EXCEPT !.amount = f[rank[i]]]
      BY <2>15, <2>17
    <3> QED BY <3>1, <3>2, <3>3 DEF Row
  <2>19. y \in AssetRow(a)
    <3>1. \A i \in DOMAIN x.rows : y.rows[i] \in Row
      BY <2>6, <2>8, <2>17, <2>18
    <3>2. y.rows \in [DOMAIN DueOn[a] -> Row]
      BY <2>8, <2>17, <3>1
    <3> QED BY <2>17, <3>2 DEF AssetRow
  <2>20. AmountOver(y, open) <= value
    <3> DEFINE g == [i \in open |-> f[rank[i]]]
    <3>1. SumFunctionOnSet(g, open) = SumFunctionOnSet(f, 1 .. n)
      <4>1. \A k \in 1 .. n : f[k] \in Int
        BY <2>13
      <4> QED BY <2>8, <2>9, <2>10, <2>11, <4>1, SumOfMoved
    <3>2. SumFunctionOnSet(Amounts(y), open) = SumFunctionOnSet(g, open)
      <4>1. \A i \in open : Amounts(y)[i] = g[i]
        BY <2>8, <2>17, <2>18 DEF Amounts
      <4> HIDE DEF g
      <4> QED BY <2>8, <4>1, SumOfSame
    <3> HIDE DEF g
    <3> QED BY <2>14, <3>1, <3>2 DEF AmountOver, Amounts
  <2>21. \A i \in RowsPosted(x) : i \in DOMAIN x.rows \ open
    BY <1>1, RowFacts
  <2>22. \A i \in DOMAIN x.rows : y.rows[i].journal = x.rows[i].journal
    BY <2>17, <2>18
  <2>23. \A i \in RowsPosted(x) : y.rows[i].amount = x.rows[i].amount
    BY <2>17, <2>21
  <2> QED BY <1>1, <2>17, <2>19, <2>20, <2>22, <2>23
<1> QED BY <1>2, <1>3

LEMMA EntryFacts ==
  ASSUME NEW J \in Seq(Entry)
  PROVE  /\ IsFiniteSet(DOMAIN J) /\ DOMAIN J = 1 .. Len(J) /\ Len(J) \in Nat
         /\ \A j \in DOMAIN J : /\ J[j] \in Entry /\ J[j].cost \in Int /\ J[j].accumulated \in Int
                                /\ J[j].mirrored \in Int /\ J[j].mirrored \in 0 .. 2
                                /\ (1 - J[j].mirrored) * J[j].cost \in Int
                                /\ (1 - J[j].mirrored) * J[j].accumulated \in Int
<1>1. DOMAIN J = 1 .. Len(J) /\ Len(J) \in Nat
  OBVIOUS
<1>2. IsFiniteSet(DOMAIN J)
  BY <1>1, FS_Interval
<1>3. ASSUME NEW j \in DOMAIN J
      PROVE  /\ J[j] \in Entry /\ J[j].cost \in Int /\ J[j].accumulated \in Int
             /\ J[j].mirrored \in Int /\ J[j].mirrored \in 0 .. 2
             /\ (1 - J[j].mirrored) * J[j].cost \in Int
             /\ (1 - J[j].mirrored) * J[j].accumulated \in Int
  <2>1. J[j] \in Entry
    BY <1>1, <1>3
  <2>2. J[j].cost \in Int /\ J[j].accumulated \in Int /\ J[j].mirrored \in 0 .. 2
    BY <2>1 DEF Entry
  <2>3. PICK c \in Int, d \in Int, m \in Int : c = J[j].cost /\ d = J[j].accumulated /\ m = J[j].mirrored
    BY <2>2
  <2>4. (1 - m) * c \in Int /\ (1 - m) * d \in Int
    OBVIOUS
  <2> QED BY <2>1, <2>2, <2>3, <2>4
<1> QED BY <1>1, <1>2, <1>3

\* what the entries of J that stand add to the cost account, and to the depreciation
CostOf(J) == [j \in DOMAIN J |-> (1 - J[j].mirrored) * J[j].cost]
DepreciationOf(J) == [j \in DOMAIN J |-> (1 - J[j].mirrored) * J[j].accumulated]

LEMMA LedgerFacts ==
  ASSUME NEW a \in AssetIds, NEW J \in Seq(Entry)
  PROVE  CostIn(a, J) \in Int /\ AccumulatedIn(J) \in Int
<1>1. \A j \in DOMAIN J : CostOf(J)[j] \in Int /\ DepreciationOf(J)[j] \in Int
  BY EntryFacts DEF CostOf, DepreciationOf
<1>2. IsFiniteSet(DOMAIN J)
  BY EntryFacts
<1>3. SumFunctionOnSet(CostOf(J), DOMAIN J) \in Int
  BY <1>1, <1>2, SumIsInt
<1>4. SumFunctionOnSet(DepreciationOf(J), DOMAIN J) \in Int
  BY <1>1, <1>2, SumIsInt
<1>5. Cost[a] \in Int
  <2>1. Cost[a] \in Nat
    BY AssetConstants
  <2> QED BY <2>1
<1> QED BY <1>3, <1>4, <1>5 DEF CostIn, AccumulatedIn, CostOf, DepreciationOf

LEMMA AppendFacts ==
  ASSUME NEW J \in Seq(Entry), NEW e \in Entry, NEW K, K = Append(J, e)
  PROVE  /\ K \in Seq(Entry) /\ Len(K) = Len(J) + 1 /\ DOMAIN K = DOMAIN J \cup {Len(J) + 1}
         /\ Len(J) + 1 \notin DOMAIN J /\ K[Len(J) + 1] = e /\ \A j \in DOMAIN J : K[j] = J[j]
<1>1. K \in Seq(Entry) /\ Len(K) = Len(J) + 1 /\ Len(J) \in Nat
  OBVIOUS
<1>2. DOMAIN K = 1 .. (Len(J) + 1) /\ DOMAIN J = 1 .. Len(J)
  BY <1>1
<1>3. DOMAIN K = DOMAIN J \cup {Len(J) + 1} /\ Len(J) + 1 \notin DOMAIN J
  BY <1>1, <1>2
<1>4. K[Len(J) + 1] = e /\ \A j \in DOMAIN J : K[j] = J[j]
  OBVIOUS
<1> QED BY <1>1, <1>3, <1>4

\* a new entry adds what it says
LEMMA AppendAdds ==
  ASSUME NEW a \in AssetIds, NEW J \in Seq(Entry), NEW e \in Entry, e.mirrored = 0, NEW K, K = Append(J, e)
  PROVE  /\ e.kind # "capitalize" => CostIn(a, K) = CostIn(a, J) + e.cost
         /\ AccumulatedIn(K) = AccumulatedIn(J) + e.accumulated
<1>1. PICK n : n = Len(J) + 1
  OBVIOUS
<1>2. /\ K \in Seq(Entry) /\ DOMAIN K = DOMAIN J \cup {n} /\ n \notin DOMAIN J /\ K[n] = e
      /\ \A j \in DOMAIN J : K[j] = J[j]
  BY <1>1, AppendFacts
<1>3. e.cost \in Int /\ e.accumulated \in Int /\ IsFiniteSet(DOMAIN J)
  BY EntryFacts DEF Entry
<1>4. /\ \A j \in DOMAIN J \cup {n} : CostOf(K)[j] \in Int /\ DepreciationOf(K)[j] \in Int
      /\ \A j \in DOMAIN J : CostOf(K)[j] = CostOf(J)[j] /\ DepreciationOf(K)[j] = DepreciationOf(J)[j]
  <2>1. \A j \in DOMAIN K : CostOf(K)[j] \in Int /\ DepreciationOf(K)[j] \in Int
    BY <1>2, EntryFacts DEF CostOf, DepreciationOf
  <2> QED BY <1>2, <2>1 DEF CostOf, DepreciationOf
<1>5. CostOf(K)[n] = e.cost /\ DepreciationOf(K)[n] = e.accumulated
  <2>1. CostOf(K)[n] = (1 - 0) * e.cost /\ DepreciationOf(K)[n] = (1 - 0) * e.accumulated
    BY <1>2 DEF CostOf, DepreciationOf
  <2> QED BY <1>3, <2>1
<1>6. SumFunctionOnSet(CostOf(K), DOMAIN J \cup {n}) = CostOf(K)[n] + SumFunctionOnSet(CostOf(K), DOMAIN J)
  BY <1>2, <1>3, <1>4, SumWith
<1>7. SumFunctionOnSet(DepreciationOf(K), DOMAIN J \cup {n})
        = DepreciationOf(K)[n] + SumFunctionOnSet(DepreciationOf(K), DOMAIN J)
  BY <1>2, <1>3, <1>4, SumWith
<1>8. SumFunctionOnSet(CostOf(K), DOMAIN J) = SumFunctionOnSet(CostOf(J), DOMAIN J)
  BY <1>3, <1>4, SumOfSame
<1>9. SumFunctionOnSet(DepreciationOf(K), DOMAIN J) = SumFunctionOnSet(DepreciationOf(J), DOMAIN J)
  BY <1>3, <1>4, SumOfSame
<1>10. SumFunctionOnSet(CostOf(J), DOMAIN J) \in Int
  <2>1. \A j \in DOMAIN J : CostOf(J)[j] \in Int
    BY <1>4
  <2> QED BY <1>3, <2>1, SumIsInt
<1>11. SumFunctionOnSet(DepreciationOf(J), DOMAIN J) \in Int
  <2>1. \A j \in DOMAIN J : DepreciationOf(J)[j] \in Int
    BY <1>4
  <2> QED BY <1>3, <2>1, SumIsInt
<1>12. AccumulatedIn(K) = AccumulatedIn(J) + e.accumulated
  <2>1. AccumulatedIn(J) = SumFunctionOnSet(DepreciationOf(J), DOMAIN J)
    BY DEF AccumulatedIn, DepreciationOf
  <2>2. AccumulatedIn(K) = SumFunctionOnSet(DepreciationOf(K), DOMAIN J \cup {n})
    BY <1>2 DEF AccumulatedIn, DepreciationOf
  <2> QED BY <1>3, <1>5, <1>7, <1>9, <1>11, <2>1, <2>2
<1>13. ASSUME e.kind # "capitalize" PROVE CostIn(a, K) = CostIn(a, J) + e.cost
  <2>1. (\E j \in DOMAIN K : K[j].kind = "capitalize") <=> (\E j \in DOMAIN J : J[j].kind = "capitalize")
    BY <1>2, <1>13
  <2>2. PICK base : base = IF \E j \in DOMAIN J : J[j].kind = "capitalize" THEN 0 ELSE Cost[a]
    OBVIOUS
  <2>3. base \in Int
    <3>1. Cost[a] \in Nat
      BY AssetConstants
    <3> QED BY <2>2, <3>1
  <2>4. CostIn(a, J) = base + SumFunctionOnSet(CostOf(J), DOMAIN J)
    BY <2>2 DEF CostIn, CostOf
  <2>5. CostIn(a, K) = base + SumFunctionOnSet(CostOf(K), DOMAIN J \cup {n})
    BY <1>2, <2>1, <2>2 DEF CostIn, CostOf
  <2> QED BY <1>3, <1>5, <1>6, <1>8, <1>10, <2>3, <2>4, <2>5
<1> QED BY <1>12, <1>13

LEMMA MirrorFacts ==
  ASSUME NEW J \in Seq(Entry), NEW mine \in SUBSET DOMAIN J, \A j \in mine : J[j].mirrored \in {0, 1},
         NEW K, K = Mirrored(J, mine)
  PROVE  /\ K \in Seq(Entry) /\ DOMAIN K = DOMAIN J
         /\ \A j \in DOMAIN J : /\ K[j].kind = J[j].kind /\ K[j].row = J[j].row /\ K[j].foreign = J[j].foreign
                                /\ K[j].cost = J[j].cost /\ K[j].accumulated = J[j].accumulated
                                /\ K[j].mirrored = IF j \in mine THEN J[j].mirrored + 1 ELSE J[j].mirrored
<1>1. DOMAIN K = DOMAIN J /\ \A j \in DOMAIN J :
        K[j] = IF j \in mine THEN [J[j] EXCEPT !.mirrored = @ + 1] ELSE J[j]
  BY DEF Mirrored
<1>2. ASSUME NEW j \in DOMAIN J
      PROVE  /\ K[j] \in Entry /\ K[j].kind = J[j].kind /\ K[j].row = J[j].row /\ K[j].foreign = J[j].foreign
             /\ K[j].cost = J[j].cost /\ K[j].accumulated = J[j].accumulated
             /\ K[j].mirrored = IF j \in mine THEN J[j].mirrored + 1 ELSE J[j].mirrored
  <2>1. J[j] \in Entry
    BY EntryFacts
  <2>2. CASE j \in mine
    <3>1. K[j] = [J[j] EXCEPT !.mirrored = J[j].mirrored + 1]
      BY <1>1, <2>2
    <3>2. J[j].mirrored + 1 \in 0 .. 2
      BY <2>2
    <3> QED BY <2>1, <2>2, <3>1, <3>2 DEF Entry
  <2>3. CASE j \notin mine
    BY <1>1, <2>1, <2>3
  <2> QED BY <2>2, <2>3
<1>3. K \in [1 .. Len(J) -> Entry] /\ Len(J) \in Nat
  <2>1. K = [j \in DOMAIN J |-> K[j]] /\ DOMAIN J = 1 .. Len(J)
    BY EntryFacts DEF Mirrored
  <2> QED BY <1>2, <2>1, EntryFacts
<1>4. K \in Seq(Entry)
  BY <1>3
<1> QED BY <1>1, <1>2, <1>4

\* a reversal takes what the posted rows had written out of the ledger
LEMMA MirrorTakesOut ==
  ASSUME NEW a \in AssetIds, NEW x \in AssetRow(a), NEW J \in Seq(Entry),
         AllNamed(x, J), Matches(x, J), NEW K, K = Mirrored(J, OwnEntries(x))
  PROVE  CostIn(a, K) = CostIn(a, J) /\ AccumulatedIn(K) = AccumulatedIn(J) - AmountOver(x, RowsPosted(x))
<1>1. PICK mine : mine = OwnEntries(x)
  OBVIOUS
<1>2. PICK posted : posted = RowsPosted(x)
  OBVIOUS
<1>3. /\ mine \in SUBSET DOMAIN J
      /\ \A j \in mine : J[j].mirrored = 0 /\ J[j].cost = 0
      /\ \A i \in posted : /\ x.rows[i].journal \in mine /\ J[x.rows[i].journal].row = i
                           /\ J[x.rows[i].journal].accumulated = x.rows[i].amount
      /\ \A j \in mine : \E i \in posted : x.rows[i].journal = j
  BY <1>1, <1>2 DEF OwnEntries, AllNamed, Names, Matches
<1>4. DOMAIN K = DOMAIN J
  BY <1>1, <1>3, MirrorFacts
<1>5. \A j \in DOMAIN J : /\ K[j].kind = J[j].kind
                          /\ K[j].cost = J[j].cost /\ K[j].accumulated = J[j].accumulated
                          /\ K[j].mirrored = IF j \in mine THEN J[j].mirrored + 1 ELSE J[j].mirrored
  <2>1. K = Mirrored(J, mine) /\ \A j \in mine : J[j].mirrored \in {0, 1}
    BY <1>1, <1>3
  <2> QED BY <1>3, <2>1, MirrorFacts
<1>6. IsFiniteSet(DOMAIN J) /\ IsFiniteSet(mine) /\ IsFiniteSet(DOMAIN J \ mine)
  BY <1>3, EntryFacts, FS_Subset
<1>7. \A j \in DOMAIN J : CostOf(K)[j] = CostOf(J)[j]
  <2>1. ASSUME NEW j \in DOMAIN J PROVE CostOf(K)[j] = CostOf(J)[j]
    <3>1. CASE j \in mine
      <4>1. CostOf(K)[j] = (1 - (0 + 1)) * 0 /\ CostOf(J)[j] = (1 - 0) * 0
        BY <1>3, <1>4, <1>5, <3>1 DEF CostOf
      <4> QED BY <4>1
    <3>2. CASE j \notin mine
      BY <1>4, <1>5, <3>2 DEF CostOf
    <3> QED BY <3>1, <3>2
  <2> QED BY <2>1
<1>8. CostIn(a, K) = CostIn(a, J)
  <2>1. SumFunctionOnSet(CostOf(K), DOMAIN J) = SumFunctionOnSet(CostOf(J), DOMAIN J)
    BY <1>6, <1>7, SumOfSame
  <2>2. (\E j \in DOMAIN K : K[j].kind = "capitalize") <=> (\E j \in DOMAIN J : J[j].kind = "capitalize")
    BY <1>4, <1>5
  <2> QED BY <1>4, <2>1, <2>2 DEF CostIn, CostOf
<1>9. \A j \in mine \cup (DOMAIN J \ mine) : DepreciationOf(J)[j] \in Int
  BY <1>3, EntryFacts DEF DepreciationOf
<1>10. \A j \in mine : DepreciationOf(J)[j] = J[j].accumulated /\ DepreciationOf(K)[j] = 0
  <2>1. ASSUME NEW j \in mine PROVE DepreciationOf(J)[j] = J[j].accumulated /\ DepreciationOf(K)[j] = 0
    <3>1. J[j].accumulated \in Int /\ j \in DOMAIN J
      BY <1>3, EntryFacts
    <3>2. DepreciationOf(J)[j] = (1 - 0) * J[j].accumulated
      BY <1>3, <3>1 DEF DepreciationOf
    <3>3. DepreciationOf(K)[j] = (1 - (0 + 1)) * J[j].accumulated
      BY <1>3, <1>4, <1>5, <3>1 DEF DepreciationOf
    <3> QED BY <3>1, <3>2, <3>3
  <2> QED BY <2>1
<1>11. \A j \in DOMAIN J \ mine : DepreciationOf(K)[j] = DepreciationOf(J)[j]
  BY <1>4, <1>5 DEF DepreciationOf
<1>12. SumFunctionOnSet(DepreciationOf(J), mine \cup (DOMAIN J \ mine))
         = SumFunctionOnSet(DepreciationOf(J), mine) + SumFunctionOnSet(DepreciationOf(J), DOMAIN J \ mine)
  <2>1. mine \cap (DOMAIN J \ mine) = {}
    OBVIOUS
  <2> QED BY <1>6, <1>9, <2>1, SumOfUnion
<1>13. SumFunctionOnSet(DepreciationOf(K), mine \cup (DOMAIN J \ mine))
         = SumFunctionOnSet(DepreciationOf(K), mine) + SumFunctionOnSet(DepreciationOf(K), DOMAIN J \ mine)
  <2>1. mine \cap (DOMAIN J \ mine) = {}
    OBVIOUS
  <2>2. \A j \in mine \cup (DOMAIN J \ mine) : DepreciationOf(K)[j] \in Int
    <3>1. \A j \in mine : DepreciationOf(K)[j] \in Int
      BY <1>10
    <3>2. \A j \in DOMAIN J \ mine : DepreciationOf(K)[j] \in Int
      BY <1>9, <1>11
    <3> QED BY <3>1, <3>2
  <2> QED BY <1>6, <2>1, <2>2, SumOfUnion
<1>14. SumFunctionOnSet(DepreciationOf(K), mine) = 0
  BY <1>6, <1>10, SumOfZeros
<1>15. SumFunctionOnSet(DepreciationOf(K), DOMAIN J \ mine) = SumFunctionOnSet(DepreciationOf(J), DOMAIN J \ mine)
  BY <1>6, <1>11, SumOfSame
<1>16. SumFunctionOnSet(DepreciationOf(J), mine) = AmountOver(x, posted)
  <2> DEFINE h == [i \in posted |-> x.rows[i].journal]
             f == DepreciationOf(J)
             g == [i \in posted |-> f[h[i]]]
  <2>1. IsFiniteSet(posted) /\ posted \in SUBSET DOMAIN x.rows
    BY <1>2, RowFacts
  <2>2. h \in [posted -> mine] /\ \A j \in mine : \E i \in posted : h[i] = j
    BY <1>3
  <2>3. \A i, k \in posted : h[i] = h[k] => i = k
    BY <1>3
  <2>4. \A j \in mine : f[j] \in Int
    BY <1>9
  <2>5. ASSUME NEW i \in posted PROVE g[i] = Amounts(x)[i]
    <3>1. h[i] = x.rows[i].journal /\ h[i] \in mine /\ i \in DOMAIN x.rows
      BY <1>3, <2>1
    <3>2. f[h[i]] = J[h[i]].accumulated
      BY <1>10, <3>1
    <3> QED BY <1>3, <3>1, <3>2 DEF Amounts
  <2> HIDE DEF h, f
  <2>6. SumFunctionOnSet(g, posted) = SumFunctionOnSet(f, mine)
    BY <2>1, <2>2, <2>3, <2>4, SumOfMoved
  <2> HIDE DEF g
  <2>7. SumFunctionOnSet(g, posted) = SumFunctionOnSet(Amounts(x), posted)
    BY <2>1, <2>5, SumOfSame
  <2> QED BY <2>6, <2>7 DEF AmountOver, Amounts, f
<1>17. mine \cup (DOMAIN J \ mine) = DOMAIN J
  BY <1>3
<1>18. SumFunctionOnSet(DepreciationOf(J), DOMAIN J \ mine) \in Int
  BY <1>6, <1>9, SumIsInt
<1>19. AmountOver(x, posted) \in Int
  BY <1>2, ValuesAreInts
<1>20. AccumulatedIn(K) = AccumulatedIn(J) - AmountOver(x, posted)
  <2>1. AccumulatedIn(J) = SumFunctionOnSet(DepreciationOf(J), DOMAIN J)
    BY DEF AccumulatedIn, DepreciationOf
  <2>2. AccumulatedIn(K) = SumFunctionOnSet(DepreciationOf(K), DOMAIN J)
    BY <1>4 DEF AccumulatedIn, DepreciationOf
  <2> QED BY <1>12, <1>13, <1>14, <1>15, <1>16, <1>17, <1>18, <1>19, <2>1, <2>2
<1> QED BY <1>2, <1>8, <1>20

LEMMA JournalFacts ==
  ASSUME NEW kind \in {"depreciate", "revalue", "dispose", "capitalize"}, NEW row \in Nat, NEW day \in ScheduleDays,
         NEW cost \in Int, NEW accumulated \in Int, NEW e, e = Journal(kind, row, day, cost, accumulated)
  PROVE  /\ e \in Entry /\ e.kind = kind /\ e.row = row /\ e.date = day /\ e.cost = cost
         /\ e.accumulated = accumulated /\ e.mirrored = 0 /\ ~e.foreign
BY DEF Journal, Entry

LEMMA NothingBooked ==
  ASSUME NEW a \in AssetIds
  PROVE  CostIn(a, <<>>) = Cost[a] /\ AccumulatedIn(<<>>) = 0 /\ <<>> \in Seq(Entry)
<1>1. DOMAIN <<>> = {}
  OBVIOUS
<1>2. SumFunctionOnSet(CostOf(<<>>), DOMAIN <<>>) = 0 /\ SumFunctionOnSet(DepreciationOf(<<>>), DOMAIN <<>>) = 0
  BY <1>1, SumOfEmpty
<1>3. Cost[a] \in Nat
  BY AssetConstants
<1>4. CostIn(a, <<>>) = Cost[a] + 0
  BY <1>1, <1>2 DEF CostIn, CostOf
<1>5. AccumulatedIn(<<>>) = 0
  BY <1>2 DEF AccumulatedIn, DepreciationOf
<1> QED BY <1>3, <1>4, <1>5

LEMMA CapitalBooked ==
  ASSUME NEW a \in AssetIds, NEW day \in ScheduleDays, NEW J,
         J = Append(<<>>, Journal("capitalize", 0, day, Cost[a], 0))
  PROVE  /\ CostIn(a, J) = Cost[a] /\ AccumulatedIn(J) = 0 /\ J \in Seq(Entry)
         /\ \A j \in DOMAIN J : J[j].kind = "capitalize"
<1>1. PICK e : e = Journal("capitalize", 0, day, Cost[a], 0)
  OBVIOUS
<1>2. Cost[a] \in Int
  <2>1. Cost[a] \in Nat
    BY AssetConstants
  <2> QED BY <2>1
<1>3. e \in Entry /\ e.kind = "capitalize" /\ e.mirrored = 0 /\ e.cost = Cost[a] /\ e.accumulated = 0
  BY <1>1, <1>2, JournalFacts
<1>4. J = Append(<<>>, e)
  BY <1>1
<1>5. J \in Seq(Entry) /\ DOMAIN J = {1} /\ J[1] = e
  BY <1>3, <1>4
<1>6. AccumulatedIn(J) = 0
  <2>1. AccumulatedIn(J) = AccumulatedIn(<<>>) + e.accumulated
    BY <1>3, <1>4, NothingBooked, AppendAdds
  <2> QED BY <1>3, <2>1, NothingBooked
<1>7. CostIn(a, J) = Cost[a]
  <2>1. CostOf(J)[1] = (1 - 0) * Cost[a]
    BY <1>3, <1>5 DEF CostOf
  <2>2. CostOf(J)[1] = Cost[a] /\ \A j \in {1} : CostOf(J)[j] \in Int
    BY <1>2, <2>1
  <2>3. SumFunctionOnSet(CostOf(J), {1}) = CostOf(J)[1]
    <3>1. 1 \in {1} /\ IsFiniteSet({1}) /\ \A y \in {1} \ {1} : CostOf(J)[y] = 0
      BY FS_Singleton
    <3> QED BY <2>2, <3>1, SumOfOne
  <2>4. CostIn(a, J) = 0 + SumFunctionOnSet(CostOf(J), {1})
    BY <1>3, <1>5 DEF CostIn, CostOf
  <2> QED BY <1>2, <2>2, <2>3, <2>4
<1> QED BY <1>3, <1>5, <1>6, <1>7

-----------------------------------------------------------------------------
(* What stays when only some columns change. *)

LEMMA SameFlags ==
  ASSUME NEW x, NEW y, DOMAIN y.rows = DOMAIN x.rows,
         \A i \in DOMAIN x.rows : y.rows[i].journal = x.rows[i].journal
  PROVE  /\ RowsPosted(y) = RowsPosted(x) /\ RowsOpen(y) = RowsOpen(x) /\ StatusFor(y) = StatusFor(x)
<1>1. RowsPosted(y) = RowsPosted(x)
  BY DEF RowsPosted
<1>2. RowsOpen(y) = RowsOpen(x)
  BY <1>1 DEF RowsOpen
<1> QED BY <1>1, <1>2 DEF StatusFor

LEMMA SameRows ==
  ASSUME NEW a \in AssetIds, NEW x \in AssetRow(a), NEW y, y.rows = x.rows, y.gross = x.gross, y.adjusted = x.adjusted
  PROVE  /\ RowsPosted(y) = RowsPosted(x) /\ RowsOpen(y) = RowsOpen(x) /\ StatusFor(y) = StatusFor(x)
         /\ Accumulated(y) = Accumulated(x) /\ BookValue(y) = BookValue(x)
         /\ Fits(a, x) => Fits(a, y)
<1>1. RowsPosted(y) = RowsPosted(x) /\ RowsOpen(y) = RowsOpen(x)
  BY DEF RowsPosted, RowsOpen
<1>2. StatusFor(y) = StatusFor(x)
  BY <1>1 DEF StatusFor
<1>3. \A R : AmountOver(y, R) = AmountOver(x, R)
  BY DEF AmountOver
<1>4. Accumulated(y) = Accumulated(x)
  BY <1>1, <1>3 DEF Accumulated
<1>5. BookValue(y) = BookValue(x)
  BY <1>4 DEF BookValue
<1>6. Fits(a, x) => Fits(a, y)
  BY <1>1, <1>3, <1>5 DEF Fits
<1> QED BY <1>1, <1>2, <1>4, <1>5, <1>6

\* an entry of another kind leaves the links of the rows alone
LEMMA LinksStay ==
  ASSUME NEW a \in AssetIds, NEW x \in AssetRow(a), NEW y, DOMAIN y.rows = DOMAIN x.rows,
         \A i \in DOMAIN x.rows : y.rows[i].journal = x.rows[i].journal,
         \A i \in RowsPosted(x) : y.rows[i].amount = x.rows[i].amount,
         NEW J \in Seq(Entry), NEW e \in Entry, e.kind # "depreciate", NEW K, K = Append(J, e)
  PROVE  /\ AllNamed(x, J) => AllNamed(y, K)
         /\ AllNamed(x, J) /\ Matches(x, J) => Matches(y, K)
         /\ Own(K) => Own(J)
<1>1. PICK n : n = Len(J) + 1
  OBVIOUS
<1>2. /\ DOMAIN K = DOMAIN J \cup {n} /\ n \notin DOMAIN J /\ K[n] = e /\ \A j \in DOMAIN J : K[j] = J[j]
  BY <1>1, AppendFacts
<1>3. RowsPosted(y) = RowsPosted(x)
  BY SameFlags
<1>4. RowsPosted(x) \subseteq DOMAIN x.rows
  BY DEF RowsPosted
<1>5. ASSUME AllNamed(x, J) PROVE AllNamed(y, K)
  BY <1>2, <1>3, <1>4, <1>5 DEF AllNamed, Names
<1>6. ASSUME AllNamed(x, J), Matches(x, J) PROVE Matches(y, K)
  <2>1. ASSUME NEW i \in RowsPosted(y)
        PROVE  /\ K[y.rows[i].journal].mirrored = 0 /\ K[y.rows[i].journal].accumulated = y.rows[i].amount
               /\ K[y.rows[i].journal].cost = 0
    <3>1. i \in RowsPosted(x) /\ i \in DOMAIN x.rows
      BY <1>3, <1>4
    <3>2. y.rows[i].journal = x.rows[i].journal /\ y.rows[i].amount = x.rows[i].amount
      BY <3>1
    <3>3. x.rows[i].journal \in DOMAIN J
      BY <1>6, <3>1 DEF AllNamed, Names
    <3>4. K[y.rows[i].journal] = J[x.rows[i].journal]
      BY <1>2, <3>2, <3>3
    <3> QED BY <1>6, <3>1, <3>2, <3>4 DEF Matches
  <2>2. ASSUME NEW j \in DOMAIN K, K[j].kind = "depreciate", K[j].mirrored = 0
        PROVE  K[j].row \in DOMAIN y.rows /\ y.rows[K[j].row].journal = j
    <3>1. j \in DOMAIN J /\ K[j] = J[j]
      BY <1>2, <2>2
    <3>2. J[j].row \in DOMAIN x.rows /\ x.rows[J[j].row].journal = j
      BY <1>6, <2>2, <3>1 DEF Matches
    <3> QED BY <3>1, <3>2
  <2> QED BY <2>1, <2>2 DEF Matches
<1>7. Own(K) => Own(J)
  BY <1>2 DEF Own
<1> QED BY <1>5, <1>6, <1>7

-----------------------------------------------------------------------------
(* Each operation leaves the asset it works on good. *)

LEMMA GoodDraft ==
  ASSUME NEW a \in AssetIds, NEW alone \in BOOLEAN, NEW y, y = NewAsset(a, "draft", "Draft")
  PROVE  Good(a, y, <<>>, alone)
<1>1. "draft" \in {"draft", "submitted", "cancelled"} /\ "Draft" \in Statuses
  BY DEF Statuses
<1>2. /\ y \in AssetRow(a) /\ RowsPosted(y) = {} /\ Fits(a, y)
      /\ y.stage = "draft" /\ y.status = "Draft" /\ y.gross = Cost[a] /\ Accumulated(y) = 0
  BY <1>1, NewFacts
<1>3. CostIn(a, <<>>) = Cost[a] /\ AccumulatedIn(<<>>) = 0 /\ <<>> \in Seq(Entry)
  BY NothingBooked
<1>4. Linked(y, <<>>)
  BY <1>2 DEF Linked, AllNamed
<1>5. Matches(y, <<>>)
  BY <1>2 DEF Matches
<1>6. Balanced(a, y, <<>>)
  BY <1>2, <1>3 DEF Balanced
<1>7. ~Live(y)
  BY <1>2 DEF Live
<1> QED BY <1>2, <1>3, <1>4, <1>5, <1>6, <1>7 DEF Good

LEMMA GoodCapital ==
  ASSUME NEW a \in AssetIds, NEW alone \in BOOLEAN, NEW y, y = NewAsset(a, "submitted", "Submitted"),
         NEW day \in ScheduleDays, NEW J, J = Append(<<>>, Journal("capitalize", 0, day, Cost[a], 0))
  PROVE  Good(a, y, J, alone)
<1>1. "submitted" \in {"draft", "submitted", "cancelled"} /\ "Submitted" \in Statuses
  BY DEF Statuses
<1>2. /\ y \in AssetRow(a) /\ RowsPosted(y) = {} /\ Fits(a, y)
      /\ y.stage = "submitted" /\ y.status = "Submitted" /\ y.gross = Cost[a] /\ Accumulated(y) = 0
  BY <1>1, NewFacts
<1>3. /\ CostIn(a, J) = Cost[a] /\ AccumulatedIn(J) = 0 /\ J \in Seq(Entry)
      /\ \A j \in DOMAIN J : J[j].kind = "capitalize"
  BY CapitalBooked
<1>4. Linked(y, J)
  BY <1>2 DEF Linked, AllNamed
<1>5. Matches(y, J)
  BY <1>2, <1>3 DEF Matches
<1>6. Balanced(a, y, J)
  BY <1>2, <1>3 DEF Balanced
<1>7. y.status = StatusFor(y)
  BY <1>2 DEF StatusFor
<1> QED BY <1>2, <1>3, <1>4, <1>5, <1>6, <1>7 DEF Good

\* submitting a draft, cancelling an asset with nothing posted
LEMMA GoodStage ==
  ASSUME NEW a \in AssetIds, NEW alone \in BOOLEAN, NEW still \in BOOLEAN, still => alone, NEW x, NEW J,
         Good(a, x, J, alone), RowsPosted(x) = {}, NEW y,
         \/ x.stage = "draft" /\ y = [x EXCEPT !.stage = "submitted", !.status = "Submitted"]
         \/ x.stage = "submitted" /\ y = [x EXCEPT !.stage = "cancelled", !.status = "Cancelled"]
  PROVE  Good(a, y, J, still)
<1>1. x \in AssetRow(a) /\ J \in Seq(Entry) /\ Linked(x, J) /\ Fits(a, x)
  BY DEF Good
<1>2. /\ y \in AssetRow(a) /\ y.rows = x.rows /\ y.gross = x.gross /\ y.adjusted = x.adjusted
      /\ \/ x.stage = "draft" /\ y.stage = "submitted" /\ y.status = "Submitted"
         \/ y.stage = "cancelled" /\ y.status = "Cancelled"
  BY <1>1 DEF AssetRow, Statuses
<1>3. /\ RowsPosted(y) = {} /\ StatusFor(y) = StatusFor(x) /\ Accumulated(y) = Accumulated(x) /\ Fits(a, y)
  BY <1>1, <1>2, SameRows
<1>4. Linked(y, J)
  BY <1>2, <1>3 DEF Linked, AllNamed
<1>5. Live(y) => y.status = StatusFor(y)
  BY <1>2, <1>3 DEF Live, StatusFor
<1>6. ASSUME still, Own(J) PROVE Matches(y, J) /\ Balanced(a, y, J)
  <2>1. Matches(x, J) /\ Balanced(a, x, J)
    BY <1>6 DEF Good
  <2>2. Matches(y, J)
    BY <1>2, <1>3, <2>1 DEF Matches
  <2>3. x.stage = "draft" => x.status = "Draft"
    BY <1>1 DEF Linked
  <2>4. Balanced(a, y, J)
    BY <1>2, <1>3, <2>1, <2>3 DEF Balanced
  <2> QED BY <2>2, <2>4
<1> QED BY <1>1, <1>2, <1>3, <1>4, <1>5, <1>6 DEF Good

\* selling or scrapping takes exactly what is there out of the ledger
LEMMA GoodDispose ==
  ASSUME NEW a \in AssetIds, NEW alone \in BOOLEAN, NEW still \in BOOLEAN, still => alone, NEW x, NEW J,
         Good(a, x, J, alone), Live(x), NEW status \in {"Sold", "Scrapped"}, NEW y, y = [x EXCEPT !.status = status],
         NEW day \in ScheduleDays, NEW K, K = Append(J, Journal("dispose", 0, day, -x.gross, -Accumulated(x)))
  PROVE  Good(a, y, K, still)
<1>1. x \in AssetRow(a) /\ J \in Seq(Entry) /\ Linked(x, J) /\ Fits(a, x)
  BY DEF Good
<1>2. /\ y \in AssetRow(a) /\ y.rows = x.rows /\ y.gross = x.gross /\ y.adjusted = x.adjusted
      /\ y.stage = x.stage /\ y.status = status
  BY <1>1 DEF AssetRow, Statuses
<1>3. RowsPosted(y) = RowsPosted(x) /\ Fits(a, y)
  BY <1>1, <1>2, SameRows
<1>4. x.gross \in Nat /\ Accumulated(x) \in Int
  BY <1>1, ValuesAreInts
<1>5. PICK e : e = Journal("dispose", 0, day, -x.gross, -Accumulated(x))
  OBVIOUS
<1>6. /\ e \in Entry /\ e.kind = "dispose" /\ e.cost = -x.gross
      /\ e.accumulated = -Accumulated(x) /\ e.mirrored = 0 /\ ~e.foreign
  <2>1. -x.gross \in Int /\ -Accumulated(x) \in Int
    BY <1>4
  <2> QED BY <1>5, <2>1 DEF Journal, Entry
<1>7. K = Append(J, e) /\ K \in Seq(Entry)
  BY <1>1, <1>5, <1>6, AppendFacts
<1>8. AllNamed(x, J)
  BY <1>1 DEF Linked
<1>9. AllNamed(y, K)
  BY <1>1, <1>2, <1>6, <1>7, <1>8, LinksStay
<1>10. Matches(x, J) => Matches(y, K)
  BY <1>1, <1>2, <1>6, <1>7, <1>8, LinksStay
<1>11. Own(K) => Own(J)
  BY <1>1, <1>2, <1>6, <1>7, LinksStay
<1>12. Linked(y, K)
  BY <1>2, <1>9 DEF Linked, Live
<1>13. ~Live(y)
  BY <1>2 DEF Live
<1>14. ASSUME still, Own(K) PROVE Matches(y, K) /\ Balanced(a, y, K)
  <2>1. Matches(x, J) /\ Balanced(a, x, J)
    BY <1>11, <1>14 DEF Good
  <2>2. CostIn(a, J) = x.gross /\ AccumulatedIn(J) = Accumulated(x)
    BY <2>1 DEF Balanced, Live
  <2>3. CostIn(a, K) = CostIn(a, J) + e.cost
    BY <1>1, <1>6, <1>7, AppendAdds
  <2>4. AccumulatedIn(K) = AccumulatedIn(J) + e.accumulated
    BY <1>1, <1>6, <1>7, AppendAdds
  <2>5. CostIn(a, K) = 0 /\ AccumulatedIn(K) = 0
    BY <1>4, <1>6, <2>2, <2>3, <2>4
  <2>6. Balanced(a, y, K)
    BY <1>2, <2>5 DEF Balanced, Live
  <2> QED BY <1>10, <2>1, <2>6
<1> QED BY <1>2, <1>3, <1>7, <1>12, <1>13, <1>14 DEF Good

LEMMA ListIsSeq ==
  ASSUME NEW K, NEW S, NEW J \in Seq(S), K \in [1 .. Len(J) -> S]
  PROVE  K \in Seq(S)
OBVIOUS

\* an entry reversed on the journal screen
LEMMA GoodForeign ==
  ASSUME NEW a \in AssetIds, NEW alone \in BOOLEAN, NEW x, NEW J, Good(a, x, J, alone), NEW j \in DOMAIN J,
         J[j].mirrored = 0, NEW K, K = [J EXCEPT ![j].mirrored = 1, ![j].foreign = TRUE]
  PROVE  Good(a, x, K, alone)
<1>1. x \in AssetRow(a) /\ J \in Seq(Entry) /\ Linked(x, J) /\ Fits(a, x)
  BY DEF Good
<1>2. K = [J EXCEPT ![j] = [J[j] EXCEPT !.mirrored = 1, !.foreign = TRUE]]
  OBVIOUS
<1>3. J[j] \in Entry
  BY <1>1, EntryFacts
<1>4. PICK e : e = [J[j] EXCEPT !.mirrored = 1, !.foreign = TRUE]
  OBVIOUS
<1>5. e \in Entry /\ e.kind = J[j].kind /\ e.row = J[j].row /\ e.mirrored = 1 /\ e.foreign = TRUE
  <2>1. 1 \in 0 .. 2
    OBVIOUS
  <2> QED BY <1>3, <1>4, <2>1 DEF Entry
<1>6. K = [J EXCEPT ![j] = e] /\ DOMAIN K = DOMAIN J /\ K[j] = e /\ \A k \in DOMAIN J \ {j} : K[k] = J[k]
  BY <1>2, <1>4
<1>7. K \in Seq(Entry)
  <2>1. DOMAIN J = 1 .. Len(J) /\ Len(J) \in Nat /\ \A k \in DOMAIN J : J[k] \in Entry
    BY <1>1, EntryFacts
  <2>2. K \in [1 .. Len(J) -> Entry]
    <3>1. K = [k \in DOMAIN J |-> K[k]] /\ \A k \in DOMAIN J : K[k] \in Entry
      BY <1>5, <1>6, <2>1
    <3> QED BY <2>1, <3>1
  <2>3. K \in [1 .. Len(J) -> Entry] /\ Len(J) \in Nat
    BY <2>1, <2>2
  <2> QED BY <1>1, <2>3, ListIsSeq
<1>8. Linked(x, K)
  <2>1. ASSUME NEW i \in RowsPosted(x) PROVE Names(x, K, i)
    <3>1. Names(x, J, i)
      BY <1>1 DEF Linked, AllNamed
    <3> QED BY <1>5, <1>6, <3>1 DEF Names
  <2> QED BY <1>1, <2>1 DEF Linked, AllNamed
<1>9. ~Own(K)
  BY <1>5, <1>6 DEF Own
<1> QED BY <1>1, <1>7, <1>8, <1>9 DEF Good

\* a reversal opens the posted rows and mirrors their entries
LEMMA GoodReverse ==
  ASSUME NEW a \in AssetIds, NEW alone \in BOOLEAN, NEW still \in BOOLEAN, still => alone, NEW x, NEW J,
         Good(a, x, J, alone), Live(x), NEW y, y = Reopened(x), NEW K, K = Mirrored(J, OwnEntries(x))
  PROVE  Good(a, y, K, still)
<1>1. x \in AssetRow(a) /\ J \in Seq(Entry) /\ Linked(x, J) /\ Fits(a, x)
  BY DEF Good
<1>2. PICK z : z = [x EXCEPT !.rows = [i \in DOMAIN @ |-> [@[i] EXCEPT !.journal = 0]]]
  OBVIOUS
<1>3. y = [z EXCEPT !.status = StatusFor(z)]
  BY <1>2 DEF Reopened
<1>4. x.rows \in [DOMAIN DueOn[a] -> Row] /\ DOMAIN x.rows = DOMAIN DueOn[a]
  BY <1>1, RowFacts
<1>5. /\ z.gross = x.gross /\ z.adjusted = x.adjusted /\ z.stage = x.stage /\ DOMAIN z.rows = DOMAIN x.rows
      /\ z = [x EXCEPT !.rows = z.rows] /\ z.rows = [i \in DOMAIN x.rows |-> z.rows[i]]
      /\ \A i \in DOMAIN x.rows : z.rows[i] = [x.rows[i] EXCEPT !.journal = 0]
  BY <1>1, <1>2 DEF AssetRow
<1>6. \A i \in DOMAIN x.rows : z.rows[i] \in Row /\ z.rows[i].journal = 0 /\ z.rows[i].amount = x.rows[i].amount
  <2>1. ASSUME NEW i \in DOMAIN x.rows
        PROVE  z.rows[i] \in Row /\ z.rows[i].journal = 0 /\ z.rows[i].amount = x.rows[i].amount
    <3>1. x.rows[i] \in Row /\ z.rows[i] = [x.rows[i] EXCEPT !.journal = 0]
      BY <1>4, <1>5
    <3> QED BY <3>1 DEF Row
  <2> QED BY <2>1
<1>7. z \in AssetRow(a)
  <2>1. z.rows \in [DOMAIN DueOn[a] -> Row]
    BY <1>4, <1>5, <1>6
  <2> QED BY <1>1, <1>5, <2>1 DEF AssetRow
<1>8. RowsPosted(z) = {} /\ RowsOpen(z) = DOMAIN x.rows /\ StatusFor(z) = "Submitted"
  <2>1. RowsPosted(z) = {}
    BY <1>5, <1>6 DEF RowsPosted
  <2> QED BY <1>5, <2>1 DEF RowsOpen, StatusFor
<1>9. /\ y \in AssetRow(a) /\ y.rows = z.rows /\ y.gross = z.gross /\ y.adjusted = z.adjusted
      /\ y.stage = x.stage /\ y.status = "Submitted"
  BY <1>3, <1>5, <1>7, <1>8 DEF AssetRow, Statuses
<1>10. /\ RowsPosted(y) = {} /\ RowsOpen(y) = DOMAIN x.rows /\ StatusFor(y) = "Submitted"
  BY <1>7, <1>8, <1>9, SameRows
<1>11. Accumulated(y) = x.adjusted
  <2>1. AmountOver(y, RowsPosted(y)) = 0
    BY <1>10, SumOfEmpty DEF AmountOver
  <2>2. x.adjusted \in Int
    BY <1>1, ValuesAreInts
  <2> QED BY <1>5, <1>9, <2>1, <2>2 DEF Accumulated
<1>12. AmountOver(y, DOMAIN x.rows) = AmountOver(x, DOMAIN x.rows)
  <2>1. DOMAIN y.rows = DOMAIN x.rows /\ \A i \in DOMAIN x.rows : y.rows[i].amount = x.rows[i].amount
    BY <1>5, <1>6, <1>9
  <2> QED BY <1>1, <2>1, SameAmounts
<1>13. Fits(a, y)
  <2> SUFFICES ASSUME Method[a] # "Manual" PROVE AmountOver(y, RowsOpen(y)) <= BookValue(y)
    BY DEF Fits
  <2>1. AmountOver(x, RowsOpen(x)) <= BookValue(x)
    BY <1>1 DEF Fits
  <2>2. AmountOver(x, DOMAIN x.rows) = AmountOver(x, RowsPosted(x)) + AmountOver(x, RowsOpen(x))
    BY <1>1, AmountSplits
  <2>3. x.gross \in Nat /\ x.adjusted \in Int /\ AmountOver(x, RowsPosted(x)) \in Int /\ AmountOver(x, RowsOpen(x)) \in Int
    BY <1>1, ValuesAreInts
  <2>4. BookValue(y) = x.gross - x.adjusted
    BY <1>5, <1>9, <1>11 DEF BookValue
  <2>5. BookValue(x) = x.gross - (x.adjusted + AmountOver(x, RowsPosted(x)))
    BY DEF BookValue, Accumulated
  <2> QED BY <1>10, <1>12, <2>1, <2>2, <2>3, <2>4, <2>5
<1>14. PICK mine : mine = OwnEntries(x)
  OBVIOUS
<1>15. mine \in SUBSET DOMAIN J /\ \A j \in mine : J[j].mirrored \in {0, 1}
  BY <1>1, <1>14 DEF OwnEntries, Linked, AllNamed, Names
<1>16. K = Mirrored(J, mine)
  BY <1>14
<1>17. K \in Seq(Entry) /\ DOMAIN K = DOMAIN J
  BY <1>1, <1>15, <1>16, MirrorFacts
<1>18. \A j \in DOMAIN J : /\ K[j].kind = J[j].kind /\ K[j].row = J[j].row /\ K[j].foreign = J[j].foreign
                           /\ K[j].mirrored = IF j \in mine THEN J[j].mirrored + 1 ELSE J[j].mirrored
  BY <1>1, <1>15, <1>16, MirrorFacts
<1>19. Linked(y, K)
  BY <1>9, <1>10 DEF Linked, AllNamed, Live
<1>20. ASSUME still, Own(K) PROVE Matches(y, K) /\ Balanced(a, y, K)
  <2>1. Own(J)
    BY <1>17, <1>18, <1>20 DEF Own
  <2>2. Matches(x, J) /\ Balanced(a, x, J)
    BY <1>20, <2>1 DEF Good
  <2>3. CostIn(a, J) = x.gross /\ AccumulatedIn(J) = Accumulated(x)
    BY <2>2 DEF Balanced, Live
  <2>4. AllNamed(x, J)
    BY <1>1 DEF Linked
  <2>5. CostIn(a, K) = CostIn(a, J)
    BY <1>1, <2>2, <2>4, MirrorTakesOut
  <2>6. AccumulatedIn(K) = AccumulatedIn(J) - AmountOver(x, RowsPosted(x))
    BY <1>1, <2>2, <2>4, MirrorTakesOut
  <2>7. x.adjusted \in Int /\ AmountOver(x, RowsPosted(x)) \in Int
    BY <1>1, ValuesAreInts
  <2>8. AccumulatedIn(K) = Accumulated(y)
    BY <1>11, <2>3, <2>6, <2>7 DEF Accumulated
  <2>9. Balanced(a, y, K)
    BY <1>5, <1>9, <2>3, <2>5, <2>8 DEF Balanced, Live
  <2>10. ASSUME NEW j \in DOMAIN K, K[j].kind = "depreciate", K[j].mirrored = 0 PROVE FALSE
    <3>1. j \in DOMAIN J /\ J[j].kind = "depreciate" /\ J[j].mirrored \in Int
      BY <1>1, <1>17, <1>18, <2>10, EntryFacts
    <3>2. CASE j \in mine
      <4>1. J[j].mirrored \in {0, 1} /\ K[j].mirrored = J[j].mirrored + 1
        BY <1>15, <1>18, <3>1, <3>2
      <4> QED BY <2>10, <4>1
    <3>3. CASE j \notin mine
      <4>1. J[j].mirrored = 0
        BY <1>18, <2>10, <3>1, <3>3
      <4>2. J[j].row \in DOMAIN x.rows /\ x.rows[J[j].row].journal = j
        BY <2>2, <3>1, <4>1 DEF Matches
      <4>3. j # 0
        BY <1>1, <3>1, EntryFacts
      <4> QED BY <1>14, <3>3, <4>2, <4>3 DEF OwnEntries, RowsPosted
    <3> QED BY <3>2, <3>3
  <2>11. Matches(y, K)
    BY <1>10, <2>10 DEF Matches
  <2> QED BY <2>9, <2>11
<1> QED BY <1>9, <1>10, <1>13, <1>17, <1>19, <1>20 DEF Good

\* a revaluation books the difference and plans the open rows anew
LEMMA GoodRevalue ==
  ASSUME NEW a \in AssetIds, NEW alone \in BOOLEAN, NEW still \in BOOLEAN, still => alone, NEW x, NEW J,
         Good(a, x, J, alone), Live(x), NEW value \in Nat, NEW fall, fall = BookValue(x) - value,
         NEW day \in ScheduleDays, NEW y, y = Rescheduled(a, Adjusted(x, fall), value),
         NEW K, K = Append(J, IF fall > 0 THEN Journal("revalue", 0, day, 0, fall)
                                          ELSE Journal("revalue", 0, day, -fall, 0))
  PROVE  Good(a, y, K, still)
<1>1. x \in AssetRow(a) /\ J \in Seq(Entry) /\ Linked(x, J) /\ Fits(a, x)
  BY DEF Good
<1>2. x.gross \in Nat /\ x.adjusted \in Int /\ BookValue(x) \in Int /\ Accumulated(x) \in Int
      /\ AmountOver(x, RowsPosted(x)) \in Int
  BY <1>1, ValuesAreInts
<1>3. fall \in Int /\ -fall \in Int
  BY <1>2
<1>4. PICK z : z = Adjusted(x, fall)
  OBVIOUS
<1>5. /\ z \in AssetRow(a) /\ z.stage = x.stage /\ z.status = x.status /\ z.rows = x.rows
      /\ z.gross = x.gross + (IF fall > 0 THEN 0 ELSE -fall)
      /\ z.adjusted = x.adjusted + (IF fall > 0 THEN fall ELSE 0)
  <2>1. CASE fall > 0
    <3>1. z = [x EXCEPT !.adjusted = x.adjusted + fall]
      BY <1>4, <2>1 DEF Adjusted
    <3>2. x.adjusted + fall \in Int
      BY <1>2, <1>3
    <3>3. z \in AssetRow(a)
      BY <1>1, <3>1, <3>2 DEF AssetRow
    <3>4. z.stage = x.stage /\ z.status = x.status /\ z.rows = x.rows /\ z.gross = x.gross
          /\ z.adjusted = x.adjusted + fall
      BY <1>1, <3>1 DEF AssetRow
    <3> QED BY <1>2, <2>1, <3>3, <3>4
  <2>2. CASE ~(fall > 0)
    <3>0. PICK v : v = x.gross - fall
      OBVIOUS
    <3>1. z = [x EXCEPT !.gross = v]
      BY <1>4, <2>2, <3>0 DEF Adjusted
    <3>2. x.gross - fall \in Nat /\ x.gross - fall = x.gross + (-fall)
      <4>1. PICK g \in Nat, f \in Int : g = x.gross /\ f = fall
        BY <1>2, <1>3
      <4>2. g - f \in Nat /\ g - f = g + (-f)
        BY <2>2, <4>1
      <4> QED BY <4>1, <4>2
    <3>3. z \in AssetRow(a)
      BY <1>1, <3>0, <3>1, <3>2 DEF AssetRow
    <3>4. z.stage = x.stage /\ z.status = x.status /\ z.rows = x.rows /\ z.adjusted = x.adjusted /\ z.gross = v
      BY <1>1, <3>1 DEF AssetRow
    <3> QED BY <3>0, <1>2, <2>2, <3>2, <3>3, <3>4
  <2> QED BY <2>1, <2>2
<1>6. y = Rescheduled(a, z, value)
  BY <1>4
<1>r. Replanned(a, z, value, y)
  BY <1>5, <1>6, RescheduledFacts
<1>7. y \in AssetRow(a) /\ y.stage = z.stage /\ y.status = z.status /\ y.gross = z.gross /\ y.adjusted = z.adjusted
  BY <1>r DEF Replanned
<1>8. \A i \in DOMAIN x.rows : y.rows[i].journal = x.rows[i].journal
  <2>1. \A i \in DOMAIN z.rows : y.rows[i].journal = z.rows[i].journal
    BY <1>r DEF Replanned
  <2> QED BY <1>5, <2>1
<1>9. RowsPosted(z) = RowsPosted(x) /\ RowsOpen(z) = RowsOpen(x)
  BY <1>5 DEF RowsPosted, RowsOpen
<1>10. \A i \in RowsPosted(x) : y.rows[i].amount = x.rows[i].amount
  <2>1. \A i \in RowsPosted(z) : y.rows[i].amount = z.rows[i].amount
    BY <1>r DEF Replanned
  <2> QED BY <1>5, <1>9, <2>1
<1>11. Method[a] # "Manual" => AmountOver(y, RowsOpen(x)) <= value
  <2>1. Method[a] # "Manual" => AmountOver(y, RowsOpen(z)) <= value
    BY <1>r DEF Replanned
  <2> QED BY <1>9, <2>1
<1>12. DOMAIN y.rows = DOMAIN x.rows
  BY <1>1, <1>7, RowFacts
<1>13. RowsPosted(y) = RowsPosted(x) /\ RowsOpen(y) = RowsOpen(x) /\ StatusFor(y) = StatusFor(x)
  BY <1>8, <1>12, SameFlags
<1>14. AmountOver(y, RowsPosted(y)) = AmountOver(x, RowsPosted(x))
  <2>1. RowsPosted(x) \in SUBSET DOMAIN x.rows
    BY DEF RowsPosted
  <2> QED BY <1>1, <1>10, <1>12, <1>13, <2>1, SameAmounts
<1>15. Accumulated(y) = Accumulated(x) + (IF fall > 0 THEN fall ELSE 0)
  BY <1>2, <1>3, <1>5, <1>7, <1>14 DEF Accumulated
<1>16. BookValue(y) = value
  <2>1. fall = x.gross - Accumulated(x) - value /\ BookValue(y) = y.gross - Accumulated(y)
    BY DEF BookValue
  <2>2. CASE fall > 0
    <3>1. y.gross = x.gross + 0 /\ Accumulated(y) = Accumulated(x) + fall
      BY <1>5, <1>7, <1>15, <2>2
    <3>2. PICK g \in Int, c \in Int, f \in Int : g = x.gross /\ c = Accumulated(x) /\ f = fall
      BY <1>2, <1>3
    <3>3. f = (g - c) - value /\ BookValue(y) = (g + 0) - (c + f)
      BY <2>1, <3>1, <3>2
    <3> QED BY <3>3
  <2>3. CASE ~(fall > 0)
    <3>1. y.gross = x.gross + -fall /\ Accumulated(y) = Accumulated(x) + 0
      BY <1>5, <1>7, <1>15, <2>3
    <3>2. PICK g \in Int, c \in Int, f \in Int : g = x.gross /\ c = Accumulated(x) /\ f = fall
      BY <1>2, <1>3
    <3>3. f = (g - c) - value /\ BookValue(y) = (g + -f) - (c + 0)
      BY <2>1, <3>1, <3>2
    <3> QED BY <3>3
  <2> QED BY <2>2, <2>3
<1>17. Fits(a, y)
  BY <1>11, <1>13, <1>16 DEF Fits
<1>18. PICK e : e = IF fall > 0 THEN Journal("revalue", 0, day, 0, fall) ELSE Journal("revalue", 0, day, -fall, 0)
  OBVIOUS
<1>19. /\ e \in Entry /\ e.kind = "revalue" /\ e.mirrored = 0 /\ ~e.foreign
       /\ e.cost = IF fall > 0 THEN 0 ELSE -fall
       /\ e.accumulated = IF fall > 0 THEN fall ELSE 0
  BY <1>3, <1>18 DEF Journal, Entry
<1>20. K = Append(J, e) /\ K \in Seq(Entry)
  BY <1>1, <1>18, <1>19, AppendFacts
<1>21. AllNamed(x, J)
  BY <1>1 DEF Linked
<1>22. AllNamed(y, K)
  <2>1. e \in Entry /\ e.kind # "depreciate"
    BY <1>19
  <2>2. AllNamed(x, J) => AllNamed(y, K)
    BY <1>1, <1>8, <1>10, <1>12, <1>20, <2>1, LinksStay
  <2> QED BY <1>21, <2>2
<1>23. Matches(x, J) => Matches(y, K)
  <2>1. e \in Entry /\ e.kind # "depreciate"
    BY <1>19
  <2> QED BY <1>1, <1>8, <1>10, <1>12, <1>20, <1>21, <2>1, LinksStay
<1>24. Own(K) => Own(J)
  <2>1. e \in Entry /\ e.kind # "depreciate"
    BY <1>19
  <2> QED BY <1>1, <1>8, <1>10, <1>12, <1>20, <2>1, LinksStay
<1>25. Linked(y, K)
  BY <1>5, <1>7, <1>22 DEF Linked, Live
<1>26. still => y.status = StatusFor(y)
  BY <1>5, <1>7, <1>13 DEF Good
<1>27. ASSUME still, Own(K) PROVE Matches(y, K) /\ Balanced(a, y, K)
  <2>1. Matches(x, J) /\ Balanced(a, x, J)
    BY <1>24, <1>27 DEF Good
  <2>2. CostIn(a, J) = x.gross /\ AccumulatedIn(J) = Accumulated(x)
    BY <2>1 DEF Balanced, Live
  <2>3. CostIn(a, K) = CostIn(a, J) + e.cost
    BY <1>1, <1>19, <1>20, AppendAdds
  <2>4. AccumulatedIn(K) = AccumulatedIn(J) + e.accumulated
    BY <1>1, <1>19, <1>20, AppendAdds
  <2>5. CostIn(a, K) = y.gross /\ AccumulatedIn(K) = Accumulated(y)
    BY <1>5, <1>7, <1>15, <1>19, <2>2, <2>3, <2>4
  <2>6. Balanced(a, y, K)
    BY <1>5, <1>7, <2>5 DEF Balanced, Live
  <2> QED BY <1>23, <2>1, <2>6
<1> QED BY <1>7, <1>17, <1>20, <1>25, <1>26, <1>27 DEF Good

Flag(x, i, n, status) == [x EXCEPT !.rows[i].journal = n, !.status = status]
Flagged(a, x, i, n, status, y) ==
  /\ y \in AssetRow(a) /\ y.stage = x.stage /\ y.status = status
  /\ y.gross = x.gross /\ y.adjusted = x.adjusted
  /\ RowsPosted(y) = RowsPosted(x) \cup {i} /\ RowsOpen(y) = RowsOpen(x) \ {i}
  /\ \A k \in DOMAIN x.rows : /\ y.rows[k].amount = x.rows[k].amount
                              /\ y.rows[k].journal = IF k = i THEN n ELSE x.rows[k].journal
  /\ DOMAIN y.rows = DOMAIN x.rows
  /\ i \in RowsOpen(x) => /\ AmountOver(y, RowsPosted(y)) = AmountOver(x, RowsPosted(x)) + x.rows[i].amount
                          /\ AmountOver(y, RowsOpen(y)) = AmountOver(x, RowsOpen(x)) - x.rows[i].amount
  /\ i \notin RowsOpen(x) => /\ AmountOver(y, RowsPosted(y)) = AmountOver(x, RowsPosted(x))
                             /\ AmountOver(y, RowsOpen(y)) = AmountOver(x, RowsOpen(x))

\* one more row flagged, once or again
LEMMA FlagFacts ==
  ASSUME NEW a \in AssetIds, NEW x \in AssetRow(a), NEW i \in DOMAIN x.rows, NEW n \in Nat, n # 0,
         NEW status \in Statuses
  PROVE  Flagged(a, x, i, n, status, Flag(x, i, n, status))
<1>0. PICK y : y = Flag(x, i, n, status)
  OBVIOUS
<1> SUFFICES Flagged(a, x, i, n, status, y)
  BY <1>0
<1>1. x.rows \in [DOMAIN DueOn[a] -> Row] /\ DOMAIN x.rows = DOMAIN DueOn[a]
  BY RowFacts
<1>2. PICK r : r = [x.rows[i] EXCEPT !.journal = n]
  OBVIOUS
<1>3. r \in Row /\ r.amount = x.rows[i].amount /\ r.journal = n
  <2>1. x.rows[i] \in Row
    BY <1>1
  <2> QED BY <1>2, <2>1 DEF Row
<1>4. PICK rows : rows = [x.rows EXCEPT ![i] = r]
  OBVIOUS
<1>5. rows \in [DOMAIN DueOn[a] -> Row] /\ rows[i] = r /\ \A k \in DOMAIN x.rows \ {i} : rows[k] = x.rows[k]
  BY <1>1, <1>3, <1>4
<1>6. y = [x EXCEPT !.rows = rows, !.status = status]
  <2>1. y = [x EXCEPT !.rows = [x.rows EXCEPT ![i] = [x.rows[i] EXCEPT !.journal = n]], !.status = status]
    BY <1>0 DEF Flag
  <2> QED BY <1>2, <1>4, <2>1
<1>7. /\ y \in AssetRow(a) /\ y.stage = x.stage /\ y.status = status
      /\ y.gross = x.gross /\ y.adjusted = x.adjusted /\ y.rows = rows
  BY <1>5, <1>6 DEF AssetRow
<1>8. DOMAIN y.rows = DOMAIN x.rows
  BY <1>1, <1>5, <1>7
<1>9. ASSUME NEW k \in DOMAIN x.rows
      PROVE  /\ y.rows[k].amount = x.rows[k].amount
             /\ y.rows[k].journal = IF k = i THEN n ELSE x.rows[k].journal
  BY <1>3, <1>5, <1>7
<1>10. RowsPosted(y) = RowsPosted(x) \cup {i}
  BY <1>8, <1>9 DEF RowsPosted
<1>11. RowsOpen(y) = RowsOpen(x) \ {i}
  BY <1>8, <1>10 DEF RowsOpen
<1>12. ASSUME NEW R \in SUBSET DOMAIN x.rows PROVE AmountOver(y, R) = AmountOver(x, R)
  <2>1. \A k \in R : y.rows[k].amount = x.rows[k].amount
    BY <1>9
  <2> QED BY <1>8, <2>1, SameAmounts
<1>13. /\ RowsPosted(x) \in SUBSET DOMAIN x.rows /\ RowsOpen(x) \in SUBSET DOMAIN x.rows
       /\ IsFiniteSet(RowsPosted(x)) /\ IsFiniteSet(RowsOpen(x))
       /\ RowsPosted(x) \cap RowsOpen(x) = {} /\ RowsPosted(x) \cup RowsOpen(x) = DOMAIN x.rows
  BY RowFacts
<1>14. \A k \in DOMAIN x.rows : Amounts(x)[k] \in Int /\ Amounts(x)[k] = x.rows[k].amount
  BY RowFacts DEF Amounts
<1>15. ASSUME i \in RowsOpen(x)
       PROVE  /\ AmountOver(y, RowsPosted(y)) = AmountOver(x, RowsPosted(x)) + x.rows[i].amount
              /\ AmountOver(y, RowsOpen(y)) = AmountOver(x, RowsOpen(x)) - x.rows[i].amount
  <2>1. i \notin RowsPosted(x)
    BY <1>13, <1>15
  <2>2. \A k \in RowsPosted(x) \cup {i} : Amounts(x)[k] \in Int
    BY <1>13, <1>14
  <2>3. \A k \in RowsOpen(x) : Amounts(x)[k] \in Int
    BY <1>13, <1>14
  <2>4. SumFunctionOnSet(Amounts(x), RowsPosted(x) \cup {i})
          = Amounts(x)[i] + SumFunctionOnSet(Amounts(x), RowsPosted(x))
    BY <1>13, <2>1, <2>2, SumWith
  <2>5. SumFunctionOnSet(Amounts(x), RowsOpen(x))
          = Amounts(x)[i] + SumFunctionOnSet(Amounts(x), RowsOpen(x) \ {i})
    BY <1>13, <1>15, <2>3, SumWithout
  <2>6. /\ AmountOver(x, RowsPosted(x) \cup {i}) = x.rows[i].amount + AmountOver(x, RowsPosted(x))
        /\ AmountOver(x, RowsOpen(x)) = x.rows[i].amount + AmountOver(x, RowsOpen(x) \ {i})
    BY <1>14, <2>4, <2>5 DEF AmountOver, Amounts
  <2>7. RowsPosted(x) \cup {i} \in SUBSET DOMAIN x.rows /\ RowsOpen(x) \ {i} \in SUBSET DOMAIN x.rows
    BY <1>13
  <2>8. /\ AmountOver(y, RowsPosted(y)) = AmountOver(x, RowsPosted(x) \cup {i})
        /\ AmountOver(y, RowsOpen(y)) = AmountOver(x, RowsOpen(x) \ {i})
    BY <1>10, <1>11, <1>12, <2>7
  <2>9. AmountOver(x, RowsPosted(x)) \in Int /\ x.rows[i].amount \in Int /\ AmountOver(x, RowsOpen(x) \ {i}) \in Int
    BY <1>13, <1>14, <2>7, AmountIsInt
  <2> QED BY <2>6, <2>8, <2>9
<1>16. ASSUME i \notin RowsOpen(x)
       PROVE  /\ AmountOver(y, RowsPosted(y)) = AmountOver(x, RowsPosted(x))
              /\ AmountOver(y, RowsOpen(y)) = AmountOver(x, RowsOpen(x))
  <2>1. RowsPosted(x) \cup {i} = RowsPosted(x) /\ RowsOpen(x) \ {i} = RowsOpen(x)
    BY <1>13, <1>16
  <2> QED BY <1>10, <1>11, <1>12, <1>13, <2>1
<1> QED BY <1>7, <1>8, <1>9, <1>10, <1>11, <1>15, <1>16 DEF Flagged

\* posting a row: whoever posts it finds room in the value of the asset; alone,
\* it is an open row of the asset as it stands, with the amount planned for it
LEMMA GoodPost ==
  ASSUME NEW a \in AssetIds, NEW alone \in BOOLEAN, NEW still \in BOOLEAN, still => alone, NEW x, NEW J,
         Good(a, x, J, alone), x.stage # "draft", NEW i \in DOMAIN x.rows, NEW amount \in Int,
         NEW day \in ScheduleDays, NEW status \in Statuses,
         NEW y, y = Flag(x, i, Len(J) + 1, status),
         still => Live(x) /\ i \in RowsOpen(x) /\ amount = x.rows[i].amount /\ status = StatusFor(y),
         NEW K, K = Append(J, Journal("depreciate", i, day, 0, amount))
  PROVE  Good(a, y, K, still)
<1>1. x \in AssetRow(a) /\ J \in Seq(Entry) /\ Linked(x, J) /\ Fits(a, x)
  BY DEF Good
<1>2. PICK n \in Nat : n = Len(J) + 1 /\ n # 0
  <2>1. Len(J) \in Nat
    BY <1>1
  <2>2. Len(J) + 1 \in Nat /\ Len(J) + 1 # 0
    BY <2>1
  <2> QED BY <2>2
<1>3. Flagged(a, x, i, n, status, y)
  <2>1. y = Flag(x, i, n, status)
    BY <1>2
  <2> QED BY <1>1, <1>2, <2>1, FlagFacts
<1>4. /\ y \in AssetRow(a) /\ y.stage = x.stage /\ y.status = status
      /\ y.gross = x.gross /\ y.adjusted = x.adjusted /\ DOMAIN y.rows = DOMAIN x.rows
  BY <1>3 DEF Flagged
<1>5. RowsPosted(y) = RowsPosted(x) \cup {i} /\ RowsOpen(y) = RowsOpen(x) \ {i}
  BY <1>3 DEF Flagged
<1>6. \A k \in DOMAIN x.rows : /\ y.rows[k].amount = x.rows[k].amount
                               /\ y.rows[k].journal = IF k = i THEN n ELSE x.rows[k].journal
  BY <1>3 DEF Flagged
<1>7. i \in RowsOpen(x) => /\ AmountOver(y, RowsPosted(y)) = AmountOver(x, RowsPosted(x)) + x.rows[i].amount
                           /\ AmountOver(y, RowsOpen(y)) = AmountOver(x, RowsOpen(x)) - x.rows[i].amount
  BY <1>3 DEF Flagged
<1>8. i \notin RowsOpen(x) => /\ AmountOver(y, RowsPosted(y)) = AmountOver(x, RowsPosted(x))
                              /\ AmountOver(y, RowsOpen(y)) = AmountOver(x, RowsOpen(x))
  BY <1>3 DEF Flagged
<1>9. /\ x.gross \in Nat /\ x.adjusted \in Int /\ AmountOver(x, RowsPosted(x)) \in Int
      /\ AmountOver(x, RowsOpen(x)) \in Int
  BY <1>1, ValuesAreInts
<1>10. x.rows[i].amount \in Int /\ RowsPosted(x) \subseteq DOMAIN x.rows /\ i \in Nat
  BY <1>1, RowFacts
<1>11. Fits(a, y)
  <2> SUFFICES ASSUME Method[a] # "Manual" PROVE AmountOver(y, RowsOpen(y)) <= BookValue(y)
    BY DEF Fits
  <2>1. AmountOver(x, RowsOpen(x)) <= BookValue(x)
    BY <1>1 DEF Fits
  <2>2. BookValue(x) = x.gross - (x.adjusted + AmountOver(x, RowsPosted(x)))
    BY DEF BookValue, Accumulated
  <2>3. BookValue(y) = x.gross - (x.adjusted + AmountOver(y, RowsPosted(y)))
    BY <1>4 DEF BookValue, Accumulated
  <2>4. CASE i \in RowsOpen(x)
    <3>1. AmountOver(y, RowsOpen(y)) = AmountOver(x, RowsOpen(x)) - x.rows[i].amount
      BY <1>7, <2>4
    <3>2. BookValue(y) = x.gross - (x.adjusted + (AmountOver(x, RowsPosted(x)) + x.rows[i].amount))
      BY <1>7, <2>3, <2>4
    <3>a. PICK g \in Int, d \in Int : g = x.gross /\ d = x.adjusted
      BY <1>9
    <3>b. PICK p \in Int : p = AmountOver(x, RowsPosted(x))
      BY <1>9
    <3>c. PICK o \in Int : o = AmountOver(x, RowsOpen(x))
      BY <1>9
    <3>d. PICK m \in Int : m = x.rows[i].amount
      BY <1>10
    <3>4. o <= g - (d + p) /\ AmountOver(y, RowsOpen(y)) = o - m /\ BookValue(y) = g - (d + (p + m))
      BY <2>1, <2>2, <3>1, <3>2, <3>a, <3>b, <3>c, <3>d
    <3>5. o - m <= g - (d + (p + m))
      BY <3>4
    <3> QED BY <3>4, <3>5
  <2>5. CASE i \notin RowsOpen(x)
    BY <1>8, <1>9, <2>1, <2>2, <2>3, <2>5
  <2> QED BY <2>4, <2>5
<1>12. PICK e : e = Journal("depreciate", i, day, 0, amount)
  OBVIOUS
<1>13. /\ e \in Entry /\ e.kind = "depreciate" /\ e.row = i /\ e.cost = 0
       /\ e.accumulated = amount /\ e.mirrored = 0 /\ ~e.foreign
  BY <1>10, <1>12 DEF Journal, Entry
<1>14. K = Append(J, e)
  BY <1>12
<1>15. /\ K \in Seq(Entry) /\ DOMAIN K = DOMAIN J \cup {n} /\ n \notin DOMAIN J /\ K[n] = e
       /\ \A j \in DOMAIN J : K[j] = J[j]
  BY <1>1, <1>2, <1>13, <1>14, AppendFacts
<1>16. AllNamed(y, K)
  <2>1. ASSUME NEW k \in RowsPosted(y) PROVE Names(y, K, k)
    <3>1. CASE k = i
      <4>1. y.rows[i].journal = n
        BY <1>6
      <4> QED BY <1>13, <1>15, <3>1, <4>1 DEF Names
    <3>2. CASE k # i
      <4>1. k \in RowsPosted(x) /\ k \in DOMAIN x.rows
        BY <1>5, <1>10, <3>2
      <4>2. Names(x, J, k) /\ y.rows[k].journal = x.rows[k].journal
        BY <1>1, <1>6, <3>2, <4>1 DEF Linked, AllNamed
      <4> QED BY <1>15, <4>2 DEF Names
    <3> QED BY <3>1, <3>2
  <2> QED BY <2>1 DEF AllNamed
<1>17. Linked(y, K)
  BY <1>4, <1>16 DEF Linked
<1>18. ASSUME still, Own(K) PROVE Matches(y, K) /\ Balanced(a, y, K)
  <2>1. Own(J)
    BY <1>15, <1>18 DEF Own
  <2>2. Matches(x, J) /\ Balanced(a, x, J)
    BY <1>18, <2>1 DEF Good
  <2>3. Live(x) /\ i \in RowsOpen(x) /\ amount = x.rows[i].amount /\ status = StatusFor(y)
    BY <1>18
  <2>4. CostIn(a, J) = x.gross /\ AccumulatedIn(J) = Accumulated(x)
    BY <2>2, <2>3 DEF Balanced, Live
  <2>5. CostIn(a, K) = CostIn(a, J) + e.cost
    BY <1>1, <1>13, <1>14, AppendAdds
  <2>6. AccumulatedIn(K) = AccumulatedIn(J) + e.accumulated
    BY <1>1, <1>13, <1>14, AppendAdds
  <2>7. CostIn(a, K) = y.gross
    BY <1>4, <1>9, <1>13, <2>4, <2>5
  <2>8. AccumulatedIn(K) = Accumulated(y)
    <3>1. AccumulatedIn(K) = x.adjusted + AmountOver(x, RowsPosted(x)) + x.rows[i].amount
      BY <1>13, <2>3, <2>4, <2>6 DEF Accumulated
    <3>2. Accumulated(y) = x.adjusted + (AmountOver(x, RowsPosted(x)) + x.rows[i].amount)
      BY <1>4, <1>7, <2>3 DEF Accumulated
    <3> QED BY <1>9, <1>10, <3>1, <3>2
  <2>9. y.status \notin {"Sold", "Scrapped"} /\ y.stage = "submitted"
    BY <1>4, <2>3 DEF Live, StatusFor
  <2>10. Balanced(a, y, K)
    BY <2>7, <2>8, <2>9 DEF Balanced
  <2>11. ASSUME NEW k \in RowsPosted(y)
         PROVE  /\ K[y.rows[k].journal].mirrored = 0 /\ K[y.rows[k].journal].accumulated = y.rows[k].amount
                /\ K[y.rows[k].journal].cost = 0
    <3>1. CASE k = i
      <4>1. y.rows[i].journal = n /\ y.rows[i].amount = amount
        BY <1>6, <2>3
      <4> QED BY <1>13, <1>15, <3>1, <4>1
    <3>2. CASE k # i
      <4>1. k \in RowsPosted(x) /\ k \in DOMAIN x.rows
        BY <1>5, <1>10, <3>2
      <4>2. y.rows[k].journal = x.rows[k].journal /\ y.rows[k].amount = x.rows[k].amount
        BY <1>6, <3>2, <4>1
      <4>3. x.rows[k].journal \in DOMAIN J
        BY <1>1, <4>1 DEF Linked, AllNamed, Names
      <4>4. K[y.rows[k].journal] = J[x.rows[k].journal]
        BY <1>15, <4>2, <4>3
      <4> QED BY <2>2, <4>1, <4>2, <4>4 DEF Matches
    <3> QED BY <3>1, <3>2
  <2>12. ASSUME NEW j \in DOMAIN K, K[j].kind = "depreciate", K[j].mirrored = 0
         PROVE  K[j].row \in DOMAIN y.rows /\ y.rows[K[j].row].journal = j
    <3>1. CASE j = n
      BY <1>4, <1>6, <1>13, <1>15, <3>1
    <3>2. CASE j # n
      <4>1. j \in DOMAIN J /\ K[j] = J[j]
        BY <1>15, <3>2
      <4>2. J[j].row \in DOMAIN x.rows /\ x.rows[J[j].row].journal = j
        BY <2>2, <2>12, <4>1 DEF Matches
      <4>3. j # 0
        BY <1>1, <4>1, EntryFacts
      <4>4. J[j].row # i
        BY <2>3, <4>2, <4>3 DEF RowsOpen, RowsPosted
      <4> QED BY <1>4, <1>6, <4>1, <4>2, <4>4
    <3> QED BY <3>1, <3>2
  <2>13. Matches(y, K)
    BY <2>11, <2>12 DEF Matches
  <2> QED BY <2>10, <2>13
<1>19. still => y.status = StatusFor(y)
  BY <1>4
<1> QED BY <1>4, <1>11, <1>15, <1>17, <1>18, <1>19 DEF Good

-----------------------------------------------------------------------------
(* What a step leaves alone. *)

LEMMA GoodLater ==
  ASSUME NEW a, NEW x, NEW J, NEW alone \in BOOLEAN, NEW still \in BOOLEAN, still => alone, Good(a, x, J, alone)
  PROVE  Good(a, x, J, still)
BY DEF Good

LEMMA OthersStay ==
  ASSUME AssetsGood, NEW a \in AssetIds, NEW y, NEW K \in Seq(Entry),
         asset' = [asset EXCEPT ![a] = y], journals' = [journals EXCEPT ![a] = K],
         crossed \subseteq crossed', crossed' \subseteq AssetIds, Good(a, y, K, a \notin crossed')
  PROVE  AssetsGood'
<1>1. /\ asset = [b \in AssetIds |-> asset[b]] /\ journals \in [AssetIds -> Seq(Entry)]
  BY DEF AssetsGood
<1>2. /\ asset'[a] = y /\ journals'[a] = K
      /\ \A b \in AssetIds \ {a} : asset'[b] = asset[b] /\ journals'[b] = journals[b]
  BY <1>1
<1>3. asset' = [b \in AssetIds |-> asset'[b]] /\ journals' \in [AssetIds -> Seq(Entry)]
  BY <1>1
<1>4. ASSUME NEW b \in AssetIds
      PROVE  \/ asset'[b] = NoAsset /\ journals'[b] = <<>>
             \/ Good(b, asset'[b], journals'[b], b \notin crossed')
  <2>1. CASE b = a
    BY <1>2, <2>1
  <2>2. CASE b # a
    <3>1. \/ asset[b] = NoAsset /\ journals[b] = <<>>
          \/ Good(b, asset[b], journals[b], b \notin crossed)
      BY DEF AssetsGood
    <3>2. (b \notin crossed') \in BOOLEAN /\ (b \notin crossed) \in BOOLEAN /\ (b \notin crossed' => b \notin crossed)
      OBVIOUS
    <3>3. Good(b, asset[b], journals[b], b \notin crossed) => Good(b, asset[b], journals[b], b \notin crossed')
      BY <3>2, GoodLater
    <3> QED BY <1>2, <2>2, <3>1, <3>3
  <2> QED BY <2>1, <2>2
<1> QED BY <1>3, <1>4 DEF AssetsGood

LEMMA AllStay ==
  ASSUME AssetsGood, UNCHANGED <<asset, journals, crossed>>
  PROVE  AssetsGood'
<1>1. asset' = asset /\ journals' = journals /\ crossed' = crossed
  OBVIOUS
<1> QED BY <1>1 DEF AssetsGood

LEMMA CopiesStay ==
  ASSUME Copies, UNCHANGED <<asset, poster, crossed>>
  PROVE  Copies'
<1>1. asset' = asset /\ poster' = poster /\ crossed' = crossed
  OBVIOUS
<1> QED BY <1>1 DEF Copies, Fresh, Exists

\* a change of an asset reaches every poster that holds it
LEMMA CopiesCross ==
  ASSUME Copies, AssetsGood, NEW a \in AssetIds, NEW y \in AssetRow(a), asset' = [asset EXCEPT ![a] = y],
         crossed \subseteq crossed', NEW d, Fresh(d),
         d.rows # {} /\ d.on = a => a \in crossed' /\ y.stage # "draft"
  PROVE  Fresh(d)'
<1>1. asset'[a] = y /\ y # NoAsset /\ \A b \in AssetIds \ {a} : asset'[b] = asset[b]
  BY NoAssetAssumption DEF AssetsGood
<1>2. \A b \in AssetIds : Exists(b) => Exists(b)'
  BY <1>1 DEF Exists
<1>3. d' = d
  OBVIOUS
<1>4. \A b \in d.todo : Exists(b)'
  <2>1. \A b \in d.todo : Exists(b)
    BY DEF Fresh
  <2> QED BY <1>1, <2>1 DEF Exists
<1>5. ASSUME d.rows # {}
      PROVE  /\ d.on \in AssetIds /\ Exists(d.on)' /\ asset'[d.on].stage # "draft"
             /\ d.copy \in AssetRow(d.on) /\ d.rows \subseteq DOMAIN d.copy.rows
             /\ d.on \notin crossed' =>
                  d.copy = asset'[d.on] /\ Live(d.copy) /\ d.rows \subseteq RowsOpen(d.copy)
  <2>1. /\ d.on \in AssetIds /\ Exists(d.on) /\ asset[d.on].stage # "draft"
        /\ d.copy \in AssetRow(d.on) /\ d.rows \subseteq DOMAIN d.copy.rows
        /\ d.on \notin crossed => d.copy = asset[d.on] /\ Live(d.copy) /\ d.rows \subseteq RowsOpen(d.copy)
    BY <1>5 DEF Fresh
  <2>2. CASE d.on = a
    BY <1>1, <1>5, <2>1, <2>2 DEF Exists
  <2>3. CASE d.on # a
    <3>1. asset'[d.on] = asset[d.on]
      BY <1>1, <2>1, <2>3
    <3> QED BY <2>1, <3>1 DEF Exists
  <2> QED BY <2>2, <2>3
<1> QED BY <1>4, <1>5 DEF Fresh

LEMMA AssetKnown ==
  ASSUME AssetsGood, NEW a \in AssetIds, Exists(a)
  PROVE  /\ Good(a, asset[a], journals[a], a \notin crossed) /\ asset[a] \in AssetRow(a)
         /\ journals[a] \in Seq(Entry) /\ (a \notin crossed) \in BOOLEAN /\ crossed \subseteq AssetIds
<1>1. Good(a, asset[a], journals[a], a \notin crossed)
  BY DEF AssetsGood, Exists
<1> QED BY <1>1 DEF Good, AssetsGood

LEMMA AssetUnknown ==
  ASSUME AssetsGood, NEW a \in AssetIds, ~Exists(a)
  PROVE  journals[a] = <<>>
<1>1. asset[a] = NoAsset /\ NoAsset \notin AssetRow(a)
  BY NoAssetAssumption DEF Exists
<1>2. ~Good(a, asset[a], journals[a], a \notin crossed)
  BY <1>1 DEF Good
<1> QED BY <1>2 DEF AssetsGood

LEMMA HeldIsKnown ==
  ASSUME Copies, NEW p \in Posters, NEW a, Holding(p, a)
  PROVE  a \in AssetIds /\ Exists(a) /\ asset[a].stage # "draft"
BY DEF Copies, Fresh, Holding

LEMMA TouchReaches ==
  ASSUME AssetsGood, NEW a \in AssetIds, NEW p, Touch(a, p)
  PROVE  /\ crossed \subseteq crossed' /\ crossed' \subseteq AssetIds
         /\ a \notin crossed' => a \notin crossed
         /\ \A q \in Posters \ {p} : Holding(q, a) => a \in crossed'
<1>1. crossed \subseteq AssetIds
  BY DEF AssetsGood
<1> QED BY <1>1 DEF Touch

LEMMA OthersReached ==
  ASSUME AssetsGood, NEW a \in AssetIds, Touch(a, NoPoster)
  PROVE  \A q \in Posters : Holding(q, a) => a \in crossed'
<1>1. Posters \ {NoPoster} = Posters
  BY AssetAssumption
<1>2. \A q \in Posters \ {NoPoster} : Holding(q, a) => a \in crossed'
  BY TouchReaches
<1> QED BY <1>1, <1>2

\* a step that changes one asset and no poster
LEMMA ChangeKeeps ==
  ASSUME AssetInv, NEW a \in AssetIds, NEW y, NEW K,
         asset' = [asset EXCEPT ![a] = y], journals' = [journals EXCEPT ![a] = K],
         UNCHANGED <<frozenUpto, now, poster>>,
         crossed \subseteq crossed', crossed' \subseteq AssetIds, Good(a, y, K, a \notin crossed'),
         \A q \in Posters : Holding(q, a) => a \in crossed' /\ y.stage # "draft"
  PROVE  AssetInv'
<1>1. y \in AssetRow(a) /\ K \in Seq(Entry)
  BY DEF Good
<1>2. AssetsGood'
  BY <1>1, OthersStay DEF AssetInv
<1>3. poster' = poster /\ poster \in [Posters -> Desk] /\ Copies /\ AssetsGood
  BY DEF AssetInv, Copies
<1>4. ASSUME NEW q \in Posters PROVE Fresh(poster[q])'
  <2>1. PICK d : d = poster[q]
    OBVIOUS
  <2>2. Fresh(d) /\ (d.rows # {} /\ d.on = a => a \in crossed' /\ y.stage # "draft")
    BY <1>3, <2>1 DEF Copies, Holding
  <2>3. Fresh(d)'
    BY <1>1, <1>3, <2>2, CopiesCross
  <2>4. poster'[q] = d
    BY <1>3, <2>1
  <2> QED BY <2>3, <2>4 DEF Fresh, Exists
<1>5. Copies'
  BY <1>3, <1>4 DEF Copies
<1> QED BY <1>2, <1>5 DEF AssetInv

\* a step of a poster that changes no asset
LEMMA DeskKeeps ==
  ASSUME AssetInv, NEW p \in Posters, NEW d \in Desk, Fresh(d), poster' = [poster EXCEPT ![p] = d],
         UNCHANGED <<asset, journals, frozenUpto, now, crossed>>
  PROVE  AssetInv'
<1>1. AssetsGood'
  BY AllStay DEF AssetInv
<1>2. poster \in [Posters -> Desk] /\ \A q \in Posters : Fresh(poster[q])
  BY DEF AssetInv, Copies
<1>3. poster' \in [Posters -> Desk] /\ \A q \in Posters : Fresh(poster'[q])
  BY <1>2
<1>4. asset' = asset /\ crossed' = crossed
  OBVIOUS
<1>5. Copies'
  BY <1>3, <1>4 DEF Copies, Fresh, Exists
<1> QED BY <1>1, <1>5 DEF AssetInv

LEMMA CreateKeeps ==
  ASSUME AssetInv, NEW a \in AssetIds, CreateAsset(a) PROVE AssetInv'
<1>1. PICK y : y = NewAsset(a, "draft", "Draft")
  OBVIOUS
<1>2. AssetsGood /\ Copies /\ ~Exists(a) /\ journals[a] = <<>>
  BY AssetUnknown DEF AssetInv, CreateAsset
<1>3. Good(a, y, <<>>, a \notin crossed')
  <2>1. (a \notin crossed') \in BOOLEAN
    OBVIOUS
  <2> QED BY <1>1, <2>1, GoodDraft
<1>4. asset' = [asset EXCEPT ![a] = y] /\ UNCHANGED <<frozenUpto, now, poster, crossed>>
  BY <1>1 DEF CreateAsset
<1>5. journals' = [journals EXCEPT ![a] = <<>>]
  <2>1. journals \in [AssetIds -> Seq(Entry)] /\ journals' = journals
    BY <1>2 DEF AssetsGood, CreateAsset
  <2> QED BY <1>2, <2>1
<1>6. \A q \in Posters : ~Holding(q, a)
  BY <1>2, HeldIsKnown
<1>7. crossed \subseteq crossed' /\ crossed' \subseteq AssetIds
  BY <1>2, <1>4 DEF AssetsGood
<1> QED BY <1>3, <1>4, <1>5, <1>6, <1>7, ChangeKeeps

LEMMA SubmitKeeps ==
  ASSUME AssetInv, NEW a \in AssetIds, SubmitAsset(a) PROVE AssetInv'
<1>1. PICK x, J : x = asset[a] /\ J = journals[a]
  OBVIOUS
<1>2. PICK y : y = [x EXCEPT !.stage = "submitted", !.status = "Submitted"]
  OBVIOUS
<1>3. AssetsGood /\ Copies /\ Exists(a) /\ x.stage = "draft"
  BY <1>1 DEF AssetInv, SubmitAsset
<1>4. Good(a, x, J, a \notin crossed) /\ (a \notin crossed) \in BOOLEAN /\ crossed \subseteq AssetIds
  BY <1>1, <1>3, AssetKnown
<1>5. RowsPosted(x) = {}
  BY <1>3, <1>4 DEF Good, Linked
<1>6. /\ asset' = [asset EXCEPT ![a] = y] /\ crossed' = crossed /\ journals' = journals
      /\ UNCHANGED <<frozenUpto, now, poster>>
  BY <1>1, <1>2 DEF SubmitAsset
<1>7. Good(a, y, J, a \notin crossed')
  <2>1. Good(a, y, J, a \notin crossed)
    BY <1>2, <1>3, <1>4, <1>5, GoodStage
  <2> QED BY <1>6, <2>1
<1>8. journals' = [journals EXCEPT ![a] = J]
  BY <1>1, <1>3, <1>6 DEF AssetsGood
<1>9. \A q \in Posters : ~Holding(q, a)
  BY <1>1, <1>3, HeldIsKnown
<1> QED BY <1>4, <1>6, <1>7, <1>8, <1>9, ChangeKeeps

LEMMA CapitalizeKeeps ==
  ASSUME AssetInv, NEW a \in AssetIds, CapitalizeAsset(a) PROVE AssetInv'
<1>1. PICK y : y = NewAsset(a, "submitted", "Submitted")
  OBVIOUS
<1>2. AssetsGood /\ Copies /\ ~Exists(a) /\ journals[a] = <<>> /\ now \in ScheduleDays
  BY AssetUnknown DEF AssetInv, CapitalizeAsset
<1>3. PICK K : K = Append(<<>>, Journal("capitalize", 0, now, Cost[a], 0))
  OBVIOUS
<1>4. Good(a, y, K, a \notin crossed')
  <2>1. (a \notin crossed') \in BOOLEAN
    OBVIOUS
  <2> QED BY <1>1, <1>2, <1>3, <2>1, GoodCapital
<1>5. asset' = [asset EXCEPT ![a] = y] /\ UNCHANGED <<frozenUpto, now, poster, crossed>>
  BY <1>1 DEF CapitalizeAsset
<1>6. journals' = [journals EXCEPT ![a] = K]
  BY <1>2, <1>3 DEF CapitalizeAsset, Write
<1>7. \A q \in Posters : ~Holding(q, a)
  BY <1>2, HeldIsKnown
<1>8. crossed \subseteq crossed' /\ crossed' \subseteq AssetIds
  BY <1>2, <1>5 DEF AssetsGood
<1> QED BY <1>4, <1>5, <1>6, <1>7, <1>8, ChangeKeeps

LEMMA CancelKeeps ==
  ASSUME AssetInv, NEW a \in AssetIds, CancelAsset(a) PROVE AssetInv'
<1>1. PICK x, J : x = asset[a] /\ J = journals[a]
  OBVIOUS
<1>2. PICK y : y = [x EXCEPT !.stage = "cancelled", !.status = "Cancelled"]
  OBVIOUS
<1>3. AssetsGood /\ Copies /\ Exists(a) /\ x.stage = "submitted" /\ RowsPosted(x) = {}
  BY <1>1 DEF AssetInv, CancelAsset
<1>4. Good(a, x, J, a \notin crossed) /\ (a \notin crossed) \in BOOLEAN
  BY <1>1, <1>3, AssetKnown
<1>5. /\ asset' = [asset EXCEPT ![a] = y] /\ journals' = journals
      /\ UNCHANGED <<frozenUpto, now, poster>> /\ Touch(a, NoPoster)
  BY <1>1, <1>2 DEF CancelAsset
<1>6. crossed \subseteq crossed' /\ crossed' \subseteq AssetIds /\ (a \notin crossed' => a \notin crossed)
  BY <1>3, <1>5, TouchReaches
<1>7. Good(a, y, J, a \notin crossed')
  <2>1. (a \notin crossed') \in BOOLEAN
    OBVIOUS
  <2> QED BY <1>2, <1>3, <1>4, <1>6, <2>1, GoodStage
<1>8. journals' = [journals EXCEPT ![a] = J]
  BY <1>1, <1>3, <1>5 DEF AssetsGood
<1>9. \A q \in Posters : Holding(q, a) => a \in crossed'
  BY <1>3, <1>5, OthersReached
<1>10. y.stage # "draft"
  BY <1>2, <1>4 DEF Good, AssetRow
<1> QED BY <1>5, <1>6, <1>7, <1>8, <1>9, <1>10, ChangeKeeps

LEMMA ReverseKeeps ==
  ASSUME AssetInv, NEW a \in AssetIds, CancelDepreciation(a) PROVE AssetInv'
<1>1. PICK x, J : x = asset[a] /\ J = journals[a]
  OBVIOUS
<1>2. PICK y, K : y = Reopened(x) /\ K = Mirrored(J, OwnEntries(x))
  OBVIOUS
<1>3. AssetsGood /\ Copies /\ Exists(a) /\ Live(x)
  BY <1>1 DEF AssetInv, CancelDepreciation
<1>4. Good(a, x, J, a \notin crossed) /\ (a \notin crossed) \in BOOLEAN
  BY <1>1, <1>3, AssetKnown
<1>5. UNCHANGED <<frozenUpto, now, poster>> /\ Touch(a, NoPoster) /\ asset' = [asset EXCEPT ![a] = y]
  BY <1>1, <1>2 DEF CancelDepreciation
<1>6. journals' = [journals EXCEPT ![a] = K]
  BY <1>1, <1>2 DEF CancelDepreciation
<1>7. crossed \subseteq crossed' /\ crossed' \subseteq AssetIds /\ (a \notin crossed' => a \notin crossed)
  BY <1>3, <1>5, TouchReaches
<1>8. Good(a, y, K, a \notin crossed')
  <2>1. (a \notin crossed') \in BOOLEAN
    OBVIOUS
  <2> QED BY <1>2, <1>3, <1>4, <1>7, <2>1, GoodReverse
<1>9. \A q \in Posters : Holding(q, a) => a \in crossed'
  BY <1>3, <1>5, OthersReached
<1>10. ASSUME NEW q \in Posters, Holding(q, a) PROVE y.stage # "draft"
  <2>1. y.stage = x.stage
    BY <1>2, <1>4 DEF Reopened, Good, AssetRow
  <2> QED BY <1>3, <2>1 DEF Live
<1> QED BY <1>5, <1>6, <1>7, <1>8, <1>9, <1>10, ChangeKeeps

LEMMA DisposeKeeps ==
  ASSUME AssetInv, NEW a \in AssetIds, NEW status \in {"Sold", "Scrapped"}, Dispose(a, status) PROVE AssetInv'
<1>1. PICK x, J : x = asset[a] /\ J = journals[a]
  OBVIOUS
<1>2. PICK y, K : /\ y = [x EXCEPT !.status = status]
                  /\ K = Append(J, Journal("dispose", 0, now, -x.gross, -Accumulated(x)))
  OBVIOUS
<1>3. AssetsGood /\ Copies /\ Exists(a) /\ Live(x) /\ now \in ScheduleDays
  BY <1>1 DEF AssetInv, Dispose
<1>4. Good(a, x, J, a \notin crossed) /\ (a \notin crossed) \in BOOLEAN
  BY <1>1, <1>3, AssetKnown
<1>5. /\ UNCHANGED <<frozenUpto, now, poster>> /\ Touch(a, NoPoster)
      /\ asset' = [asset EXCEPT ![a] = y] /\ journals' = [journals EXCEPT ![a] = K]
  BY <1>1, <1>2 DEF Dispose, Write
<1>6. crossed \subseteq crossed' /\ crossed' \subseteq AssetIds /\ (a \notin crossed' => a \notin crossed)
  BY <1>3, <1>5, TouchReaches
<1>7. Good(a, y, K, a \notin crossed')
  <2>1. (a \notin crossed') \in BOOLEAN
    OBVIOUS
  <2> QED BY <1>2, <1>3, <1>4, <1>6, <2>1, GoodDispose
<1>8. \A q \in Posters : Holding(q, a) => a \in crossed'
  BY <1>3, <1>5, OthersReached
<1>9. y.stage # "draft"
  BY <1>2, <1>3, <1>4 DEF Good, AssetRow, Live
<1> QED BY <1>5, <1>6, <1>7, <1>8, <1>9, ChangeKeeps

LEMMA RevalueKeeps ==
  ASSUME AssetInv, NEW a \in AssetIds, NEW value \in NewValues, Revalue(a, value) PROVE AssetInv'
<1>1. PICK x, J : x = asset[a] /\ J = journals[a]
  OBVIOUS
<1>2. PICK fall : fall = BookValue(x) - value
  OBVIOUS
<1>3. PICK y, K : /\ y = Rescheduled(a, Adjusted(x, fall), value)
                  /\ K = Append(J, IF fall > 0 THEN Journal("revalue", 0, now, 0, fall)
                                               ELSE Journal("revalue", 0, now, -fall, 0))
  OBVIOUS
<1>4. AssetsGood /\ Copies /\ Exists(a) /\ Live(x) /\ now \in ScheduleDays
  BY <1>1 DEF AssetInv, Revalue
<1>5. value \in Nat
  BY AssetAssumption
<1>6. Good(a, x, J, a \notin crossed) /\ (a \notin crossed) \in BOOLEAN
  BY <1>1, <1>4, AssetKnown
<1>7. /\ UNCHANGED <<frozenUpto, now, poster>> /\ Touch(a, NoPoster)
      /\ asset' = [asset EXCEPT ![a] = y] /\ journals' = [journals EXCEPT ![a] = K]
  BY <1>1, <1>2, <1>3 DEF Revalue, Write
<1>8. crossed \subseteq crossed' /\ crossed' \subseteq AssetIds /\ (a \notin crossed' => a \notin crossed)
  BY <1>4, <1>7, TouchReaches
<1>9. Good(a, y, K, a \notin crossed')
  <2>1. (a \notin crossed') \in BOOLEAN
    OBVIOUS
  <2> QED BY <1>2, <1>3, <1>4, <1>5, <1>6, <1>8, <2>1, GoodRevalue
<1>10. \A q \in Posters : Holding(q, a) => a \in crossed'
  BY <1>4, <1>7, OthersReached
<1>11. y.stage # "draft"
  <2>1. y \in AssetRow(a)
    BY <1>9 DEF Good
  <2>2. x.stage # "draft"
    BY <1>4 DEF Live
  <2>3. y.stage = x.stage
    <3>1. x \in AssetRow(a)
      BY <1>6 DEF Good
    <3>2. Adjusted(x, fall).stage = x.stage
      BY <3>1 DEF Adjusted, AssetRow
    <3>3. Rescheduled(a, Adjusted(x, fall), value).stage = Adjusted(x, fall).stage
      <4>1. DOMAIN Adjusted(x, fall) = DOMAIN x /\ "stage" \in DOMAIN x
        BY <3>1 DEF Adjusted, AssetRow
      <4> QED BY <4>1 DEF Rescheduled
    <3> QED BY <1>3, <3>2, <3>3
  <2> QED BY <2>2, <2>3
<1> QED BY <1>7, <1>8, <1>9, <1>10, <1>11, ChangeKeeps

LEMMA ForeignKeeps ==
  ASSUME AssetInv, NEW a \in AssetIds, NEW j \in DOMAIN journals[a], CancelJournal(a, j) PROVE AssetInv'
<1>1. PICK x, J : x = asset[a] /\ J = journals[a]
  OBVIOUS
<1>2. PICK K : K = [J EXCEPT ![j].mirrored = 1, ![j].foreign = TRUE]
  OBVIOUS
<1>3. AssetsGood /\ Copies /\ J[j].mirrored = 0 /\ j \in DOMAIN J
  BY <1>1 DEF AssetInv, CancelJournal
<1>4. Exists(a)
  <2>1. J # <<>>
    BY <1>3
  <2> QED BY <1>1, <1>3, <2>1, AssetUnknown
<1>5. Good(a, x, J, a \notin crossed) /\ (a \notin crossed) \in BOOLEAN /\ crossed \subseteq AssetIds
  BY <1>1, <1>3, <1>4, AssetKnown
<1>6. UNCHANGED <<asset, frozenUpto, now, poster, crossed>>
  BY DEF CancelJournal
<1>7. journals' = [journals EXCEPT ![a] = K]
  BY <1>1, <1>2, <1>3 DEF CancelJournal, AssetsGood
<1>8. asset' = [asset EXCEPT ![a] = x]
  BY <1>1, <1>3, <1>6 DEF AssetsGood
<1>9. Good(a, x, K, a \notin crossed)
  BY <1>2, <1>3, <1>5, GoodForeign
<1>10. AssetsGood'
  <2>1. Good(a, x, K, a \notin crossed') /\ crossed \subseteq crossed' /\ crossed' \subseteq AssetIds /\ K \in Seq(Entry)
    BY <1>5, <1>6, <1>9 DEF Good
  <2> QED BY <1>3, <1>7, <1>8, <2>1, OthersStay
<1>11. Copies'
  BY <1>3, <1>6, CopiesStay
<1> QED BY <1>6, <1>10, <1>11 DEF AssetInv

-----------------------------------------------------------------------------
(* The steps of the posters. *)

LEMMA NobodyHolds ==
  /\ Resting \in Desk /\ Fresh(Resting)
  /\ \A todo \in SUBSET AssetIds, day \in ScheduleDays \cup {0} :
       (\A a \in todo : Exists(a)) => Reading(todo, day) \in Desk /\ Fresh(Reading(todo, day))
<1>1. Resting \in Desk /\ Fresh(Resting)
  BY DEF Resting, Desk, Fresh
<1>2. ASSUME NEW todo \in SUBSET AssetIds, NEW day \in ScheduleDays \cup {0}, \A a \in todo : Exists(a)
      PROVE  Reading(todo, day) \in Desk /\ Fresh(Reading(todo, day))
  <2>1. CASE todo = {}
    BY <1>1, <2>1 DEF Reading
  <2>2. CASE todo # {}
    <3>1. PICK d : d = Reading(todo, day)
      OBVIOUS
    <3>2. d = [todo |-> todo, on |-> NoAsset, copy |-> NoAsset, rows |-> {}, day |-> day]
      BY <2>2, <3>1 DEF Reading, Resting
    <3>3. d \in Desk
      BY <3>2 DEF Desk
    <3>4. Fresh(d)
      BY <1>2, <3>2 DEF Fresh
    <3> QED BY <3>1, <3>3, <3>4
  <2> QED BY <2>1, <2>2
<1> QED BY <1>1, <1>2

LEMMA LoadingIsFresh ==
  ASSUME AssetsGood, NEW a \in AssetIds, Exists(a), NEW todo \in SUBSET AssetIds, \A b \in todo : Exists(b),
         NEW day \in ScheduleDays \cup {0}
  PROVE  Loaded(a, todo, day) \in Desk /\ Fresh(Loaded(a, todo, day))
<1>1. PICK x : x = asset[a]
  OBVIOUS
<1>2. x \in AssetRow(a)
  BY <1>1, AssetKnown
<1>3. PICK due : due = IF Live(x) THEN RowsDue(x, day) ELSE {}
  OBVIOUS
<1>4. CASE due = {}
  <2>1. Loaded(a, todo, day) = Reading(todo, day)
    BY <1>1, <1>3, <1>4 DEF Loaded
  <2> QED BY <2>1, NobodyHolds
<1>5. CASE due # {}
  <2>1. PICK d : d = Loaded(a, todo, day)
    OBVIOUS
  <2>2. d = [todo |-> todo, on |-> a, copy |-> x, rows |-> due, day |-> day]
    BY <1>1, <1>3, <1>5, <2>1 DEF Loaded
  <2>3. Live(x) /\ due \subseteq RowsOpen(x)
    BY <1>3, <1>5 DEF RowsDue
  <2>4. due \subseteq DOMAIN x.rows /\ DOMAIN x.rows \subseteq Nat
    BY <1>2, <2>3, RowFacts
  <2>5. d \in Desk
    <3>1. x \in {NoAsset} \cup UNION {AssetRow(b) : b \in AssetIds}
      BY <1>2
    <3> QED BY <2>2, <2>4, <3>1 DEF Desk
  <2>6. d.todo = todo /\ d.on = a /\ d.copy = x /\ d.rows = due
    BY <2>2
  <2>7. Fresh(d)
    BY <1>1, <1>2, <2>3, <2>4, <2>6 DEF Fresh, Live
  <2> QED BY <2>1, <2>5, <2>7
<1> QED BY <1>4, <1>5

LEMMA BeginSweepKeeps ==
  ASSUME AssetInv, NEW p \in Posters, BeginSweep(p) PROVE AssetInv'
<1>1. PICK due : due = {a \in AssetIds : /\ Exists(a) /\ asset[a].stage = "submitted"
                                        /\ asset[a].status \in {"Submitted", "Partially Depreciated"}
                                        /\ RowsDue(asset[a], now) # {}}
  OBVIOUS
<1>2. due \in SUBSET AssetIds /\ \A a \in due : Exists(a)
  BY <1>1
<1>3. now \in ScheduleDays \cup {0}
  BY DEF AssetInv
<1>4. PICK d : d = Reading(due, now)
  OBVIOUS
<1>5. d \in Desk /\ Fresh(d)
  BY <1>2, <1>3, <1>4, NobodyHolds
<1>6. poster' = [poster EXCEPT ![p] = d] /\ UNCHANGED <<asset, journals, frozenUpto, now, crossed>>
  BY <1>1, <1>4 DEF BeginSweep
<1> QED BY <1>5, <1>6, DeskKeeps

LEMMA TakeKeeps ==
  ASSUME AssetInv, NEW p \in Posters, NEW a \in AssetIds, Take(p, a) PROVE AssetInv'
<1>1. PICK d : d = poster[p]
  OBVIOUS
<1>2. AssetsGood /\ poster \in [Posters -> Desk] /\ d \in Desk /\ Fresh(d) /\ a \in d.todo
  BY <1>1 DEF AssetInv, Copies, Take
<1>3. Exists(a) /\ \A b \in d.todo \ {a} : Exists(b)
  BY <1>2 DEF Fresh
<1>4. d.todo \ {a} \in SUBSET AssetIds /\ d.day \in ScheduleDays \cup {0}
  BY <1>2 DEF Desk
<1>5. PICK e : e = Loaded(a, d.todo \ {a}, d.day)
  OBVIOUS
<1>6. e \in Desk /\ Fresh(e)
  BY <1>2, <1>3, <1>4, <1>5, LoadingIsFresh
<1>7. poster' = [poster EXCEPT ![p] = e] /\ UNCHANGED <<asset, journals, frozenUpto, now, crossed>>
  BY <1>1, <1>2, <1>5 DEF Take
<1> QED BY <1>6, <1>7, DeskKeeps

LEMMA BeginManualKeeps ==
  ASSUME AssetInv, NEW p \in Posters, NEW a \in AssetIds, NEW day \in ScheduleDays, BeginManual(p, a, day)
  PROVE  AssetInv'
<1>1. PICK d : d = Loaded(a, {}, day)
  OBVIOUS
<1>2. AssetsGood /\ Exists(a)
  BY DEF AssetInv, BeginManual
<1>3. d \in Desk /\ Fresh(d)
  <2>1. {} \in SUBSET AssetIds /\ day \in ScheduleDays \cup {0} /\ \A b \in {} : Exists(b)
    OBVIOUS
  <2> QED BY <1>1, <1>2, <2>1, LoadingIsFresh
<1>4. poster' = [poster EXCEPT ![p] = d] /\ UNCHANGED <<asset, journals, frozenUpto, now, crossed>>
  BY <1>1 DEF BeginManual
<1> QED BY <1>3, <1>4, DeskKeeps

LEMMA GiveUpKeeps ==
  ASSUME AssetInv, NEW p \in Posters, RefuseRow(p) \/ KillPoster(p) PROVE AssetInv'
<1>1. PICK d : d = Resting
  OBVIOUS
<1>2. d \in Desk /\ Fresh(d)
  BY <1>1, NobodyHolds
<1>3. poster' = [poster EXCEPT ![p] = d] /\ UNCHANGED <<asset, journals, frozenUpto, now, crossed>>
  BY <1>1 DEF RefuseRow, KillPoster
<1> QED BY <1>2, <1>3, DeskKeeps

LEMMA PostKeeps ==
  ASSUME AssetInv, NEW p \in Posters, PostRow(p) PROVE AssetInv'
<1>1. PICK d : d = poster[p]
  OBVIOUS
<1>2. PICK a, old : a = d.on /\ old = d.copy
  OBVIOUS
<1>3. PICK i \in d.rows :
        /\ Write(a, Journal("depreciate", i, old.rows[i].due, 0, old.rows[i].amount))
        /\ asset' = [asset EXCEPT ![a].rows[i].journal = NextEntry(a),
                                  ![a].status = IF Posted(old, i, NextEntry(a)).status # old.status
                                                THEN Posted(old, i, NextEntry(a)).status ELSE @]
        /\ poster' = [poster EXCEPT ![p] =
             IF d.rows = {i} THEN Reading(d.todo, d.day)
             ELSE [d EXCEPT !.copy = Posted(old, i, NextEntry(a)), !.rows = d.rows \ {i}]]
        /\ Touch(a, p)
  BY <1>1, <1>2 DEF PostRow
<1>4. /\ AssetsGood /\ Copies /\ poster \in [Posters -> Desk] /\ d \in Desk /\ Fresh(d) /\ UNCHANGED <<frozenUpto, now>>
  BY <1>1 DEF AssetInv, Copies, PostRow
<1>5. /\ a \in AssetIds /\ Exists(a) /\ asset[a].stage # "draft"
      /\ old \in AssetRow(a) /\ d.rows \subseteq DOMAIN old.rows
      /\ a \notin crossed => old = asset[a] /\ Live(old) /\ d.rows \subseteq RowsOpen(old)
  BY <1>2, <1>3, <1>4 DEF Fresh
<1>6. PICK x, J : x = asset[a] /\ J = journals[a]
  OBVIOUS
<1>7. Good(a, x, J, a \notin crossed) /\ (a \notin crossed) \in BOOLEAN /\ x \in AssetRow(a) /\ J \in Seq(Entry)
  BY <1>4, <1>5, <1>6, AssetKnown
<1>8. PICK n \in Nat : n = Len(J) + 1 /\ n # 0
  <2>1. Len(J) \in Nat
    BY <1>7
  <2>2. Len(J) + 1 \in Nat /\ Len(J) + 1 # 0
    BY <2>1
  <2> QED BY <2>2
<1>9. NextEntry(a) = n
  BY <1>6, <1>8 DEF NextEntry
<1>10. PICK flagged, status, new : /\ flagged = [old EXCEPT !.rows[i].journal = n]
                                   /\ status = StatusFor(flagged) /\ new = [flagged EXCEPT !.status = status]
                                   /\ new = Posted(old, i, n)
  BY DEF Posted
<1>11. status \in {"Submitted", "Partially Depreciated", "Fully Depreciated"} /\ status \in Statuses
  BY <1>10 DEF StatusFor, Statuses
<1>12. i \in DOMAIN old.rows /\ i \in DOMAIN x.rows /\ DOMAIN x.rows = DOMAIN old.rows
  BY <1>3, <1>5, <1>7, RowFacts
<1>13. new = Flag(old, i, n, status)
  BY <1>5, <1>10 DEF Flag, AssetRow
<1>14. Flagged(a, old, i, n, status, new)
  BY <1>5, <1>8, <1>11, <1>12, <1>13, FlagFacts
<1>15. PICK own : own = IF status # old.status THEN status ELSE x.status
  OBVIOUS
<1>16. own \in Statuses
  BY <1>7, <1>11, <1>15 DEF AssetRow
<1>17. PICK y, K : y = Flag(x, i, n, own) /\ K = Append(J, Journal("depreciate", i, old.rows[i].due, 0, old.rows[i].amount))
  OBVIOUS
<1>18. Flagged(a, x, i, n, own, y)
  BY <1>5, <1>7, <1>8, <1>12, <1>16, <1>17, FlagFacts
<1>19. new.status = status
  BY <1>14 DEF Flagged
<1>20. asset' = [asset EXCEPT ![a] = y]
  <2>1. asset' = [asset EXCEPT ![a].rows[i].journal = n, ![a].status = IF new.status # old.status THEN new.status ELSE @]
    BY <1>3, <1>9, <1>10
  <2>2. asset' = [asset EXCEPT ![a] = [x EXCEPT !.rows[i].journal = n, !.status = own]]
    BY <1>4, <1>5, <1>6, <1>7, <1>15, <1>19, <2>1 DEF AssetsGood, AssetRow
  <2> QED BY <1>17, <2>2 DEF Flag
<1>21. journals' = [journals EXCEPT ![a] = K]
  BY <1>3, <1>6, <1>17 DEF Write
<1>22. Touch(a, p)
  BY <1>3
<1>23. crossed \subseteq crossed' /\ crossed' \subseteq AssetIds /\ (a \notin crossed' => a \notin crossed)
  BY <1>4, <1>5, <1>22, TouchReaches
<1>24. \A q \in Posters \ {p} : Holding(q, a) => a \in crossed'
  BY <1>4, <1>5, <1>22, TouchReaches
<1>25. ASSUME a \notin crossed'
       PROVE  /\ old = x /\ Live(x) /\ i \in RowsOpen(x) /\ d.rows \subseteq RowsOpen(x) /\ own = status /\ y = new
              /\ status = StatusFor(y)
  <2>1. old = x /\ Live(x) /\ d.rows \subseteq RowsOpen(x)
    BY <1>5, <1>6, <1>23, <1>25
  <2>2. own = status
    BY <1>15, <2>1
  <2>3. y = new
    BY <1>13, <1>17, <2>1, <2>2
  <2>4. StatusFor(new) = StatusFor(flagged)
    <3>1. new.rows = flagged.rows
      BY <1>5, <1>10 DEF AssetRow
    <3> QED BY <3>1, SameFlags
  <2> QED BY <1>3, <1>10, <2>1, <2>2, <2>3, <2>4
<1>26. Good(a, y, K, a \notin crossed')
  <2>1. old.rows[i].due \in ScheduleDays /\ old.rows[i].amount \in Int
    <3>1. old.rows[i] \in Row
      BY <1>5, <1>12, RowFacts
    <3> QED BY <3>1 DEF Row
  <2>2. (a \notin crossed') \in BOOLEAN /\ (a \notin crossed' => a \notin crossed)
    BY <1>23
  <2>3. y = Flag(x, i, Len(J) + 1, own)
    BY <1>8, <1>17
  <2>4. a \notin crossed' => Live(x) /\ i \in RowsOpen(x) /\ old.rows[i].amount = x.rows[i].amount /\ own = StatusFor(y)
    BY <1>25
  <2>5. x.stage # "draft"
    BY <1>5, <1>6
  <2> QED BY <1>5, <1>7, <1>12, <1>16, <1>17, <2>1, <2>2, <2>3, <2>4, <2>5, GoodPost
<1>27. y \in AssetRow(a) /\ K \in Seq(Entry) /\ y.stage # "draft"
  <2>1. y.stage = x.stage
    BY <1>18 DEF Flagged
  <2> QED BY <1>5, <1>6, <1>26, <2>1 DEF Good
<1>28. AssetsGood'
  BY <1>4, <1>5, <1>20, <1>21, <1>23, <1>26, <1>27, OthersStay
<1>29. asset'[a] = y /\ \A b \in AssetIds : Exists(b) => Exists(b)'
  <2>1. asset'[a] = y /\ \A b \in AssetIds \ {a} : asset'[b] = asset[b]
    BY <1>4, <1>5, <1>20 DEF AssetsGood
  <2>2. y # NoAsset
    BY <1>5, <1>27, NoAssetAssumption
  <2> QED BY <2>1, <2>2 DEF Exists
<1>30. d.todo \in SUBSET AssetIds /\ d.day \in ScheduleDays \cup {0}
  BY <1>4 DEF Desk
<1>31. PICK e : e = IF d.rows = {i} THEN Reading(d.todo, d.day) ELSE [d EXCEPT !.copy = new, !.rows = d.rows \ {i}]
  OBVIOUS
<1>32. poster' = [poster EXCEPT ![p] = e]
  BY <1>3, <1>9, <1>10, <1>31
<1>33. ASSUME d.rows = {i} PROVE e \in Desk /\ Fresh(e)'
  <2>1. e \in Desk /\ Fresh(e)
    <3>1. \A b \in d.todo : Exists(b)
      BY <1>4 DEF Fresh
    <3> QED BY <1>30, <1>31, <1>33, <3>1, NobodyHolds
  <2>2. e.rows = {} /\ e.todo = d.todo
    BY <1>31, <1>33 DEF Reading, Resting
  <2>3. e \in Desk /\ Fresh(e)'
    BY <1>29, <1>30, <2>1, <2>2 DEF Fresh
  <2> QED BY <2>3
<1>34. ASSUME d.rows # {i} PROVE e \in Desk /\ Fresh(e)'
  <2>1. e = [d EXCEPT !.copy = new, !.rows = d.rows \ {i}]
    BY <1>31, <1>34
  <2>2. e.todo = d.todo /\ e.on = a /\ e.copy = new /\ e.rows = d.rows \ {i}
    BY <1>2, <1>4, <2>1 DEF Desk
  <2>3. new \in AssetRow(a) /\ DOMAIN new.rows = DOMAIN old.rows /\ new.stage = old.stage /\ RowsOpen(new) = RowsOpen(old) \ {i}
    BY <1>14 DEF Flagged
  <2>4. e \in Desk
    <3>1. new \in {NoAsset} \cup UNION {AssetRow(b) : b \in AssetIds}
      BY <1>5, <2>3
    <3> QED BY <1>4, <2>1, <3>1 DEF Desk
  <2>5. \A b \in e.todo : Exists(b)'
    <3>1. \A b \in d.todo : Exists(b)
      BY <1>4 DEF Fresh
    <3> QED BY <1>29, <1>30, <2>2, <3>1
  <2>6. e.rows \subseteq DOMAIN e.copy.rows
    BY <1>5, <2>2, <2>3
  <2>7. Exists(a)' /\ asset'[a].stage # "draft"
    BY <1>5, <1>27, <1>29
  <2>8. ASSUME a \notin crossed' PROVE e.copy = asset'[a] /\ Live(e.copy) /\ e.rows \subseteq RowsOpen(e.copy)
    <3>1. old = x /\ Live(x) /\ d.rows \subseteq RowsOpen(x) /\ y = new
      BY <1>25, <2>8
    <3>2. Live(new)
      BY <1>11, <1>19, <2>3, <3>1 DEF Live
    <3> QED BY <1>29, <2>2, <2>3, <3>1, <3>2
  <2>9. Fresh(e)'
    BY <1>5, <2>2, <2>3, <2>5, <2>6, <2>7, <2>8 DEF Fresh
  <2> QED BY <2>4, <2>9
<1>35. e \in Desk /\ Fresh(e)'
  BY <1>33, <1>34
<1>36. ASSUME NEW q \in Posters \ {p} PROVE Fresh(poster[q])'
  <2>1. PICK c : c = poster[q]
    OBVIOUS
  <2>2. Fresh(c) /\ (c.rows # {} /\ c.on = a => a \in crossed' /\ y.stage # "draft")
    BY <1>4, <1>24, <1>27, <2>1 DEF Copies, Holding
  <2>3. Fresh(c)'
    BY <1>4, <1>5, <1>20, <1>23, <1>27, <2>2, CopiesCross
  <2>4. poster'[q] = c
    BY <1>4, <1>32, <2>1
  <2> QED BY <2>3, <2>4 DEF Fresh, Exists
<1>37. Copies'
  <2>1. poster' \in [Posters -> Desk] /\ poster'[p] = e
    BY <1>4, <1>32, <1>35
  <2>2. Fresh(poster[p])'
    BY <1>35, <2>1 DEF Fresh, Exists
  <2> QED BY <1>36, <2>1, <2>2 DEF Copies
<1> QED BY <1>4, <1>28, <1>37 DEF AssetInv

LEMMA DayKeeps ==
  ASSUME AssetInv, PassDay \/ FreezePeriod PROVE AssetInv'
<1>1. UNCHANGED <<asset, journals, poster, crossed>>
  BY DEF PassDay, FreezePeriod
<1>2. AssetsGood' /\ Copies'
  BY <1>1, AllStay, CopiesStay DEF AssetInv
<1>3. frozenUpto' \in 0 .. LastDay /\ now' \in ScheduleDays
  <2>1. PICK last \in Nat, f \in Int, n \in Int : last = LastDay /\ f = frozenUpto /\ n = now
    <3>1. LastDay \in Nat
      BY AssetAssumption
    <3> QED BY <3>1 DEF AssetInv, ScheduleDays
  <2>2. 0 <= f /\ f <= last /\ 1 <= n /\ n <= last
    BY <2>1 DEF AssetInv, ScheduleDays
  <2>3. CASE PassDay
    BY <2>1, <2>2, <2>3 DEF PassDay, ScheduleDays
  <2>4. CASE FreezePeriod
    BY <2>1, <2>2, <2>4 DEF FreezePeriod, ScheduleDays
  <2> QED BY <2>3, <2>4
<1> QED BY <1>2, <1>3 DEF AssetInv

LEMMA AssetInit == AInit => AssetInv
<1> SUFFICES ASSUME AInit PROVE AssetInv
  OBVIOUS
<1>1. frozenUpto \in 0 .. LastDay /\ now \in ScheduleDays
  <2>1. LastDay \in Nat /\ LastDay # 0
    BY AssetAssumption
  <2> QED BY <2>1 DEF AInit, ScheduleDays
<1>2. AssetsGood
  <2>1. <<>> \in Seq(Entry)
    OBVIOUS
  <2> QED BY <2>1 DEF AInit, AssetsGood
<1>3. Copies
  BY NobodyHolds DEF AInit, Copies
<1> QED BY <1>1, <1>2, <1>3 DEF AssetInv

LEMMA AssetStep == AssetInv /\ [ANext]_avars => AssetInv'
<1> SUFFICES ASSUME AssetInv, [ANext]_avars PROVE AssetInv'
  OBVIOUS
<1>1. CASE PassDay \/ FreezePeriod
  BY <1>1, DayKeeps
<1>2. CASE \E a \in AssetIds : \/ CreateAsset(a) \/ SubmitAsset(a) \/ CapitalizeAsset(a) \/ CancelAsset(a)
                               \/ CancelDepreciation(a)
  BY <1>2, CreateKeeps, SubmitKeeps, CapitalizeKeeps, CancelKeeps, ReverseKeeps
<1>3. CASE \E a \in AssetIds, status \in {"Sold", "Scrapped"} : Dispose(a, status)
  BY <1>3, DisposeKeeps
<1>4. CASE \E a \in AssetIds, value \in NewValues : Revalue(a, value)
  BY <1>4, RevalueKeeps
<1>5. CASE \E a \in AssetIds : \E j \in DOMAIN journals[a] : CancelJournal(a, j)
  BY <1>5, ForeignKeeps
<1>6. CASE \E p \in Posters : BeginSweep(p) \/ PostRow(p) \/ RefuseRow(p) \/ KillPoster(p)
  BY <1>6, BeginSweepKeeps, PostKeeps, GiveUpKeeps
<1>7. CASE \E p \in Posters, a \in AssetIds : Take(p, a)
  BY <1>7, TakeKeeps
<1>8. CASE \E p \in Posters : \E a \in AssetIds, day \in ScheduleDays : BeginManual(p, a, day)
  BY <1>8, BeginManualKeeps
<1>9. CASE UNCHANGED avars
  <2>1. UNCHANGED <<asset, journals, frozenUpto, now, poster, crossed>>
    BY <1>9 DEF avars
  <2> QED BY <2>1, AllStay, CopiesStay DEF AssetInv
<1> QED BY <1>1, <1>2, <1>3, <1>4, <1>5, <1>6, <1>7, <1>8, <1>9 DEF ANext

LEMMA AssetInvAlways == ASpec => []AssetInv
BY AssetInit, AssetStep, PTL DEF ASpec

-----------------------------------------------------------------------------
(* What the invariant says of each asset. *)

LEMMA AlwaysTyped == AssetInv => ATypeOK
<1> SUFFICES ASSUME AssetInv PROVE ATypeOK
  OBVIOUS
<1>1. frozenUpto \in 0 .. LastDay /\ now \in ScheduleDays /\ AssetsGood /\ Copies
  BY DEF AssetInv
<1>2. ASSUME NEW a \in AssetIds PROVE \A j \in DOMAIN journals[a] : journals[a][j] \in Entry
  <2>1. journals[a] \in Seq(Entry)
    BY <1>1 DEF AssetsGood
  <2> QED BY <2>1, EntryFacts
<1>3. ASSUME NEW a \in AssetIds, Exists(a)
      PROVE  /\ asset[a] \in AssetRow(a)
             /\ \A i \in RowsPosted(asset[a]) :
                  /\ asset[a].rows[i].journal \in DOMAIN journals[a]
                  /\ journals[a][asset[a].rows[i].journal].kind = "depreciate"
  BY <1>1, <1>3, AssetKnown DEF Good, Linked, AllNamed, Names
<1>4. \A p \in Posters : poster[p].todo \subseteq AssetIds
  BY <1>1 DEF Copies, Desk
<1>5. crossed \subseteq AssetIds
  BY <1>1 DEF AssetsGood
<1> QED BY <1>1, <1>2, <1>3, <1>4, <1>5 DEF ATypeOK

LEMMA AlwaysBalanced == AssetInv => BookIsLedger
<1> SUFFICES ASSUME AssetInv, NEW a \in AssetIds, Undisturbed(a)
             PROVE  /\ Live(asset[a]) => /\ LedgerCost(a) = asset[a].gross
                                         /\ LedgerAccumulated(a) = Accumulated(asset[a])
                    /\ asset[a].status \in {"Sold", "Scrapped"} => LedgerCost(a) = 0 /\ LedgerAccumulated(a) = 0
  BY DEF BookIsLedger
<1>1. PICK x, J : x = asset[a] /\ J = journals[a]
  OBVIOUS
<1>2. Exists(a) /\ a \notin crossed /\ Own(J)
  BY <1>1 DEF Undisturbed, Own
<1>3. Good(a, x, J, a \notin crossed)
  BY <1>1, <1>2, AssetKnown DEF AssetInv
<1>4. Balanced(a, x, J)
  BY <1>2, <1>3 DEF Good
<1>5. LedgerCost(a) = CostIn(a, J) /\ LedgerAccumulated(a) = AccumulatedIn(J)
  BY <1>1 DEF LedgerCost, LedgerAccumulated, CostIn, AccumulatedIn
<1>6. Live(x) => CostIn(a, J) = x.gross /\ AccumulatedIn(J) = Accumulated(x)
  BY <1>4 DEF Balanced, Live
<1>7. x.status \in {"Sold", "Scrapped"} => CostIn(a, J) = 0 /\ AccumulatedIn(J) = 0
  BY <1>4 DEF Balanced
<1> QED BY <1>1, <1>5, <1>6, <1>7

LEMMA AlwaysFits == AssetInv => ScheduleFits /\ StatusTellsRows
<1> SUFFICES ASSUME AssetInv PROVE ScheduleFits /\ StatusTellsRows
  OBVIOUS
<1>1. AssetsGood
  BY DEF AssetInv
<1>2. ASSUME NEW a \in AssetIds, Exists(a) PROVE Good(a, asset[a], journals[a], a \notin crossed)
  BY <1>1, <1>2, AssetKnown
<1>3. ScheduleFits
  BY <1>2 DEF ScheduleFits, Undisturbed, Good, Fits
<1>4. StatusTellsRows
  BY <1>2 DEF StatusTellsRows, Good
<1> QED BY <1>3, <1>4

LEMMA AlwaysOnce == AssetInv => BookedOnce
<1> SUFFICES ASSUME AssetInv, NEW a \in AssetIds, Undisturbed(a), NEW i \in DOMAIN asset[a].rows
             PROVE  Cardinality({j \in DOMAIN journals[a] : /\ journals[a][j].kind = "depreciate"
                                                           /\ journals[a][j].row = i
                                                           /\ journals[a][j].mirrored = 0})
                      = (IF asset[a].rows[i].journal # 0 THEN 1 ELSE 0)
  BY DEF BookedOnce
<1>1. PICK x, J : x = asset[a] /\ J = journals[a]
  OBVIOUS
<1>2. PICK standing : standing = {j \in DOMAIN J : J[j].kind = "depreciate" /\ J[j].row = i /\ J[j].mirrored = 0}
  OBVIOUS
<1>3. Exists(a) /\ a \notin crossed /\ Own(J)
  BY <1>1 DEF Undisturbed, Own
<1>4. Good(a, x, J, a \notin crossed)
  BY <1>1, <1>3, AssetKnown DEF AssetInv
<1>5. Matches(x, J) /\ AllNamed(x, J) /\ J \in Seq(Entry)
  BY <1>3, <1>4 DEF Good, Linked
<1>6. \A j \in standing : x.rows[i].journal = j
  BY <1>2, <1>5 DEF Matches
<1>7. 0 \notin DOMAIN J
  BY <1>5, EntryFacts
<1>8. CASE x.rows[i].journal # 0
  <2>1. i \in RowsPosted(x)
    BY <1>1, <1>8 DEF RowsPosted
  <2>2. x.rows[i].journal \in standing
    BY <1>2, <1>5, <2>1 DEF Matches, AllNamed, Names
  <2>3. standing = {x.rows[i].journal}
    BY <1>6, <2>2
  <2>4. Cardinality(standing) = 1
    BY <2>3, FS_Singleton
  <2> QED BY <1>1, <1>2, <1>8, <2>4
<1>9. CASE x.rows[i].journal = 0
  <2>1. standing = {}
    BY <1>2, <1>6, <1>7, <1>9
  <2>2. Cardinality(standing) = 0
    BY <2>1, FS_EmptySet
  <2> QED BY <1>1, <1>2, <1>9, <2>2
<1> QED BY <1>8, <1>9

\* An asset, its schedule, its status and the ledger agree through any order
\* of depreciation, reversal, revaluation and disposal (services/asset.py),
\* whoever posts the rows and from whatever copy: AssetAddsUp.
THEOREM AssetsAddUp == ASpec => []AssetAddsUp
<1>1. AssetInv => AssetAddsUp
  BY AlwaysTyped, AlwaysBalanced, AlwaysFits DEF AssetAddsUp
<1> QED BY <1>1, AssetInvAlways, PTL

\* However sweeps, requests, crashes, refusals and reversals interleave, a
\* period stands in the ledger once when its row is posted and not at all when
\* it is not (jobs/assets.py, depreciate_due, cancel_depreciation): BookedOnce.
THEOREM PeriodsBookedOnce == ASpec => []BookedOnce
<1>1. AssetInv => BookedOnce
  BY AlwaysOnce
<1> QED BY <1>1, AssetInvAlways, PTL

-----------------------------------------------------------------------------
(* Worksheets: rows of the right kind, ...                                  *)

RunRow ==
  [income : Nat, book : BookTaxes \cup {NoBook}, uses : [Losses -> Nat], net : Nat,
   reversed : BOOLEAN, superseded : BOOLEAN]
SheetRow ==
  [docstatus : {"Draft", "Submitted", "Cancelled"}, status : {"Draft", "Computed", "Submitted", "Cancelled"},
   income : Nat, book : BookTaxes \cup {NoBook}, revises : Nat, filed : Nat, runs : Seq(RunRow)]
FilingRow == [sheet : Nat, filed : Nat, revises : Nat]

WorksheetTypes ==
  /\ sheets \in Seq(SheetRow)
  /\ remaining \in [Losses -> Nat]
  /\ mat \in [created : Nat, utilised : Nat]
  /\ claimed \subseteq Nat /\ IsFiniteSet(claimed)
  /\ provision \in Seq(Int) /\ Len(provision) = Len(sheets)
  /\ filings \in Seq(FilingRow)
  /\ latest \in Nat

\* ... every run but the last of a worksheet is superseded and its losses are
\* given back, and the last one holds what it set off,
InOrder(runs) ==
  \A n \in DOMAIN runs : (runs[n].superseded <=> n < Len(runs)) /\ (runs[n].reversed <=> n < Len(runs))
\* a return names a worksheet, and an older return if it revises one,
Named(f) ==
  /\ filings[f].sheet \in DOMAIN sheets
  /\ filings[f].revises # 0 => filings[f].revises \in DOMAIN filings
\* and the worksheet computed last took what it would take again.
Repeats(left, runs) ==
  /\ runs # <<>>
  /\ Last(runs).uses = SetOff([l \in Losses |-> left[l] + Last(runs).uses[l]], Last(runs).income)

RunsInOrder == \A s \in DOMAIN sheets : InOrder(sheets[s].runs)
LatestRepeats == latest # 0 => latest \in DOMAIN sheets /\ Repeats(remaining, sheets[latest].runs)
ReturnsNamed == \A f \in DOMAIN filings : Named(f)
WorksheetInv ==
  /\ WorksheetTypes
  /\ RunsInOrder
  /\ LossesAddUp
  /\ MatIsCovered
  /\ ProvisionIsComputed
  /\ ReturnsNamed
  /\ ReturnsAreChained
  /\ LatestRepeats

-----------------------------------------------------------------------------
(* What the operators of worksheets give.                                   *)

LEMMA WorksheetConstants ==
  /\ Incomes \subseteq Nat /\ BookTaxes \subseteq Nat /\ Credits \subseteq Nat
  /\ Losses \subseteq Nat /\ IsFiniteSet(Losses)
  /\ \A l \in Losses : IsFiniteSet(1 .. l - 1) /\ 1 .. l - 1 \subseteq Losses /\ LossAmounts[l] \in Nat
  /\ \A day \in Days : day \in Nat /\ day # 0
<1>1. PICK n : n = Len(LossAmounts) /\ n \in Nat /\ Losses = 1 .. n /\ \A l \in 1 .. n : LossAmounts[l] \in Nat
  BY WorksheetAssumption DEF Losses
<1>2. IsFiniteSet(1 .. n)
  BY <1>1, FS_Interval
<1>3. ASSUME NEW l \in 1 .. n PROVE IsFiniteSet(1 .. l - 1) /\ 1 .. l - 1 \subseteq 1 .. n
  <2>1. l - 1 \in Int /\ 1 .. l - 1 \subseteq 1 .. n
    BY <1>1
  <2>2. IsFiniteSet(1 .. l - 1)
    BY <2>1, FS_Interval
  <2> QED BY <2>1, <2>2
<1> QED BY <1>1, <1>2, <1>3, WorksheetAssumption

\* what the runs hold is what the last one holds
LEMMA HeldByLast ==
  ASSUME NEW runs \in Seq(RunRow), InOrder(runs), NEW l \in Losses
  PROVE  /\ HeldBy(runs, l) = IF runs = <<>> THEN 0 ELSE Last(runs).uses[l]
         /\ HeldBy(runs, l) \in Nat
<1> DEFINE held == [n \in DOMAIN runs |-> IF runs[n].reversed THEN 0 ELSE runs[n].uses[l]]
<1>1. PICK m : m = Len(runs) /\ m \in Nat /\ DOMAIN runs = 1 .. m
  OBVIOUS
<1>2. IsFiniteSet(DOMAIN runs)
  BY <1>1, FS_Interval
<1>3. HeldBy(runs, l) = SumFunctionOnSet(held, DOMAIN runs)
  BY DEF HeldBy
<1>4. CASE runs = <<>>
  <2>1. DOMAIN runs = {}
    BY <1>4
  <2>2. HeldBy(runs, l) = 0
    BY <1>3, <2>1, SumOfEmpty
  <2> QED BY <1>4, <2>2
<1>5. CASE runs # <<>>
  <2>1. m \in DOMAIN runs /\ Last(runs) = runs[m]
    BY <1>1, <1>5 DEF Last
  <2>2. runs[m] \in RunRow /\ ~runs[m].reversed
    BY <1>1, <2>1 DEF InOrder
  <2>3. runs[m].uses[l] \in Nat
    BY <2>2 DEF RunRow
  <2>4. held[m] = runs[m].uses[l] /\ \A n \in DOMAIN runs \ {m} : held[n] = 0
    BY <1>1, <2>1, <2>2 DEF InOrder
  <2> HIDE DEF held
  <2>5. SumFunctionOnSet(held, DOMAIN runs) = held[m]
    BY <1>2, <2>1, <2>3, <2>4, SumOfOne
  <2> QED BY <1>3, <1>5, <2>1, <2>3, <2>4, <2>5
<1> QED BY <1>4, <1>5

\* nothing is set off that is not there
LEMMA SetOffTakes ==
  ASSUME NEW pool \in [Losses -> Nat], NEW income \in Nat
  PROVE  /\ SetOff(pool, income) \in [Losses -> Nat]
         /\ \A l \in Losses : SetOff(pool, income)[l] <= pool[l]
<1>1. ASSUME NEW l \in Losses
      PROVE  SetOff(pool, income)[l] \in Nat /\ SetOff(pool, income)[l] <= pool[l]
  <2>1. IsFiniteSet(1 .. l - 1) /\ \A k \in 1 .. l - 1 : pool[k] \in Int
    BY WorksheetConstants
  <2>2. PICK before : before = SumFunctionOnSet(pool, 1 .. l - 1) /\ before \in Int
    BY <2>1, SumIsInt
  <2>3. PICK left : left = AtLeastNil(income - before) /\ left \in Nat
    BY <2>2 DEF AtLeastNil
  <2>4. PICK here : here = pool[l] /\ here \in Nat
    OBVIOUS
  <2>5. SetOff(pool, income)[l] = Lesser(here, left)
    BY <2>2, <2>3, <2>4 DEF SetOff
  <2> QED BY <2>3, <2>4, <2>5 DEF Lesser
<1>2. SetOff(pool, income) = [l \in Losses |-> SetOff(pool, income)[l]]
  BY DEF SetOff
<1> QED BY <1>1, <1>2

LEMMA ComparedTaxes ==
  ASSUME mat \in [created : Nat, utilised : Nat], MatIsCovered,
         NEW normal \in Int, NEW book \in BookTaxes \cup {NoBook}
  PROVE  LET m == ComparedMat(normal, book)
         IN m.created \in Nat /\ m.utilised \in Nat /\ m.utilised <= mat.created - mat.utilised /\ m.tax \in Int
<1>1. PICK c, u : c = mat.created /\ u = mat.utilised /\ c \in Nat /\ u \in Nat /\ u <= c
  BY DEF MatIsCovered
<1>2. AvailableMat = c - u /\ c - u \in Nat
  BY <1>1 DEF AvailableMat, AtLeastNil
<1>3. CASE book = NoBook
  BY <1>1, <1>2, <1>3 DEF ComparedMat
<1>4. CASE book # NoBook
  <2>1. book \in Nat
    BY <1>4, WorksheetConstants
  <2>2. CASE book > normal
    BY <1>1, <1>2, <1>4, <2>1, <2>2 DEF ComparedMat
  <2>3. CASE ~(book > normal)
    <3>1. PICK used : used = Lesser(AvailableMat, normal - book) /\ used \in Nat /\ used <= c - u
      BY <1>2, <2>1, <2>3 DEF Lesser
    <3> QED BY <1>1, <1>4, <2>3, <3>1 DEF ComparedMat
  <2> QED BY <2>2, <2>3
<1> QED BY <1>3, <1>4

\* a new run is the last one
LEMMA AppendedRun ==
  ASSUME NEW runs \in Seq(RunRow), NEW run \in RunRow, ~run.reversed, ~run.superseded
  PROVE  LET after == Append(Superseded(runs), run)
         IN /\ after \in Seq(RunRow) /\ InOrder(after) /\ after # <<>> /\ Last(after) = run
            /\ Len(after) = Len(runs) + 1
            /\ \A n \in DOMAIN runs : /\ n \in DOMAIN after
                                      /\ after[n].net = runs[n].net
                                      /\ after[n].income = runs[n].income
                                      /\ after[n].book = runs[n].book
<1>1. PICK m : m = Len(runs) /\ m \in Nat /\ DOMAIN runs = 1 .. m
  OBVIOUS
<1>2. PICK old : old = Superseded(runs)
  OBVIOUS
<1>3. ASSUME NEW n \in DOMAIN runs
      PROVE  /\ old[n] \in RunRow /\ old[n].reversed /\ old[n].superseded
             /\ old[n].net = runs[n].net /\ old[n].income = runs[n].income /\ old[n].book = runs[n].book
  <2>1. old[n] = [runs[n] EXCEPT !.reversed = TRUE, !.superseded = TRUE]
    BY <1>2 DEF Superseded
  <2>2. runs[n] \in RunRow
    OBVIOUS
  <2> QED BY <2>1, <2>2 DEF RunRow
<1>4. old \in Seq(RunRow) /\ Len(old) = m /\ DOMAIN old = 1 .. m
  <2>1. old = [n \in 1 .. m |-> old[n]]
    BY <1>1, <1>2 DEF Superseded
  <2>2. \A n \in 1 .. m : old[n] \in RunRow
    BY <1>1, <1>3
  <2>3. old \in [1 .. m -> RunRow]
    BY <2>1, <2>2
  <2> QED BY <1>1, <2>3
<1>5. PICK after : after = Append(old, run)
  OBVIOUS
<1>6. /\ after \in Seq(RunRow) /\ Len(after) = m + 1 /\ DOMAIN after = 1 .. m + 1
      /\ after[m + 1] = run /\ \A n \in 1 .. m : after[n] = old[n]
  BY <1>1, <1>4, <1>5
<1>7. Last(after) = run /\ after # <<>>
  BY <1>1, <1>6 DEF Last
<1>8. InOrder(after)
  <2> SUFFICES ASSUME NEW n \in 1 .. m + 1
               PROVE  (after[n].superseded <=> n < m + 1) /\ (after[n].reversed <=> n < m + 1)
    BY <1>6 DEF InOrder
  <2>1. CASE n = m + 1
    BY <1>1, <1>6, <2>1
  <2>2. CASE n # m + 1
    BY <1>1, <1>3, <1>6, <2>2
  <2> QED BY <2>1, <2>2
<1> QED BY <1>1, <1>2, <1>3, <1>5, <1>6, <1>7, <1>8

-----------------------------------------------------------------------------
(* Worksheets: what a step must keep for the invariant to hold.             *)

\* what the worksheets hold of a loss
Held(x, l) == SumFunctionOnSet([s \in DOMAIN x |-> HeldBy(x[s].runs, l)], DOMAIN x)

LEMMA AddUpIsHeld ==
  LossesAddUp <=> \A l \in Losses : remaining[l] >= 0 /\ remaining[l] + Held(sheets, l) \in {0, LossAmounts[l]}
BY DEF LossesAddUp, Held

\* the runs and the losses are as they were
RunsKept ==
  /\ sheets' \in Seq(SheetRow) /\ Len(sheets') = Len(sheets)
  /\ \A s \in DOMAIN sheets : sheets'[s].runs = sheets[s].runs
  /\ remaining' = remaining /\ latest' = latest

LEMMA KeptRuns ==
  ASSUME WorksheetInv, RunsKept
  PROVE  RunsInOrder' /\ LossesAddUp' /\ LatestRepeats' /\ DOMAIN sheets' = DOMAIN sheets
<1>1. DOMAIN sheets' = DOMAIN sheets
  BY DEF WorksheetInv, WorksheetTypes, RunsKept
<1>2. RunsInOrder'
  BY <1>1 DEF WorksheetInv, RunsInOrder, RunsKept
<1>3. ASSUME NEW l \in Losses PROVE Held(sheets', l) = Held(sheets, l)
  <2>1. [s \in DOMAIN sheets' |-> HeldBy(sheets'[s].runs, l)] = [s \in DOMAIN sheets |-> HeldBy(sheets[s].runs, l)]
    BY <1>1 DEF RunsKept
  <2> QED BY <1>1, <2>1 DEF Held
<1>4. \A l \in Losses : remaining'[l] >= 0 /\ remaining'[l] + Held(sheets', l) \in {0, LossAmounts[l]}
  BY <1>3, AddUpIsHeld DEF WorksheetInv, RunsKept
<1>5. LossesAddUp'
  BY <1>4 DEF LossesAddUp, Held
<1>6. LatestRepeats'
  BY <1>1 DEF WorksheetInv, LatestRepeats, RunsKept, Repeats
<1> QED BY <1>1, <1>2, <1>5, <1>6

\* a worksheet is edited, submitted, cancelled or filed
LEMMA OtherFields ==
  ASSUME WorksheetInv, RunsKept, UNCHANGED <<mat, claimed>>,
         provision' \in Seq(Int), Len(provision') = Len(provision),
         filings' \in Seq(FilingRow), ProvisionIsComputed', ReturnsNamed', ReturnsAreChained'
  PROVE  WorksheetInv'
<1>1. RunsInOrder' /\ LossesAddUp' /\ LatestRepeats'
  BY KeptRuns
<1>2. WorksheetTypes'
  BY DEF WorksheetInv, WorksheetTypes, RunsKept
<1>3. MatIsCovered'
  BY DEF WorksheetInv, MatIsCovered
<1> QED BY <1>1, <1>2, <1>3 DEF WorksheetInv

\* nothing of a worksheet that a return asks for changes
LEMMA KeptReturns ==
  ASSUME WorksheetInv, filings' = filings, DOMAIN sheets \subseteq DOMAIN sheets',
         \A s \in DOMAIN sheets : sheets'[s].revises = sheets[s].revises /\ sheets'[s].filed = sheets[s].filed
  PROVE  ReturnsNamed' /\ ReturnsAreChained'
<1>1. ReturnsNamed'
  BY DEF WorksheetInv, ReturnsNamed, Named
<1>2. ReturnsAreChained'
  BY DEF WorksheetInv, ReturnsNamed, Named, ReturnsAreChained, Filed
<1> QED BY <1>1, <1>2

Justified(sheet, posted) ==
  IF sheet.docstatus = "Submitted"
  THEN \E n \in DOMAIN sheet.runs :
         sheet.runs[n].net = posted /\ sheet.runs[n].income = sheet.income /\ sheet.runs[n].book = sheet.book
  ELSE posted = 0

LEMMA ComputedIsJustified ==
  ASSUME NEW x \in Seq(SheetRow), NEW p
  PROVE  (\A s \in DOMAIN x :
            IF x[s].docstatus = "Submitted"
            THEN \E r \in Range(x[s].runs) : r.net = p[s] /\ r.income = x[s].income /\ r.book = x[s].book
            ELSE p[s] = 0)
         <=> \A s \in DOMAIN x : Justified(x[s], p[s])
BY DEF Justified, Range

LEMMA JustifiedIsComputed ==
  ASSUME \A s \in DOMAIN sheets' : Justified(sheets'[s], provision'[s])
  PROVE  ProvisionIsComputed'
BY DEF ProvisionIsComputed, Justified, Range

\* one worksheet is edited, submitted or cancelled
LEMMA OneSheet ==
  ASSUME WorksheetInv, NEW s \in DOMAIN sheets, NEW new \in SheetRow, NEW posted \in Int,
         new.runs = sheets[s].runs, new.revises = sheets[s].revises, new.filed = sheets[s].filed,
         sheets' = [sheets EXCEPT ![s] = new], provision' = [provision EXCEPT ![s] = posted],
         UNCHANGED <<remaining, mat, claimed, filings, latest>>, Justified(new, posted)
  PROVE  WorksheetInv'
<1>1. sheets \in Seq(SheetRow) /\ provision \in Seq(Int) /\ Len(provision) = Len(sheets)
      /\ filings \in Seq(FilingRow)
  BY DEF WorksheetInv, WorksheetTypes
<1>2. sheets' \in Seq(SheetRow) /\ Len(sheets') = Len(sheets) /\ DOMAIN sheets' = DOMAIN sheets
  BY <1>1
<1>3. \A t \in DOMAIN sheets : sheets'[t] = IF t = s THEN new ELSE sheets[t]
  BY <1>1
<1>4. provision' \in Seq(Int) /\ Len(provision') = Len(provision)
  BY <1>1
<1>5. \A t \in DOMAIN sheets : provision'[t] = IF t = s THEN posted ELSE provision[t]
  BY <1>1
<1>6. RunsKept
  BY <1>2, <1>3 DEF RunsKept
<1>7. \A t \in DOMAIN sheets : Justified(sheets[t], provision[t])
  BY <1>1, ComputedIsJustified DEF WorksheetInv, ProvisionIsComputed
<1>8. \A t \in DOMAIN sheets' : Justified(sheets'[t], provision'[t])
  BY <1>2, <1>3, <1>5, <1>7
<1>9. ProvisionIsComputed'
  BY <1>8, JustifiedIsComputed
<1>10. ReturnsNamed' /\ ReturnsAreChained'
  BY <1>2, <1>3, KeptReturns
<1> QED BY <1>1, <1>4, <1>6, <1>9, <1>10, OtherFields

-----------------------------------------------------------------------------
(* Worksheets: every step keeps the invariant.                              *)

LEMMA NewSheetKeeps ==
  ASSUME WorksheetInv, NEW new \in SheetRow, new.runs = <<>>, new.docstatus = "Draft", NewSheet(new)
  PROVE  WorksheetInv'
<1>1. sheets \in Seq(SheetRow) /\ provision \in Seq(Int) /\ Len(provision) = Len(sheets)
      /\ filings \in Seq(FilingRow)
  BY DEF WorksheetInv, WorksheetTypes
<1>2. PICK m : m = Len(sheets) /\ m \in Nat /\ DOMAIN sheets = 1 .. m /\ DOMAIN provision = 1 .. m
  BY <1>1
<1>3. sheets' \in Seq(SheetRow) /\ Len(sheets') = m + 1 /\ DOMAIN sheets' = 1 .. m + 1
      /\ sheets'[m + 1] = new /\ \A t \in 1 .. m : sheets'[t] = sheets[t]
  BY <1>1, <1>2 DEF NewSheet
<1>4. provision' \in Seq(Int) /\ Len(provision') = m + 1
      /\ provision'[m + 1] = 0 /\ \A t \in 1 .. m : provision'[t] = provision[t]
  BY <1>1, <1>2 DEF NewSheet
<1>5. UNCHANGED <<remaining, mat, claimed, filings, latest>>
  BY DEF NewSheet
<1>6. WorksheetTypes'
  BY <1>3, <1>4, <1>5 DEF WorksheetInv, WorksheetTypes
<1>7. InOrder(new.runs)
  BY DEF InOrder
<1>8. RunsInOrder'
  <2> SUFFICES ASSUME NEW t \in 1 .. m + 1 PROVE InOrder(sheets'[t].runs)
    BY <1>3 DEF RunsInOrder
  <2>1. t \in 1 .. m \/ t = m + 1
    BY <1>2
  <2> QED BY <1>2, <1>3, <1>7, <2>1 DEF WorksheetInv, RunsInOrder
<1>9. ASSUME NEW l \in Losses PROVE Held(sheets', l) = Held(sheets, l)
  <2> DEFINE tally == [t \in DOMAIN sheets |-> HeldBy(sheets[t].runs, l)]
             after == [t \in DOMAIN sheets' |-> HeldBy(sheets'[t].runs, l)]
  <2>1. IsFiniteSet(1 .. m) /\ m + 1 \notin 1 .. m /\ 1 .. m + 1 = (1 .. m) \cup {m + 1}
    <3>1. m + 1 \notin 1 .. m /\ 1 .. m + 1 = (1 .. m) \cup {m + 1} /\ m \in Int
      BY <1>2
    <3>2. IsFiniteSet(1 .. m)
      BY <3>1, FS_Interval
    <3> QED BY <3>1, <3>2
  <2>2. \A t \in 1 .. m : tally[t] \in Nat /\ after[t] = tally[t]
    <3> SUFFICES ASSUME NEW t \in 1 .. m PROVE tally[t] \in Nat /\ after[t] = tally[t]
      OBVIOUS
    <3>1. sheets[t] \in SheetRow /\ InOrder(sheets[t].runs)
      BY <1>1, <1>2 DEF WorksheetInv, RunsInOrder
    <3>2. sheets[t].runs \in Seq(RunRow)
      BY <3>1 DEF SheetRow
    <3>3. HeldBy(sheets[t].runs, l) \in Nat
      BY <3>1, <3>2, HeldByLast
    <3> QED BY <1>2, <1>3, <3>3
  <2>3. after[m + 1] = 0
    <3>1. <<>> \in Seq(RunRow) /\ InOrder(<<>>)
      BY <1>7
    <3>2. HeldBy(<<>>, l) = 0
      BY <3>1, HeldByLast
    <3> QED BY <1>2, <1>3, <3>2
  <2>4. Held(sheets', l) = SumFunctionOnSet(after, (1 .. m) \cup {m + 1})
        /\ Held(sheets, l) = SumFunctionOnSet(tally, 1 .. m)
    BY <1>2, <1>3, <2>1 DEF Held
  <2> HIDE DEF tally, after
  <2>5. SumFunctionOnSet(after, 1 .. m) = SumFunctionOnSet(tally, 1 .. m)
    BY <2>1, <2>2, SumOfSame
  <2>6. SumFunctionOnSet(after, (1 .. m) \cup {m + 1}) = after[m + 1] + SumFunctionOnSet(after, 1 .. m)
    <3>1. \A t \in (1 .. m) \cup {m + 1} : after[t] \in Int
      BY <2>2, <2>3
    <3> QED BY <2>1, <3>1, SumWith
  <2>7. SumFunctionOnSet(tally, 1 .. m) \in Int
    <3>1. \A t \in 1 .. m : tally[t] \in Int
      BY <2>2
    <3> QED BY <2>1, <3>1, SumIsInt
  <2> QED BY <2>3, <2>4, <2>5, <2>6, <2>7
<1>10. \A l \in Losses : remaining'[l] >= 0 /\ remaining'[l] + Held(sheets', l) \in {0, LossAmounts[l]}
  BY <1>5, <1>9, AddUpIsHeld DEF WorksheetInv
<1>11. LossesAddUp'
  BY <1>10 DEF LossesAddUp, Held
<1>12. MatIsCovered'
  BY <1>5 DEF WorksheetInv, MatIsCovered
<1>13. \A t \in DOMAIN sheets : Justified(sheets[t], provision[t])
  BY <1>1, ComputedIsJustified DEF WorksheetInv, ProvisionIsComputed
<1>14. ASSUME NEW t \in DOMAIN sheets' PROVE Justified(sheets'[t], provision'[t])
  <2>1. CASE t = m + 1
    BY <1>3, <1>4, <2>1 DEF Justified
  <2>2. CASE t # m + 1
    <3>1. t \in 1 .. m
      BY <1>2, <1>3, <2>2
    <3> QED BY <1>2, <1>3, <1>4, <1>13, <3>1
  <2> QED BY <2>1, <2>2
<1>15. ProvisionIsComputed'
  BY <1>14, JustifiedIsComputed
<1>16. 1 .. m \subseteq 1 .. m + 1
  BY <1>2
<1>17. ReturnsNamed' /\ ReturnsAreChained'
  BY <1>2, <1>3, <1>5, <1>16, KeptReturns
<1>18. LatestRepeats'
  BY <1>2, <1>3, <1>5, <1>16 DEF WorksheetInv, LatestRepeats, Repeats
<1> QED BY <1>6, <1>8, <1>11, <1>12, <1>15, <1>17, <1>18 DEF WorksheetInv

LEMMA CreatedSheetsKeep ==
  ASSUME WorksheetInv, CreateSheet \/ \E s \in DOMAIN sheets : ChainReturn(s)
  PROVE  WorksheetInv'
<1>1. PICK income \in Nat, book \in BookTaxes \cup {NoBook}, revises \in Nat :
        NewSheet(Sheet(income, book, revises))
  <2>1. CASE CreateSheet
    BY <2>1, WorksheetConstants DEF CreateSheet
  <2>2. ASSUME NEW s \in DOMAIN sheets, ChainReturn(s)
        PROVE  sheets[s].income \in Nat /\ sheets[s].book \in BookTaxes \cup {NoBook} /\ s \in Nat
    <3>1. sheets \in Seq(SheetRow)
      BY DEF WorksheetInv, WorksheetTypes
    <3>2. sheets[s] \in SheetRow /\ s \in Nat
      BY <3>1
    <3> QED BY <3>2 DEF SheetRow
  <2> QED BY <2>1, <2>2 DEF ChainReturn
<1>2. PICK new : new = Sheet(income, book, revises)
  OBVIOUS
<1>3. <<>> \in Seq(RunRow)
  OBVIOUS
<1>4. new \in SheetRow /\ new.runs = <<>> /\ new.docstatus = "Draft"
  BY <1>2, <1>3 DEF Sheet, SheetRow
<1> QED BY <1>1, <1>2, <1>4, NewSheetKeeps

LEMMA EditedSheetKeeps ==
  ASSUME WorksheetInv, NEW s \in DOMAIN sheets, UpdateSheet(s) \/ SubmitSheet(s) \/ CancelSheet(s)
  PROVE  WorksheetInv'
<1>1. PICK old : old = sheets[s] /\ old \in SheetRow /\ old.runs \in Seq(RunRow)
  <2>1. sheets[s] \in SheetRow
    BY DEF WorksheetInv, WorksheetTypes
  <2> QED BY <2>1 DEF SheetRow
<1>2. PICK p : p = provision[s] /\ p \in Int /\ Justified(old, p)
  <2>1. sheets \in Seq(SheetRow) /\ provision \in Seq(Int) /\ Len(provision) = Len(sheets)
    BY DEF WorksheetInv, WorksheetTypes
  <2>2. Justified(sheets[s], provision[s])
    BY <2>1, ComputedIsJustified DEF WorksheetInv, ProvisionIsComputed
  <2> QED BY <1>1, <2>1, <2>2
<1>3. provision = [provision EXCEPT ![s] = p]
  BY <1>2 DEF WorksheetInv, WorksheetTypes
<1>4. CASE UpdateSheet(s)
  <2>1. PICK income \in Incomes, book \in BookTaxes \cup {old.book} :
          sheets' = [sheets EXCEPT ![s].income = income, ![s].book = book]
    BY <1>1, <1>4 DEF UpdateSheet
  <2>2. income \in Nat /\ book \in BookTaxes \cup {NoBook}
    BY <1>1, WorksheetConstants DEF SheetRow
  <2>3. PICK new : new = [old EXCEPT !.income = income, !.book = book]
    OBVIOUS
  <2>4. new \in SheetRow /\ new.runs = old.runs /\ new.revises = old.revises /\ new.filed = old.filed
        /\ new.docstatus = old.docstatus
    BY <1>1, <2>2, <2>3 DEF SheetRow
  <2>5. sheets' = [sheets EXCEPT ![s] = new]
    BY <1>1, <2>1, <2>3 DEF WorksheetInv, WorksheetTypes
  <2>6. old.docstatus = "Draft" /\ UNCHANGED <<remaining, mat, claimed, provision, filings, latest>>
    BY <1>1, <1>4 DEF UpdateSheet
  <2>7. Justified(new, p)
    BY <1>2, <2>4, <2>6 DEF Justified
  <2>8. provision' = [provision EXCEPT ![s] = p]
    BY <1>3, <2>6
  <2> QED BY <1>1, <1>2, <2>4, <2>5, <2>6, <2>7, <2>8, OneSheet
<1>5. CASE SubmitSheet(s)
  <2>1. PICK net : net = Last(old.runs).net
    OBVIOUS
  <2>2. /\ old.docstatus = "Draft" /\ UpToDate(old)
        /\ sheets' = [sheets EXCEPT ![s].docstatus = "Submitted", ![s].status = "Submitted"]
        /\ provision' = [provision EXCEPT ![s] = p + net]
        /\ UNCHANGED <<remaining, mat, claimed, filings, latest>>
    BY <1>1, <1>2, <1>5, <2>1 DEF SubmitSheet
  <2>3. PICK m : m = Len(old.runs) /\ m \in DOMAIN old.runs /\ old.runs[m] = Last(old.runs)
                 /\ old.runs[m] \in RunRow
    BY <1>1, <2>2 DEF UpToDate, Last
  <2>4. p + net = net /\ net \in Int
    BY <1>2, <2>1, <2>2, <2>3 DEF Justified, RunRow
  <2>5. PICK new : new = [old EXCEPT !.docstatus = "Submitted", !.status = "Submitted"]
    OBVIOUS
  <2>6. new \in SheetRow /\ new.runs = old.runs /\ new.revises = old.revises /\ new.filed = old.filed
        /\ new.docstatus = "Submitted" /\ new.income = old.income /\ new.book = old.book
    BY <1>1, <2>5 DEF SheetRow
  <2>7. sheets' = [sheets EXCEPT ![s] = new]
    BY <1>1, <2>2, <2>5 DEF WorksheetInv, WorksheetTypes
  <2>8. Justified(new, net)
    BY <2>1, <2>2, <2>3, <2>6 DEF Justified, UpToDate
  <2>9. provision' = [provision EXCEPT ![s] = net]
    BY <2>2, <2>4
  <2> QED BY <1>1, <2>2, <2>4, <2>6, <2>7, <2>8, <2>9, OneSheet
<1>6. CASE CancelSheet(s)
  <2>1. PICK new : new = [old EXCEPT !.docstatus = "Cancelled", !.status = "Cancelled"]
    OBVIOUS
  <2>2. new \in SheetRow /\ new.runs = old.runs /\ new.revises = old.revises /\ new.filed = old.filed
        /\ new.docstatus = "Cancelled"
    BY <1>1, <2>1 DEF SheetRow
  <2>3. sheets' = [sheets EXCEPT ![s] = new]
    BY <1>1, <1>6, <2>1 DEF CancelSheet, WorksheetInv, WorksheetTypes
  <2>4. provision' = [provision EXCEPT ![s] = 0] /\ UNCHANGED <<remaining, mat, claimed, filings, latest>>
    BY <1>6 DEF CancelSheet
  <2>5. Justified(new, 0) /\ 0 \in Int
    BY <2>2 DEF Justified
  <2> QED BY <1>1, <2>2, <2>3, <2>4, <2>5, OneSheet
<1> QED BY <1>4, <1>5, <1>6

LEMMA CreateLossKeeps ==
  ASSUME WorksheetInv, NEW l \in Losses, CreateLoss(l)
  PROVE  WorksheetInv'
<1>1. sheets \in Seq(SheetRow) /\ remaining \in [Losses -> Nat]
  BY DEF WorksheetInv, WorksheetTypes
<1>2. remaining' = [remaining EXCEPT ![l] = LossAmounts[l]] /\ latest' = 0
      /\ UNCHANGED <<sheets, mat, claimed, provision, filings>>
  BY DEF CreateLoss
<1>3. LossAmounts[l] \in Nat
  BY WorksheetConstants
<1>4. WorksheetTypes'
  BY <1>1, <1>2, <1>3 DEF WorksheetInv, WorksheetTypes
<1>5. Held(sheets, l) = 0
  <2> DEFINE tally == [s \in DOMAIN sheets |-> HeldBy(sheets[s].runs, l)]
  <2>1. ASSUME NEW s \in DOMAIN sheets PROVE tally[s] = 0
    <3>1. PICK runs : runs = sheets[s].runs /\ runs \in Seq(RunRow) /\ InOrder(runs)
      <4>1. sheets[s] \in SheetRow /\ InOrder(sheets[s].runs)
        BY <1>1 DEF WorksheetInv, RunsInOrder
      <4> QED BY <4>1 DEF SheetRow
    <3>2. tally[s] = HeldBy(runs, l)
      BY <3>1
    <3>3. CASE runs = <<>>
      BY <3>1, <3>2, <3>3, HeldByLast
    <3>4. CASE runs # <<>>
      <4>1. PICK m : m = Len(runs) /\ m \in DOMAIN runs /\ Last(runs) = runs[m] /\ runs[m] \in RunRow
        BY <3>1, <3>4 DEF Last
      <4>2. runs[m].uses[l] \in Nat /\ ~(runs[m].uses[l] > 0)
        BY <3>1, <4>1 DEF RunRow, CreateLoss, Range
      <4>3. tally[s] = runs[m].uses[l]
        BY <3>1, <3>2, <3>4, <4>1, HeldByLast
      <4> QED BY <4>2, <4>3
    <3> QED BY <3>3, <3>4
  <2>2. IsFiniteSet(DOMAIN sheets)
    <3>1. PICK m : m = Len(sheets) /\ m \in Int /\ DOMAIN sheets = 1 .. m
      BY <1>1
    <3> QED BY <3>1, FS_Interval
  <2> HIDE DEF tally
  <2>3. SumFunctionOnSet(tally, DOMAIN sheets) = 0
    BY <2>1, <2>2, SumOfZeros
  <2> QED BY <2>3 DEF Held, tally
<1>6. \A k \in Losses : remaining'[k] = IF k = l THEN LossAmounts[l] ELSE remaining[k]
  BY <1>1, <1>2
<1>7. \A k \in Losses : remaining'[k] >= 0 /\ remaining'[k] + Held(sheets, k) \in {0, LossAmounts[k]}
  BY <1>3, <1>5, <1>6, AddUpIsHeld DEF WorksheetInv
<1>8. LossesAddUp'
  BY <1>2, <1>7 DEF LossesAddUp, Held
<1>9. RunsInOrder' /\ MatIsCovered' /\ ProvisionIsComputed'
  BY <1>2 DEF WorksheetInv, RunsInOrder, MatIsCovered, ProvisionIsComputed
<1>10. ReturnsNamed' /\ ReturnsAreChained'
  BY <1>2, KeptReturns
<1>11. LatestRepeats'
  BY <1>2 DEF LatestRepeats
<1> QED BY <1>4, <1>8, <1>9, <1>10, <1>11 DEF WorksheetInv

LEMMA CreditsKeep ==
  ASSUME WorksheetInv, NEW c \in Credits, EnterCredit(c) \/ VoidCredit(c)
  PROVE  WorksheetInv'
<1>1. UNCHANGED <<sheets, remaining, mat, provision, filings, latest>>
  BY DEF EnterCredit, VoidCredit
<1>2. claimed \subseteq Nat /\ IsFiniteSet(claimed) /\ c \in Nat
  BY WorksheetConstants DEF WorksheetInv, WorksheetTypes
<1>3. IsFiniteSet(claimed \cup {c}) /\ IsFiniteSet(claimed \ {c})
  BY <1>2, FS_AddElement, FS_RemoveElement
<1>4. claimed' \subseteq Nat /\ IsFiniteSet(claimed')
  BY <1>2, <1>3 DEF EnterCredit, VoidCredit
<1>5. WorksheetTypes'
  BY <1>1, <1>4 DEF WorksheetInv, WorksheetTypes
<1>6. RunsKept
  BY <1>1 DEF RunsKept, WorksheetInv, WorksheetTypes
<1>7. RunsInOrder' /\ LossesAddUp' /\ LatestRepeats'
  BY <1>6, KeptRuns
<1>8. MatIsCovered' /\ ProvisionIsComputed'
  BY <1>1 DEF WorksheetInv, MatIsCovered, ProvisionIsComputed
<1>9. ReturnsNamed' /\ ReturnsAreChained'
  BY <1>1, KeptReturns
<1> QED BY <1>5, <1>7, <1>8, <1>9 DEF WorksheetInv

LEMMA GenerateFilingKeeps ==
  ASSUME WorksheetInv, NEW s \in DOMAIN sheets, GenerateFiling(s)
  PROVE  WorksheetInv'
<1>1. sheets \in Seq(SheetRow) /\ filings \in Seq(FilingRow) /\ provision \in Seq(Int)
      /\ Len(provision) = Len(sheets)
  BY DEF WorksheetInv, WorksheetTypes
<1>2. UNCHANGED <<sheets, remaining, mat, claimed, provision, latest>>
  BY DEF GenerateFiling
<1>3. PICK rev : /\ filings' = Append(filings, [sheet |-> s, filed |-> 0, revises |-> rev])
                 /\ rev = 0 \/ rev \in Prior(s)
  BY DEF GenerateFiling, LastFiled
<1>4. PICK m : m = Len(filings) /\ m \in Nat /\ DOMAIN filings = 1 .. m
  <2>1. filings \in Seq(FilingRow)
    BY <1>1
  <2>2. Len(filings) \in Nat /\ DOMAIN filings = 1 .. Len(filings)
    BY <2>1
  <2> QED BY <2>2
<1>5. rev \in Nat /\ s \in Nat
  BY <1>1, <1>3, <1>4 DEF Prior
<1>6. PICK new : new = [sheet |-> s, filed |-> 0, revises |-> rev] /\ new \in FilingRow
  <2>1. [sheet |-> s, filed |-> 0, revises |-> rev] \in FilingRow
    BY <1>5 DEF FilingRow
  <2> QED BY <2>1
<1>7. /\ filings' \in Seq(FilingRow) /\ DOMAIN filings' = 1 .. m + 1 /\ 1 .. m \subseteq 1 .. m + 1
      /\ filings'[m + 1] = new /\ \A f \in 1 .. m : filings'[f] = filings[f]
  BY <1>1, <1>3, <1>4, <1>6
<1>8. new.sheet = s /\ new.filed = 0 /\ new.revises = rev
  BY <1>6
<1>9. ASSUME NEW f \in 1 .. m + 1
      PROVE  /\ filings'[f].sheet \in DOMAIN sheets
             /\ filings'[f].revises # 0 =>
                  /\ filings'[f].revises \in 1 .. m
                  /\ filings[filings'[f].revises].filed # 0
                  /\ filings[filings'[f].revises].sheet = sheets[filings'[f].sheet].revises
             /\ filings'[f].filed # 0 => sheets[filings'[f].sheet].filed # 0
  <2>1. CASE f = m + 1
    BY <1>3, <1>4, <1>7, <1>8, <2>1 DEF Prior, Filed
  <2>2. CASE f # m + 1
    <3>1. f \in 1 .. m /\ filings'[f] = filings[f]
      BY <1>4, <1>7, <2>2
    <3> QED BY <1>4, <3>1 DEF WorksheetInv, ReturnsNamed, Named, ReturnsAreChained, Filed
  <2> QED BY <2>1, <2>2
<1>10. ReturnsNamed'
  BY <1>2, <1>7, <1>9 DEF ReturnsNamed, Named
<1>11. ReturnsAreChained'
  BY <1>2, <1>7, <1>9 DEF ReturnsAreChained, Filed
<1>12. ProvisionIsComputed'
  BY <1>2 DEF WorksheetInv, ProvisionIsComputed
<1>13. RunsKept
  BY <1>1, <1>2 DEF RunsKept
<1> QED BY <1>1, <1>2, <1>7, <1>10, <1>11, <1>12, <1>13, OtherFields

LEMMA AcknowledgeFilingKeeps ==
  ASSUME WorksheetInv, NEW f \in DOMAIN filings, AcknowledgeFiling(f)
  PROVE  WorksheetInv'
<1>1. sheets \in Seq(SheetRow) /\ filings \in Seq(FilingRow) /\ provision \in Seq(Int)
      /\ Len(provision) = Len(sheets)
  BY DEF WorksheetInv, WorksheetTypes
<1>2. UNCHANGED <<remaining, mat, claimed, provision, latest>>
  BY DEF AcknowledgeFiling
<1>3. PICK day \in Days :
        /\ filings' = [filings EXCEPT ![f].filed = day]
        /\ sheets' = [sheets EXCEPT ![filings[f].sheet].filed = IF @ = 0 THEN day ELSE @]
  BY DEF AcknowledgeFiling
<1>4. day \in Nat /\ day # 0
  BY WorksheetConstants
<1>5. PICK s : s = filings[f].sheet /\ s \in DOMAIN sheets
  BY DEF WorksheetInv, ReturnsNamed, Named
<1>6. PICK old : old = sheets[s] /\ old \in SheetRow
  BY <1>1, <1>5
<1>7. PICK new : new = [old EXCEPT !.filed = IF old.filed = 0 THEN day ELSE old.filed]
  OBVIOUS
<1>8. /\ new \in SheetRow /\ new.runs = old.runs /\ new.revises = old.revises /\ new.filed # 0
      /\ new.docstatus = old.docstatus /\ new.income = old.income /\ new.book = old.book
  BY <1>4, <1>6, <1>7 DEF SheetRow
<1>9. sheets' = [sheets EXCEPT ![s] = new]
  BY <1>1, <1>3, <1>5, <1>6, <1>7
<1>10. /\ sheets' \in Seq(SheetRow) /\ Len(sheets') = Len(sheets) /\ DOMAIN sheets' = DOMAIN sheets
       /\ \A t \in DOMAIN sheets : sheets'[t] = IF t = s THEN new ELSE sheets[t]
  BY <1>1, <1>5, <1>8, <1>9
<1>11. PICK row : row = [filings[f] EXCEPT !.filed = day]
  OBVIOUS
<1>12. row \in FilingRow /\ row.sheet = filings[f].sheet /\ row.revises = filings[f].revises /\ row.filed = day
  <2>1. filings[f] \in FilingRow
    BY <1>1
  <2> QED BY <1>4, <1>11, <2>1 DEF FilingRow
<1>13. /\ filings' \in Seq(FilingRow) /\ DOMAIN filings' = DOMAIN filings
       /\ \A g \in DOMAIN filings : filings'[g] = IF g = f THEN row ELSE filings[g]
  BY <1>1, <1>3, <1>11, <1>12
<1>14. \A g \in DOMAIN filings : /\ filings'[g].sheet = filings[g].sheet
                                 /\ filings'[g].revises = filings[g].revises
                                 /\ Filed(g) => filings'[g].filed # 0
                                 /\ filings'[g].filed # 0 => Filed(g) \/ g = f
  BY <1>4, <1>12, <1>13 DEF Filed
<1>15. \A t \in DOMAIN sheets : /\ sheets'[t].revises = sheets[t].revises
                                /\ sheets[t].filed # 0 => sheets'[t].filed # 0
                                /\ sheets'[t].runs = sheets[t].runs
  BY <1>6, <1>8, <1>10
<1>16. ReturnsNamed'
  BY <1>10, <1>13, <1>14 DEF WorksheetInv, ReturnsNamed, Named
<1>17. sheets'[filings[f].sheet].filed # 0
  BY <1>5, <1>8, <1>10
<1>18. ASSUME NEW g \in DOMAIN filings
       PROVE  /\ filings'[g].revises # 0 =>
                   /\ filings'[filings'[g].revises].filed # 0
                   /\ filings'[filings'[g].revises].sheet = sheets'[filings'[g].sheet].revises
              /\ filings'[g].filed # 0 => sheets'[filings'[g].sheet].filed # 0
  <2>1. Named(g) /\ (filings[g].revises # 0 =>
                        Filed(filings[g].revises)
                        /\ filings[filings[g].revises].sheet = sheets[filings[g].sheet].revises)
        /\ (Filed(g) => sheets[filings[g].sheet].filed # 0)
    BY DEF WorksheetInv, ReturnsNamed, ReturnsAreChained
  <2> QED BY <1>14, <1>15, <1>17, <2>1 DEF Named
<1>19. ReturnsAreChained'
  BY <1>13, <1>18 DEF ReturnsAreChained, Filed
<1>20. ProvisionIsComputed'
  <2>1. \A t \in DOMAIN sheets : Justified(sheets[t], provision[t])
    BY <1>1, ComputedIsJustified DEF WorksheetInv, ProvisionIsComputed
  <2>2. \A t \in DOMAIN sheets : Justified(sheets'[t], provision[t])
    BY <1>6, <1>8, <1>10, <2>1 DEF Justified
  <2>3. \A t \in DOMAIN sheets' : Justified(sheets'[t], provision'[t])
    BY <1>2, <1>10, <2>2
  <2> QED BY <2>3, JustifiedIsComputed
<1>21. RunsKept
  BY <1>2, <1>10, <1>15 DEF RunsKept
<1> QED BY <1>1, <1>2, <1>13, <1>16, <1>19, <1>20, <1>21, OtherFields

LEMMA CreateRunKeeps ==
  ASSUME WorksheetInv, NEW s \in DOMAIN sheets, CreateRun(s)
  PROVE  /\ WorksheetInv'
         /\ Len(sheets'[s].runs) = Len(sheets[s].runs) + 1
         /\ \A t \in DOMAIN sheets \ {s} : sheets'[t].runs = sheets[t].runs
         /\ Last(sheets'[s].runs).uses = SetOff(GivenBack(s), sheets[s].income)
         /\ remaining' = [l \in Losses |-> GivenBack(s)[l] - SetOff(GivenBack(s), sheets[s].income)[l]]
<1>1. sheets \in Seq(SheetRow) /\ remaining \in [Losses -> Nat] /\ provision \in Seq(Int)
      /\ Len(provision) = Len(sheets)
  BY DEF WorksheetInv, WorksheetTypes
<1>2. PICK old : old = sheets[s] /\ old \in SheetRow /\ InOrder(old.runs)
  BY <1>1 DEF WorksheetInv, RunsInOrder
<1>3. old.runs \in Seq(RunRow) /\ old.income \in Nat /\ old.book \in BookTaxes \cup {NoBook}
  BY <1>2 DEF SheetRow
<1>4. PICK pool : pool = GivenBack(s)
  OBVIOUS
<1>5. pool \in [Losses -> Nat] /\ \A l \in Losses : pool[l] = remaining[l] + HeldBy(old.runs, l)
  BY <1>1, <1>2, <1>3, <1>4, HeldByLast DEF GivenBack
<1>6. PICK uses : uses = SetOff(pool, old.income)
  OBVIOUS
<1>7. uses \in [Losses -> Nat] /\ \A l \in Losses : uses[l] <= pool[l]
  BY <1>3, <1>5, <1>6, SetOffTakes
<1>8. PICK normal : normal = old.income - SumFunctionOnSet(uses, Losses) /\ normal \in Int
  <2>1. SumFunctionOnSet(uses, Losses) \in Int
    <3>1. \A l \in Losses : uses[l] \in Int
      BY <1>7
    <3> QED BY <3>1, WorksheetConstants, SumIsInt
  <2> QED BY <1>3, <2>1
<1>9. PICK m : m = ComparedMat(normal, old.book)
  OBVIOUS
<1>10. m.created \in Nat /\ m.utilised \in Nat /\ m.utilised <= mat.created - mat.utilised /\ m.tax \in Int
  BY <1>3, <1>8, <1>9, ComparedTaxes DEF WorksheetInv, WorksheetTypes
<1>11. PICK net : net = AtLeastNil(m.tax - SumFunctionOnSet([c \in claimed |-> c], claimed)) /\ net \in Nat
  <2>1. IsFiniteSet(claimed) /\ \A c \in claimed : [d \in claimed |-> d][c] \in Int
    BY DEF WorksheetInv, WorksheetTypes
  <2>2. PICK sum : sum = SumFunctionOnSet([c \in claimed |-> c], claimed)
    OBVIOUS
  <2>3. sum \in Int
    BY <2>1, <2>2, SumIsInt
  <2> QED BY <1>10, <2>2, <2>3 DEF AtLeastNil
<1>12. PICK run : run = [income |-> old.income, book |-> old.book, uses |-> uses, net |-> net,
                         reversed |-> FALSE, superseded |-> FALSE]
  OBVIOUS
<1>13. run \in RunRow /\ ~run.reversed /\ ~run.superseded /\ run.uses = uses /\ run.income = old.income
  BY <1>3, <1>7, <1>11, <1>12 DEF RunRow
<1>14. PICK after : after = Append(Superseded(old.runs), run)
  OBVIOUS
<1>15. /\ old.docstatus # "Cancelled"
       /\ sheets' = [sheets EXCEPT ![s].status = "Computed", ![s].runs = after]
       /\ remaining' = [l \in Losses |-> pool[l] - uses[l]]
       /\ mat' = [created |-> mat.created + m.created, utilised |-> mat.utilised + m.utilised]
       /\ latest' = s
       /\ UNCHANGED <<claimed, provision, filings>>
  BY <1>2, <1>4, <1>6, <1>8, <1>9, <1>11, <1>12, <1>14 DEF CreateRun
<1>16. /\ after \in Seq(RunRow) /\ InOrder(after) /\ after # <<>> /\ Last(after) = run
       /\ Len(after) = Len(old.runs) + 1
       /\ \A n \in DOMAIN old.runs : /\ n \in DOMAIN after
                                     /\ after[n].net = old.runs[n].net
                                     /\ after[n].income = old.runs[n].income
                                     /\ after[n].book = old.runs[n].book
  BY <1>3, <1>13, <1>14, AppendedRun
<1>17. PICK new : new = [old EXCEPT !.status = "Computed", !.runs = after]
  OBVIOUS
<1>18. /\ new \in SheetRow /\ new.runs = after /\ new.revises = old.revises /\ new.filed = old.filed
       /\ new.docstatus = old.docstatus /\ new.income = old.income /\ new.book = old.book
  BY <1>2, <1>16, <1>17 DEF SheetRow
<1>19. sheets' = [sheets EXCEPT ![s] = new]
  BY <1>1, <1>2, <1>15, <1>17
<1>20. /\ sheets' \in Seq(SheetRow) /\ Len(sheets') = Len(sheets) /\ DOMAIN sheets' = DOMAIN sheets
       /\ \A t \in DOMAIN sheets : sheets'[t] = IF t = s THEN new ELSE sheets[t]
  BY <1>1, <1>18, <1>19
<1>21. remaining' \in [Losses -> Nat]
  BY <1>5, <1>7, <1>15
<1>22. mat' \in [created : Nat, utilised : Nat] /\ MatIsCovered'
  <2>1. PICK c, u : c = mat.created /\ u = mat.utilised /\ c \in Nat /\ u \in Nat
    BY DEF WorksheetInv, WorksheetTypes
  <2>2. PICK dc, du : dc = m.created /\ du = m.utilised /\ dc \in Nat /\ du \in Nat /\ du <= c - u
    BY <1>10, <2>1
  <2>3. mat' = [created |-> c + dc, utilised |-> u + du] /\ c + dc \in Nat /\ u + du \in Nat
        /\ u + du <= c + dc
    BY <1>15, <2>1, <2>2
  <2> QED BY <2>3 DEF MatIsCovered
<1>23. s \in Nat
  BY <1>1
<1>24. WorksheetTypes'
  BY <1>1, <1>15, <1>20, <1>21, <1>22, <1>23 DEF WorksheetInv, WorksheetTypes
<1>25. RunsInOrder'
  BY <1>16, <1>18, <1>20 DEF WorksheetInv, RunsInOrder
<1>26. ASSUME NEW l \in Losses
       PROVE  Held(sheets', l) = Held(sheets, l) + uses[l] - HeldBy(old.runs, l)
              /\ Held(sheets, l) \in Int /\ HeldBy(old.runs, l) \in Nat
  <2> DEFINE before == [t \in DOMAIN sheets |-> HeldBy(sheets[t].runs, l)]
             tally == [t \in DOMAIN sheets' |-> HeldBy(sheets'[t].runs, l)]
  <2>1. IsFiniteSet(DOMAIN sheets)
    <3>1. PICK n : n = Len(sheets) /\ n \in Int /\ DOMAIN sheets = 1 .. n
      BY <1>1
    <3> QED BY <3>1, FS_Interval
  <2>2. ASSUME NEW t \in DOMAIN sheets PROVE before[t] \in Int
    <3>1. sheets[t] \in SheetRow /\ InOrder(sheets[t].runs)
      BY <1>1 DEF WorksheetInv, RunsInOrder
    <3>2. sheets[t].runs \in Seq(RunRow)
      BY <3>1 DEF SheetRow
    <3>3. HeldBy(sheets[t].runs, l) \in Nat
      BY <3>1, <3>2, HeldByLast
    <3> QED BY <3>3
  <2>3. HeldBy(old.runs, l) \in Nat /\ before[s] = HeldBy(old.runs, l)
    BY <1>2, <1>3, HeldByLast
  <2>4. tally[s] = uses[l] /\ uses[l] \in Int
    <3>1. HeldBy(after, l) = uses[l]
      BY <1>13, <1>16, HeldByLast
    <3> QED BY <1>7, <1>18, <1>20, <3>1
  <2>5. \A t \in DOMAIN sheets \ {s} : tally[t] = before[t]
    BY <1>20
  <2>6. Held(sheets', l) = SumFunctionOnSet(tally, DOMAIN sheets)
        /\ Held(sheets, l) = SumFunctionOnSet(before, DOMAIN sheets)
    BY <1>20 DEF Held
  <2> HIDE DEF tally, before
  <2>7. SumFunctionOnSet(tally, DOMAIN sheets) = SumFunctionOnSet(before, DOMAIN sheets) + tally[s] - before[s]
    <3>1. \A t \in DOMAIN sheets : before[t] \in Int
      BY <2>2
    <3>2. tally[s] \in Int
      BY <2>4
    <3> QED BY <2>1, <2>5, <3>1, <3>2, SumOfChange
  <2>8. SumFunctionOnSet(before, DOMAIN sheets) \in Int
    BY <2>1, <2>2, SumIsInt
  <2> QED BY <2>3, <2>4, <2>6, <2>7, <2>8
<1>27. ASSUME NEW l \in Losses
       PROVE  remaining'[l] >= 0 /\ remaining'[l] + Held(sheets', l) \in {0, LossAmounts[l]}
  <2>1. PICK a, u, r, h, g : a = pool[l] /\ u = uses[l] /\ r = remaining[l] /\ h = HeldBy(old.runs, l)
                             /\ g = Held(sheets, l)
    OBVIOUS
  <2>2. a \in Nat /\ u \in Nat /\ u <= a /\ r \in Nat /\ h \in Nat /\ g \in Int /\ a = r + h
    BY <1>1, <1>5, <1>7, <1>26, <2>1
  <2>3. remaining'[l] = a - u /\ Held(sheets', l) = g + u - h
    BY <1>15, <1>26, <2>1
  <2>4. r + g \in {0, LossAmounts[l]}
    BY <2>1, AddUpIsHeld DEF WorksheetInv
  <2>5. (a - u) + (g + u - h) = r + g /\ a - u >= 0
    BY <2>2
  <2> QED BY <2>3, <2>4, <2>5
<1>28. LossesAddUp'
  BY <1>27 DEF LossesAddUp, Held
<1>29. ProvisionIsComputed'
  <2>1. \A t \in DOMAIN sheets : Justified(sheets[t], provision[t])
    BY <1>1, ComputedIsJustified DEF WorksheetInv, ProvisionIsComputed
  <2>2. Justified(new, provision[s])
    BY <1>2, <1>16, <1>18, <2>1 DEF Justified
  <2>3. \A t \in DOMAIN sheets' : Justified(sheets'[t], provision'[t])
    <3>1. ASSUME NEW t \in DOMAIN sheets PROVE Justified(sheets'[t], provision[t])
      BY <1>20, <2>1, <2>2
    <3> QED BY <1>15, <1>20, <3>1
  <2> QED BY <2>3, JustifiedIsComputed
<1>30. ReturnsNamed' /\ ReturnsAreChained'
  BY <1>2, <1>15, <1>18, <1>20, KeptReturns
<1>31. LatestRepeats'
  <2>1. [l \in Losses |-> remaining'[l] + uses[l]] = pool
    <3>1. \A l \in Losses : remaining'[l] + uses[l] = pool[l]
      BY <1>5, <1>7, <1>15
    <3> QED BY <1>5, <3>1
  <2>2. Last(sheets'[s].runs) = run /\ sheets'[s].runs # <<>>
    BY <1>16, <1>18, <1>20
  <2>3. run.uses = SetOff([l \in Losses |-> remaining'[l] + run.uses[l]], run.income)
    BY <1>6, <1>13, <2>1
  <2>4. latest' = s /\ s \in DOMAIN sheets'
    BY <1>15, <1>20
  <2>5. Repeats(remaining', sheets'[s].runs)
    BY <2>2, <2>3 DEF Repeats
  <2> QED BY <2>4, <2>5 DEF LatestRepeats
<1>32. WorksheetInv'
  BY <1>22, <1>24, <1>25, <1>28, <1>29, <1>30, <1>31 DEF WorksheetInv
<1> QED BY <1>2, <1>4, <1>6, <1>13, <1>15, <1>16, <1>18, <1>20, <1>32

LEMMA WorksheetStart == WInit => WorksheetInv
<1> SUFFICES ASSUME WInit PROVE WorksheetInv
  OBVIOUS
<1>1. sheets = <<>> /\ provision = <<>> /\ filings = <<>> /\ latest = 0 /\ claimed = {}
      /\ remaining = [l \in Losses |-> 0] /\ mat = [created |-> 0, utilised |-> 0]
  BY DEF WInit
<1>2. WorksheetTypes
  BY <1>1, FS_EmptySet DEF WorksheetTypes
<1>3. DOMAIN sheets = {} /\ DOMAIN filings = {}
  BY <1>1
<1>4. \A l \in Losses : Held(sheets, l) = 0
  BY <1>3, SumOfEmpty DEF Held
<1>5. LossesAddUp
  BY <1>1, <1>4, AddUpIsHeld
<1> QED BY <1>1, <1>2, <1>3, <1>5 DEF WorksheetInv, RunsInOrder, MatIsCovered, ProvisionIsComputed,
                                     ReturnsNamed, ReturnsAreChained, LatestRepeats

LEMMA WorksheetStep == WorksheetInv /\ [WNext]_wvars => WorksheetInv'
<1> SUFFICES ASSUME WorksheetInv, [WNext]_wvars PROVE WorksheetInv'
  OBVIOUS
<1>1. CASE CreateSheet
  BY <1>1, CreatedSheetsKeep
<1>2. ASSUME NEW l \in Losses, CreateLoss(l) PROVE WorksheetInv'
  BY <1>2, CreateLossKeeps
<1>3. ASSUME NEW c \in Credits, EnterCredit(c) \/ VoidCredit(c) PROVE WorksheetInv'
  BY <1>3, CreditsKeep
<1>4. ASSUME NEW s \in DOMAIN sheets,
             ChainReturn(s) \/ UpdateSheet(s) \/ CreateRun(s) \/ SubmitSheet(s) \/ CancelSheet(s) \/ GenerateFiling(s)
      PROVE  WorksheetInv'
  BY <1>4, CreatedSheetsKeep, EditedSheetKeeps, CreateRunKeeps, GenerateFilingKeeps
<1>5. ASSUME NEW f \in DOMAIN filings, AcknowledgeFiling(f) PROVE WorksheetInv'
  BY <1>5, AcknowledgeFilingKeeps
<1>6. CASE UNCHANGED wvars
  <2>1. RunsKept /\ UNCHANGED <<mat, claimed, provision, filings, sheets>>
    BY <1>6 DEF wvars, RunsKept, WorksheetInv, WorksheetTypes
  <2>2. ProvisionIsComputed' /\ ReturnsNamed' /\ ReturnsAreChained'
    BY <2>1, KeptReturns DEF WorksheetInv, ProvisionIsComputed
  <2>3. provision' \in Seq(Int) /\ filings' \in Seq(FilingRow)
    BY <2>1 DEF WorksheetInv, WorksheetTypes
  <2> QED BY <2>1, <2>2, <2>3, OtherFields
<1> QED BY <1>1, <1>2, <1>3, <1>4, <1>5, <1>6 DEF WNext

LEMMA WorksheetSafe == WorksheetInv => WorksheetHolds
BY DEF WorksheetInv, WorksheetHolds, RunsInOrder, InOrder, OnlyLastHolds

LEMMA RunsLeft ==
  ASSUME NEW t \in DOMAIN sheets, sheets \in Seq(SheetRow),
         UpdateSheet(t) \/ SubmitSheet(t) \/ CancelSheet(t)
  PROVE  \E new : sheets' = [sheets EXCEPT ![t] = new] /\ new.runs = sheets[t].runs
<1>1. PICK old : old = sheets[t] /\ old \in SheetRow
  OBVIOUS
<1>2. CASE UpdateSheet(t)
  <2>1. PICK income, book : sheets' = [sheets EXCEPT ![t].income = income, ![t].book = book]
    BY <1>2 DEF UpdateSheet
  <2>2. PICK new : new = [old EXCEPT !.income = income, !.book = book]
    OBVIOUS
  <2>3. new.runs = old.runs
    BY <1>1, <2>2 DEF SheetRow
  <2>4. sheets' = [sheets EXCEPT ![t] = new]
    BY <1>1, <2>1, <2>2
  <2> QED BY <1>1, <2>3, <2>4
<1>3. CASE SubmitSheet(t) \/ CancelSheet(t)
  <2>1. PICK status : sheets' = [sheets EXCEPT ![t].docstatus = status, ![t].status = status]
    BY <1>3 DEF SubmitSheet, CancelSheet
  <2>2. PICK new : new = [old EXCEPT !.docstatus = status, !.status = status]
    OBVIOUS
  <2>3. new.runs = old.runs
    BY <1>1, <2>2 DEF SheetRow
  <2>4. sheets' = [sheets EXCEPT ![t] = new]
    BY <1>1, <2>1, <2>2
  <2> QED BY <1>1, <2>3, <2>4
<1> QED BY <1>2, <1>3

\* only a run adds to the runs of a worksheet
LEMMA RunsAreComputed ==
  ASSUME WorksheetInv, [WNext]_wvars, NEW s \in DOMAIN sheets,
         Len(sheets'[s].runs) > Len(sheets[s].runs)
  PROVE  CreateRun(s)
<1>1. sheets \in Seq(SheetRow) /\ sheets[s] \in SheetRow
  BY DEF WorksheetInv, WorksheetTypes
<1>2. Len(sheets[s].runs) \in Nat
  BY <1>1 DEF SheetRow
<1>3. sheets'[s].runs # sheets[s].runs
  BY <1>2
<1>4. ASSUME NEW new, NewSheet(new) PROVE FALSE
  <2>1. sheets'[s] = sheets[s]
    BY <1>1, <1>4 DEF NewSheet
  <2> QED BY <1>3, <2>1
<1>5. ASSUME NEW t \in DOMAIN sheets, UpdateSheet(t) \/ SubmitSheet(t) \/ CancelSheet(t) PROVE FALSE
  <2>1. sheets[t] \in SheetRow
    BY <1>1
  <2>2. PICK new : sheets' = [sheets EXCEPT ![t] = new] /\ new.runs = sheets[t].runs
    BY <1>1, <1>5, <2>1, RunsLeft
  <2>3. sheets'[s].runs = sheets[s].runs
    BY <1>1, <2>2
  <2> QED BY <1>3, <2>3
<1>6. ASSUME NEW f \in DOMAIN filings, AcknowledgeFiling(f) PROVE FALSE
  <2>1. PICK t, day : t \in DOMAIN sheets
                      /\ sheets' = [sheets EXCEPT ![t].filed = IF @ = 0 THEN day ELSE @]
    BY <1>6 DEF AcknowledgeFiling, WorksheetInv, ReturnsNamed, Named
  <2>2. sheets[t] \in SheetRow
    BY <1>1, <2>1
  <2>3. sheets'[s].runs = sheets[s].runs
    BY <1>1, <2>1, <2>2 DEF SheetRow
  <2> QED BY <1>3, <2>3
<1>7. ASSUME NEW t \in DOMAIN sheets, CreateRun(t) PROVE t = s
  BY <1>3, <1>7, CreateRunKeeps
<1>8. ASSUME sheets' = sheets PROVE FALSE
  BY <1>3, <1>8
<1>9. CASE CreateSheet
  BY <1>4, <1>9 DEF CreateSheet
<1>10. ASSUME NEW l \in Losses, CreateLoss(l) PROVE FALSE
  BY <1>8, <1>10 DEF CreateLoss
<1>11. ASSUME NEW c \in Credits, EnterCredit(c) \/ VoidCredit(c) PROVE FALSE
  BY <1>8, <1>11 DEF EnterCredit, VoidCredit
<1>12. ASSUME NEW t \in DOMAIN sheets, ChainReturn(t) \/ GenerateFiling(t) PROVE FALSE
  BY <1>4, <1>8, <1>12 DEF ChainReturn, GenerateFiling
<1>13. ~UNCHANGED wvars
  BY <1>8 DEF wvars
<1> QED BY <1>5, <1>6, <1>7, <1>9, <1>10, <1>11, <1>12, <1>13 DEF WNext

LEMMA RunsComeOut ==
  WorksheetInv /\ [WNext]_wvars =>
    \A s \in DOMAIN sheets :
      LET before == sheets[s].runs
          after  == sheets'[s].runs
      IN Len(after) > Len(before) /\ latest = s /\ Last(before).income = sheets[s].income
           => Last(after).uses = Last(before).uses /\ remaining' = remaining
<1> SUFFICES ASSUME WorksheetInv, [WNext]_wvars, NEW s \in DOMAIN sheets,
                    Len(sheets'[s].runs) > Len(sheets[s].runs), latest = s,
                    Last(sheets[s].runs).income = sheets[s].income
             PROVE  Last(sheets'[s].runs).uses = Last(sheets[s].runs).uses /\ remaining' = remaining
  OBVIOUS
<1>1. CreateRun(s)
  BY RunsAreComputed
<1>2. PICK pool : pool = GivenBack(s)
  OBVIOUS
<1>3. /\ Last(sheets'[s].runs).uses = SetOff(pool, sheets[s].income)
      /\ remaining' = [l \in Losses |-> pool[l] - SetOff(pool, sheets[s].income)[l]]
  BY <1>1, <1>2, CreateRunKeeps
<1>4. sheets \in Seq(SheetRow) /\ remaining \in [Losses -> Nat]
  BY DEF WorksheetInv, WorksheetTypes
<1>5. PICK runs : runs = sheets[s].runs
  OBVIOUS
<1>6. runs \in Seq(RunRow) /\ InOrder(runs) /\ s # 0
  <2>1. sheets[s] \in SheetRow /\ InOrder(sheets[s].runs) /\ s # 0
    BY <1>4 DEF WorksheetInv, RunsInOrder
  <2> QED BY <1>5, <2>1 DEF SheetRow
<1>7. Repeats(remaining, runs)
  BY <1>5, <1>6 DEF WorksheetInv, LatestRepeats
<1>8. PICK uses : uses = Last(runs).uses /\ uses \in [Losses -> Nat]
  <2>1. Last(runs) \in RunRow
    BY <1>6, <1>7 DEF Repeats, Last
  <2> QED BY <2>1 DEF RunRow
<1>9. pool = [l \in Losses |-> remaining[l] + uses[l]]
  BY <1>2, <1>5, <1>6, <1>7, <1>8, HeldByLast DEF GivenBack, Repeats
<1>10. uses = SetOff(pool, sheets[s].income)
  BY <1>5, <1>7, <1>8, <1>9 DEF Repeats
<1>11. remaining' = remaining
  <2>1. \A l \in Losses : pool[l] - uses[l] = remaining[l]
    BY <1>4, <1>8, <1>9
  <2> QED BY <1>3, <1>4, <1>10, <2>1
<1> QED BY <1>3, <1>5, <1>8, <1>10, <1>11

\* After any order of runs of several worksheets a loss is what remains of it
\* and what the last runs hold, minimum-tax credit is never overdrawn, the
\* provision is the tax some run found, and returns are chained.
THEOREM WorksheetsAreSafe == WSpec => []WorksheetHolds
BY WorksheetStart, WorksheetStep, WorksheetSafe, PTL DEF WSpec

\* A worksheet computed again, nothing else having touched the losses, sets
\* off the same losses.
THEOREM RunsComeOutTheSame == WSpec => RunsRepeat
BY WorksheetStart, WorksheetStep, RunsComeOut, PTL DEF WSpec, RunsRepeat

=============================================================================
