---------------------------- MODULE AssetSchedule ----------------------------
(***************************************************************************)
(* The amounts of a depreciation schedule (services/asset.py), in units of *)
(* a hundredth: every row but the last is rounded, the last one takes what *)
(* is left.                                                                *)
(***************************************************************************)
EXTENDS Integers, Sequences, FiniteSets, Functions

\* ROUND_HALF_UP of a/b for a >= 0
HalfUp(a, b) == (2 * a + b) \div (2 * b)
Larger(a, b) == IF a > b THEN a ELSE b
Smaller(a, b) == IF a < b THEN a ELSE b
Total(amounts) == SumFunctionOnSet(amounts, DOMAIN amounts)

SalvageOf(gross, percent) == HalfUp(gross * percent, 100)

StraightLine(depreciable, n) ==
  LET per == HalfUp(depreciable, n) IN
  [i \in 1 .. n |-> IF i < n THEN per ELSE depreciable - (n - 1) * per]

\* each period weighted by its days
DailyProrata(depreciable, days) ==
  LET n == Len(days)
      part(i) == HalfUp(depreciable * days[i], Total(days)) IN
  [i \in 1 .. n |->
     IF i < n THEN part(i) ELSE depreciable - Total([k \in 1 .. n - 1 |-> part(k)])]

\* what is left after each period, at an explicit rate of what was left before it, never
\* below salvage
LeftAfter(book, salvage, n, rate) ==
  LET left[i \in 0 .. n] ==
        IF i = 0 THEN book
        ELSE IF i = n THEN salvage
        ELSE left[i - 1] - Larger(0, Smaller(HalfUp(left[i - 1] * rate, 100), left[i - 1] - salvage))
  IN left

WrittenDown(book, salvage, n, rate) ==
  LET left == LeftAfter(book, salvage, n, rate) IN [i \in 1 .. n |-> left[i - 1] - left[i]]

\* the rows not posted yet, after a revaluation
Reschedule(method, rate, book, salvage, n) ==
  IF method = "Written Down Value" /\ book > salvage
  THEN WrittenDown(book, salvage, n, rate)
  ELSE StraightLine(Larger(book - salvage, 0), n)
=============================================================================
