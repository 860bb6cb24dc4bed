------------------------------ MODULE Decimals ------------------------------
(***************************************************************************)
(* The decimal arithmetic of the amounts.  An amount is a ratio of         *)
(* integers in lowest terms, <<numerator, denominator>>, counted in the    *)
(* smallest unit of its column (hundredths of the currency); a stored      *)
(* amount has been rounded to a whole number of them.  Quotients are       *)
(* exact: the 28 digits of Python's decimal are taken for all of them.     *)
(***************************************************************************)
EXTENDS Integers, SequencesExt

GreatestDivisor[a \in Nat, b \in Nat] ==
  IF b = 0 THEN a ELSE GreatestDivisor[b, a % b]

Magnitude(n) == IF n < 0 THEN -n ELSE n
Whole(n) == <<n, 1>>
Zero == Whole(0)
One == Whole(1)

Ratio(n, d) ==
  LET sign == IF d < 0 THEN -1 ELSE 1
      g == GreatestDivisor[Magnitude(n), Magnitude(d)]
  IN <<sign * (n \div g), sign * (d \div g)>>

Plus(a, b) ==
  LET g == GreatestDivisor[a[2], b[2]]
  IN Ratio(a[1] * (b[2] \div g) + b[1] * (a[2] \div g), a[2] * (b[2] \div g))
Negated(a) == <<-a[1], a[2]>>
Minus(a, b) == Plus(a, Negated(b))
Times(a, b) ==
  LET g == GreatestDivisor[Magnitude(a[1]), b[2]]
      h == GreatestDivisor[Magnitude(b[1]), a[2]]
  IN Ratio((a[1] \div g) * (b[1] \div h), (a[2] \div h) * (b[2] \div g))
Over(a, b) == Times(a, IF b[1] < 0 THEN <<-b[2], -b[1]>> ELSE <<b[2], b[1]>>)
Hundredth(a) == Times(a, <<1, 100>>)
AtMost(a, b) == Minus(a, b)[1] <= 0
Below(a, b) == Minus(a, b)[1] < 0
Smaller(a, b) == IF AtMost(a, b) THEN a ELSE b
Larger(a, b) == IF AtMost(a, b) THEN b ELSE a
NotNegative(a) == Larger(a, Zero)

Total(amounts) == FoldLeft(Plus, Zero, amounts)

\* to a whole number, half away from zero (ROUND_HALF_UP)
HalfUp(a) ==
  LET size == (2 * Magnitude(a[1]) + a[2]) \div (2 * a[2])
  IN IF a[1] < 0 THEN -size ELSE size
Rounded(a) == Whole(HalfUp(a))
\* to a whole number, half to the even one (the default context)
HalfEven(a) ==
  LET down == a[1] \div a[2]
      twice == 2 * (a[1] - down * a[2])
  IN IF twice < a[2] \/ (twice = a[2] /\ down % 2 = 0) THEN down ELSE down + 1
\* to a multiple of n, half up; and up to the next multiple
ToMultiple(a, n) == Whole(n * HalfUp(Over(a, Whole(n))))
=============================================================================
