---------------------------- MODULE CostDrivers ----------------------------
(***************************************************************************)
(* The estimate of a contribution margin (services/cm_planning: engine.py, *)
(* methods.py, bases.py, waterfall.py, compat.py): drivers evaluated in    *)
(* order, rolled up into groups and classes, and the waterfall from the    *)
(* revenue to the operating profit.  Amounts and bases are in hundredths,  *)
(* rounded half to even; rates, factors and the quantities of a line are   *)
(* whole ones.  A code is a number, in the order the names sort; the       *)
(* methods that evaluate a typed-in formula or count an activity are left  *)
(* out.                                                                    *)
(***************************************************************************)
EXTENDS Decimals, TLC

Commission == 1
Freight == 2
Labor == 3
Material == 4
Packaging == 5
Named == {Material, Labor, Freight, Commission, Packaging}
VariableCost == 20
Product == 21
Segment == 22
Overhead == 23
NoCode == 0

Money(a) == Whole(HalfEven(a))
Share(a, percent) == Money(Hundredth(Times(a, percent)))

(* A driver: [code, class, group, parent, method, basis, n, of, order,     *)
(* enabled], n being the percentage, rate or amount of its method and of   *)
(* the pool or driver it refers to.  The context: [revenue, quantity,      *)
(* source, bases, pools]; bases gives [value, total] of a basis that was   *)
(* provided.                                                               *)

Classes == {"variable_cost", "product_channel_fixed", "segment_bu_fixed", "corporate_overhead"}
AtOr(f, key, other) == IF key \in DOMAIN f THEN f[key] ELSE other
Alone(value) == [value |-> value, total |-> value]

BasisOf(d, ctx) ==
  CASE d.basis \in DOMAIN ctx.bases /\ d.basis \in {"revenue", "quantity", "transaction_count"} ->
         Alone(IF d.basis = "transaction_count" THEN ctx.bases[d.basis].value
               ELSE Money(ctx.bases[d.basis].value))
    [] d.basis \in DOMAIN ctx.bases -> ctx.bases[d.basis]
    [] d.basis = "revenue"  -> Alone(Money(ctx.revenue))
    [] d.basis = "quantity" -> Alone(Money(Times(ctx.quantity, Whole(100))))
    [] d.basis = "transaction_count" -> Alone(Whole(100))
    [] OTHER -> Alone(Zero)

\* what a driver costs, after those before it
CostOf(d, ctx, prior) ==
  LET has == d.basis # "none"
      pool == Money(AtOr(ctx.pools, d.of, Zero))
      On(basis) ==
        CASE d.method = "from_source"  -> Money(AtOr(ctx.source, d.code, Zero))
          [] d.method = "fixed_amount" -> Money(d.n)
          [] d.method = "percentage"   -> IF has THEN Share(basis.value, d.n) ELSE Zero
          [] d.method = "rate_times_basis" -> IF has THEN Money(Times(d.n, basis.value)) ELSE Zero
          [] d.method = "pool_share" ->
               IF ~has \/ basis.total = Zero THEN Zero
               ELSE Money(Times(pool, Over(basis.value, basis.total)))
          [] d.method = "pct_of_driver" -> Share(AtOr(prior, d.of, Zero), d.n)
          [] OTHER -> Zero
  IN On(BasisOf(d, ctx))

InOrder(a, b) == a.order < b.order \/ (a.order = b.order /\ a.code < b.code)
\* mutant: a driver that is switched off still costs
LeavesWhatever(drivers) == SortSeq(SelectSeq(drivers, LAMBDA d : ~d.group), InOrder)
Leaves(drivers) ==
  SortSeq(SelectSeq(drivers, LAMBDA d : d.enabled /\ ~d.group), InOrder)

\* the cost of each leaf, by code and in order
LeafCosts(drivers, ctx) ==
  LET Step(seen, d) ==
        LET cost == CostOf(d, ctx, seen.by)
        IN [by |-> [c \in DOMAIN seen.by \cup {d.code} |-> IF c = d.code THEN cost ELSE seen.by[c]],
            rows |-> Append(seen.rows, [class |-> d.class, cost |-> cost])]
  IN FoldLeft(Step, [by |-> <<>>, rows |-> <<>>], Leaves(drivers))

Children(drivers, code) == SelectSeq(drivers, LAMBDA d : d.enabled /\ d.parent = code)

\* a group costs what its children do (the groups form no cycle)
RECURSIVE GroupCost(_, _, _)
GroupCost(drivers, by, code) ==
  LET Of(d) == IF d.group THEN GroupCost(drivers, by, d.code) ELSE AtOr(by, d.code, Zero)
      children == Children(drivers, code)
  IN IF code \in DOMAIN by THEN by[code]
     ELSE Total([i \in DOMAIN children |-> Of(children[i])])

ClassCost(rows, class) ==
  Total([i \in DOMAIN rows |-> IF rows[i].class = class THEN rows[i].cost ELSE Zero])

----------------------------------------------------------------------------
(* The waterfall *)

\* mutant: the margin asked for is added to the cost
MarkedUp(variable, target) == Plus(variable, Share(variable, target))
\* the revenue of which the margin asked for is left: none at or above a hundred
Minimum(variable, target) ==
  Money(Over(variable, Minus(One, Hundredth(target))))
HasMinimum(variable, target) ==
  AtMost(Zero, variable) /\ AtMost(Zero, target) /\ Below(target, Whole(100))

Waterfall(revenue, variable, product, segment, corporate) ==
  LET Third(cm1, cm2, cm3) ==
        [revenue |-> Money(revenue), variable |-> variable, cm1 |-> cm1, cm2 |-> cm2, cm3 |-> cm3,
         profit |-> Money(Minus(cm3, corporate))]
      Second(cm1, cm2) == Third(cm1, cm2, Money(Minus(cm2, segment)))
      First(cm1) == Second(cm1, Money(Minus(cm1, product)))
  IN First(Money(Minus(revenue, variable)))

\* mutant: a variable cost without a column of its own is dropped
NamedOnly(costs) == Total([c \in 1 .. Packaging |-> AtOr(costs.by, c, Zero)])
\* the five named costs, and in packaging what other variable costs there are
VariableOf(costs) ==
  LET WithResidual(named) == Money(Plus(named, Minus(ClassCost(costs.rows, "variable_cost"), named)))
  IN WithResidual(Total([c \in 1 .. Packaging |-> AtOr(costs.by, c, Zero)]))

Estimate(drivers, ctx) ==
  LET Rolled(costs) ==
        [costs |-> costs,
         falls |-> Waterfall(ctx.revenue, VariableOf(costs), ClassCost(costs.rows, "product_channel_fixed"),
                             ClassCost(costs.rows, "segment_bu_fixed"), ClassCost(costs.rows, "corporate_overhead"))]
  IN Rolled(LeafCosts(drivers, ctx))

----------------------------------------------------------------------------
(* The lines of a deal: [qty, rate, material, labor, packaging] per unit *)

Factor(f) == IF Below(Zero, f) THEN f ELSE One

\* mutant: every line takes its rounded share
SharedEvenly(freight, amounts) ==
  [i \in DOMAIN amounts |-> Money(Over(Times(freight, amounts[i]), Total(amounts)))]
\* freight by the share of the sale, the last line taking the rest
Shared(freight, amounts) ==
  LET share == [i \in DOMAIN amounts |-> Money(Over(Times(freight, amounts[i]), Total(amounts)))]
      last == Len(amounts)
  IN [share EXCEPT ![last] = Minus(freight, Total(SubSeq(share, 1, last - 1)))]

\* a line that sold for sold, with the freight it carries
LineOf(deal, line, sold, freight) ==
  LET Amount(rate, factor) == Money(Times(Times(line.qty, rate), factor))
      Margin(material, labor, packaging, variable) ==
        [sold |-> sold, material |-> material, labor |-> labor, packaging |-> packaging,
         freight |-> freight, variable |-> variable, cm1 |-> Minus(sold, variable)]
      WithCosts(material, labor, packaging, commission) ==
        Margin(material, labor, packaging,
               Plus(Plus(Plus(material, labor), packaging), Plus(freight, commission)))
  IN WithCosts(Amount(line.material, Factor(deal.materialFactor)),
               Amount(line.labor, Factor(deal.laborFactor)), Amount(line.packaging, One),
               IF Below(Zero, deal.commission) THEN Share(sold, deal.commission) ELSE Zero)

LinesOf(deal) ==
  LET Carrying(sold, freight) ==
        [i \in DOMAIN sold |-> LineOf(deal, deal.lines[i], sold[i], freight[i])]
      Sold(sold) ==
        Carrying(sold, IF Below(Zero, deal.freight) /\ Below(Zero, Total(sold))
                       THEN Shared(Money(deal.freight), sold) ELSE [i \in DOMAIN sold |-> Zero])
  IN Sold([i \in DOMAIN deal.lines |-> Money(Times(deal.lines[i].qty, deal.lines[i].rate))])

ContextOf(deal) ==
  LET Sum(rows, F(_)) == Total([i \in DOMAIN rows |-> F(rows[i])])
      Commissioned(revenue) == IF Below(Zero, deal.commission) /\ Below(Zero, revenue)
                               THEN Share(revenue, deal.commission) ELSE Zero
      Sourced(rows, revenue) ==
        [revenue |-> revenue, quantity |-> Total([i \in DOMAIN rows |-> deal.lines[i].qty]),
         bases |-> deal.bases, pools |-> deal.pools,
         source |-> [c \in Named |-> CASE c = Material -> Sum(rows, LAMBDA r : r.material)
                                       [] c = Labor -> Sum(rows, LAMBDA r : r.labor)
                                       [] c = Packaging -> Sum(rows, LAMBDA r : r.packaging)
                                       [] c = Freight -> Money(deal.freight)
                                       [] OTHER -> Commissioned(revenue)]]
      With(rows) == Sourced(rows, Sum(rows, LAMBDA r : r.sold))
  IN With(LinesOf(deal))

\* the drivers of a plan that only has percentages of the revenue
Blank == [class |-> "variable_cost", group |-> FALSE, parent |-> NoCode, method |-> "from_source",
          basis |-> "none", n |-> Zero, of |-> NoCode, enabled |-> TRUE]
DefaultDrivers(product, segment, corporate) ==
  LET Row(code, order) == Blank @@ [code |-> code, order |-> order]
      Fixed(code, order, class, percent) ==
        [Row(code, order) EXCEPT !.class = class, !.method = "percentage", !.basis = "revenue", !.n = percent]
  IN <<[Row(VariableCost, 0) EXCEPT !.group = TRUE, !.method = "none"]>>
     \o [i \in 1 .. 5 |-> [Row(<<Material, Labor, Freight, Commission, Packaging>>[i], i)
                             EXCEPT !.parent = VariableCost]]
     \o <<Fixed(Product, 10, "product_channel_fixed", product), Fixed(Segment, 11, "segment_bu_fixed", segment),
          Fixed(Overhead, 12, "corporate_overhead", corporate)>>

----------------------------------------------------------------------------
(* What it promises *)

\* Every cost of one of the four classes leaves the revenue exactly once,
\* whatever its code, group and method (waterfall_from_engine).
EveryCostOnce(ctx, e) ==
  LET Counted(row) == IF row.class \in Classes THEN row.cost ELSE Zero
  IN e.falls.profit = Minus(ctx.revenue, Total([i \in DOMAIN e.costs.rows |-> Counted(e.costs.rows[i])]))

\* The drill-down adds up: the costs at the top of the tree are those of its
\* leaves, as long as every parent is a group that is switched on.
DrillDownAddsUp(drivers, costs) ==
  LET Of(d) == IF d.group THEN GroupCost(drivers, costs.by, d.code) ELSE costs.by[d.code]
      Sum(tops) == Total([i \in DOMAIN tops |-> Of(tops[i])])
      rooted == \A i \in DOMAIN drivers : drivers[i].enabled /\ drivers[i].parent # NoCode =>
                  \E j \in DOMAIN drivers : /\ drivers[j].code = drivers[i].parent
                                            /\ drivers[j].group /\ drivers[j].enabled
  IN rooted => Sum(Children(drivers, NoCode)) = Total([i \in DOMAIN costs.rows |-> costs.rows[i].cost])

\* The margins of the lines are that of the deal, but for the commission,
\* which is rounded line by line and once for all (estimate_from_lines).
LinesCarryTheCost(deal, ctx) ==
  LET Gap(rows, falls) == Minus(Total([i \in DOMAIN rows |-> rows[i].cm1]), falls.cm1)
      Near(gap) == IF deal.commission = Zero THEN gap = Zero
                   ELSE 2 * Magnitude(gap[1]) <= Len(deal.lines) + 1
  IN Below(Zero, ctx.revenue) =>
       Near(Gap(LinesOf(deal), Estimate(DefaultDrivers(Zero, Zero, Zero), ctx).falls))

\* Sold at the lowest price, a deal keeps the margin asked for, to the paisa
\* (min_selling_from_variable).
MinimumKeepsTheMargin(variable, target) ==
  LET Missing(price) == Minus(Minus(price, variable), Hundredth(Times(price, target)))
      Near(gap) == AtMost(gap, One) /\ AtMost(Negated(One), gap)
  IN HasMinimum(variable, target) => Near(Missing(Minimum(variable, target)))

EstimateHolds(deal, drivers, target) ==
  LET Holds(ctx, e) == /\ EveryCostOnce(ctx, e) /\ DrillDownAddsUp(drivers, e.costs)
                       /\ LinesCarryTheCost(deal, ctx)
                       /\ MinimumKeepsTheMargin(e.falls.variable, target)
      With(ctx) == Holds(ctx, Estimate(drivers, ctx))
  IN With(ContextOf(deal))
=============================================================================
