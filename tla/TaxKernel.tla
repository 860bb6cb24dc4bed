----------------------------- MODULE TaxKernel -----------------------------
(***************************************************************************)
(* The income tax kernel (services/taxation/kernel): tax on the bands of   *)
(* each character of income, rebate, surcharge with marginal relief, cess, *)
(* minimum alternate tax and the set-off of losses.  Amounts are paise; a  *)
(* total is rounded to ten rupees.  A schedule is an argument, so that the *)
(* statutory thresholds can be scaled down.                                *)
(***************************************************************************)
EXTENDS Decimals, FiniteSetsExt

TenRupees == 1000
NoLimit == Whole(-1)
NoRebate == [ceiling |-> Zero, max |-> Zero, relief |-> FALSE, excluded |-> {}]

(* components: sequence of [character, amount, bands, cap, eligible];         *)
(* act: [surcharge, relief, rebate, cess], surcharge being the       *)
(* bands by rising threshold and rebate [ceiling, max, relief, excluded];     *)
(* none is <<>> and NoRebate.  A component of a capped character has its cap. *)

PercentOf(base, rate) == Rounded(Hundredth(Times(base, rate)))
Within(income, upper) == upper = NoLimit \/ AtMost(income, upper)

TaxOnBands(income, bands) ==
  LET Of(b) == LET top == IF b.upper = NoLimit THEN income ELSE Smaller(income, b.upper)
               IN IF AtMost(income, b.lower) THEN Zero
                  ELSE Plus(PercentOf(Minus(top, b.lower), b.rate), b.fixed)
  IN Total([i \in DOMAIN bands |-> Of(bands[i])])

Amounts(components) == Total([i \in DOMAIN components |-> components[i].amount])

\* the components of another total income, in the same proportions
Scaled(components, total) ==
  LET raw == Amounts(components)
  IN IF raw = total \/ AtMost(raw, Zero) THEN components
     ELSE [i \in DOMAIN components |->
            [components[i] EXCEPT !.amount = Rounded(Times(@, Over(total, raw)))]]

TaxesOf(components) ==
  [i \in DOMAIN components |->
    IF Below(Zero, components[i].amount)
    THEN TaxOnBands(components[i].amount, components[i].bands) ELSE Zero]

\* the schedule run again at another income
TaxAt(components, income) ==
  IF AtMost(income, Zero) THEN Zero ELSE Total(TaxesOf(Scaled(components, income)))

Cess(base, rate) == IF AtMost(base, Zero) THEN Zero ELSE PercentOf(base, rate)

----------------------------------------------------------------------------
(* The rebate *)

Eligible(act, c) == c.eligible /\ c.character \notin act.rebate.excluded

RebateRelief(income, tax, rebate) ==
  LET excess == Minus(income, rebate.ceiling)
  IN IF AtMost(tax, excess) THEN Zero ELSE Smaller(Minus(tax, excess), Smaller(rebate.max, tax))

RebateOf(act, components, taxes, income) ==
  LET Of(tax) ==
        CASE AtMost(tax, Zero) -> Zero
          [] Below(Zero, tax) /\ AtMost(income, act.rebate.ceiling) -> Smaller(tax, act.rebate.max)
          [] OTHER -> IF act.rebate.relief THEN RebateRelief(income, tax, act.rebate) ELSE Zero
  IN Of(Total([i \in DOMAIN taxes |-> IF Eligible(act, components[i]) THEN taxes[i] ELSE Zero]))

\* the rebate taken off the eligible taxes, first component first
AfterRebate(act, components, taxes, rebate) ==
  LET Step(seen, i) ==
        LET take == IF Eligible(act, components[i]) THEN Smaller(taxes[i], seen.left) ELSE Zero
        IN [left |-> Minus(seen.left, take), rows |-> Append(seen.rows, Minus(taxes[i], take))]
  IN FoldLeft(Step, [left |-> rebate, rows |-> <<>>], [i \in DOMAIN taxes |-> i]).rows

----------------------------------------------------------------------------
(* The surcharge *)

\* mutant: the surcharge already applies at its threshold
BandReached(income, bands) ==
  {i \in DOMAIN bands : AtMost(bands[i].lower, income) /\ Within(income, bands[i].upper)}

BandOf(income, bands) ==
  {i \in DOMAIN bands : /\ Below(bands[i].lower, income) \/ (bands[i].lower = Zero /\ AtMost(Zero, income))
                        /\ Within(income, bands[i].upper)}
ScheduleRate(income, bands) ==
  LET in == BandOf(income, bands) IN IF in = {} THEN Zero ELSE bands[Max(in)].rate
Threshold(rate, bands) == bands[Min({i \in DOMAIN bands : bands[i].rate = rate})].lower

SurchargeBefore(act, components, taxes, rate) ==
  Total([i \in DOMAIN taxes |->
    PercentOf(taxes[i], IF components[i].cap # NoLimit THEN Smaller(rate, components[i].cap) ELSE rate)])

\* mutant: the cess at the threshold is forgotten, and that on the surcharge
CappedBare(tax, surcharge, atThreshold, excess, cess) ==
  Smaller(surcharge, NotNegative(Minus(Plus(atThreshold, excess), tax)))

\* tax, surcharge and cess may not exceed those at the threshold and the excess over it
Capped(tax, surcharge, atThreshold, excess, cess) ==
  LET cap == Plus(Plus(atThreshold, Cess(atThreshold, cess)), excess)
      liability == Plus(Plus(tax, surcharge), Cess(Plus(tax, surcharge), cess))
      most == NotNegative(Minus(Rounded(Over(cap, Plus(One, Hundredth(cess)))), tax))
  IN IF AtMost(liability, cap) THEN surcharge ELSE Smaller(surcharge, most)

Relieved(act, components, income, tax, before, threshold) ==
  IF ~act.relief \/ AtMost(before, Zero) \/ AtMost(income, threshold) THEN before
  ELSE Capped(tax, before, TaxAt(components, threshold), Minus(income, threshold), act.cess)

SurchargeOf(act, components, taxes, income, tax) ==
  LET At(rate) == IF AtMost(rate, Zero) \/ AtMost(tax, Zero) THEN Zero
                  ELSE Relieved(act, components, income, tax,
                                SurchargeBefore(act, components, taxes, rate),
                                Threshold(rate, act.surcharge))
  IN At(ScheduleRate(income, act.surcharge))

----------------------------------------------------------------------------
Compute(act, given) ==
  LET Due(total, rebate, tax, surcharge, cess, sum) ==
        [income |-> total, rebate |-> rebate, tax |-> tax, surcharge |-> surcharge, cess |-> cess,
         total |-> sum, payable |-> ToMultiple(sum, TenRupees)]
      WithCess(total, rebate, tax, surcharge, cess) ==
        Due(total, rebate, tax, surcharge, cess, Plus(Plus(tax, surcharge), cess))
      WithSurcharge(total, rebate, tax, surcharge) ==
        WithCess(total, rebate, tax, surcharge, Cess(Plus(tax, surcharge), act.cess))
      WithTax(total, components, taxes, rebate, tax) ==
        WithSurcharge(total, rebate, tax,
          SurchargeOf(act, components, AfterRebate(act, components, taxes, rebate), total, tax))
      WithRebate(total, components, taxes, rebate) ==
        WithTax(total, components, taxes, rebate, Minus(Total(taxes), rebate))
      WithTaxes(total, components, taxes) ==
        WithRebate(total, components, taxes, RebateOf(act, components, taxes, total))
      WithComponents(total, components) == WithTaxes(total, components, TaxesOf(components))
      Rounding(total) == WithComponents(total, Scaled(given, total))
  IN Rounding(ToMultiple(Amounts(given), TenRupees))

MinimumTax(profit, rate, cess) ==
  LET WithCess(before) == Plus(before, PercentOf(before, cess))
  IN WithCess(IF Below(Zero, profit) THEN PercentOf(profit, rate) ELSE Zero)

\* mutant: the whole credit is used, below the minimum tax
MatGenerous(profit, normal, rate, available, cess) ==
  LET Against(mat) ==
        [mat |-> mat, created |-> NotNegative(Minus(mat, normal)), used |-> Smaller(available, normal),
         after |-> Minus(Larger(mat, normal), Smaller(available, normal))]
  IN Against(MinimumTax(profit, rate, cess))

CompareMat(profit, normal, rate, available, cess) ==
  LET Compared(mat, used) ==
        [mat |-> mat, created |-> NotNegative(Minus(mat, normal)), used |-> used,
         after |-> IF Below(normal, mat) THEN mat ELSE Minus(normal, used)]
      Against(mat) ==
        Compared(mat, IF Below(normal, mat) THEN Zero ELSE Smaller(available, Minus(normal, mat)))
  IN Against(MinimumTax(profit, rate, cess))

----------------------------------------------------------------------------
(* Losses brought forward: sequence of [kind, group, left, origin, expires],   *)
(* already in the statutory order; nets: sequence of [character, group, net]   *)

SetoffOrder == <<"UnabsorbedDep", "Business", "Speculation", "STCG", "LTCG", "OS">>
KindRank(kind) == Min({i \in DOMAIN SetoffOrder : SetoffOrder[i] = kind})
SetoffSorted(losses) ==
  SortSeq(losses, LAMBDA a, b : \/ KindRank(a.kind) < KindRank(b.kind)
                                \/ KindRank(a.kind) = KindRank(b.kind) /\ a.origin < b.origin)

CanSetoff(loss, row) ==
  CASE loss.kind \in {"UnabsorbedDep", "Business"} -> row.character = "ORDINARY" \/ loss.group = "ORDINARY"
    [] loss.kind \in {"STCG", "LTCG"} -> loss.group = loss.kind \/ row.group = loss.kind
    [] loss.kind = "OS" -> loss.group = "OS" \/ row.group = "OS"
    [] OTHER -> FALSE

\* mutant: an expired loss is used
AliveAlways(loss, year) == loss.left > 0
Alive(loss, year) == loss.left > 0 /\ loss.expires >= year

\* mutant: each loss is set against the first row that takes it
SetFirst(loss, rows) ==
  LET in == {i \in DOMAIN rows : rows[i].net > 0 /\ CanSetoff(loss, rows[i])}
      i == Min(in)
      use == Min({loss.left, rows[i].net})
  IN IF in = {} THEN [left |-> loss.left, rows |-> rows]
     ELSE [left |-> loss.left - use, rows |-> [rows EXCEPT ![i].net = @ - use]]

\* one loss against the rows that take it, in their order
SetAgainst(loss, rows) ==
  LET Step(seen, i) ==
        LET row == seen.rows[i]
            use == IF row.net > 0 /\ CanSetoff(loss, row) THEN Min({seen.left, row.net}) ELSE 0
        IN [left |-> seen.left - use, rows |-> [seen.rows EXCEPT ![i].net = @ - use]]
  IN FoldLeft(Step, [left |-> loss.left, rows |-> rows], [i \in DOMAIN rows |-> i])

Setoff(given, rows, year) ==
  LET Applied(left, s) == [left |-> Append(left, s.left), rows |-> s.rows]
      Step(seen, loss) ==
        IF ~Alive(loss, year) THEN [seen EXCEPT !.left = Append(@, loss.left)]
        ELSE Applied(seen.left, SetAgainst(loss, seen.rows))
  IN FoldLeft(Step, [left |-> <<>>, rows |-> rows], SetoffSorted(given))

----------------------------------------------------------------------------
(* What they promise *)

\* Earning more never leaves less: the tax of a higher income is higher, and
\* crossing the threshold of the surcharge costs no more than the income above
\* it, to the paisa of rounding (surcharge_marginal_relief).  For a schedule
\* with one threshold: at the second one the relief forgets the surcharge
\* already due there, and the tax falls.
TaxRises(act, less, more) ==
  Below(Amounts(less), Amounts(more)) => AtMost(Compute(act, less).total, Compute(act, more).total)

CrossingCostsNoMore(act, less, more) ==
  LET Crossing(a, b, threshold) ==
        act.surcharge # <<>> /\ act.relief /\ a.income = threshold /\ Below(threshold, b.income) =>
          AtMost(Minus(b.total, a.total), Plus(Minus(b.income, a.income), One))
  IN Crossing(Compute(act, less), Compute(act, more), act.surcharge[Len(act.surcharge)].lower)

\* The minimum tax holds: credit is used down to it and never below, no more
\* than there is, and what is paid above the normal tax is credited
\* (compare_mat).
MatHolds(profit, normal, rate, available, cess) ==
  LET Holds(m) == /\ m.after = Larger(m.mat, Minus(normal, available))
                  /\ Minus(m.after, normal) = Minus(m.created, m.used)
                  /\ AtMost(m.used, available)
  IN Holds(CompareMat(profit, normal, rate, available, cess))

\* Losses are used once, in full where they can be, and never after they have
\* expired: what leaves the income has left the losses, no income falls below
\* zero, and no loss is left beside income it could be set against
\* (apply_loss_setoff).
SetoffHolds(given, rows, year) ==
  LET Holds(losses, s) ==
        /\ Total([i \in DOMAIN rows |-> Whole(rows[i].net - s.rows[i].net)])
             = Total([i \in DOMAIN losses |-> Whole(losses[i].left - s.left[i])])
        /\ \A i \in DOMAIN rows : rows[i].net > 0 => s.rows[i].net >= 0
        /\ \A i \in DOMAIN losses :
             /\ s.left[i] >= 0
             /\ losses[i].expires < year => s.left[i] = losses[i].left
             /\ losses[i].expires >= year /\ s.left[i] > 0 =>
                  \A j \in DOMAIN rows : CanSetoff(losses[i], rows[j]) => s.rows[j].net <= 0
  IN Holds(SetoffSorted(given), Setoff(given, rows, year))
=============================================================================
