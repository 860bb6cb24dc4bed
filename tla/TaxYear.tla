------------------------------ MODULE TaxYear ------------------------------
(***************************************************************************)
(* What the calendar adds to the income tax: interest under sections 234A  *)
(* to 234C, the instalments of advance tax and their projection, and the   *)
(* blocks of tax depreciation (services/taxation/kernel/interest_234.py,   *)
(* services/taxation/depreciation.py).  A date is a number of days, in     *)
(* months of thirty days.                                                  *)
(***************************************************************************)
EXTENDS TaxKernel

MonthDays == 30
MonthOf(day) == day \div MonthDays
ShareNeeded == Whole(90)

(* payments: sequence of [on, amount, advance]; instalments: sequence of     *)
(* [due, percent]; year: [start, due, floor, rateA, rateB, rateC], where     *)
(* floor is the tax below which no advance is asked                          *)

MonthParts(start, end) == IF end < start THEN 0 ELSE MonthOf(end) - MonthOf(start) + 1
MonthsOrPart(start, end) == IF end <= start THEN 0 ELSE MonthParts(start + 1, end)

PaidBy(payments, day) ==
  Total([i \in DOMAIN payments |->
          IF payments[i].advance /\ payments[i].on <= day THEN payments[i].amount ELSE Zero])
PaidInAll(payments) ==
  Total([i \in DOMAIN payments |-> IF payments[i].advance THEN payments[i].amount ELSE Zero])

Interest(base, rate, months) == Times(PercentOf(base, rate), Whole(months))

\* late filing, on what neither deduction nor advance has covered
InterestA(year, tax, payments, filed) ==
  LET base == NotNegative(Minus(tax, PaidInAll(payments)))
  IN IF base = Zero \/ filed <= year.due THEN Zero
     ELSE Interest(base, year.rateA, MonthsOrPart(year.due, filed))

\* an advance below nine tenths of the tax, from the first day of the year
InterestB(year, tax, payments, filed) ==
  LET paid == PaidInAll(payments)
  IN IF AtMost(tax, year.floor) \/ AtMost(PercentOf(tax, ShareNeeded), paid) THEN Zero
     ELSE Interest(NotNegative(Minus(tax, paid)), year.rateB, MonthParts(year.start, filed))

\* each instalment short on its day: a month for the last one, three for the others
InterestC(year, tax, payments, instalments) ==
  LET Of(i) ==
        LET short == Minus(PercentOf(tax, instalments[i].percent), PaidBy(payments, instalments[i].due))
        IN IF AtMost(short, Zero) THEN Zero
           ELSE Interest(short, year.rateC, IF i = Len(instalments) THEN 1 ELSE 3)
  IN IF AtMost(tax, year.floor) THEN Zero ELSE Total([i \in DOMAIN instalments |-> Of(i)])

NetTax(assessed, deducted) == NotNegative(Minus(assessed, deducted))
Interests(year, assessed, deducted, payments, instalments, filed) ==
  LET tax == NetTax(assessed, deducted)
  IN [a |-> InterestA(year, tax, payments, filed), b |-> InterestB(year, tax, payments, filed),
      c |-> InterestC(year, tax, payments, instalments)]

----------------------------------------------------------------------------
(* The projection of the instalments, as of today *)

\* mutant: what is paid on any day counts for it
PaidAnytime(payments, due, today) == PaidInAll(payments)
\* an instalment ahead counts all that was paid so far
PaidTowards(payments, due, today) == PaidBy(payments, IF due >= today THEN today ELSE due)

Projection(estimated, deducted, payments, instalments, today) ==
  LET Of(i) ==
        LET n == instalments[i]
            required == PercentOf(NetTax(estimated, deducted), n.percent)
            short == NotNegative(Minus(required, PaidTowards(payments, n.due, today)))
        IN [suggested |-> short,
            status |-> CASE short = Zero -> "Paid"
                         [] short # Zero /\ n.due < today -> "Overdue"
                         [] short # Zero /\ n.due = today -> "Short"
                         [] OTHER -> "Upcoming"]
  IN [i \in DOMAIN instalments |-> Of(i)]

----------------------------------------------------------------------------
(* A block of depreciable assets: amounts in whole paise *)

HalfYear == 180
HalfRate(use, yearEnd) == yearEnd - use + 1 < HalfYear

Block(opening, full, half, gone, rate, extra) ==
  LET ofFull == PercentOf(NotNegative(Minus(Plus(opening, full), gone)), rate)
      ofHalf == Rounded(Over(PercentOf(half, rate), Whole(2)))
      more == IF extra = Zero \/ AtMost(Plus(full, half), Zero) THEN Zero
              ELSE Plus(PercentOf(full, extra), Rounded(Over(PercentOf(half, extra), Whole(2))))
      dep == Plus(ofFull, ofHalf)
      worth == Minus(Plus(opening, Plus(full, half)), gone)
  IN [dep |-> dep, extra |-> more, closing |-> NotNegative(Minus(worth, Plus(dep, more)))]

(* assets: sequence of [use, amount, gone], gone the day of disposal or Never *)
Never == -1

\* mutant: a block without an earlier year opens with its first asset
OpeningOnce(assets, yearStart, before, hasPrior) ==
  LET Step(opening, a) == IF a.use < yearStart /\ opening = Zero THEN Plus(opening, a.amount) ELSE opening
  IN FoldLeft(Step, before, assets)

\* what an asset already in use adds to the opening value: nothing, once there is one
OpeningOf(assets, yearStart, before, hasPrior) ==
  LET Step(opening, a) ==
        IF a.use < yearStart /\ (~hasPrior \/ opening = Zero) THEN Plus(opening, a.amount) ELSE opening
  IN FoldLeft(Step, before, assets)

Register(assets, year, before, hasPrior, rate, extra) ==
  LET used == SelectSeq(assets, LAMBDA a : a.use <= year.end)
      Sum(P(_)) == Total([i \in DOMAIN used |-> IF P(used[i]) THEN used[i].amount ELSE Zero])
      opening == OpeningOf(used, year.start, before, hasPrior)
      full == Sum(LAMBDA a : a.use >= year.start /\ ~HalfRate(a.use, year.end))
      half == Sum(LAMBDA a : a.use >= year.start /\ HalfRate(a.use, year.end))
      gone == Sum(LAMBDA a : a.gone # Never /\ a.gone \in year.start .. year.end)
  IN [opening |-> opening, full |-> full, half |-> half, gone |-> gone,
      block |-> Block(opening, full, half, gone, rate, extra)]

----------------------------------------------------------------------------
(* What they promise *)

\* Who pays on the day of each instalment what the projection suggests bears
\* no interest on advance tax, whatever was deducted at source
\* (project_advance_tax against compute_interest_234).
PayingAsSuggested(estimated, deducted, first, instalments) ==
  LET Pay(payments, i) ==
        LET today == instalments[i].due
        IN Append(payments, [on |-> today, advance |-> TRUE, amount |->
             Projection(estimated, deducted, payments, instalments, today)[i].suggested])
  IN FoldLeft(Pay, first, [i \in DOMAIN instalments |-> i])

ProjectionSuffices(year, tax, deducted, first, instalments, filed) ==
  LET paid == PayingAsSuggested(tax, deducted, first, instalments)
      interest == Interests(year, tax, deducted, paid, instalments, filed)
  IN instalments[Len(instalments)].percent = Whole(100) => interest.b = Zero /\ interest.c = Zero

\* What is written off a block is in it, and what is left is the rest, as long
\* as no more was disposed of than the block opened with (an asset disposed of
\* in the year of its addition is depreciated out of nothing); and a block
\* without an earlier year opens with every asset it holds
\* (compute_block_depreciation, sync_from_assets).
BlockHolds(assets, year, before, hasPrior, rate, extra) ==
  LET r == Register(assets, year, before, hasPrior, rate, extra)
      worth == Minus(Plus(r.opening, Plus(r.full, r.half)), r.gone)
  IN /\ AtMost(r.gone, r.opening) =>
          Plus(r.block.closing, Plus(r.block.dep, r.block.extra)) = worth
     /\ ~hasPrior => Minus(r.opening, before) =
          Total([i \in DOMAIN assets |-> IF assets[i].use < year.start THEN assets[i].amount ELSE Zero])

\* With an earlier year the block opens with what that year has left: false when
\* it left nothing, for the first asset in use then comes back at its cost, and
\* when it has no register, for then only the first asset is counted.
OpeningIsLeft(assets, year, before, rate, extra) ==
  Register(assets, year, before, TRUE, rate, extra).opening = before
=============================================================================
