------------------------------- MODULE Totals -------------------------------
(***************************************************************************)
(* The totals of an invoice (services/taxes_and_totals.py): the amounts of *)
(* its rows, the taxes computed row by row and item by item, inclusive     *)
(* taxes divided out of the rate, the additional discount spread over the  *)
(* items, and the totals.  Amounts are hundredths of the currency; the     *)
(* unit of rounding is one of them, and the invoice is rounded to a        *)
(* hundred.                                                                *)
(***************************************************************************)
EXTENDS Decimals

NoPrice == Whole(-1)
NoRow == 0

(* A document: its rows  [qty, rate, list, percent, off, slab]  (slab gives *)
(* the rate of an item tax template by account head), its tax rows          *)
(* [charge, rate, amount, row, deduct, category, inclusive, head], and the  *)
(* options of the calculation.                                              *)

Last1(s) == s[Len(s)]
Map(Op(_), s) == [i \in DOMAIN s |-> Op(s[i])]
Percent(rate, amount) == Hundredth(Times(rate, amount))

TaxRowRefused(taxes, i) ==
  \/ taxes[i].inclusive /\ taxes[i].charge = "Actual"
  \/ taxes[i].charge \in {"Row Amount", "Row Total"} /\ taxes[i].row \notin 1 .. i - 1
Accepted(doc) ==
  /\ doc.items # <<>> /\ Below(Zero, doc.conversion)
  /\ \A i \in DOMAIN doc.taxes : ~TaxRowRefused(doc.taxes, i)

----------------------------------------------------------------------------
(* The rows *)

PriceOff(it) == IF it.percent # Zero THEN Rounded(Percent(it.percent, it.list)) ELSE it.off
RateOf(it) ==
  IF it.list # NoPrice /\ PriceOff(it) # Zero THEN Rounded(Minus(it.list, PriceOff(it))) ELSE it.rate
AmountOf(it) == Rounded(Times(RateOf(it), it.qty))

Signed(doc, t, amount) ==
  IF doc.purchase /\ t.deduct THEN Negated(amount) ELSE amount
Counted(doc, t, amount) ==
  IF t.category = "Valuation" THEN Zero ELSE Signed(doc, t, amount)

\* per tax row: the part of an inclusive rate it is, and that of all rows up to it
TaxFractions(doc) ==
  LET Step(rows, t) ==
        LET rate == Hundredth(t.rate)
            part == IF ~t.inclusive THEN Zero
                    ELSE CASE t.charge = "Net Total"  -> rate
                           [] t.charge = "Row Amount" -> Times(rate, rows[t.row].part)
                           [] t.charge = "Row Total"  -> Times(rate, rows[t.row].upto)
                           [] OTHER -> Zero
            signed == Signed(doc, t, part)
        IN Append(rows, [part |-> signed,
                         upto |-> Plus(IF rows = <<>> THEN One ELSE Last1(rows).upto, signed)])
  IN FoldLeft(Step, <<>>, doc.taxes)

AnyInclusive(doc) == \E i \in DOMAIN doc.taxes : doc.taxes[i].inclusive

InclusivePerUnit(doc) ==
  Total(Map(LAMBDA t : IF t.inclusive /\ t.charge = "Quantity" THEN Signed(doc, t, t.rate) ELSE Zero,
            doc.taxes))

\* mutant: the tax is taken off the rate instead of divided out of it
NetSubtracted(doc, it) ==
  LET tax == Total(Map(LAMBDA f : f.part, TaxFractions(doc)))
      amount == Minus(AmountOf(it), Times(InclusivePerUnit(doc), it.qty))
  IN IF ~AnyInclusive(doc) \/ tax = Zero THEN AmountOf(it)
     ELSE Rounded(Times(amount, Minus(One, tax)))

TaxedOut(doc, it) ==
  LET tax == Total(Map(LAMBDA f : f.part, TaxFractions(doc)))
      amount == Minus(AmountOf(it), Times(InclusivePerUnit(doc), it.qty))
  IN IF ~AnyInclusive(doc) \/ tax = Zero THEN AmountOf(it)
     ELSE Rounded(Over(amount, Plus(One, tax)))

----------------------------------------------------------------------------
(* The taxes, for the net amounts of the items *)

ActualShare(t, nets, n) ==
  IF Total(nets) = Zero THEN Zero ELSE Over(Times(nets[n], Rounded(t.amount)), Total(nets))

\* mutant: what the division loses is lost
ActualTaxUneven(t, nets, n) == Rounded(ActualShare(t, nets, n))

\* the last item takes what the shares of the others leave of the amount
ActualTax(t, nets, n) ==
  IF n < Len(nets) THEN ActualShare(t, nets, n)
  ELSE Minus(Rounded(t.amount), Total([m \in 1 .. n - 1 |-> ActualShare(t, nets, m)]))

RateFor(t, it) == IF t.head \in DOMAIN it.slab THEN it.slab[t.head] ELSE t.rate

\* the taxes of one item, row after row, and its running total
ItemTaxes(doc, nets, n) ==
  LET Step(rows, t) ==
        LET rate == RateFor(t, doc.items[n])
            tax == CASE t.charge = "Actual"     -> ActualTax(t, nets, n)
                     [] t.charge = "Net Total"  -> Percent(rate, nets[n])
                     [] t.charge = "Row Amount" -> Percent(rate, rows[t.row].tax)
                     [] t.charge = "Row Total"  -> Percent(rate, rows[t.row].upto)
                     [] t.charge = "Quantity"   -> Times(rate, doc.items[n].qty)
        IN Append(rows, [tax  |-> tax,
                         upto |-> Plus(IF rows = <<>> THEN nets[n] ELSE Last1(rows).upto,
                                       Counted(doc, t, tax))])
  IN FoldLeft(Step, <<>>, doc.taxes)

TaxSums(doc, nets) ==
  LET byItem == [n \in DOMAIN nets |-> ItemTaxes(doc, nets, n)]
  IN [i \in DOMAIN doc.taxes |-> Total([n \in DOMAIN nets |-> byItem[n][i].tax])]

\* the running totals of the document, each rounded
Cumulated(doc, nets, taxes) ==
  LET Step(rows, i) ==
        Append(rows, Rounded(Plus(IF rows = <<>> THEN Total(nets) ELSE Last1(rows),
                                  Counted(doc, doc.taxes[i], taxes[i]))))
  IN FoldLeft(Step, <<>>, [i \in DOMAIN taxes |-> i])

LastOr(rows, net) == IF rows = <<>> THEN net ELSE Last1(rows)

----------------------------------------------------------------------------
(* The additional discount *)

\* what it is spread over: the total less the taxes that do not follow the items
ActualTaxes(doc, taxes) ==
  LET Step(seen, i) ==
        LET t == doc.taxes[i]
            own == t.charge \in {"Actual", "Quantity"}
            base == IF own \/ t.row \notin DOMAIN seen.rows THEN Zero
                    ELSE IF t.charge = "Row Amount" THEN seen.rows[t.row].tax
                    ELSE seen.rows[t.row].upto
            tax == Signed(doc, t, IF own THEN taxes[i] ELSE Percent(t.rate, base))
            sum == IF t.category = "Valuation" THEN seen.sum ELSE Plus(seen.sum, tax)
        IN IF own \/ t.row \in DOMAIN seen.rows
           THEN [sum |-> sum,
                 rows |-> [j \in DOMAIN seen.rows \cup {i} |->
                            IF j = i THEN [tax |-> tax, upto |-> sum] ELSE seen.rows[j]]]
           ELSE seen
  IN FoldLeft(Step, [sum |-> Zero, rows |-> <<>>], [i \in DOMAIN taxes |-> i]).sum

\* mutant: the rounding of each item is kept
SpreadUneven(nets, discount, base) ==
  [n \in DOMAIN nets |-> Rounded(Minus(nets[n], Over(Times(discount, nets[n]), base)))]

\* each item takes its share, and what rounding has moved so far
Spread(nets, discount, base) ==
  LET Step(seen, net) ==
        LET exact == Minus(net, Over(Times(discount, net), base))
            expected == Plus(seen.expected, exact)
            moved == Rounded(Minus(expected, Plus(seen.sum, Rounded(exact))))
            kept == Plus(Rounded(exact), moved)
        IN [expected |-> expected, sum |-> Plus(seen.sum, kept), nets |-> Append(seen.nets, kept)]
  IN FoldLeft(Step, [expected |-> Zero, sum |-> Zero, nets |-> <<>>], nets).nets

DiscountOf(doc, net, grand) ==
  IF doc.percent = Zero THEN doc.discount
  ELSE Rounded(Percent(doc.percent, IF doc.on = "Net Total" THEN net ELSE grand))

\* mutant: the total after the discount is taken as it comes out
NoDifference(doc, before, after) == Zero
\* the paise by which the discounted taxes miss the discounted total
Difference(doc, before, after) ==
  IF doc.on = "Grand Total" /\ doc.taxes # <<>>
  THEN Rounded(Minus(Minus(before.spread, before.discount), Last1(after.totals)))
  ELSE Zero

\* an inclusive total is nudged to the sum of the items, when it is close
Nudge(doc, amounts, after) ==
  LET others == Total([i \in DOMAIN doc.taxes |->
                        IF doc.taxes[i].inclusive THEN Zero ELSE Rounded(after.taxes[i])])
      gap == Rounded(Minus(Plus(Total(amounts), others), Last1(after.totals)))
  IN IF AnyInclusive(doc) /\ Magnitude(gap[1]) <= Len(doc.items) + 1 THEN gap ELSE Zero

----------------------------------------------------------------------------
Pass(doc, nets, raw) ==
  LET Taxed(taxes) ==
        [nets |-> nets, net |-> Total(nets), taxes |-> taxes, totals |-> Cumulated(doc, nets, taxes)]
  IN Taxed(Map(Rounded, raw))

\* what there is to discount: spread is the total before its taxes are rounded
Discountable(doc, first, grand, spread) ==
  [pass |-> first, grand |-> grand, spread |-> spread, discount |-> DiscountOf(doc, first.net, grand),
   base |-> IF doc.on = "Net Total" \/ doc.taxes = <<>> THEN first.net
            ELSE Minus(IF spread # Zero THEN spread ELSE grand, ActualTaxes(doc, first.taxes))]

FirstPass(doc) ==
  LET Totalled(first, raw) ==
        Discountable(doc, first, LastOr(first.totals, first.net),
                     LastOr(Cumulated(doc, first.nets, raw), first.net))
      Taxed(nets, raw) == Totalled(Pass(doc, nets, raw), raw)
      Priced(nets) == Taxed(nets, TaxSums(doc, nets))
  IN Priced(Map(LAMBDA it : TaxedOut(doc, it), doc.items))

\* the taxes of a purchase that add to its total, or are deducted from it
OnSide(doc, taxes, deduct) ==
  Total([i \in DOMAIN taxes |-> IF doc.taxes[i].category # "Valuation" /\ doc.taxes[i].deduct = deduct
                                THEN taxes[i] ELSE Zero])

DiscountRefused(f) == Magnitude(f.discount[1]) > Magnitude(f.grand[1])
Discounted(f) == f.discount # Zero /\ f.base # Zero

\* the items and taxes after the discount of the first pass
LastPass(doc, f) ==
  LET Again(nets) == Pass(doc, nets, TaxSums(doc, nets))
  IN IF Discounted(f) THEN Again(Spread(f.pass.nets, f.discount, f.base)) ELSE f.pass

GrandDifference(doc, f, p) ==
  IF doc.taxes = <<>> THEN Zero
  ELSE Plus(IF Discounted(f) THEN Difference(doc, f, p) ELSE Zero,
            Nudge(doc, Map(AmountOf, doc.items), p))

\* the totals of the last pass, in the currency of the document and of the company
Based(doc, amount) == Rounded(Times(amount, doc.conversion))
Effective(doc, p, taxed) ==
  IF doc.purchase THEN \E deduct \in BOOLEAN : OnSide(doc, p.taxes, deduct) # Zero ELSE taxed # Zero
RoundTotal(doc, grand) == IF doc.whole THEN ToMultiple(grand, 100) ELSE grand

SummedUp(doc, discounted, p, diff, grand, taxed, baseNets) ==
  [nets |-> p.nets, baseNets |-> baseNets,
   taxes |-> p.taxes, baseTaxes |-> Map(LAMBDA a : Based(doc, a), p.taxes),
   total |-> Total(Map(AmountOf, doc.items)), net |-> p.net, grand |-> grand, taxed |-> taxed,
   base |-> IF Effective(doc, p, taxed) \/ discounted THEN Based(doc, grand) ELSE Total(baseNets),
   rounded |-> RoundTotal(doc, grand), adjustment |-> Minus(RoundTotal(doc, grand), grand)]

CalculateFrom(doc, f) ==
  LET Totalled(p, diff, grand) ==
        SummedUp(doc, Discounted(f), p, diff, grand,
               IF doc.taxes = <<>> THEN Zero ELSE Minus(Minus(grand, p.net), diff),
               Map(LAMBDA a : Based(doc, a), p.nets))
      Corrected(p, diff) == Totalled(p, diff, Plus(LastOr(p.totals, p.net), diff))
      Passed(p) == Corrected(p, GrandDifference(doc, f, p))
  IN Passed(LastPass(doc, f))

----------------------------------------------------------------------------
PlainRates(doc) == \A n \in DOMAIN doc.items : doc.items[n].slab = <<>>

\* An additional discount comes off the total to the last paisa, whatever the
\* rounding of the items and of the taxes that follow them
\* (_calculate, apply_discount_amount).
DiscountIsExact(doc, f, r) ==
  Discounted(f) /\ ~AnyInclusive(doc) =>
    IF doc.on = "Net Total" \/ doc.taxes = <<>> THEN r.net = Minus(f.pass.net, f.discount)
    ELSE r.grand = Minus(f.grand, f.discount)

\* An actual amount reaches the invoice in full: the shares of the items add
\* up to it, before and after a discount (calculate_taxes).
ActualInFull(doc, r) ==
  \A i \in DOMAIN doc.taxes :
    doc.taxes[i].charge = "Actual" => r.taxes[i] = Rounded(doc.taxes[i].amount)

\* When every tax is included in the rate, the total is that of the rows
\* (manipulate_grand_total_for_inclusive_tax).
InclusiveIsTheRate(doc, f, r) ==
  /\ doc.taxes # <<>> /\ \A i \in DOMAIN doc.taxes : doc.taxes[i].inclusive /\ ~doc.taxes[i].deduct
  /\ \E i \in DOMAIN doc.taxes : doc.taxes[i].charge # "Quantity" /\ doc.taxes[i].rate # Zero
  /\ ~Discounted(f) /\ PlainRates(doc)
  => r.grand = r.total

TotalsAgree(doc) ==
  LET Agree(f, r) == DiscountIsExact(doc, f, r) /\ ActualInFull(doc, r) /\ InclusiveIsTheRate(doc, f, r)
      Checked(f) == DiscountRefused(f) \/ Agree(f, CalculateFrom(doc, f))
  IN Accepted(doc) => Checked(FirstPass(doc))

\* What a sales invoice credits: the income of each row, each tax, and what
\* rounding to whole units has moved
Credited(doc, r) ==
  Plus(Plus(Total(r.baseNets), Total(r.baseTaxes)), Times(r.adjustment, doc.conversion))
\* and debits to the customer (base_payable_total)
Debited(doc, r) == Plus(r.base, Times(r.adjustment, doc.conversion))

\* The rows of a sales invoice balance, so that the ledger accepts them:
\* "rounding adjustment balances receivable(rounded) vs net+taxes"
\* (services/sales_invoice.py:492).
VoucherBalances(doc) ==
  LET Balances(r) == Debited(doc, r) = Credited(doc, r)
      Checked(f) == DiscountRefused(f) \/ Balances(CalculateFrom(doc, f))
  IN Accepted(doc) /\ ~doc.purchase => Checked(FirstPass(doc))
=============================================================================
