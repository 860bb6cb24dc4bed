--------------------------- MODULE MCCalculations ---------------------------
EXTENDS Totals, TaxYear, TLC

VARIABLE question

Item(qty, rate) == [qty |-> qty, rate |-> Whole(rate), list |-> NoPrice, percent |-> Zero,
                    off |-> Zero, slab |-> <<>>]
Items == {Item(q, p) : q \in {Whole(1), Whole(3), <<5, 2>>}, p \in {100, 333}}
         \cup {[Item(Whole(2), 0) EXCEPT !.list = Whole(205), !.percent = Whole(15)],
               [Item(Whole(1), 90) EXCEPT !.list = Whole(100), !.off = Whole(7)],
               [Item(Whole(1), 451) EXCEPT !.slab = [vat |-> Whole(5)]]}
Tax(charge, rate, row) ==
  [charge |-> charge, rate |-> Whole(rate), amount |-> Zero, row |-> row, deduct |-> FALSE,
   category |-> "Total", inclusive |-> FALSE, head |-> "none"]
Net(rate) == [Tax("Net Total", rate, NoRow) EXCEPT !.head = "vat"]
Freight(n) == [Tax("Actual", 0, NoRow) EXCEPT !.amount = Whole(n)]
Taxes == {
  <<>>, <<Net(18)>>, <<Net(9), Net(9)>>, <<Freight(50)>>, <<Freight(100), Net(5)>>,
  <<Net(12), Tax("Row Amount", 10, 1)>>, <<Net(12), Tax("Row Total", 3, 1)>>,
  <<Freight(70), Tax("Row Amount", 18, 1)>>, <<Tax("Quantity", 11, NoRow), Net(18)>>,
  <<[Net(18) EXCEPT !.inclusive = TRUE]>>,
  <<[Net(9) EXCEPT !.inclusive = TRUE], [Net(9) EXCEPT !.inclusive = TRUE]>>,
  <<[Net(12) EXCEPT !.inclusive = TRUE], [Tax("Row Amount", 10, 1) EXCEPT !.inclusive = TRUE],
    [Tax("Quantity", 11, NoRow) EXCEPT !.inclusive = TRUE]>>,
  <<[Net(10) EXCEPT !.deduct = TRUE], Tax("Row Total", 5, 1)>>,
  <<[Net(12) EXCEPT !.category = "Valuation"], Net(5)>>}
Options == {o \in [conversion : {One, <<833, 10>>}, on : {"Net Total", "Grand Total"},
            percent : {Zero, Whole(10)}, discount : {Zero, Whole(7), Whole(100)},
            purchase : BOOLEAN, whole : {TRUE}] : o.percent = Zero \/ o.discount = Zero}
Rows == {<<a>> : a \in Items} \cup (Items \X Items)
Doc(i, t, o) == [items |-> i, taxes |-> t, conversion |-> o.conversion, on |-> o.on,
                 percent |-> o.percent, discount |-> o.discount, purchase |-> o.purchase,
                 whole |-> o.whole]

----------------------------------------------------------------------------
(* Income tax, with small thresholds *)

Rupees(n) == Whole(100 * n)
Band(lower, upper, rate) == [lower |-> lower, upper |-> upper, rate |-> Whole(rate), fixed |-> Zero]
Slabs == <<Band(Zero, Rupees(300), 0), Band(Rupees(300), Rupees(600), 10), Band(Rupees(600), NoLimit, 30)>>
Flat15 == <<Band(Zero, NoLimit, 15)>>
Acts == [surcharge : {<<>>, <<Band(Rupees(1000), NoLimit, 10)>>}, relief : {TRUE}, cess : {Zero, Whole(4)},
         rebate : {NoRebate} \cup [ceiling : {Rupees(700)}, max : {Rupees(60)}, relief : BOOLEAN,
                             excluded : {{"STCG"}}]]
\* income of which a part (of ten) is a gain at its own rate
Mix(paise, gain) ==
  LET special == (paise \div 1000) * gain * 100
      Row(character, amount, bands, cap) ==
        [character |-> character, amount |-> Whole(amount), bands |-> bands, cap |-> cap, eligible |-> TRUE]
  IN IF gain = 0 THEN <<Row("ORDINARY", paise, Slabs, NoLimit)>>
     ELSE <<Row("STCG", special, Flat15, Whole(5)), Row("ORDINARY", paise - special, Slabs, NoLimit)>>
Incomes == {1000 * n : n \in 20 .. 140} \cup {500 + 2000 * n : n \in 45 .. 55}

Loss(kind, group, left, origin, expires) ==
  [kind |-> kind, group |-> group, left |-> left, origin |-> origin, expires |-> expires]
Losses == {Loss("Business", "BUSINESS", n, 1, e) : n \in {2, 5}, e \in {4, 9}}
          \cup {Loss("UnabsorbedDep", "BUSINESS", 3, 2, 9), Loss("STCG", "STCG", 2, 1, 9),
                Loss("LTCG", "LTCG", 4, 3, 9), Loss("OS", "OS", 2, 3, 9), Loss("Speculation", "SPEC", 2, 2, 9),
                Loss("Business", "ORDINARY", 4, 2, 9)}
LossLists == {<<>>} \cup {<<a, b, c>> : a \in Losses, b \in Losses, c \in Losses}
Net2(character, group, net) == [character |-> character, group |-> group, net |-> net]
NetLists == {<<Net2("ORDINARY", "ORDINARY", o), Net2("STCG15", "STCG", s), Net2("DIVIDEND", "OS", d), Net2("LTCG", "LTCG", l)>> :
             o \in {-2, 0, 6}, s \in {0, 3}, d \in {1}, l \in {0, 2}}

Year == [start |-> 360, end |-> 719, due |-> 600, floor |-> Rupees(100),
         rateA |-> Whole(1), rateB |-> Whole(1), rateC |-> Whole(1)]
Instalments == {<<[due |-> 74, percent |-> Whole(15)], [due |-> 164, percent |-> Whole(45)],
                  [due |-> 254, percent |-> Whole(75)], [due |-> 344, percent |-> Whole(100)]>>}
Payments == {<<>>} \cup [1 .. 2 -> [on : {70, 164, 300, 400}, amount : {Rupees(40), Whole(6667)}, advance : BOOLEAN]]

Assets == [use : {300, 360, 540, 541, 800}, amount : {Whole(1000), Whole(333)}, gone : {Never, 600}]

----------------------------------------------------------------------------
(* Contribution margin *)

Margin == INSTANCE CostDrivers
Deal(lines, freight, commission, factor) ==
  [lines |-> lines, freight |-> Whole(freight), commission |-> Whole(commission), materialFactor |-> factor,
   laborFactor |-> One, bases |-> [weight |-> [value |-> Whole(2), total |-> Whole(7)]],
   pools |-> 100 :> Whole(1000)]
DealLine(qty, rate, material) ==
  [qty |-> qty, rate |-> rate, material |-> material, labor |-> Whole(55), packaging |-> <<5, 2>>]
DealLines == {DealLine(One, Whole(333), Whole(101)), DealLine(<<5, 2>>, Whole(333), <<100, 3>>),
              DealLine(One, Whole(1999), <<100, 3>>), DealLine(<<5, 2>>, Zero, Whole(101))}
Deals == {Deal(l, f, c, m) : l \in UNION {[1 .. k -> DealLines] : k \in 1 .. 2}, f \in {0, 101}, c \in {0, 7},
                             m \in {One, <<11, 10>>}}
Drv(code, order, parent, method, basis, n, of) ==
  [Margin!Blank EXCEPT !.parent = parent, !.method = method, !.basis = basis, !.n = n, !.of = of]
  @@ [code |-> code, order |-> order]
Standard == Margin!DefaultDrivers(Whole(3), <<5, 2>>, Whole(5))
Extra == {Drv(30, 6, 20, "rate_times_basis", "weight", <<25, 2>>, 0),
          Drv(31, 7, 20, "percentage", "quantity", Whole(150), 0),
          [Drv(32, 20, 23, "pool_share", "weight", Zero, 100) EXCEPT !.class = "corporate_overhead"],
          [Drv(33, 21, 0, "pct_of_driver", "none", Whole(10), 23) EXCEPT !.class = "segment_bu_fixed"],
          [Drv(34, 2, 20, "fixed_amount", "none", Whole(77), 0) EXCEPT !.enabled = FALSE]}
\* the overhead as a group of its own, over what is charged to it
Grouped == [Standard EXCEPT ![9] = [@ EXCEPT !.group = TRUE, !.method = "none"]]
DriverLists == {d \o SetToSeq(extra) : d \in {Standard, Grouped}, extra \in {e \in SUBSET Extra : Cardinality(e) <= 2}}

----------------------------------------------------------------------------
(* Lead times: a product of a sub-assembly and a raw material, thousandths of a unit *)

Lead == INSTANCE LeadTime
Bill(batch, phantom, rows, minutes) == [batch |-> batch, phantom |-> phantom, rows |-> rows, minutes |-> minutes]
Part(item, source, qty) == [item |-> item, source |-> source, qty |-> qty]
Goods == {"made", "sub", "raw"}
Bills(phantom, minutes, circle) ==
  [made |-> Bill(3000, circle, <<Part("sub", Lead!Anywhere, 2000), Part("raw", "east", 1000)>>, minutes),
   sub |-> Bill(2000, phantom, <<Part("raw", "east", 1000), Part(IF circle THEN "made" ELSE "raw", "west", 333)>>, 0),
   raw |-> Lead!NoBill]
Coming(qty, day) == [qty |-> qty, ready |-> day, make |-> FALSE]
For(item, slices) == [i \in Goods |-> IF i = item THEN slices ELSE <<>>]
Stocks == {[i \in Goods |-> [at \in {"east", "west"} |-> IF at = "east" THEN q ELSE 100]] : q \in {0, 700, 2000}}
Arrivals == {<<>>, <<Coming(400, 4)>>, <<Coming(400, 2), Coming(900, 9)>>, <<Coming(500, Lead!Undated)>>}
Worlds == {
  [bills |-> b, stock |-> s, reserved |-> [i \in Goods |-> [at \in {"east", "west"} |-> IF at = "east" THEN r ELSE 0]],
   lead |-> [made |-> 2, sub |-> 3, raw |-> 5], purchases |-> For("raw", p), requests |-> For("raw", m),
   works |-> For("made", k), place |-> a, unreserved |-> FALSE, open |-> TRUE, outbound |-> 2] :
    b \in {Bills(FALSE, 600, FALSE), Bills(TRUE, 0, FALSE), Bills(TRUE, 600, TRUE)}, s \in Stocks, r \in {0, 300},
    p \in Arrivals, m \in {<<>>, <<Coming(300, 3), Coming(300, Lead!Undated)>>},
    k \in {<<>>, <<Coming(1000, 3)>>, <<Coming(500, -3), Coming(1500, 7)>>}, a \in {Lead!Anywhere, "east"}}
Wanted(item, qty, due) == [item |-> item, qty |-> qty, due |-> due]
Orders == {<<Wanted("made", q, d)>> : q \in {500, 1000, 2500}, d \in {-1, 2, 6, 9}}
          \cup {<<Wanted("made", 1500, d), Wanted("raw", 800, e)>> : d \in {7}, e \in {4, Lead!Undated}}

Nothing == [topic |-> "none", case |-> 0]
Asked(topic) == question.topic = topic

Init == question = Nothing
Next ==
  \/ Asked("none") /\ \E i \in Rows : question' = [topic |-> "rows", case |-> i]
  \/ Asked("rows") /\ \E t \in Taxes, o \in Options :
       /\ o.purchase \/ \A i \in DOMAIN t : t[i].category = "Total" /\ ~t[i].deduct
       /\ question' = [topic |-> "totals", case |-> Doc(question.case, t, o)]
  \/ Asked("none") /\ \E a \in Acts, g \in {0, 3} : question' = [topic |-> "act", case |-> [act |-> a, gain |-> g]]
  \/ Asked("act") /\ \E i \in Incomes, more \in {1000, 5000} :
       question' = [topic |-> "tax", case |-> [act |-> question.case.act,
         less |-> Mix(i, question.case.gain), more |-> Mix(i + more, question.case.gain)]]
  \/ Asked("none") /\ \E n \in NetLists : question' = [topic |-> "nets", case |-> n]
  \/ Asked("nets") /\ \E l \in LossLists : question' = [topic |-> "losses", case |-> [nets |-> question.case, losses |-> l]]
  \/ Asked("none") /\ \E profit \in -1 .. 9, normal \in 0 .. 9, available \in 0 .. 9, cess \in {0, 4} :
       question' = [topic |-> "mat", case |-> [profit |-> 100 * profit + 33, normal |-> 15 * normal,
                                              available |-> 11 * available, cess |-> cess]]
  \/ Asked("none") /\ \E p \in Payments : question' = [topic |-> "payments", case |-> p]
  \/ Asked("payments") /\ \E t \in {Rupees(99), Rupees(101), Rupees(250)}, d \in {Zero, Rupees(30)}, f \in {580, 601, 631, 700},
                             n \in Instalments :
       question' = [topic |-> "interest", case |-> [payments |-> question.case, tax |-> t, deducted |-> d, filed |-> f,
                                                   instalments |-> n]]
  \/ Asked("none") /\ \E a \in Assets, b \in Assets : question' = [topic |-> "assets", case |-> <<a, b>>]
  \/ Asked("assets") /\ \E before \in {Zero, Whole(700)}, h \in BOOLEAN, r \in {15, 40}, x \in {0, 20} :
       /\ h \/ before = Zero
       /\ question' = [topic |-> "block", case |-> [assets |-> question.case, before |-> before, prior |-> h,
                                                    rate |-> Whole(r), extra |-> Whole(x)]]
  \/ Asked("none") /\ \E d \in Deals : question' = [topic |-> "deals", case |-> d]
  \/ Asked("deals") /\ \E d \in DriverLists, t \in {15, 40} :
       question' = [topic |-> "margin", case |-> [deal |-> question.case, drivers |-> d, target |-> Whole(t)]]
  \/ Asked("none") /\ \E w \in Worlds : question' = [topic |-> "worlds", case |-> w]
  \/ Asked("worlds") /\ \E o \in Orders : question' = [topic |-> "promise", case |-> [world |-> question.case, order |-> o]]
Spec == Init /\ [][Next]_question

TotalsHold == Asked("totals") => TotalsAgree(question.case)
VouchersBalance == Asked("totals") => VoucherBalances(question.case)
TaxHolds ==
  LET c == question.case
  IN CASE Asked("tax") -> TaxRises(c.act, c.less, c.more) /\ CrossingCostsNoMore(c.act, c.less, c.more)
       [] Asked("losses") -> SetoffHolds(c.losses, c.nets, 5)
       [] Asked("mat") -> MatHolds(Whole(c.profit), Whole(c.normal), Whole(15), Whole(c.available), Whole(c.cess))
       [] Asked("interest") -> ProjectionSuffices(Year, c.tax, c.deducted, c.payments, c.instalments, c.filed)
       [] Asked("block") -> BlockHolds(c.assets, Year, c.before, c.prior, c.rate, c.extra)
       [] OTHER -> TRUE
EstimatesHold ==
  LET c == question.case
  IN CASE Asked("margin") -> Margin!EstimateHolds(c.deal, c.drivers, c.target)
       [] Asked("promise") -> Lead!PromisesHold(c.world, c.order)
       [] OTHER -> TRUE
=============================================================================
