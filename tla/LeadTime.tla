------------------------------ MODULE LeadTime ------------------------------
(***************************************************************************)
(* Promising a date: the explosion of a bill of materials                  *)
(* (services/bom_explosion.py), the cover of a shortfall by open supply    *)
(* (open_supply.py), the forward estimate and the reverse schedule         *)
(* (lead_time.py), and what is made of them for an order                   *)
(* (delivery_estimate.py, order_fulfillment.py) and an item (pegging.py).  *)
(*                                                                         *)
(* A quantity is a whole number of the last digit its column keeps, which  *)
(* is also the tolerance (QTY_EPS) of the comparisons; a date is a number  *)
(* of days from the day of the estimate.  A world w has what is asked of   *)
(* the database: bills, stock by warehouse, lead times, and for each item  *)
(* its open purchase orders, requests and work orders in order of date.    *)
(***************************************************************************)
EXTENDS Decimals, TLC

NoBill == [batch |-> 0, phantom |-> FALSE, rows |-> <<>>, minutes |-> 0]
Anywhere == "anywhere"
Undated == 9999      \* no date on the document; sorted last
Tolerance == 1       \* QTY_EPS
DayMinutes == 480    \* eight hours

\* mutant: as many batches as units are asked for
ByBatches(qty, n, batch) == HalfEven(Ratio(qty * n, 1000))
Scaled(qty, n, batch) == HalfEven(Ratio(qty * n, batch))

----------------------------------------------------------------------------
(* Explosion *)

Refused == [ok |-> FALSE, need |-> <<>>]
Need(f) == [ok |-> TRUE, need |-> f]
Added(f, k, qty) == IF k \in DOMAIN f THEN [f EXCEPT ![k] = @ + qty] ELSE f @@ (k :> qty)
Merged(f, g) == FoldLeft(LAMBDA acc, k : Added(acc, k, g[k]), f, SetToSeq(DOMAIN g))

\* explode_bom: what "qty" of an item takes, by item and warehouse.  A row with a
\* bill of its own is exploded if that is a phantom, or always (flatten)
RECURSIVE Explode(_, _, _, _, _)
Explode(w, item, qty, flatten, above) ==
  IF qty <= 0 THEN Need(<<>>)
  ELSE IF item \in above THEN Refused
  ELSE LET bill == w.bills[item]
           WithRow(acc, row) ==
             LET need == Scaled(row.qty, qty, bill.batch)
                 deeper == w.bills[row.item] # NoBill /\ (flatten \/ w.bills[row.item].phantom)
                 below == Explode(w, row.item, need, flatten, above \cup {item})
             IN IF ~acc.ok \/ need <= 0 THEN acc
                ELSE IF ~deeper THEN Need(Added(acc.need, [item |-> row.item, source |-> row.source], need))
                ELSE IF below.ok THEN Need(Merged(acc.need, below.need))
                ELSE Refused
       IN FoldLeft(WithRow, Need(<<>>), bill.rows)

----------------------------------------------------------------------------
(* Supply *)

\* item_available_qty
Available(w, item, place, unreserved) ==
  LET Free(p) == w.stock[item][p] - (IF unreserved THEN w.reserved[item][p] ELSE 0)
      places == IF place = Anywhere THEN DOMAIN w.stock[item] ELSE DOMAIN w.stock[item] \cap {place}
  IN FoldLeft(LAMBDA acc, p : acc + Free(p), 0, SetToSeq(places))

Later(a, b) == IF a < b THEN b ELSE a
Lesser(a, b) == IF a < b THEN a ELSE b

\* mutant: ready when the last slice is
TakingLast(plan, slices) ==
  FoldLeft(LAMBDA acc, s :
             LET take == Lesser(acc.left, s.qty)
             IN IF acc.left <= Tolerance \/ take <= Tolerance THEN acc
                ELSE [left |-> acc.left - take, ready |-> s.ready, taken |-> acc.taken + take],
           plan, slices)
\* takes from a list of slices until the rest is within the tolerance
Taking(plan, slices) ==
  FoldLeft(LAMBDA acc, s :
             LET take == Lesser(acc.left, s.qty)
             IN IF acc.left <= Tolerance \/ take <= Tolerance THEN acc
                ELSE [left |-> acc.left - take, ready |-> Later(acc.ready, s.ready), taken |-> acc.taken + take],
           plan, slices)

Dated(slices) == SelectSeq(slices, LAMBDA s : s.ready # Undated)
OrToday(slices) == [i \in DOMAIN slices |-> [slices[i] EXCEPT !.ready = IF @ = Undated THEN 0 ELSE @]]

\* mutant: what nothing covers waits for nothing
CoverUncaught(w, item, short) ==
  Taking(Taking([left |-> short, ready |-> 0, taken |-> 0], OrToday(w.purchases[item])), Dated(w.requests[item]))
\* cover_shortfall: purchase orders first, then dated requests, and the catalogue
\* lead time for the rest
Cover(w, item, short) ==
  LET plan == Taking(Taking([left |-> short, ready |-> 0, taken |-> 0], OrToday(w.purchases[item])),
                     Dated(w.requests[item]))
  IN IF short <= Tolerance THEN [left |-> 0, ready |-> 0, taken |-> 0]
     ELSE IF plan.left <= Tolerance THEN plan
     ELSE [plan EXCEPT !.ready = Later(@, Later(0, w.lead[item]))]

----------------------------------------------------------------------------
(* Forwards: estimate_lead_time *)

\* _component_wait
RowOf(w, item, needed, place) ==
  LET short == Later(0, needed - Available(w, item, place, w.unreserved))
  IN [item |-> item, short |-> short,
      wait |-> IF short = 0 THEN 0 ELSE IF w.open THEN Cover(w, item, short).ready ELSE w.lead[item]]

MakingDays(w, item, qty) ==
  LET minutes == Over(Times(Whole(w.bills[item].minutes), Whole(qty)), Whole(w.bills[item].batch))
  IN IF minutes = Zero THEN w.lead[item]
     ELSE -((-minutes[1]) \div (DayMinutes * minutes[2]))

LongestWait(rows) == FoldLeft(LAMBDA acc, r : Later(acc, r.wait), 0, rows)

\* mutant: open work orders are not waited for if something is left to make
Dispatch(work, left, wait, making) == IF left <= 0 /\ work.taken > 0 THEN work.ready ELSE wait + making
\* when the goods can leave the warehouse: "work" is what open work orders bring
DispatchOn(work, left, wait, making) ==
  IF work.taken = 0 THEN wait + making
  ELSE IF left <= 0 THEN work.ready
  ELSE Later(wait + making, work.ready)

\* open work orders of the item itself; the first date is taken as it is, in the
\* past or not
Work(w, item, qty) ==
  FoldLeft(LAMBDA acc, s :
             LET take == Lesser(acc.left, s.qty)
             IN IF acc.left <= 0 THEN acc
                ELSE [left |-> acc.left - take, taken |-> acc.taken + take,
                      ready |-> IF acc.taken = 0 THEN s.ready ELSE Later(acc.ready, s.ready)],
           [left |-> qty, taken |-> 0, ready |-> 0],
           IF w.open /\ w.bills[item] # NoBill THEN OrToday(w.works[item]) ELSE <<>>)

\* from the explosion of what is left to make
Estimated(w, item, work, exploded) ==
  LET bought == w.bills[item] = NoBill
      needs == SetToSeq(DOMAIN exploded)
      Place(k) == IF w.place = Anywhere THEN k.source ELSE w.place
      rows == IF bought THEN <<RowOf(w, item, work.left, w.place)>>
              ELSE [i \in DOMAIN needs |-> RowOf(w, needs[i].item, exploded[needs[i]], Place(needs[i]))]
      wait == LongestWait(rows)
      making == IF bought \/ work.left <= 0 THEN 0 ELSE MakingDays(w, item, work.left)
      dispatch == DispatchOn(work, work.left, wait, making)
      onlyWork == work.taken > 0 /\ work.left <= 0
  IN [ok |-> TRUE, rows |-> rows, dispatch |-> dispatch, promise |-> dispatch + w.outbound,
      wait |-> IF onlyWork THEN 0 ELSE wait, making |-> IF onlyWork THEN Later(0, dispatch) ELSE making]

Estimate(w, item, qty) ==
  LET work == Work(w, item, qty)
      exploded == IF w.bills[item] = NoBill \/ work.left <= 0 THEN Need(<<>>)
                  ELSE Explode(w, item, work.left, FALSE, {})
  IN IF exploded.ok THEN Estimated(w, item, work, exploded.need) ELSE [ok |-> FALSE]

----------------------------------------------------------------------------
(* Backwards: reverse_schedule *)

Reversed(w, e, delivery) ==
  LET start == delivery - w.outbound - e.making
      short == SelectSeq(e.rows, LAMBDA r : r.short > 0)
  IN [slack |-> delivery - e.promise, onTime |-> delivery >= e.promise, start |-> start,
      orderBy |-> [i \in DOMAIN short |-> start - short[i].wait]]

\* from the estimate; a delivery in the past and a bill in a circle are refused
Schedule(w, e, delivery) ==
  IF delivery < 0 \/ ~e.ok THEN [ok |-> FALSE]
  ELSE [ok |-> TRUE, promise |-> e.promise] @@ Reversed(w, e, delivery)

----------------------------------------------------------------------------
(* An order, from the estimates of its lines: estimate_sales_order_delivery *)
(* and check_order_fulfillment                                              *)

Free(w) == [w EXCEPT !.unreserved = TRUE]
Estimates(w, lines) == [i \in DOMAIN lines |-> Estimate(w, lines[i].item, lines[i].qty)]

AtRiskDays == 3
Rank == [onTime |-> 0, unknown |-> 1, atRisk |-> 2, late |-> 3]
Health(slack) == IF slack < 0 THEN "late" ELSE IF slack < AtRiskDays THEN "atRisk" ELSE "onTime"
Worse(a, b) == IF Rank[a] >= Rank[b] THEN a ELSE b

LineHealth(e, line) ==
  IF line.qty <= Tolerance THEN "onTime"
  ELSE IF line.due = Undated THEN "unknown"
  ELSE Health(line.due - e.promise)
OrderHealth(es, lines, due) ==
  LET open == {i \in DOMAIN lines : lines[i].qty > Tolerance}
      latest == FoldLeft(LAMBDA acc, i : Later(acc, es[i].promise), -Undated, SetToSeq(open))
      byLines == FoldLeft(LAMBDA acc, i : Worse(acc, LineHealth(es[i], lines[i])), "onTime", SetToSeq(DOMAIN lines))
  IN IF open = {} \/ due = Undated THEN byLines ELSE Worse(byLines, Health(due - latest))

\* what a line does to the answer for the order
LineAnswer(e, line) ==
  IF ~e.ok \/ line.due < 0 THEN "refused"
  ELSE IF line.due = Undated THEN "untimed"
  ELSE IF line.due >= e.promise THEN "onTime" ELSE "late"
Fulfilment(es, lines, mode) ==
  LET answers == {LineAnswer(es[i], lines[i]) : i \in DOMAIN lines}
  IN [can |-> IF answers \cap {"onTime", "late"} = {} THEN "unknown"
              ELSE IF "late" \in answers THEN "no" ELSE "yes",
      blocked |-> mode = "block" /\ answers \cap {"late", "refused"} # {},
      refused |-> "refused" \in answers]

----------------------------------------------------------------------------
(* An item: pegging_timeline *)

SumQty(slices) == FoldLeft(LAMBDA acc, s : acc + s.qty, 0, slices)
Supply(w, item) ==
  LET hand == Available(w, item, w.place, FALSE)
  IN (IF hand > Tolerance THEN hand ELSE 0) + SumQty(w.purchases[item]) + SumQty(w.works[item])
  + SumQty(SelectSeq(w.requests[item], LAMBDA s : s.make))
Uncovered(w, item, demand) == Later(0, demand - Supply(w, item))

----------------------------------------------------------------------------
(* Properties *)

\* the exact amount of a leaf in one unit of an item, over all paths
RECURSIVE Content(_, _, _, _)
Content(w, item, leaf, flatten) ==
  LET rows == w.bills[item].rows
      Of(row) ==
        LET per == Ratio(row.qty, w.bills[item].batch)
        IN IF w.bills[row.item] # NoBill /\ (flatten \/ w.bills[row.item].phantom)
           THEN Times(per, Content(w, row.item, leaf, flatten))
           ELSE IF row.item = leaf THEN per ELSE Zero
  IN Total([i \in DOMAIN rows |-> Of(rows[i])])

\* An explosion needs of each leaf what all paths to it add up to, but for the
\* digits each level rounds off (four units cover the rounding of two levels).
ExplosionAddsUp(w, item, qty, flatten) ==
  LET e == Explode(w, item, qty, flatten, {})
      leaves == {k.item : k \in DOMAIN e.need}
      Needed(leaf) == FoldLeft(LAMBDA acc, k : acc + e.need[k], 0, SetToSeq({k \in DOMAIN e.need : k.item = leaf}))
  IN e.ok => \A leaf \in leaves :
       LET gap == Minus(Whole(Needed(leaf)), Times(Whole(qty), Content(w, item, leaf, flatten)))
       IN AtMost(Whole(-4), gap) /\ AtMost(gap, Whole(4))

\* Nothing is covered twice, and what nothing covers waits for the catalogue.
CoverAddsUp(w, item, short) ==
  LET c == Cover(w, item, short)
  IN short > Tolerance =>
       /\ c.taken + c.left = short /\ c.ready >= 0
       /\ c.taken <= SumQty(w.purchases[item]) + SumQty(w.requests[item])
       /\ c.left > Tolerance => c.ready >= w.lead[item]

\* A larger quantity is never promised sooner, more stock never makes it later,
\* and what is kept for others never sooner.
PromisesAreMonotone(e, more, stocked, free) ==
  e.ok => /\ more.ok => more.promise >= e.promise
          /\ stocked.promise <= e.promise /\ free.promise >= e.promise

\* Forwards and backwards agree: an order is on time exactly if its making and
\* everything bought for it can still be started, today or later, and no open
\* work order it waits for comes too late (one that is overdue and brings all of
\* it promises a day that is over, and is left out).
ForwardsIsBackwards(w, work, s, delivery) ==
  s.ok /\ (work.left > 0 \/ work.ready >= 0) =>
    (s.onTime <=>
       /\ s.start >= 0 /\ \A i \in DOMAIN s.orderBy : s.orderBy[i] >= 0
       /\ work.taken > 0 => work.ready + w.outbound <= delivery)

\* No promise is for a day that is over, unless all of it comes from work
\* orders that are overdue.
PromiseIsAhead(w, work, e) == e.ok /\ work.left > 0 => e.promise >= w.outbound

\* The two answers to an order agree: one that can be fulfilled is not blocked
\* and not late, one that cannot is blocked where the company blocks, unless a
\* line could not be scheduled at all.
AnswersAgree(es, free, lines, mode) ==
  LET f == Fulfilment(free, lines, mode)
  IN ~f.refused => /\ f.can = "yes" => ~f.blocked
                   /\ f.can = "no" /\ mode = "block" => f.blocked
                   /\ f.can = "yes" => OrderHealth(es, lines, Undated) # "late"

\* All of it, for an order and the first of its lines; es: the estimates as
\* asked, for more, with more stock, and without what is reserved.
PromisesHold(w, lines) ==
  LET l == lines[1]
      stocked == [w EXCEPT !.stock = [i \in DOMAIN w.stock |-> [p \in DOMAIN w.stock[i] |-> w.stock[i][p] + 150]]]
      asked == <<[w |-> w, plus |-> 0], [w |-> w, plus |-> 150], [w |-> stocked, plus |-> 0], [w |-> Free(w), plus |-> 0]>>
  IN \A es \in {[k \in DOMAIN asked |-> Estimates(asked[k].w, [lines EXCEPT ![1].qty = @ + asked[k].plus])]},
        work \in {Work(w, l.item, l.qty)} :
       /\ PromisesAreMonotone(es[1][1], es[2][1], es[3][1], es[4][1])
       /\ \A flatten \in BOOLEAN : ExplosionAddsUp(w, l.item, l.qty, flatten)
       /\ CoverAddsUp(w, "raw", l.qty) /\ PromiseIsAhead(w, work, es[1][1])
       /\ \A s \in {Schedule(w, es[1][1], l.due)} : ForwardsIsBackwards(w, work, s, l.due)
       /\ \A mode \in {"warn", "block"} : AnswersAgree(es[1], es[4], lines, mode)

\* Whatever is yes for the whole is yes for each line.  Not so: a line whose date
\* is over raises, and is neither timed nor late (order_fulfillment.py).
YesMeansEveryLine(w, es, lines, mode) ==
  Fulfilment(es, lines, mode).can = "yes" =>
    \A i \in DOMAIN lines : lines[i].due # Undated => Schedule(w, es[i], lines[i].due).ok

\* "CTP earliest promise for the uncovered qty" (pegging.py).  Not so: the
\* estimate for what open supply leaves uncovered counts the open supply again.
UncoveredIsBoughtAnew(w, item, demand) ==
  LET left == Uncovered(w, item, demand)
      used == [w EXCEPT !.works[item] = <<>>, !.purchases[item] = <<>>]
  IN left > Tolerance => Estimate(w, item, left).promise = Estimate(used, item, left).promise

\* The stock of a component covers its rows once.  Not so: rows of one item from
\* two warehouses are compared with the same stock where the estimate names one.
StockCoversOnce(e) ==
  e.ok => \A i, j \in DOMAIN e.rows : i # j => e.rows[i].item # e.rows[j].item
=============================================================================
