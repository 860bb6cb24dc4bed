----------------------------- MODULE TradeCycle -----------------------------
(***************************************************************************)
(* Orders, the movements that fulfil them and the bills that follow        *)
(* (services/cycle_links.py and its callers).  The selling cycle - sales   *)
(* order, delivery note, sales invoice - and the buying cycle - purchase   *)
(* order, purchase receipt, purchase invoice - track each other the same   *)
(* way: an order row counts what was moved and what was billed, a movement *)
(* row what was billed, and the bin what open orders reserve (or expect).  *)
(*                                                                         *)
(* One item in one warehouse, one row per document, rate 1, and documents  *)
(* in the unit of their order.  A request validates the counters when it   *)
(* starts (validate_link_deltas) and loads them again when it moves them;  *)
(* orders and movements do so holding the lock of the bin row, bills hold  *)
(* no lock.  Stock, batches, prices, payments and frozen periods may       *)
(* refuse a request, which then changes nothing (Abandon).                 *)
(***************************************************************************)
EXTENDS Integers, FiniteSets, Functions

CONSTANTS
  Orders, Moves, Bills,
  Nil,
  Clerks, Away,
  Ordered,   \* quantity of each order, in its own unit
  Factor,    \* stock units in one of those (conversion_factor)
  Moving,    \* the row of each movement: order, stock quantity, the movement it returns
  Billing    \* the row of each bill: order, movement, signed quantity, the bill it credits

ASSUME CycleAssumption ==
  /\ IsFiniteSet(Orders) /\ IsFiniteSet(Moves) /\ IsFiniteSet(Bills)
  /\ Nil \notin Orders \cup Moves \cup Bills
ASSUME OrderAssumption ==
  \A o \in Orders : Ordered[o] \in Nat \ {0} /\ Factor[o] \in Nat \ {0}
ASSUME MovingAssumption ==
  \A m \in Moves :
    /\ Moving[m].order \in Orders \cup {Nil}
    /\ Moving[m].qty \in Nat \ {0}
    /\ Moving[m].returns \in Moves \cup {Nil}
    /\ Moving[m].returns # Nil => Moving[Moving[m].returns].returns = Nil
ASSUME BillingAssumption ==
  \A b \in Bills :
    /\ Billing[b].order \in Orders \cup {Nil}
    /\ Billing[b].move \in Moves \cup {Nil}
    /\ Billing[b].qty \in Int \ {0}
    /\ Billing[b].credits \in Bills \cup {Nil}
    /\ Billing[b].credits = Nil <=> Billing[b].qty > 0

VARIABLES
  order,  \* docstatus, delivered_qty or received_qty, billed_amt, status
  move,   \* docstatus, billed_qty
  bill,   \* docstatus
  bin,    \* reserved_qty of the bin (ordered_qty when buying)
  lock,   \* holder of the bin's row lock
  desk    \* the request each worker is serving

tvars == <<order, move, bill, bin, lock, desk>>

Phases == {"Draft", "Submitted", "Cancelled"}
Atleast0(n) == IF n > 0 THEN n ELSE 0
Less(a, b) == IF a < b THEN a ELSE b

Cap(o) == Ordered[o] * Factor[o]
IsReturn(m) == Moving[m].returns # Nil
Signed(m) == IF IsReturn(m) THEN -Moving[m].qty ELSE Moving[m].qty

\* set_sales_order_status / set_purchase_order_status of a submitted order
StatusOf(o, moved, billed) ==
  LET moveDone == Less(moved, Ordered[o]) >= Ordered[o]
      billDone == Less(billed, Ordered[o]) >= Ordered[o]
  IN  IF moveDone THEN IF billDone THEN "Completed" ELSE "To Bill"
      ELSE IF billDone THEN "To Move" ELSE "To Move and Bill"

\* mutant: the delta is left out of the cap
StaysUnder(used, delta, cap) == 0 <= used + delta /\ used <= cap

\* validate_link_deltas: the counter stays within [0, cap]
WithinBounds(used, delta, cap) == 0 <= used + delta /\ used + delta <= cap

MoveFits(m) ==
  LET o == Moving[m].order
  IN  o # Nil =>
        /\ order[o].docstatus = "Submitted"
        /\ WithinBounds(order[o].moved, Signed(m), Cap(o))

BillFits(b) ==
  LET o == Billing[b].order
      m == Billing[b].move
  IN  /\ m # Nil =>
           /\ move[m].docstatus = "Submitted"
           /\ WithinBounds(move[m].billed, Billing[b].qty, Moving[m].qty)
      /\ o # Nil =>
           /\ order[o].docstatus = "Submitted"
           /\ WithinBounds(order[o].billed, Billing[b].qty, Ordered[o])

TInit ==
  /\ order = [o \in Orders |->
       [docstatus |-> "Draft", moved |-> 0, billed |-> 0, status |-> "Draft"]]
  /\ move = [m \in Moves |-> [docstatus |-> "Absent", billed |-> 0]]
  /\ bill = [b \in Bills |-> "Absent"]
  /\ bin = 0
  /\ lock = Nil
  /\ desk = [w \in Clerks |-> Away]

Begin(w, op, doc) ==
  /\ desk[w] = Away
  /\ desk' = [desk EXCEPT ![w] = [op |-> op, doc |-> doc, ready |-> FALSE, loaded |-> Nil]]
  /\ UNCHANGED <<order, move, bill, bin, lock>>

\* w holds a request op with its counters loaded
Ready(w, op) == desk[w] # Away /\ desk[w].op = op /\ desk[w].ready
Pending(w, ops) == desk[w] # Away /\ desk[w].op \in ops /\ ~desk[w].ready

Loads(w, rows) ==
  desk' = [desk EXCEPT ![w] = [op |-> @.op, doc |-> @.doc, ready |-> TRUE, loaded |-> rows]]

\* commit or rollback: the request is over and its lock is free
End(w) ==
  /\ desk' = [desk EXCEPT ![w] = Away]
  /\ lock' = IF lock = w THEN Nil ELSE lock

------------------------------------------------------------------------------
\* Drafts.  Creating one runs the same validation as submitting it.

CreateMove(m) ==
  /\ move[m].docstatus = "Absent"
  /\ MoveFits(m)
  /\ IsReturn(m) =>
       /\ move[Moving[m].returns].docstatus = "Submitted"
       /\ Moving[m].qty <= Moving[Moving[m].returns].qty
  /\ move' = [move EXCEPT ![m].docstatus = "Draft"]
  /\ UNCHANGED <<order, bill, bin, lock, desk>>

CreateBill(b) ==
  /\ bill[b] = "Absent"
  /\ BillFits(b)
  /\ bill' = [bill EXCEPT ![b] = "Draft"]
  /\ UNCHANGED <<order, move, bin, lock, desk>>

------------------------------------------------------------------------------
\* Requests start by checking.

BeginSubmitOrder(w, o) ==
  order[o].docstatus = "Draft" /\ Begin(w, "submit order", o)

\* mutant: what was moved or billed is not looked at
CancelAnyOrder(w, o) == order[o].docstatus = "Submitted" /\ Begin(w, "cancel order", o)

BeginCancelOrder(w, o) ==
  /\ order[o].docstatus = "Submitted"
  /\ order[o].moved <= 0 /\ order[o].billed <= 0
  /\ Begin(w, "cancel order", o)

BeginSubmitMove(w, m) ==
  /\ move[m].docstatus = "Draft"
  /\ MoveFits(m)
  /\ Begin(w, "submit move", m)

BeginCancelMove(w, m) ==
  /\ move[m].docstatus = "Submitted"
  /\ move[m].billed <= 0
  /\ Begin(w, "cancel move", m)

BeginSubmitBill(w, b) ==
  /\ bill[b] = "Draft"
  /\ BillFits(b)
  /\ Billing[b].credits # Nil => bill[Billing[b].credits] = "Submitted"
  /\ Begin(w, "submit bill", b)

\* a submitted credit note has lowered what is outstanding on the bill it
\* credits, which blocks the cancellation of that bill; of a credit note nothing does
BeginCancelBill(w, b) ==
  /\ bill[b] = "Submitted"
  /\ \A c \in Bills : Billing[c].credits = b => bill[c] # "Submitted"
  /\ Begin(w, "cancel bill", b)

\* posting the movement, or reserving for the order, locks the bin row; the
\* order row is loaded under that lock
LockBin(w) ==
  /\ Pending(w, {"submit order", "cancel order", "submit move", "cancel move"})
  /\ lock = Nil
  /\ lock' = w
  /\ Loads(w, order)
  /\ UNCHANGED <<order, move, bill, bin>>

\* a bill loads the counters without a lock
LoadCounters(w) ==
  /\ Pending(w, {"submit bill", "cancel bill"})
  /\ Loads(w, [order |-> order, move |-> move])
  /\ UNCHANGED <<order, move, bill, bin, lock>>

------------------------------------------------------------------------------
\* Requests end by writing.

\* mutant: without the floor
ReserveBelowZero(delta) == bin' = bin + delta

\* update_reserved_qty / update_ordered_qty
Reserve(delta) == bin' = Atleast0(bin + delta)

SubmitOrder(w) ==
  /\ Ready(w, "submit order")
  /\ LET o == desk[w].doc
     IN  /\ order' = [order EXCEPT ![o].docstatus = "Submitted",
                                   ![o].status = StatusOf(o, 0, 0)]
         /\ Reserve(Cap(o))
  /\ End(w) /\ UNCHANGED <<move, bill>>

CancelOrder(w) ==
  /\ Ready(w, "cancel order")
  /\ LET o == desk[w].doc
     IN  /\ order' = [order EXCEPT ![o].docstatus = "Cancelled", ![o].status = "Cancelled"]
         /\ Reserve(-Cap(o))
  /\ End(w) /\ UNCHANGED <<move, bill>>

\* mutant: the counter is capped at the ordered quantity
MoveCapped(o, moved, billed) ==
  order' = [order EXCEPT ![o].moved = Less(moved, Cap(o)),
                         ![o].status = StatusOf(o, moved, billed)]

\* the order row o gets moved; its status follows unless the order is closed
MoveOrder(o, moved, billed) ==
  order' = [order EXCEPT ![o].moved = moved,
                         ![o].status = IF order[o].docstatus = "Submitted"
                                       THEN StatusOf(o, moved, billed) ELSE @]

SubmitMove(w) ==
  /\ Ready(w, "submit move")
  /\ LET m == desk[w].doc
         o == Moving[m].order
         row == desk[w].loaded[o]
     IN  /\ move' = [move EXCEPT ![m].docstatus = "Submitted"]
         /\ IF o = Nil THEN UNCHANGED <<order, bin>>
            ELSE /\ MoveOrder(o, row.moved + Signed(m), row.billed)
                 /\ IF IsReturn(m) THEN UNCHANGED bin ELSE Reserve(-Moving[m].qty)
  /\ End(w) /\ UNCHANGED bill

CancelMove(w) ==
  /\ Ready(w, "cancel move")
  /\ LET m == desk[w].doc
         o == Moving[m].order
         row == desk[w].loaded[o]
     IN  /\ move' = [move EXCEPT ![m].docstatus = "Cancelled"]
         /\ IF o = Nil THEN UNCHANGED <<order, bin>>
            ELSE /\ MoveOrder(o, Atleast0(row.moved - Signed(m)), row.billed)
                 /\ IF IsReturn(m) THEN UNCHANGED bin ELSE Reserve(Moving[m].qty)
  /\ End(w) /\ UNCHANGED bill

\* mutant: the movement's counter is forgotten
OrderOnly(b, q, loaded) ==
  LET o == Billing[b].order
  IN  /\ IF o = Nil THEN UNCHANGED order
         ELSE order' = [order EXCEPT
                ![o].billed = loaded.order[o].billed + q,
                ![o].status = StatusOf(o, loaded.order[o].moved, loaded.order[o].billed + q)]
      /\ UNCHANGED move

\* _apply_cycle_links with quantity q on the counters loaded before
ApplyLinks(b, q, loaded) ==
  LET o == Billing[b].order
      m == Billing[b].move
  IN  /\ IF o = Nil THEN UNCHANGED order
         ELSE order' = [order EXCEPT
                ![o].billed = loaded.order[o].billed + q,
                ![o].status = IF order[o].docstatus = "Submitted"
                              THEN StatusOf(o, loaded.order[o].moved, loaded.order[o].billed + q)
                              ELSE @]
      /\ IF m = Nil THEN UNCHANGED move
         ELSE move' = [move EXCEPT ![m].billed = loaded.move[m].billed + q]

SubmitBill(w) ==
  /\ Ready(w, "submit bill")
  /\ LET b == desk[w].doc
     IN  /\ ApplyLinks(b, Billing[b].qty, desk[w].loaded)
         /\ bill' = [bill EXCEPT ![b] = "Submitted"]
  /\ End(w) /\ UNCHANGED bin

\* nothing is validated on the way back
CancelBill(w) ==
  /\ Ready(w, "cancel bill")
  /\ LET b == desk[w].doc
     IN  /\ ApplyLinks(b, -Billing[b].qty, desk[w].loaded)
         /\ bill' = [bill EXCEPT ![b] = "Cancelled"]
  /\ End(w) /\ UNCHANGED bin

\* refused, crashed or disconnected: the transaction rolls back
Abandon(w) ==
  /\ desk[w] # Away
  /\ End(w) /\ UNCHANGED <<order, move, bill, bin>>

TNext ==
  \/ \E m \in Moves : CreateMove(m)
  \/ \E b \in Bills : CreateBill(b)
  \/ \E w \in Clerks :
       \/ \E o \in Orders : BeginSubmitOrder(w, o) \/ BeginCancelOrder(w, o)
       \/ \E m \in Moves : BeginSubmitMove(w, m) \/ BeginCancelMove(w, m)
       \/ \E b \in Bills : BeginSubmitBill(w, b) \/ BeginCancelBill(w, b)
       \/ LockBin(w) \/ LoadCounters(w)
       \/ SubmitOrder(w) \/ CancelOrder(w)
       \/ SubmitMove(w) \/ CancelMove(w)
       \/ SubmitBill(w) \/ CancelBill(w)
       \/ Abandon(w)

TSpec == TInit /\ [][TNext]_tvars

------------------------------------------------------------------------------
(***************************************************************************)
(* Properties                                                              *)
(***************************************************************************)

Request ==
  [op : {"submit order", "cancel order", "submit move", "cancel move",
         "submit bill", "cancel bill"},
   doc : Orders \cup Moves \cup Bills]

\* The columns have their types, and a request works on a document.
TradeTypes ==
  /\ order \in [Orders -> [docstatus : Phases, moved : Int, billed : Int,
                          status : {"Draft", "Cancelled", "Completed", "To Bill",
                                    "To Move", "To Move and Bill"}]]
  /\ move \in [Moves -> [docstatus : Phases \cup {"Absent"}, billed : Int]]
  /\ bill \in [Bills -> Phases \cup {"Absent"}]
  /\ bin \in Nat
  /\ lock \in Clerks \cup {Nil}
  /\ \A w \in Clerks :
       desk[w] # Away => [op |-> desk[w].op, doc |-> desk[w].doc] \in Request

\* what the submitted documents themselves say
Signs == [m \in Moves |-> Signed(m)]
Quantities == [b \in Bills |-> Billing[b].qty]
MovedOn(o) ==
  SumFunctionOnSet(Signs, {m \in Moves : Moving[m].order = o /\ move[m].docstatus = "Submitted"})
BilledOn(o) ==
  SumFunctionOnSet(Quantities, {b \in Bills : Billing[b].order = o /\ bill[b] = "Submitted"})
BilledFor(m) ==
  SumFunctionOnSet(Quantities, {b \in Bills : Billing[b].move = m /\ bill[b] = "Submitted"})

\* The billed counters of orders and movements are exactly what the submitted
\* bills and credit notes add up to, in any order of submit and cancel
\* (sales_invoice.py:79 "cancel restores precisely what submit applied").
BilledIsExact ==
  /\ \A o \in Orders : order[o].billed = BilledOn(o)
  /\ \A m \in Moves : move[m].billed = BilledFor(m)

\* The moved counter of an order departs from its submitted movements in one
\* way only: a delivery is cancelled while a return for the same order stands,
\* and the clamp at zero forgets what that return took back.
MovedDrift(o) == order[o].moved - MovedOn(o)
MovedDriftsUnderReturns ==
  [][\A o \in Orders :
       MovedDrift(o)' # MovedDrift(o) =>
         \E m, r \in Moves :
           /\ Moving[m].order = o /\ ~IsReturn(m)
           /\ move[m].docstatus = "Submitted" /\ move'[m].docstatus = "Cancelled"
           /\ Moving[r].order = o /\ IsReturn(r) /\ move[r].docstatus = "Submitted"]_tvars

\* Until a return is posted the bin reserves (or expects) exactly what the
\* submitted orders have not moved yet, although each change is clamped at zero.
NoReturnYet == \A m \in Moves : IsReturn(m) => move[m].docstatus \in {"Absent", "Draft"}
ReservedIsOpen ==
  NoReturnYet =>
    bin = SumFunctionOnSet([o \in Orders |-> Cap(o) - order[o].moved],
                           {o \in Orders : order[o].docstatus = "Submitted"})

\* Nobody delivers, receives or bills more than was ordered or moved, nor against
\* a cancelled document (cycle_links.py: stale or duplicate drafts "can no longer
\* over-receive / over-deliver / over-bill or post against cancelled orders").
WithinCaps ==
  /\ \A o \in Orders :
       /\ order[o].moved <= Cap(o) /\ order[o].billed \in 0 .. Ordered[o]
       /\ order[o].docstatus # "Submitted" => order[o].moved = 0 /\ order[o].billed = 0
  /\ \A m \in Moves :
       /\ move[m].billed \in 0 .. Moving[m].qty
       /\ move[m].docstatus # "Submitted" => move[m].billed = 0

\* two bills that move the same counter
CountedTogether(b, c) ==
  \/ Billing[b].order # Nil /\ Billing[c].order = Billing[b].order
  \/ Billing[b].move # Nil /\ Billing[c].move = Billing[b].move

\* The counters leave their bounds only when something is cancelled, the steps
\* that move them without validation: a return or a credit note, which adds, or a
\* bill while a credit note for another bill has taken back what it had counted.
OverrunOnlyByCancelling ==
  [][WithinCaps /\ ~WithinCaps' =>
       \/ \E m \in Moves : IsReturn(m) /\ move[m].docstatus = "Submitted"
                          /\ move'[m].docstatus = "Cancelled"
       \/ \E b \in Bills :
            /\ bill[b] = "Submitted" /\ bill'[b] = "Cancelled"
            /\ \/ Billing[b].credits # Nil
               \/ \E c \in Bills : /\ Billing[c].credits \notin {Nil, b}
                                   /\ bill[c] = "Submitted" /\ CountedTogether(b, c)]_tvars

\* An order reads as fully moved only when all of it was, in the stock units the
\* counter is kept in.
StatusTellsMoved ==
  \A o \in Orders :
    order[o].status \in {"To Bill", "Completed"} => order[o].moved >= Cap(o)

\* The counters of orders, movements and bins add up to the documents.
DocumentsAddUp == TradeTypes /\ BilledIsExact /\ ReservedIsOpen
=============================================================================
