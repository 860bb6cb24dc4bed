-------------------------- MODULE TradeCycle_proofs --------------------------
(***************************************************************************)
(* The counters of orders, movements and bins add up to the submitted      *)
(* documents, for any number of orders, movements and bills of any         *)
(* quantities, when requests are served one at a time.  Below: the margin  *)
(* plans that gate quotations and orders, for any rates, drivers,          *)
(* overrides and orders.                                                   *)
(***************************************************************************)
EXTENDS TradeCycle, Margins, SumLemmas, TLAPS

Statuses == {"Draft", "Cancelled", "Completed", "To Bill", "To Move", "To Move and Bill"}
OrderRow == [docstatus : Phases, moved : Int, billed : Int, status : Statuses]
MoveRow == [docstatus : Phases \cup {"Absent"}, billed : Int]

-----------------------------------------------------------------------------
(* The sums as functions of the rows they range over.                       *)

MovesOf(mv, o) == {m \in Moves : Moving[m].order = o /\ mv[m].docstatus = "Submitted"}
BillsOf(bl, o) == {b \in Bills : Billing[b].order = o /\ bl[b] = "Submitted"}
BillsFor(bl, m) == {b \in Bills : Billing[b].move = m /\ bl[b] = "Submitted"}

LeftOf(od) == [o \in Orders |-> Cap(o) - od[o].moved]
OpenOrders(od) == {o \in Orders : od[o].docstatus = "Submitted"}
\* what order o contributes to the reservation
Part(od, o) == IF od[o].docstatus = "Submitted" THEN Cap(o) - od[o].moved ELSE 0

LEMMA Quantity ==
  /\ \A m \in Moves : /\ Signs[m] = Signed(m) /\ Signed(m) \in Int
                      /\ Signed(m) = IF IsReturn(m) THEN -Moving[m].qty ELSE Moving[m].qty
                      /\ Moving[m].qty \in Nat /\ Moving[m].qty > 0
  /\ \A b \in Bills : Quantities[b] = Billing[b].qty /\ Billing[b].qty \in Int
  /\ \A o \in Orders : /\ Cap(o) \in Nat /\ Cap(o) > 0
                       /\ Ordered[o] \in Nat
<1>1. ASSUME NEW o \in Orders PROVE Cap(o) \in Nat /\ Cap(o) > 0 /\ Ordered[o] \in Nat
  <2>1. PICK a, f : a = Ordered[o] /\ f = Factor[o] /\ a \in Nat /\ f \in Nat /\ a > 0 /\ f > 0
    BY OrderAssumption
  <2>2. a * f \in Nat /\ a * f > 0
    BY <2>1
  <2> QED BY <2>1 DEF Cap
<1> QED BY <1>1, MovingAssumption, BillingAssumption DEF Signs, Signed, Quantities

\* one more addend
LEMMA OneMore ==
  ASSUME NEW S, IsFiniteSet(S), NEW x, x \notin S,
         NEW f, \A y \in S : f[y] \in Int, f[x] \in Int
  PROVE  /\ SumFunctionOnSet(f, S) \in Int
         /\ SumFunctionOnSet(f, S \cup {x}) = SumFunctionOnSet(f, S) + f[x]
<1>1. SumFunctionOnSet(f, S) \in Int
  BY SumIsInt
<1>2. SumFunctionOnSet(f, S \cup {x}) = f[x] + SumFunctionOnSet(f, S)
  <2>1. \A y \in S \cup {x} : f[y] \in Int
    OBVIOUS
  <2> QED BY SumWith
<1> QED BY <1>1, <1>2

LEMMA OneMoreMove ==
  ASSUME NEW S \in SUBSET Moves, NEW m \in Moves, m \notin S
  PROVE  /\ SumFunctionOnSet(Signs, S) \in Int
         /\ SumFunctionOnSet(Signs, S \cup {m}) = SumFunctionOnSet(Signs, S) + Signed(m)
<1>1. IsFiniteSet(S) /\ Signs[m] = Signed(m) /\ Signs[m] \in Int /\ \A n \in S : Signs[n] \in Int
  BY CycleAssumption, FS_Subset, Quantity
<1> QED BY <1>1, OneMore

LEMMA OneMoreBill ==
  ASSUME NEW S \in SUBSET Bills, NEW b \in Bills, b \notin S
  PROVE  /\ SumFunctionOnSet(Quantities, S) \in Int
         /\ SumFunctionOnSet(Quantities, S \cup {b}) =
              SumFunctionOnSet(Quantities, S) + Billing[b].qty
<1>1. /\ IsFiniteSet(S) /\ Quantities[b] = Billing[b].qty
      /\ Quantities[b] \in Int /\ \A c \in S : Quantities[c] \in Int
  BY CycleAssumption, FS_Subset, Quantity
<1> QED BY <1>1, OneMore

\* The reservation the orders call for when only order x changes.
LEMMA OpenChange ==
  ASSUME NEW od, NEW ou, NEW x \in Orders,
         \A o \in Orders : od[o].moved \in Int /\ ou[o].moved \in Int,
         \A o \in Orders \ {x} : ou[o].moved = od[o].moved /\ ou[o].docstatus = od[o].docstatus
  PROVE  /\ SumFunctionOnSet(LeftOf(od), OpenOrders(od)) \in Int
         /\ SumFunctionOnSet(LeftOf(ou), OpenOrders(ou)) =
              SumFunctionOnSet(LeftOf(od), OpenOrders(od)) + Part(ou, x) - Part(od, x)
<1> DEFINE R == {o \in Orders \ {x} : od[o].docstatus = "Submitted"}
           f == LeftOf(od)
           g == LeftOf(ou)
<1>1. /\ OpenOrders(od) = IF od[x].docstatus = "Submitted" THEN R \cup {x} ELSE R
      /\ OpenOrders(ou) = IF ou[x].docstatus = "Submitted" THEN R \cup {x} ELSE R
  BY DEF OpenOrders
<1>2. R \in SUBSET Orders /\ x \notin R
  OBVIOUS
<1>3. IsFiniteSet(Orders) /\ IsFiniteSet(R)
  BY CycleAssumption, FS_Subset
<1>4. /\ \A o \in Orders : f[o] \in Int /\ g[o] \in Int
      /\ \A o \in R : f[o] = g[o] /\ f[o] \in Int /\ g[o] \in Int
      /\ f[x] = Cap(x) - od[x].moved /\ g[x] = Cap(x) - ou[x].moved
  BY Quantity DEF LeftOf
<1> HIDE DEF f, g, R
<1>5. SumFunctionOnSet(f, R) = SumFunctionOnSet(g, R)
  BY <1>3, <1>4, SumOfSame
<1>6. /\ SumFunctionOnSet(f, R) \in Int
      /\ SumFunctionOnSet(f, R \cup {x}) = SumFunctionOnSet(f, R) + f[x]
  BY <1>2, <1>3, <1>4, OneMore
<1>7. SumFunctionOnSet(g, R \cup {x}) = SumFunctionOnSet(g, R) + g[x]
  BY <1>2, <1>3, <1>4, OneMore
<1>8. f[x] \in Int /\ g[x] \in Int
  BY <1>4
<1>9. /\ SumFunctionOnSet(f, OpenOrders(od)) = SumFunctionOnSet(f, R) + Part(od, x)
      /\ Part(od, x) \in Int
  BY <1>1, <1>4, <1>6 DEF Part
<1>10. /\ SumFunctionOnSet(g, OpenOrders(ou)) = SumFunctionOnSet(f, R) + Part(ou, x)
       /\ Part(ou, x) \in Int
  BY <1>1, <1>4, <1>5, <1>6, <1>7 DEF Part
<1> QED BY <1>6, <1>9, <1>10 DEF f, g

\* While no open order is overrun, the reservation covers each of them.
LEMMA OpenCovers ==
  ASSUME NEW od, NEW x \in Orders,
         \A o \in Orders : od[o].moved \in Int /\ od[o].moved <= Cap(o)
  PROVE  SumFunctionOnSet(LeftOf(od), OpenOrders(od)) >= Part(od, x)
<1> DEFINE f == LeftOf(od)
           S == OpenOrders(od)
<1>1. \A o \in Orders : f[o] \in Nat /\ f[o] = Cap(o) - od[o].moved
  BY Quantity DEF LeftOf
<1>2. S \in SUBSET Orders /\ IsFiniteSet(Orders)
  BY CycleAssumption DEF OpenOrders
<1>3. IsFiniteSet(S)
  BY <1>2, FS_Subset
<1>4. x \in S <=> od[x].docstatus = "Submitted"
  BY DEF OpenOrders
<1> HIDE DEF f, S
<1>5. SumFunctionOnSet(f, S) \in Nat
  BY <1>1, <1>2, SumOfPart
<1>6. CASE x \in S
  <2>1. S \ {x} \in SUBSET Orders
    BY <1>2
  <2>2. SumFunctionOnSet(f, S \ {x}) \in Nat
    BY <1>1, <1>2, SumOfPart
  <2>3. \A o \in S : f[o] \in Int
    BY <1>1, <1>2
  <2>4. SumFunctionOnSet(f, S) = f[x] + SumFunctionOnSet(f, S \ {x})
    BY <2>3, <1>3, <1>6, SumWithout
  <2>5. Part(od, x) = f[x] /\ f[x] \in Nat
    BY <1>1, <1>4, <1>6 DEF Part
  <2> QED BY <2>2, <2>4, <2>5 DEF f, S
<1>7. CASE x \notin S
  BY <1>5, <1>7, <1>4 DEF Part, f, S
<1> QED BY <1>6, <1>7

-----------------------------------------------------------------------------
(* The inductive invariant.                                                 *)

\* A movement counter is never below what the submitted movements say, nor
\* below nothing: submitting keeps it so by validation, cancelling by the clamp.
MovedIsBacked == \A o \in Orders : order[o].moved >= 0 /\ order[o].moved >= MovedOn(o)

\* Nothing happens to an order before it is submitted.
OrdersFirst ==
  \A o \in Orders :
    order[o].docstatus = "Draft" =>
      /\ order[o].moved = 0
      /\ \A m \in Moves : Moving[m].order = o => move[m].docstatus # "Submitted"

\* Until a return is posted no order is overrun, and none is cancelled under a
\* submitted movement.
UntilReturned ==
  NoReturnYet =>
    \A o \in Orders :
      /\ order[o].moved <= Cap(o)
      /\ \A m \in Moves :
           Moving[m].order = o /\ move[m].docstatus = "Submitted"
             => order[o].docstatus = "Submitted"

\* what the checks of a request found still holds when it writes
Stands(op, doc) ==
  \/ op = "submit order" /\ doc \in Orders /\ order[doc].docstatus = "Draft"
  \/ /\ op = "cancel order" /\ doc \in Orders /\ order[doc].docstatus = "Submitted"
     /\ order[doc].moved <= 0 /\ order[doc].billed <= 0
  \/ op = "submit move" /\ doc \in Moves /\ move[doc].docstatus = "Draft" /\ MoveFits(doc)
  \/ /\ op = "cancel move" /\ doc \in Moves /\ move[doc].docstatus = "Submitted"
     /\ move[doc].billed <= 0
  \/ op = "submit bill" /\ doc \in Bills /\ bill[doc] = "Draft" /\ BillFits(doc)
  \/ /\ op = "cancel bill" /\ doc \in Bills /\ bill[doc] = "Submitted"
     /\ \A c \in Bills : Billing[c].credits = doc => bill[c] # "Submitted"

\* the counters it loaded are the present ones
Current(op, loaded) ==
  IF op \in {"submit bill", "cancel bill"}
  THEN loaded.order = order /\ \A m \in Moves : loaded.move[m].billed = move[m].billed
  ELSE loaded = order

InHand(w) ==
  desk[w] # Away =>
    \E op, doc, ready, loaded :
      /\ desk[w] = [op |-> op, doc |-> doc, ready |-> ready, loaded |-> loaded]
      /\ ready \in BOOLEAN
      /\ Stands(op, doc)
      /\ ready => Current(op, loaded)

\* the part of the invariant that is about the documents
Books ==
  /\ order \in [Orders -> OrderRow]
  /\ move \in [Moves -> MoveRow]
  /\ bill \in [Bills -> Phases \cup {"Absent"}]
  /\ bin \in Nat
  /\ BilledIsExact
  /\ ReservedIsOpen
  /\ MovedIsBacked
  /\ OrdersFirst
  /\ UntilReturned

Desks ==
  /\ desk = [w \in Clerks |-> desk[w]]
  /\ lock \in Clerks \cup {Nil}
  /\ \A w \in Clerks : InHand(w)

IInv == Books /\ Desks

-----------------------------------------------------------------------------
(* Requests check, load and write.                                          *)

\* A request that is ready to write still stands on what it checked.
LEMMA Serving ==
  ASSUME NEW w \in Clerks, NEW op, Desks, Ready(w, op)
  PROVE  Stands(op, desk[w].doc) /\ Current(op, desk[w].loaded)
<1>1. desk[w] # Away /\ desk[w].op = op /\ desk[w].ready
  BY DEF Ready
<1>2. PICK p, doc, ready, loaded :
        /\ desk[w] = [op |-> p, doc |-> doc, ready |-> ready, loaded |-> loaded]
        /\ Stands(p, doc)
        /\ ready => Current(p, loaded)
  BY <1>1 DEF Desks, InHand
<1> QED BY <1>1, <1>2

\* The request ends and its lock is free.
LEMMA EndLeaves ==
  ASSUME NEW w, Clerks = {w}, Desks, End(w)
  PROVE  Desks' /\ desk'[w] = Away
<1>1. desk' = [desk EXCEPT ![w] = Away] /\ lock' \in Clerks \cup {Nil}
  BY DEF End, Desks
<1>2. desk'[w] = Away /\ desk' = [v \in Clerks |-> desk'[v]]
  BY <1>1 DEF Desks
<1> QED BY <1>1 DEF Desks, InHand

\* A new request stands on what it has just checked.
LEMMA BeginTakes ==
  ASSUME NEW w, Clerks = {w}, NEW op, NEW doc, Desks, Begin(w, op, doc), Stands(op, doc)
  PROVE  Desks' /\ UNCHANGED <<order, move, bill, bin>>
<1>1. /\ desk' = [desk EXCEPT ![w] = [op |-> op, doc |-> doc, ready |-> FALSE, loaded |-> Nil]]
      /\ order' = order /\ move' = move /\ bill' = bill /\ bin' = bin /\ lock' = lock
  BY DEF Begin
<1>2. /\ desk'[w] = [op |-> op, doc |-> doc, ready |-> FALSE, loaded |-> Nil]
      /\ desk' = [v \in Clerks |-> desk'[v]]
  BY <1>1 DEF Desks
<1>3. Stands(op, doc)'
  <2>1. \A m : MoveFits(m)' <=> MoveFits(m)
    BY <1>1 DEF MoveFits
  <2>2. \A b : BillFits(b)' <=> BillFits(b)
    BY <1>1 DEF BillFits
  <2> QED BY <1>1, <2>1, <2>2 DEF Stands
<1>4. InHand(w)'
  BY <1>2, <1>3 DEF InHand
<1> QED BY <1>1, <1>4 DEF Desks

\* A request loads the counters it will move.
LEMMA LoadingIsCurrent ==
  ASSUME NEW w, Clerks = {w}, Desks, LockBin(w) \/ LoadCounters(w)
  PROVE  Desks' /\ UNCHANGED <<order, move, bill, bin>>
<1>1. desk[w] # Away
  BY DEF LockBin, LoadCounters, Pending
<1>2. PICK op, doc, ready, old :
        /\ desk[w] = [op |-> op, doc |-> doc, ready |-> ready, loaded |-> old]
        /\ Stands(op, doc)
  BY <1>1 DEF Desks, InHand
<1>0. desk[w].op = op
  BY ONLY <1>2
<1>3. /\ order' = order /\ move' = move /\ bill' = bill /\ bin' = bin
      /\ lock' \in Clerks \cup {Nil}
  BY DEF LockBin, LoadCounters, Desks
<1>4. PICK loaded : Loads(w, loaded) /\ Current(op, loaded)
  <2>1. CASE LockBin(w)
    <3>1. op \in {"submit order", "cancel order", "submit move", "cancel move"}
      BY <2>1, <1>0 DEF LockBin, Pending
    <3>2. Current(op, order)
      BY <3>1 DEF Current
    <3> QED BY <2>1, <3>2 DEF LockBin
  <2>2. CASE LoadCounters(w)
    <3>1. op \in {"submit bill", "cancel bill"}
      BY <2>2, <1>0 DEF LoadCounters, Pending
    <3>2. Current(op, [order |-> order, move |-> move])
      BY <3>1 DEF Current
    <3> QED BY <2>2, <3>2 DEF LoadCounters
  <2> QED BY <2>1, <2>2
<1>5. /\ desk'[w] = [op |-> op, doc |-> doc, ready |-> TRUE, loaded |-> loaded]
      /\ desk' = [v \in Clerks |-> desk'[v]]
  <2>1. desk = [v \in Clerks |-> desk[v]] /\ w \in Clerks
    BY DEF Desks
  <2>2. desk' = [desk EXCEPT ![w] = [op |-> desk[w].op, doc |-> desk[w].doc,
                                     ready |-> TRUE, loaded |-> loaded]]
    BY <1>4 DEF Loads
  <2>3. desk[w].op = op /\ desk[w].doc = doc
    BY ONLY <1>2
  <2> QED BY <2>1, <2>2, <2>3
<1>6. Stands(op, doc)' /\ Current(op, loaded)'
  BY <1>2, <1>3, <1>4 DEF Stands, MoveFits, BillFits, Current
<1>7. InHand(w)'
  BY <1>5, <1>6 DEF InHand
<1> QED BY <1>3, <1>5, <1>7 DEF Desks

\* A new draft changes nothing a request in hand relies on.
LEMMA DraftDisturbsNobody ==
  ASSUME NEW w, Clerks = {w}, Desks, UNCHANGED <<order, lock, desk>>,
         \A m \in Moves : move[m].docstatus # "Absent" => move'[m] = move[m],
         \A m \in Moves : move'[m].billed = move[m].billed,
         \A b \in Bills : bill[b] # "Absent" => bill'[b] = bill[b],
         \A b \in Bills : bill'[b] = "Submitted" => bill[b] = "Submitted"
  PROVE  Desks'
<1>1. ASSUME NEW op, NEW doc, Stands(op, doc) PROVE Stands(op, doc)'
  <2>1. ASSUME doc \in Bills, BillFits(doc) PROVE BillFits(doc)'
    <3>1. Billing[doc].move \in Moves \cup {Nil}
      BY <2>1, BillingAssumption
    <3> QED BY <2>1, <3>1 DEF BillFits
  <2>2. ASSUME doc \in Moves, MoveFits(doc) PROVE MoveFits(doc)'
    BY <2>2 DEF MoveFits
  <2> QED BY <1>1, <2>1, <2>2 DEF Stands
<1>2. ASSUME NEW op, NEW loaded, Current(op, loaded) PROVE Current(op, loaded)'
  BY <1>2 DEF Current
<1>3. InHand(w)'
  BY <1>1, <1>2 DEF InHand, Desks
<1> QED BY <1>3 DEF Desks

\* the columns a movement writes in its order
LEMMA MoveOrderWrites ==
  ASSUME order \in [Orders -> OrderRow], NEW o \in Orders, NEW n \in Int, NEW b,
         MoveOrder(o, n, b)
  PROVE  /\ order' \in [Orders -> OrderRow]
         /\ \A x \in Orders :
              /\ order'[x].docstatus = order[x].docstatus
              /\ order'[x].billed = order[x].billed
              /\ order'[x].moved = IF x = o THEN n ELSE order[x].moved
<1>1. StatusOf(o, n, b) \in Statuses
  BY DEF StatusOf, Statuses
<1>2. PICK s : /\ s \in Statuses
               /\ order' = [order EXCEPT ![o].moved = n, ![o].status = s]
  BY <1>1 DEF MoveOrder, OrderRow
<1> QED BY <1>2 DEF OrderRow

\* What submitting a movement writes.
LEMMA SubmitMoveWrites ==
  ASSUME NEW w, Clerks = {w}, IInv, SubmitMove(w)
  PROVE  \E m, o :
           /\ m \in Moves /\ o = Moving[m].order /\ o \in Orders \cup {Nil}
           /\ move[m].docstatus = "Draft" /\ MoveFits(m)
           /\ move' \in [Moves -> MoveRow] /\ move'[m].docstatus = "Submitted"
           /\ \A n \in Moves : move'[n].billed = move[n].billed
           /\ \A n \in Moves \ {m} : move'[n].docstatus = move[n].docstatus
           /\ order' \in [Orders -> OrderRow]
           /\ \A x \in Orders :
                /\ order'[x].docstatus = order[x].docstatus
                /\ order'[x].billed = order[x].billed
                /\ order'[x].moved = IF x = o THEN order[x].moved + Signed(m) ELSE order[x].moved
           /\ bill' = bill
           /\ bin' = IF o = Nil \/ IsReturn(m) THEN bin ELSE Atleast0(bin - Moving[m].qty)
<1>1. PICK m, o, ld : m = desk[w].doc /\ o = Moving[m].order /\ ld = desk[w].loaded
  OBVIOUS
<1>2. Ready(w, "submit move")
  BY DEF SubmitMove
<1>3. Stands("submit move", m) /\ Current("submit move", ld)
  BY <1>1, <1>2, Serving DEF IInv
<1>4. m \in Moves /\ move[m].docstatus = "Draft" /\ MoveFits(m) /\ ld = order
  BY <1>3 DEF Stands, Current
<1>5. o \in Orders \cup {Nil} /\ Moving[m].qty \in Nat /\ Signed(m) \in Int
  BY <1>1, <1>4, MovingAssumption, Quantity
<1>6. /\ move' = [move EXCEPT ![m].docstatus = "Submitted"] /\ bill' = bill
      /\ IF o = Nil THEN UNCHANGED <<order, bin>>
         ELSE /\ MoveOrder(o, order[o].moved + Signed(m), order[o].billed)
              /\ IF IsReturn(m) THEN UNCHANGED bin ELSE Reserve(-Moving[m].qty)
  BY <1>1, <1>4 DEF SubmitMove
<1>7. /\ move' \in [Moves -> MoveRow] /\ move'[m].docstatus = "Submitted"
      /\ \A n \in Moves : move'[n].billed = move[n].billed
      /\ \A n \in Moves \ {m} : move'[n].docstatus = move[n].docstatus
  BY <1>4, <1>6 DEF IInv, Books, MoveRow, Phases
<1>8. order \in [Orders -> OrderRow] /\ bin \in Nat
  BY DEF IInv, Books
<1>9. /\ order' \in [Orders -> OrderRow]
      /\ \A x \in Orders :
           /\ order'[x].docstatus = order[x].docstatus
           /\ order'[x].billed = order[x].billed
           /\ order'[x].moved = IF x = o THEN order[x].moved + Signed(m) ELSE order[x].moved
  <2>1. CASE o = Nil
    BY <2>1, <1>6, <1>8, CycleAssumption
  <2>2. CASE o # Nil
    <3>1. o \in Orders /\ order[o].moved + Signed(m) \in Int
      BY <2>2, <1>5, <1>8 DEF OrderRow
    <3> QED BY <2>2, <3>1, <1>6, <1>8, MoveOrderWrites
  <2> QED BY <2>1, <2>2
<1>10. bin' = IF o = Nil \/ IsReturn(m) THEN bin ELSE Atleast0(bin - Moving[m].qty)
  <2>1. bin + (-Moving[m].qty) = bin - Moving[m].qty
    OBVIOUS
  <2> QED BY <1>6 DEF Reserve
<1> QED BY <1>1, <1>4, <1>5, <1>6, <1>7, <1>9, <1>10

\* What cancelling a movement writes.
LEMMA CancelMoveWrites ==
  ASSUME NEW w, Clerks = {w}, IInv, CancelMove(w)
  PROVE  \E m, o :
           /\ m \in Moves /\ o = Moving[m].order /\ o \in Orders \cup {Nil}
           /\ move[m].docstatus = "Submitted" /\ move[m].billed <= 0
           /\ move' \in [Moves -> MoveRow] /\ move'[m].docstatus = "Cancelled"
           /\ \A n \in Moves : move'[n].billed = move[n].billed
           /\ \A n \in Moves \ {m} : move'[n].docstatus = move[n].docstatus
           /\ order' \in [Orders -> OrderRow]
           /\ \A x \in Orders :
                /\ order'[x].docstatus = order[x].docstatus
                /\ order'[x].billed = order[x].billed
                /\ order'[x].moved = IF x = o THEN Atleast0(order[x].moved - Signed(m))
                                     ELSE order[x].moved
           /\ bill' = bill
           /\ bin' = IF o = Nil \/ IsReturn(m) THEN bin ELSE bin + Moving[m].qty
<1>1. PICK m, o, ld : m = desk[w].doc /\ o = Moving[m].order /\ ld = desk[w].loaded
  OBVIOUS
<1>2. Ready(w, "cancel move")
  BY DEF CancelMove
<1>3. Stands("cancel move", m) /\ Current("cancel move", ld)
  BY <1>1, <1>2, Serving DEF IInv
<1>4. m \in Moves /\ move[m].docstatus = "Submitted" /\ move[m].billed <= 0 /\ ld = order
  BY <1>3 DEF Stands, Current
<1>5. o \in Orders \cup {Nil} /\ Moving[m].qty \in Nat /\ Signed(m) \in Int
  BY <1>1, <1>4, MovingAssumption, Quantity
<1>6. /\ move' = [move EXCEPT ![m].docstatus = "Cancelled"] /\ bill' = bill
      /\ IF o = Nil THEN UNCHANGED <<order, bin>>
         ELSE /\ MoveOrder(o, Atleast0(order[o].moved - Signed(m)), order[o].billed)
              /\ IF IsReturn(m) THEN UNCHANGED bin ELSE Reserve(Moving[m].qty)
  BY <1>1, <1>4 DEF CancelMove
<1>7. /\ move' \in [Moves -> MoveRow] /\ move'[m].docstatus = "Cancelled"
      /\ \A n \in Moves : move'[n].billed = move[n].billed
      /\ \A n \in Moves \ {m} : move'[n].docstatus = move[n].docstatus
  BY <1>4, <1>6 DEF IInv, Books, MoveRow, Phases
<1>8. order \in [Orders -> OrderRow] /\ bin \in Nat
  BY DEF IInv, Books
<1>9. /\ order' \in [Orders -> OrderRow]
      /\ \A x \in Orders :
           /\ order'[x].docstatus = order[x].docstatus
           /\ order'[x].billed = order[x].billed
           /\ order'[x].moved = IF x = o THEN Atleast0(order[x].moved - Signed(m))
                                ELSE order[x].moved
  <2>1. CASE o = Nil
    BY <2>1, <1>6, <1>8, CycleAssumption
  <2>2. CASE o # Nil
    <3>1. o \in Orders /\ Atleast0(order[o].moved - Signed(m)) \in Int
      BY <2>2, <1>5, <1>8 DEF OrderRow, Atleast0
    <3> QED BY <2>2, <3>1, <1>6, <1>8, MoveOrderWrites
  <2> QED BY <2>1, <2>2
<1>10. bin' = IF o = Nil \/ IsReturn(m) THEN bin ELSE bin + Moving[m].qty
  BY <1>5, <1>6, <1>8 DEF Reserve, Atleast0
<1> QED BY <1>1, <1>4, <1>5, <1>6, <1>7, <1>9, <1>10

-----------------------------------------------------------------------------
(* The books after each write.                                              *)

LEMMA SumsOfNow ==
  /\ \A o \in Orders : MovedOn(o) = SumFunctionOnSet(Signs, MovesOf(move, o))
  /\ \A o \in Orders : BilledOn(o) = SumFunctionOnSet(Quantities, BillsOf(bill, o))
  /\ \A m \in Moves : BilledFor(m) = SumFunctionOnSet(Quantities, BillsFor(bill, m))
  /\ ReservedIsOpen <=> (NoReturnYet => bin = SumFunctionOnSet(LeftOf(order), OpenOrders(order)))
BY DEF MovedOn, MovesOf, BilledOn, BillsOf, BilledFor, BillsFor, ReservedIsOpen, LeftOf, OpenOrders

LEMMA SumsOfNext ==
  /\ \A o \in Orders : MovedOn(o)' = SumFunctionOnSet(Signs, MovesOf(move', o))
  /\ \A o \in Orders : BilledOn(o)' = SumFunctionOnSet(Quantities, BillsOf(bill', o))
  /\ \A m \in Moves : BilledFor(m)' = SumFunctionOnSet(Quantities, BillsFor(bill', m))
  /\ ReservedIsOpen' <=> (NoReturnYet' => bin' = SumFunctionOnSet(LeftOf(order'), OpenOrders(order')))
BY DEF MovedOn, MovesOf, BilledOn, BillsOf, BilledFor, BillsFor, ReservedIsOpen, LeftOf, OpenOrders

\* A movement is submitted.
LEMMA MoveCounted ==
  ASSUME NEW m \in Moves, move[m].docstatus # "Submitted", move'[m].docstatus = "Submitted",
         \A n \in Moves \ {m} : move'[n].docstatus = move[n].docstatus
  PROVE  \A x \in Orders :
           /\ MovedOn(x) \in Int
           /\ MovedOn(x)' = MovedOn(x) + (IF Moving[m].order = x THEN Signed(m) ELSE 0)
<1> SUFFICES ASSUME NEW x \in Orders
             PROVE  /\ MovedOn(x) \in Int
                    /\ MovedOn(x)' = MovedOn(x) + (IF Moving[m].order = x THEN Signed(m) ELSE 0)
  OBVIOUS
<1>1. PICK S, T : S = MovesOf(move, x) /\ T = MovesOf(move', x)
  OBVIOUS
<1>2. /\ S \in SUBSET Moves /\ m \notin S
      /\ T = IF Moving[m].order = x THEN S \cup {m} ELSE S
  BY <1>1 DEF MovesOf
<1>3. /\ SumFunctionOnSet(Signs, S) \in Int
      /\ SumFunctionOnSet(Signs, S \cup {m}) = SumFunctionOnSet(Signs, S) + Signed(m)
  BY <1>2, OneMoreMove
<1>4. MovedOn(x) = SumFunctionOnSet(Signs, S) /\ MovedOn(x)' = SumFunctionOnSet(Signs, T)
  BY <1>1, SumsOfNow, SumsOfNext
<1> QED BY <1>2, <1>3, <1>4

\* A submitted movement is cancelled.
LEMMA MoveUncounted ==
  ASSUME NEW m \in Moves, move[m].docstatus = "Submitted", move'[m].docstatus # "Submitted",
         \A n \in Moves \ {m} : move'[n].docstatus = move[n].docstatus
  PROVE  \A x \in Orders :
           /\ MovedOn(x)' \in Int
           /\ MovedOn(x) = MovedOn(x)' + (IF Moving[m].order = x THEN Signed(m) ELSE 0)
<1> SUFFICES ASSUME NEW x \in Orders
             PROVE  /\ MovedOn(x)' \in Int
                    /\ MovedOn(x) = MovedOn(x)' + (IF Moving[m].order = x THEN Signed(m) ELSE 0)
  OBVIOUS
<1>1. PICK S, T : S = MovesOf(move', x) /\ T = MovesOf(move, x)
  OBVIOUS
<1>2. /\ S \in SUBSET Moves /\ m \notin S
      /\ T = IF Moving[m].order = x THEN S \cup {m} ELSE S
  BY <1>1 DEF MovesOf
<1>3. /\ SumFunctionOnSet(Signs, S) \in Int
      /\ SumFunctionOnSet(Signs, S \cup {m}) = SumFunctionOnSet(Signs, S) + Signed(m)
  BY <1>2, OneMoreMove
<1>4. MovedOn(x)' = SumFunctionOnSet(Signs, S) /\ MovedOn(x) = SumFunctionOnSet(Signs, T)
  BY <1>1, SumsOfNow, SumsOfNext
<1> QED BY <1>2, <1>3, <1>4

\* A bill is submitted.
LEMMA BillCounted ==
  ASSUME NEW b \in Bills, bill[b] # "Submitted", bill'[b] = "Submitted",
         \A c \in Bills \ {b} : bill'[c] = bill[c]
  PROVE  /\ \A x \in Orders :
              /\ BilledOn(x) \in Int
              /\ BilledOn(x)' = BilledOn(x) + (IF Billing[b].order = x THEN Billing[b].qty ELSE 0)
         /\ \A x \in Moves :
              /\ BilledFor(x) \in Int
              /\ BilledFor(x)' = BilledFor(x) + (IF Billing[b].move = x THEN Billing[b].qty ELSE 0)
<1>1. ASSUME NEW x \in Orders
      PROVE  /\ BilledOn(x) \in Int
             /\ BilledOn(x)' = BilledOn(x) + (IF Billing[b].order = x THEN Billing[b].qty ELSE 0)
  <2>1. PICK S, T : S = BillsOf(bill, x) /\ T = BillsOf(bill', x)
    OBVIOUS
  <2>2. /\ S \in SUBSET Bills /\ b \notin S
        /\ T = IF Billing[b].order = x THEN S \cup {b} ELSE S
    BY <2>1 DEF BillsOf
  <2>3. /\ SumFunctionOnSet(Quantities, S) \in Int
        /\ SumFunctionOnSet(Quantities, S \cup {b}) =
             SumFunctionOnSet(Quantities, S) + Billing[b].qty
    BY <2>2, OneMoreBill
  <2>4. BilledOn(x) = SumFunctionOnSet(Quantities, S) /\ BilledOn(x)' = SumFunctionOnSet(Quantities, T)
    BY <2>1, SumsOfNow, SumsOfNext
  <2> QED BY <2>2, <2>3, <2>4
<1>2. ASSUME NEW x \in Moves
      PROVE  /\ BilledFor(x) \in Int
             /\ BilledFor(x)' = BilledFor(x) + (IF Billing[b].move = x THEN Billing[b].qty ELSE 0)
  <2>1. PICK S, T : S = BillsFor(bill, x) /\ T = BillsFor(bill', x)
    OBVIOUS
  <2>2. /\ S \in SUBSET Bills /\ b \notin S
        /\ T = IF Billing[b].move = x THEN S \cup {b} ELSE S
    BY <2>1 DEF BillsFor
  <2>3. /\ SumFunctionOnSet(Quantities, S) \in Int
        /\ SumFunctionOnSet(Quantities, S \cup {b}) =
             SumFunctionOnSet(Quantities, S) + Billing[b].qty
    BY <2>2, OneMoreBill
  <2>4. BilledFor(x) = SumFunctionOnSet(Quantities, S) /\ BilledFor(x)' = SumFunctionOnSet(Quantities, T)
    BY <2>1, SumsOfNow, SumsOfNext
  <2> QED BY <2>2, <2>3, <2>4
<1> QED BY <1>1, <1>2

\* A submitted bill is cancelled.
LEMMA BillUncounted ==
  ASSUME NEW b \in Bills, bill[b] = "Submitted", bill'[b] # "Submitted",
         \A c \in Bills \ {b} : bill'[c] = bill[c]
  PROVE  /\ \A x \in Orders :
              /\ BilledOn(x)' \in Int
              /\ BilledOn(x) = BilledOn(x)' + (IF Billing[b].order = x THEN Billing[b].qty ELSE 0)
         /\ \A x \in Moves :
              /\ BilledFor(x)' \in Int
              /\ BilledFor(x) = BilledFor(x)' + (IF Billing[b].move = x THEN Billing[b].qty ELSE 0)
<1>1. ASSUME NEW x \in Orders
      PROVE  /\ BilledOn(x)' \in Int
             /\ BilledOn(x) = BilledOn(x)' + (IF Billing[b].order = x THEN Billing[b].qty ELSE 0)
  <2>1. PICK S, T : S = BillsOf(bill', x) /\ T = BillsOf(bill, x)
    OBVIOUS
  <2>2. /\ S \in SUBSET Bills /\ b \notin S
        /\ T = IF Billing[b].order = x THEN S \cup {b} ELSE S
    BY <2>1 DEF BillsOf
  <2>3. /\ SumFunctionOnSet(Quantities, S) \in Int
        /\ SumFunctionOnSet(Quantities, S \cup {b}) =
             SumFunctionOnSet(Quantities, S) + Billing[b].qty
    BY <2>2, OneMoreBill
  <2>4. BilledOn(x)' = SumFunctionOnSet(Quantities, S) /\ BilledOn(x) = SumFunctionOnSet(Quantities, T)
    BY <2>1, SumsOfNow, SumsOfNext
  <2> QED BY <2>2, <2>3, <2>4
<1>2. ASSUME NEW x \in Moves
      PROVE  /\ BilledFor(x)' \in Int
             /\ BilledFor(x) = BilledFor(x)' + (IF Billing[b].move = x THEN Billing[b].qty ELSE 0)
  <2>1. PICK S, T : S = BillsFor(bill', x) /\ T = BillsFor(bill, x)
    OBVIOUS
  <2>2. /\ S \in SUBSET Bills /\ b \notin S
        /\ T = IF Billing[b].move = x THEN S \cup {b} ELSE S
    BY <2>1 DEF BillsFor
  <2>3. /\ SumFunctionOnSet(Quantities, S) \in Int
        /\ SumFunctionOnSet(Quantities, S \cup {b}) =
             SumFunctionOnSet(Quantities, S) + Billing[b].qty
    BY <2>2, OneMoreBill
  <2>4. BilledFor(x)' = SumFunctionOnSet(Quantities, S) /\ BilledFor(x) = SumFunctionOnSet(Quantities, T)
    BY <2>1, SumsOfNow, SumsOfNext
  <2> QED BY <2>2, <2>3, <2>4
<1> QED BY <1>1, <1>2

\* Only order o changes.
LEMMA OrderChanges ==
  ASSUME NEW o \in Orders,
         \A x \in Orders : order[x].moved \in Int /\ order'[x].moved \in Int,
         \A x \in Orders \ {o} : /\ order'[x].moved = order[x].moved
                                 /\ order'[x].docstatus = order[x].docstatus
  PROVE  /\ SumFunctionOnSet(LeftOf(order), OpenOrders(order)) \in Int
         /\ SumFunctionOnSet(LeftOf(order'), OpenOrders(order')) =
              SumFunctionOnSet(LeftOf(order), OpenOrders(order))
              + Part(order', o) - Part(order, o)
<1>1. PICK od, ou : od = order /\ ou = order'
  OBVIOUS
<1>2. /\ \A x \in Orders : od[x].moved \in Int /\ ou[x].moved \in Int
      /\ \A x \in Orders \ {o} : /\ ou[x].moved = od[x].moved
                                 /\ ou[x].docstatus = od[x].docstatus
  BY <1>1
<1> QED BY OpenChange

\* The sum of an order without submitted returns is at least each of its addends.
LEMMA EachIsCounted ==
  ASSUME NEW mv, NEW m \in Moves, NEW o, m \in MovesOf(mv, o),
         \A n \in MovesOf(mv, o) : ~IsReturn(n)
  PROVE  SumFunctionOnSet(Signs, MovesOf(mv, o)) >= Moving[m].qty
<1> DEFINE S == MovesOf(mv, o)
<1>1. S \in SUBSET Moves /\ m \in S
  BY DEF MovesOf
<1>2. IsFiniteSet(S)
  BY <1>1, CycleAssumption, FS_Subset
<1>3. \A n \in S : Signs[n] = Moving[n].qty /\ Signs[n] \in Nat
  BY <1>1, Quantity
<1> HIDE DEF S
<1>4. SumFunctionOnSet(Signs, S) = Signs[m] + SumFunctionOnSet(Signs, S \ {m})
  BY <1>1, <1>2, <1>3, SumWithout
<1>5. SumFunctionOnSet(Signs, S \ {m}) \in Nat
  <2>1. S \ {m} \in SUBSET S
    OBVIOUS
  <2> QED BY <1>2, <1>3, SumOfPart
<1> QED BY <1>3, <1>4, <1>5 DEF S

\* A step that moves nothing keeps what the books say of movements.
LEMMA NothingMoved ==
  ASSUME Books, bin' = bin,
         \A x \in Orders : /\ order'[x].docstatus = order[x].docstatus
                           /\ order'[x].moved = order[x].moved,
         \A m \in Moves : move'[m].docstatus = "Submitted" <=> move[m].docstatus = "Submitted",
         NoReturnYet' => NoReturnYet
  PROVE  ReservedIsOpen' /\ MovedIsBacked' /\ OrdersFirst' /\ UntilReturned'
<1>1. \A o \in Orders : MovesOf(move', o) = MovesOf(move, o)
  BY DEF MovesOf
<1>2. \A o \in Orders : MovedOn(o)' = MovedOn(o)
  BY <1>1, SumsOfNow, SumsOfNext
<1>3. LeftOf(order') = LeftOf(order) /\ OpenOrders(order') = OpenOrders(order)
  BY DEF LeftOf, OpenOrders
<1>4. ReservedIsOpen'
  BY <1>3, SumsOfNow, SumsOfNext DEF Books
<1> QED BY <1>2, <1>4 DEF Books, MovedIsBacked, OrdersFirst, UntilReturned

\* A step that submits and cancels nothing and counts nothing keeps the books.
LEMMA NothingCounted ==
  ASSUME Books, UNCHANGED <<order, bin>>,
         move' \in [Moves -> MoveRow], bill' \in [Bills -> Phases \cup {"Absent"}],
         \A m \in Moves : /\ move'[m].docstatus = "Submitted" <=> move[m].docstatus = "Submitted"
                          /\ move'[m].billed = move[m].billed,
         \A b \in Bills : bill'[b] = "Submitted" <=> bill[b] = "Submitted",
         NoReturnYet' => NoReturnYet
  PROVE  Books'
<1>1. /\ \A o \in Orders : BillsOf(bill', o) = BillsOf(bill, o)
      /\ \A m \in Moves : BillsFor(bill', m) = BillsFor(bill, m)
  BY DEF BillsOf, BillsFor
<1>2. BilledIsExact'
  BY <1>1, SumsOfNow, SumsOfNext DEF Books, BilledIsExact
<1>3. ReservedIsOpen' /\ MovedIsBacked' /\ OrdersFirst' /\ UntilReturned'
  BY NothingMoved
<1> QED BY <1>2, <1>3 DEF Books

LEMMA SubmitMoveStep ==
  ASSUME NEW w, Clerks = {w}, IInv, SubmitMove(w)
  PROVE  Books'
<1>1. PICK m, o :
        /\ m \in Moves /\ o = Moving[m].order /\ o \in Orders \cup {Nil}
        /\ move[m].docstatus = "Draft" /\ MoveFits(m)
        /\ move' \in [Moves -> MoveRow] /\ move'[m].docstatus = "Submitted"
        /\ \A n \in Moves : move'[n].billed = move[n].billed
        /\ \A n \in Moves \ {m} : move'[n].docstatus = move[n].docstatus
        /\ order' \in [Orders -> OrderRow]
        /\ \A x \in Orders :
             /\ order'[x].docstatus = order[x].docstatus
             /\ order'[x].billed = order[x].billed
             /\ order'[x].moved = IF x = o THEN order[x].moved + Signed(m) ELSE order[x].moved
        /\ bill' = bill
        /\ bin' = IF o = Nil \/ IsReturn(m) THEN bin ELSE Atleast0(bin - Moving[m].qty)
  BY SubmitMoveWrites
<1>2. /\ order \in [Orders -> OrderRow] /\ bin \in Nat
      /\ \A x \in Orders : order[x].moved \in Int /\ order'[x].moved \in Int
      /\ Signed(m) \in Int /\ Moving[m].qty \in Nat /\ Moving[m].qty > 0
      /\ Signed(m) = IF IsReturn(m) THEN -Moving[m].qty ELSE Moving[m].qty
  BY <1>1, Quantity DEF IInv, Books, OrderRow
<1>3. ASSUME NEW x \in Orders, x = o
      PROVE  /\ order[x].docstatus = "Submitted"
             /\ order[x].moved + Signed(m) >= 0 /\ order[x].moved + Signed(m) <= Cap(x)
  <2>1. x # Nil
    BY CycleAssumption
  <2>2. order[x].docstatus = "Submitted" /\ WithinBounds(order[x].moved, Signed(m), Cap(x))
    BY <2>1, <1>1, <1>3 DEF MoveFits
  <2> QED BY <2>2 DEF WithinBounds
<1>4. \A x \in Orders : /\ MovedOn(x) \in Int
                        /\ MovedOn(x)' = MovedOn(x) + (IF x = o THEN Signed(m) ELSE 0)
  BY <1>1, MoveCounted
<1>5. BilledIsExact'
  BY <1>1 DEF IInv, Books, BilledIsExact, BilledOn, BilledFor
<1>6. MovedIsBacked'
  <2> SUFFICES ASSUME NEW x \in Orders
               PROVE  order'[x].moved >= 0 /\ order'[x].moved >= MovedOn(x)'
    BY DEF MovedIsBacked
  <2>1. order[x].moved >= 0 /\ order[x].moved >= MovedOn(x)
    BY DEF IInv, Books, MovedIsBacked
  <2> QED BY <2>1, <1>1, <1>2, <1>3, <1>4
<1>7. OrdersFirst'
  <2> SUFFICES ASSUME NEW x \in Orders, order'[x].docstatus = "Draft"
               PROVE  /\ order'[x].moved = 0
                      /\ \A n \in Moves : Moving[n].order = x => move'[n].docstatus # "Submitted"
    BY DEF OrdersFirst
  <2>1. order[x].docstatus = "Draft" /\ x # o
    BY <1>1, <1>3
  <2> QED BY <2>1, <1>1 DEF IInv, Books, OrdersFirst
<1>8. ASSUME NoReturnYet' PROVE NoReturnYet /\ ~IsReturn(m)
  BY <1>1, <1>8 DEF NoReturnYet
<1>9. UntilReturned'
  <2> SUFFICES ASSUME NoReturnYet', NEW x \in Orders
               PROVE  /\ order'[x].moved <= Cap(x)
                      /\ \A n \in Moves :
                           Moving[n].order = x /\ move'[n].docstatus = "Submitted"
                             => order'[x].docstatus = "Submitted"
    BY DEF UntilReturned
  <2>1. /\ order[x].moved <= Cap(x)
        /\ \A n \in Moves :
             Moving[n].order = x /\ move[n].docstatus = "Submitted"
               => order[x].docstatus = "Submitted"
    BY <1>8 DEF IInv, Books, UntilReturned
  <2> QED BY <2>1, <1>1, <1>3
<1>10. ReservedIsOpen'
  <2> SUFFICES ASSUME NoReturnYet'
               PROVE  bin' = SumFunctionOnSet(LeftOf(order'), OpenOrders(order'))
    BY SumsOfNext
  <2>1. bin = SumFunctionOnSet(LeftOf(order), OpenOrders(order)) /\ ~IsReturn(m)
    BY <1>8, SumsOfNow DEF IInv, Books
  <2>2. CASE o = Nil
    <3>1. /\ \A x \in Orders : order'[x].moved = order[x].moved
          /\ OpenOrders(order') = OpenOrders(order)
      BY <2>2, <1>1, CycleAssumption DEF OpenOrders
    <3>2. LeftOf(order') = LeftOf(order)
      BY <3>1 DEF LeftOf
    <3> QED BY <2>1, <2>2, <3>1, <3>2, <1>1
  <2>3. CASE o # Nil
    <3>1. o \in Orders
      BY <2>3, <1>1
    <3>2. /\ SumFunctionOnSet(LeftOf(order), OpenOrders(order)) \in Int
          /\ SumFunctionOnSet(LeftOf(order'), OpenOrders(order')) =
               SumFunctionOnSet(LeftOf(order), OpenOrders(order))
               + Part(order', o) - Part(order, o)
      BY <3>1, <1>1, <1>2, OrderChanges
    <3>3. SumFunctionOnSet(LeftOf(order), OpenOrders(order)) >= Part(order, o)
      <4>1. \A x \in Orders : order[x].moved \in Int /\ order[x].moved <= Cap(x)
        BY <1>2, <1>8 DEF IInv, Books, UntilReturned
      <4> QED BY <3>1, <4>1, OpenCovers
    <3>4. /\ Part(order, o) = Cap(o) - order[o].moved
          /\ Part(order', o) = Cap(o) - (order[o].moved + Moving[m].qty)
          /\ order[o].moved + Moving[m].qty <= Cap(o)
      BY <3>1, <2>1, <1>1, <1>2, <1>3 DEF Part
    <3>5. Cap(o) \in Nat /\ order[o].moved \in Int
      BY <3>1, <1>2, Quantity
    <3>6. bin' = Atleast0(bin - Moving[m].qty)
      BY <2>1, <2>3, <1>1
    <3>7. bin' = bin - Moving[m].qty
      BY <2>1, <3>3, <3>4, <3>5, <3>6, <1>2 DEF Atleast0
    <3> QED BY <2>1, <3>2, <3>4, <3>5, <3>7, <1>2
  <2> QED BY <2>2, <2>3
<1>11. bin' \in Nat
  BY <1>1, <1>2 DEF Atleast0
<1> QED BY <1>1, <1>5, <1>6, <1>7, <1>9, <1>10, <1>11 DEF IInv, Books

LEMMA CancelMoveStep ==
  ASSUME NEW w, Clerks = {w}, IInv, CancelMove(w)
  PROVE  Books'
<1>1. PICK m, o :
        /\ m \in Moves /\ o = Moving[m].order /\ o \in Orders \cup {Nil}
        /\ move[m].docstatus = "Submitted" /\ move[m].billed <= 0
        /\ move' \in [Moves -> MoveRow] /\ move'[m].docstatus = "Cancelled"
        /\ \A n \in Moves : move'[n].billed = move[n].billed
        /\ \A n \in Moves \ {m} : move'[n].docstatus = move[n].docstatus
        /\ order' \in [Orders -> OrderRow]
        /\ \A x \in Orders :
             /\ order'[x].docstatus = order[x].docstatus
             /\ order'[x].billed = order[x].billed
             /\ order'[x].moved = IF x = o THEN Atleast0(order[x].moved - Signed(m))
                                  ELSE order[x].moved
        /\ bill' = bill
        /\ bin' = IF o = Nil \/ IsReturn(m) THEN bin ELSE bin + Moving[m].qty
  BY CancelMoveWrites
<1>2. /\ order \in [Orders -> OrderRow] /\ bin \in Nat
      /\ \A x \in Orders : order[x].moved \in Int /\ order'[x].moved \in Int
      /\ Signed(m) \in Int /\ Moving[m].qty \in Nat /\ Moving[m].qty > 0
      /\ Signed(m) = IF IsReturn(m) THEN -Moving[m].qty ELSE Moving[m].qty
  BY <1>1, Quantity DEF IInv, Books, OrderRow
<1>3. \A x \in Orders : /\ MovedOn(x)' \in Int
                        /\ MovedOn(x) = MovedOn(x)' + (IF x = o THEN Signed(m) ELSE 0)
  BY <1>1, MoveUncounted
<1>4. \A x \in Orders : order[x].moved >= 0 /\ order[x].moved >= MovedOn(x)
  BY DEF IInv, Books, MovedIsBacked
<1>5. BilledIsExact'
  BY <1>1 DEF IInv, Books, BilledIsExact, BilledOn, BilledFor
<1>6. MovedIsBacked'
  <2> SUFFICES ASSUME NEW x \in Orders
               PROVE  order'[x].moved >= 0 /\ order'[x].moved >= MovedOn(x)'
    BY DEF MovedIsBacked
  <2> QED BY <1>1, <1>2, <1>3, <1>4 DEF Atleast0
<1>7. \A x \in Orders : x = o => order[x].docstatus # "Draft"
  BY <1>1 DEF IInv, Books, OrdersFirst
<1>8. OrdersFirst'
  BY <1>1, <1>7 DEF IInv, Books, OrdersFirst
<1>9. ASSUME NoReturnYet' PROVE NoReturnYet /\ ~IsReturn(m)
  BY <1>1, <1>9 DEF NoReturnYet
\* without returns the clamp does nothing
<1>10. ASSUME NoReturnYet', NEW x \in Orders, x = o
       PROVE  /\ order[x].docstatus = "Submitted"
              /\ order'[x].moved = order[x].moved - Moving[m].qty
  <2>1. m \in MovesOf(move, x) /\ \A n \in MovesOf(move, x) : ~IsReturn(n)
    BY <1>1, <1>9, <1>10 DEF MovesOf, NoReturnYet
  <2>2. MovedOn(x) >= Moving[m].qty
    BY <2>1, <1>1, EachIsCounted, SumsOfNow
  <2>3. order[x].docstatus = "Submitted"
    BY <1>1, <1>9, <1>10 DEF IInv, Books, UntilReturned
  <2>4. MovedOn(x) \in Int
    BY <1>2, <1>3
  <2>5. Signed(m) = Moving[m].qty
    BY <1>2, <1>9, <1>10
  <2>6. order[x].moved - Signed(m) \in Int /\ order[x].moved - Signed(m) >= 0
    BY <2>2, <2>4, <2>5, <1>2, <1>4
  <2>7. order'[x].moved = Atleast0(order[x].moved - Signed(m))
    BY <1>1, <1>10
  <2> QED BY <2>3, <2>5, <2>6, <2>7 DEF Atleast0
<1>11. UntilReturned'
  <2> SUFFICES ASSUME NoReturnYet', NEW x \in Orders
               PROVE  /\ order'[x].moved <= Cap(x)
                      /\ \A n \in Moves :
                           Moving[n].order = x /\ move'[n].docstatus = "Submitted"
                             => order'[x].docstatus = "Submitted"
    BY DEF UntilReturned
  <2>1. /\ order[x].moved <= Cap(x)
        /\ \A n \in Moves :
             Moving[n].order = x /\ move[n].docstatus = "Submitted"
               => order[x].docstatus = "Submitted"
    BY <1>9 DEF IInv, Books, UntilReturned
  <2>2. order'[x].moved <= Cap(x)
    BY <2>1, <1>1, <1>2, <1>10, Quantity
  <2> QED BY <2>1, <2>2, <1>1
<1>12. ReservedIsOpen'
  <2> SUFFICES ASSUME NoReturnYet'
               PROVE  bin' = SumFunctionOnSet(LeftOf(order'), OpenOrders(order'))
    BY SumsOfNext
  <2>1. bin = SumFunctionOnSet(LeftOf(order), OpenOrders(order)) /\ ~IsReturn(m)
    BY <1>9, SumsOfNow DEF IInv, Books
  <2>2. CASE o = Nil
    <3>1. /\ \A x \in Orders : order'[x].moved = order[x].moved
          /\ OpenOrders(order') = OpenOrders(order)
      BY <2>2, <1>1, CycleAssumption DEF OpenOrders
    <3>2. LeftOf(order') = LeftOf(order)
      BY <3>1 DEF LeftOf
    <3> QED BY <2>1, <2>2, <3>1, <3>2, <1>1
  <2>3. CASE o # Nil
    <3>1. o \in Orders
      BY <2>3, <1>1
    <3>2. /\ SumFunctionOnSet(LeftOf(order), OpenOrders(order)) \in Int
          /\ SumFunctionOnSet(LeftOf(order'), OpenOrders(order')) =
               SumFunctionOnSet(LeftOf(order), OpenOrders(order))
               + Part(order', o) - Part(order, o)
      BY <3>1, <1>1, <1>2, OrderChanges
    <3>3. /\ Part(order, o) = Cap(o) - order[o].moved
          /\ Part(order', o) = Cap(o) - (order[o].moved - Moving[m].qty)
      BY <3>1, <1>1, <1>10 DEF Part
    <3>4. Cap(o) \in Nat /\ order[o].moved \in Int
      BY <3>1, <1>2, Quantity
    <3>5. bin' = bin + Moving[m].qty
      BY <2>1, <2>3, <1>1
    <3> QED BY <2>1, <3>2, <3>3, <3>4, <3>5, <1>2
  <2> QED BY <2>2, <2>3
<1>13. bin' \in Nat
  BY <1>1, <1>2
<1> QED BY <1>1, <1>5, <1>6, <1>8, <1>11, <1>12, <1>13 DEF IInv, Books

LEMMA RowWithBilled ==
  ASSUME NEW r \in OrderRow, NEW n \in Int, NEW s \in Statuses
  PROVE  [r EXCEPT !.billed = n, !.status = s] \in OrderRow
BY DEF OrderRow

\* the columns a bill writes in its order and its movement
LinksWritten(b, q) ==
  /\ order' \in [Orders -> OrderRow]
  /\ \A x \in Orders :
       /\ order'[x].docstatus = order[x].docstatus
       /\ order'[x].moved = order[x].moved
       /\ order'[x].billed = order[x].billed + (IF Billing[b].order = x THEN q ELSE 0)
  /\ move' \in [Moves -> MoveRow]
  /\ \A n \in Moves :
       /\ move'[n].docstatus = move[n].docstatus
       /\ move'[n].billed = move[n].billed + (IF Billing[b].move = n THEN q ELSE 0)

LEMMA LinksWrite ==
  ASSUME order \in [Orders -> OrderRow], move \in [Moves -> MoveRow],
         NEW b \in Bills, NEW q \in Int, NEW ld,
         ld.order = order, \A n \in Moves : ld.move[n].billed = move[n].billed,
         ApplyLinks(b, q, ld)
  PROVE  LinksWritten(b, q)
<1>1. PICK o, m : o = Billing[b].order /\ m = Billing[b].move
  OBVIOUS
<1>2. o \in Orders \cup {Nil} /\ m \in Moves \cup {Nil} /\ Nil \notin Orders \cup Moves
  BY <1>1, BillingAssumption, CycleAssumption
<1>3. /\ \A x \in Orders : order[x].billed \in Int
      /\ \A n \in Moves : move[n].billed \in Int
  BY DEF OrderRow, MoveRow
<1>4. /\ order' \in [Orders -> OrderRow]
      /\ \A x \in Orders :
           /\ order'[x].docstatus = order[x].docstatus
           /\ order'[x].moved = order[x].moved
           /\ order'[x].billed = order[x].billed + (IF o = x THEN q ELSE 0)
  <2>1. CASE o = Nil
    <3>1. order' = order
      BY <2>1, <1>1 DEF ApplyLinks
    <3>2. \A x \in Orders : o # x
      BY <2>1, <1>2
    <3> QED BY <3>1, <3>2, <1>3
  <2>2. CASE o # Nil
    <3>1. o \in Orders
      BY <2>2, <1>2
    <3>2. \A moved, billed : StatusOf(o, moved, billed) \in Statuses
      BY DEF StatusOf, Statuses
    <3>3. PICK n, s :
            /\ n = order[o].billed + q
            /\ s = IF order[o].docstatus = "Submitted"
                   THEN StatusOf(o, order[o].moved, n) ELSE order[o].status
      OBVIOUS
    <3>4. order' = [order EXCEPT ![o].billed = n, ![o].status = s]
      BY <2>2, <3>3, <1>1 DEF ApplyLinks
    <3>5. /\ n = order[o].billed + q /\ n \in Int /\ s \in Statuses
          /\ order' = [order EXCEPT ![o].billed = n, ![o].status = s]
      BY <3>1, <3>2, <3>3, <3>4, <1>3 DEF OrderRow
    <3>6. /\ order' \in [Orders -> OrderRow]
          /\ \A x \in Orders :
               /\ order'[x].docstatus = order[x].docstatus
               /\ order'[x].moved = order[x].moved
               /\ order'[x].billed = IF x = o THEN n ELSE order[x].billed
      <4>2. \A x \in Orders : x # o => order'[x] = order[x]
        BY <3>5
      <4>3. order'[o] = [order[o] EXCEPT !.billed = n, !.status = s]
        BY <3>1, <3>5
      <4>4. order[o] \in OrderRow
        BY <3>1
      <4>a. order'[o] \in OrderRow
        BY <4>3, <4>4, <3>5, RowWithBilled
      <4>b. \A x \in Orders : order'[x] \in OrderRow
        BY <4>a, <4>2
      <4>1. order' \in [Orders -> OrderRow]
        BY <4>b, <3>5
      <4>5. /\ order'[o].docstatus = order[o].docstatus /\ order'[o].moved = order[o].moved
            /\ order'[o].billed = n
        BY <4>3, <4>4 DEF OrderRow
      <4> QED BY <4>1, <4>2, <4>5
    <3> QED BY <3>5, <3>6, <1>3
  <2> QED BY <2>1, <2>2
<1>5. /\ move' \in [Moves -> MoveRow]
      /\ \A n \in Moves :
           /\ move'[n].docstatus = move[n].docstatus
           /\ move'[n].billed = move[n].billed + (IF m = n THEN q ELSE 0)
  <2>1. CASE m = Nil
    <3>1. move' = move
      BY <2>1, <1>1 DEF ApplyLinks
    <3>2. \A n \in Moves : m # n
      BY <2>1, <1>2
    <3> QED BY <3>1, <3>2, <1>3
  <2>2. CASE m # Nil
    <3>1. m \in Moves
      BY <2>2, <1>2
    <3>2. move' = [move EXCEPT ![m].billed = move[m].billed + q]
      BY <2>2, <3>1, <1>1 DEF ApplyLinks
    <3> QED BY <3>1, <3>2, <1>3 DEF MoveRow
  <2> QED BY <2>1, <2>2
<1> QED BY <1>1, <1>4, <1>5 DEF LinksWritten

\* What submitting a bill writes.
LEMMA SubmitBillWrites ==
  ASSUME NEW w, Clerks = {w}, IInv, SubmitBill(w)
  PROVE  \E b :
           /\ b \in Bills /\ bill[b] = "Draft" /\ BillFits(b)
           /\ bill' \in [Bills -> Phases \cup {"Absent"}] /\ bill'[b] = "Submitted"
           /\ \A c \in Bills \ {b} : bill'[c] = bill[c]
           /\ order' \in [Orders -> OrderRow] /\ move' \in [Moves -> MoveRow]
           /\ \A x \in Orders :
                /\ order'[x].docstatus = order[x].docstatus
                /\ order'[x].moved = order[x].moved
                /\ order'[x].billed =
                     order[x].billed + (IF Billing[b].order = x THEN Billing[b].qty ELSE 0)
           /\ \A n \in Moves :
                /\ move'[n].docstatus = move[n].docstatus
                /\ move'[n].billed =
                     move[n].billed + (IF Billing[b].move = n THEN Billing[b].qty ELSE 0)
           /\ bin' = bin
<1>1. PICK b, q, ld : b = desk[w].doc /\ q = Billing[b].qty /\ ld = desk[w].loaded
  OBVIOUS
<1>2. Ready(w, "submit bill")
  BY DEF SubmitBill
<1>3. Stands("submit bill", b) /\ Current("submit bill", ld)
  BY <1>1, <1>2, Serving DEF IInv
<1>4. /\ b \in Bills /\ bill[b] = "Draft" /\ BillFits(b)
      /\ ld.order = order /\ \A n \in Moves : ld.move[n].billed = move[n].billed
  BY <1>3 DEF Stands, Current
<1>5. q \in Int
  BY <1>1, <1>4, BillingAssumption
<1>6. ApplyLinks(b, q, ld) /\ bill' = [bill EXCEPT ![b] = "Submitted"] /\ bin' = bin
  BY <1>1 DEF SubmitBill
<1>7. /\ bill' \in [Bills -> Phases \cup {"Absent"}] /\ bill'[b] = "Submitted"
      /\ \A c \in Bills \ {b} : bill'[c] = bill[c]
  BY <1>4, <1>6 DEF IInv, Books, Phases
<1>8. order \in [Orders -> OrderRow] /\ move \in [Moves -> MoveRow]
  BY DEF IInv, Books
<1>9. /\ order' \in [Orders -> OrderRow] /\ move' \in [Moves -> MoveRow]
      /\ \A x \in Orders :
           /\ order'[x].docstatus = order[x].docstatus
           /\ order'[x].moved = order[x].moved
           /\ order'[x].billed = order[x].billed + (IF Billing[b].order = x THEN q ELSE 0)
      /\ \A n \in Moves :
           /\ move'[n].docstatus = move[n].docstatus
           /\ move'[n].billed = move[n].billed + (IF Billing[b].move = n THEN q ELSE 0)
  <2>1. LinksWritten(b, q)
    BY <1>4, <1>5, <1>6, <1>8, LinksWrite
  <2> QED BY <2>1 DEF LinksWritten
<1> QED BY <1>1, <1>4, <1>6, <1>7, <1>9

\* What cancelling a bill writes.
LEMMA CancelBillWrites ==
  ASSUME NEW w, Clerks = {w}, IInv, CancelBill(w)
  PROVE  \E b :
           /\ b \in Bills /\ bill[b] = "Submitted"
           /\ \A c \in Bills : Billing[c].credits = b => bill[c] # "Submitted"
           /\ bill' \in [Bills -> Phases \cup {"Absent"}] /\ bill'[b] = "Cancelled"
           /\ \A c \in Bills \ {b} : bill'[c] = bill[c]
           /\ order' \in [Orders -> OrderRow] /\ move' \in [Moves -> MoveRow]
           /\ \A x \in Orders :
                /\ order'[x].docstatus = order[x].docstatus
                /\ order'[x].moved = order[x].moved
                /\ order'[x].billed =
                     order[x].billed + (IF Billing[b].order = x THEN -Billing[b].qty ELSE 0)
           /\ \A n \in Moves :
                /\ move'[n].docstatus = move[n].docstatus
                /\ move'[n].billed =
                     move[n].billed + (IF Billing[b].move = n THEN -Billing[b].qty ELSE 0)
           /\ bin' = bin
<1>1. PICK b, q, ld : b = desk[w].doc /\ q = -Billing[b].qty /\ ld = desk[w].loaded
  OBVIOUS
<1>2. Ready(w, "cancel bill")
  BY DEF CancelBill
<1>3. Stands("cancel bill", b) /\ Current("cancel bill", ld)
  BY <1>1, <1>2, Serving DEF IInv
<1>4. /\ b \in Bills /\ bill[b] = "Submitted"
      /\ \A c \in Bills : Billing[c].credits = b => bill[c] # "Submitted"
      /\ ld.order = order /\ \A n \in Moves : ld.move[n].billed = move[n].billed
  BY <1>3 DEF Stands, Current
<1>5. q \in Int
  BY <1>1, <1>4, BillingAssumption
<1>6. ApplyLinks(b, q, ld) /\ bill' = [bill EXCEPT ![b] = "Cancelled"] /\ bin' = bin
  BY <1>1 DEF CancelBill
<1>7. /\ bill' \in [Bills -> Phases \cup {"Absent"}] /\ bill'[b] = "Cancelled"
      /\ \A c \in Bills \ {b} : bill'[c] = bill[c]
  BY <1>4, <1>6 DEF IInv, Books, Phases
<1>8. order \in [Orders -> OrderRow] /\ move \in [Moves -> MoveRow]
  BY DEF IInv, Books
<1>9. /\ order' \in [Orders -> OrderRow] /\ move' \in [Moves -> MoveRow]
      /\ \A x \in Orders :
           /\ order'[x].docstatus = order[x].docstatus
           /\ order'[x].moved = order[x].moved
           /\ order'[x].billed = order[x].billed + (IF Billing[b].order = x THEN q ELSE 0)
      /\ \A n \in Moves :
           /\ move'[n].docstatus = move[n].docstatus
           /\ move'[n].billed = move[n].billed + (IF Billing[b].move = n THEN q ELSE 0)
  <2>1. LinksWritten(b, q)
    BY <1>4, <1>5, <1>6, <1>8, LinksWrite
  <2> QED BY <2>1 DEF LinksWritten
<1> QED BY <1>1, <1>4, <1>6, <1>7, <1>9

LEMMA SubmitBillStep ==
  ASSUME NEW w, Clerks = {w}, IInv, SubmitBill(w)
  PROVE  Books'
<1>1. PICK b :
        /\ b \in Bills /\ bill[b] = "Draft"
        /\ bill' \in [Bills -> Phases \cup {"Absent"}] /\ bill'[b] = "Submitted"
        /\ \A c \in Bills \ {b} : bill'[c] = bill[c]
        /\ order' \in [Orders -> OrderRow] /\ move' \in [Moves -> MoveRow]
        /\ \A x \in Orders :
             /\ order'[x].docstatus = order[x].docstatus
             /\ order'[x].moved = order[x].moved
             /\ order'[x].billed =
                  order[x].billed + (IF Billing[b].order = x THEN Billing[b].qty ELSE 0)
        /\ \A n \in Moves :
             /\ move'[n].docstatus = move[n].docstatus
             /\ move'[n].billed =
                  move[n].billed + (IF Billing[b].move = n THEN Billing[b].qty ELSE 0)
        /\ bin' = bin
  BY SubmitBillWrites
<1>2. NoReturnYet' => NoReturnYet
  BY <1>1 DEF NoReturnYet
<1>3. ReservedIsOpen' /\ MovedIsBacked' /\ OrdersFirst' /\ UntilReturned'
  BY <1>1, <1>2, NothingMoved DEF IInv
<1>4. /\ \A x \in Orders :
           BilledOn(x)' = BilledOn(x) + (IF Billing[b].order = x THEN Billing[b].qty ELSE 0)
      /\ \A n \in Moves :
           BilledFor(n)' = BilledFor(n) + (IF Billing[b].move = n THEN Billing[b].qty ELSE 0)
  BY <1>1, BillCounted
<1>5. BilledIsExact'
  BY <1>1, <1>4 DEF IInv, Books, BilledIsExact
<1> QED BY <1>1, <1>3, <1>5 DEF IInv, Books

LEMMA CancelBillStep ==
  ASSUME NEW w, Clerks = {w}, IInv, CancelBill(w)
  PROVE  Books'
<1>1. PICK b :
        /\ b \in Bills /\ bill[b] = "Submitted"
        /\ bill' \in [Bills -> Phases \cup {"Absent"}] /\ bill'[b] = "Cancelled"
        /\ \A c \in Bills \ {b} : bill'[c] = bill[c]
        /\ order' \in [Orders -> OrderRow] /\ move' \in [Moves -> MoveRow]
        /\ \A x \in Orders :
             /\ order'[x].docstatus = order[x].docstatus
             /\ order'[x].moved = order[x].moved
             /\ order'[x].billed =
                  order[x].billed + (IF Billing[b].order = x THEN -Billing[b].qty ELSE 0)
        /\ \A n \in Moves :
             /\ move'[n].docstatus = move[n].docstatus
             /\ move'[n].billed =
                  move[n].billed + (IF Billing[b].move = n THEN -Billing[b].qty ELSE 0)
        /\ bin' = bin
  BY CancelBillWrites
<1>2. NoReturnYet' => NoReturnYet
  BY <1>1 DEF NoReturnYet
<1>3. ReservedIsOpen' /\ MovedIsBacked' /\ OrdersFirst' /\ UntilReturned'
  BY <1>1, <1>2, NothingMoved DEF IInv
<1>4. /\ \A x \in Orders :
           /\ BilledOn(x)' \in Int
           /\ BilledOn(x) = BilledOn(x)' + (IF Billing[b].order = x THEN Billing[b].qty ELSE 0)
      /\ \A n \in Moves :
           /\ BilledFor(n)' \in Int
           /\ BilledFor(n) = BilledFor(n)' + (IF Billing[b].move = n THEN Billing[b].qty ELSE 0)
  BY <1>1, BillUncounted
<1>5. Billing[b].qty \in Int
  BY <1>1, BillingAssumption
<1>6. BilledIsExact'
  BY <1>1, <1>4, <1>5 DEF IInv, Books, BilledIsExact
<1> QED BY <1>1, <1>3, <1>6 DEF IInv, Books

LEMMA SubmitOrderWrites ==
  ASSUME NEW w, Clerks = {w}, IInv, SubmitOrder(w)
  PROVE  \E o :
           /\ o \in Orders /\ order[o].docstatus = "Draft"
           /\ order' \in [Orders -> OrderRow] /\ order'[o].docstatus = "Submitted"
           /\ \A x \in Orders : /\ order'[x].moved = order[x].moved
                                /\ order'[x].billed = order[x].billed
           /\ \A x \in Orders \ {o} : order'[x].docstatus = order[x].docstatus
           /\ bin' = bin + Cap(o)
           /\ UNCHANGED <<move, bill>>
<1>1. PICK o : o = desk[w].doc
  OBVIOUS
<1>2. o \in Orders /\ order[o].docstatus = "Draft"
  <2>1. Ready(w, "submit order")
    BY DEF SubmitOrder
  <2>2. Stands("submit order", o)
    BY <1>1, <2>1, Serving DEF IInv
  <2> QED BY <2>2 DEF Stands
<1>3. PICK s : /\ s \in Statuses
               /\ order' = [order EXCEPT ![o].docstatus = "Submitted", ![o].status = s]
  BY <1>1 DEF SubmitOrder, StatusOf, Statuses
<1>4. order \in [Orders -> OrderRow] /\ bin \in Nat /\ Cap(o) \in Nat
  BY <1>2, Quantity DEF IInv, Books
<1>5. bin' = bin + Cap(o)
  <2>1. Reserve(Cap(o))
    BY <1>1 DEF SubmitOrder
  <2> QED BY <2>1, <1>4 DEF Reserve, Atleast0
<1>6. /\ order' \in [Orders -> OrderRow] /\ order'[o].docstatus = "Submitted"
      /\ \A x \in Orders : /\ order'[x].moved = order[x].moved
                           /\ order'[x].billed = order[x].billed
      /\ \A x \in Orders \ {o} : order'[x].docstatus = order[x].docstatus
  BY <1>2, <1>3, <1>4 DEF OrderRow, Phases
<1> QED BY <1>2, <1>5, <1>6 DEF SubmitOrder

LEMMA CancelOrderWrites ==
  ASSUME NEW w, Clerks = {w}, IInv, CancelOrder(w)
  PROVE  \E o :
           /\ o \in Orders /\ order[o].docstatus = "Submitted"
           /\ order[o].moved = 0 /\ order[o].billed <= 0
           /\ order' \in [Orders -> OrderRow] /\ order'[o].docstatus = "Cancelled"
           /\ \A x \in Orders : /\ order'[x].moved = order[x].moved
                                /\ order'[x].billed = order[x].billed
           /\ \A x \in Orders \ {o} : order'[x].docstatus = order[x].docstatus
           /\ bin' = Atleast0(bin - Cap(o))
           /\ UNCHANGED <<move, bill>>
<1>1. PICK o : o = desk[w].doc
  OBVIOUS
<1>2. /\ o \in Orders /\ order[o].docstatus = "Submitted"
      /\ order[o].moved <= 0 /\ order[o].billed <= 0
  <2>1. Ready(w, "cancel order")
    BY DEF CancelOrder
  <2>2. Stands("cancel order", o)
    BY <1>1, <2>1, Serving DEF IInv
  <2> QED BY <2>2 DEF Stands
<1>3. order' = [order EXCEPT ![o].docstatus = "Cancelled", ![o].status = "Cancelled"]
  BY <1>1 DEF CancelOrder
<1>4. order \in [Orders -> OrderRow] /\ bin \in Nat /\ Cap(o) \in Nat
  BY <1>2, Quantity DEF IInv, Books
<1>5. order[o].moved = 0
  BY <1>2, <1>4 DEF IInv, Books, MovedIsBacked, OrderRow
<1>6. bin' = Atleast0(bin - Cap(o))
  <2>1. bin + (-Cap(o)) = bin - Cap(o)
    BY <1>4
  <2> QED BY <2>1, <1>1 DEF CancelOrder, Reserve
<1>7. /\ order' \in [Orders -> OrderRow] /\ order'[o].docstatus = "Cancelled"
      /\ \A x \in Orders : /\ order'[x].moved = order[x].moved
                           /\ order'[x].billed = order[x].billed
      /\ \A x \in Orders \ {o} : order'[x].docstatus = order[x].docstatus
  BY <1>2, <1>3, <1>4 DEF OrderRow, Phases, Statuses
<1> QED BY <1>2, <1>5, <1>6, <1>7 DEF CancelOrder

LEMMA SubmitOrderStep ==
  ASSUME NEW w, Clerks = {w}, IInv, SubmitOrder(w)
  PROVE  Books'
<1>1. PICK o :
        /\ o \in Orders /\ order[o].docstatus = "Draft"
        /\ order' \in [Orders -> OrderRow] /\ order'[o].docstatus = "Submitted"
        /\ \A x \in Orders : /\ order'[x].moved = order[x].moved
                             /\ order'[x].billed = order[x].billed
        /\ \A x \in Orders \ {o} : order'[x].docstatus = order[x].docstatus
        /\ bin' = bin + Cap(o)
        /\ UNCHANGED <<move, bill>>
  BY SubmitOrderWrites
<1>2. /\ \A x \in Orders : order[x].moved \in Int /\ order'[x].moved \in Int
      /\ bin \in Nat /\ Cap(o) \in Nat /\ order[o].moved = 0
  BY <1>1, Quantity DEF IInv, Books, OrderRow, OrdersFirst
<1>3. BilledIsExact' /\ MovedIsBacked' /\ OrdersFirst'
  <2>1. BilledIsExact'
    BY <1>1 DEF IInv, Books, BilledIsExact, BilledOn, BilledFor
  <2>2. MovedIsBacked'
    BY <1>1 DEF IInv, Books, MovedIsBacked, MovedOn
  <2>3. OrdersFirst'
    BY <1>1 DEF IInv, Books, OrdersFirst
  <2> QED BY <2>1, <2>2, <2>3
<1>4. NoReturnYet' => NoReturnYet
  BY <1>1 DEF NoReturnYet
<1>5. UntilReturned'
  BY <1>1, <1>4 DEF IInv, Books, UntilReturned
<1>6. ReservedIsOpen'
  <2>1. /\ SumFunctionOnSet(LeftOf(order), OpenOrders(order)) \in Int
        /\ SumFunctionOnSet(LeftOf(order'), OpenOrders(order')) =
             SumFunctionOnSet(LeftOf(order), OpenOrders(order)) + Part(order', o) - Part(order, o)
    BY <1>1, <1>2, OrderChanges
  <2>2. Part(order', o) = Cap(o) /\ Part(order, o) = 0
    BY <1>1, <1>2 DEF Part
  <2>3. NoReturnYet' => bin = SumFunctionOnSet(LeftOf(order), OpenOrders(order))
    BY <1>4, SumsOfNow DEF IInv, Books
  <2> QED BY <2>1, <2>2, <2>3, <1>1, <1>2, SumsOfNext
<1>7. bin' \in Nat
  BY <1>1, <1>2
<1> QED BY <1>1, <1>3, <1>5, <1>6, <1>7 DEF IInv, Books

LEMMA CancelOrderStep ==
  ASSUME NEW w, Clerks = {w}, IInv, CancelOrder(w)
  PROVE  Books'
<1>1. PICK o :
        /\ o \in Orders /\ order[o].docstatus = "Submitted" /\ order[o].moved = 0
        /\ order' \in [Orders -> OrderRow] /\ order'[o].docstatus = "Cancelled"
        /\ \A x \in Orders : /\ order'[x].moved = order[x].moved
                             /\ order'[x].billed = order[x].billed
        /\ \A x \in Orders \ {o} : order'[x].docstatus = order[x].docstatus
        /\ bin' = Atleast0(bin - Cap(o))
        /\ UNCHANGED <<move, bill>>
  BY CancelOrderWrites
<1>2. /\ \A x \in Orders : order[x].moved \in Int /\ order'[x].moved \in Int
      /\ bin \in Nat /\ Cap(o) \in Nat
  BY <1>1, Quantity DEF IInv, Books, OrderRow
<1>3. BilledIsExact' /\ MovedIsBacked' /\ OrdersFirst'
  <2>1. BilledIsExact'
    BY <1>1 DEF IInv, Books, BilledIsExact, BilledOn, BilledFor
  <2>2. MovedIsBacked'
    BY <1>1 DEF IInv, Books, MovedIsBacked, MovedOn
  <2>3. OrdersFirst'
    BY <1>1 DEF IInv, Books, OrdersFirst
  <2> QED BY <2>1, <2>2, <2>3
<1>4. NoReturnYet' => NoReturnYet
  BY <1>1 DEF NoReturnYet
\* a movement still submitted would have counted
<1>5. ASSUME NoReturnYet', NEW m \in Moves, Moving[m].order = o
      PROVE  move[m].docstatus # "Submitted"
  <2> SUFFICES ASSUME move[m].docstatus = "Submitted" PROVE FALSE
    OBVIOUS
  <2>1. m \in MovesOf(move, o) /\ \A n \in MovesOf(move, o) : ~IsReturn(n)
    BY <1>4, <1>5 DEF MovesOf, NoReturnYet
  <2>2. MovedOn(o) >= Moving[m].qty
    BY <2>1, <1>1, EachIsCounted, SumsOfNow
  <2>3. Moving[m].qty \in Nat /\ Moving[m].qty > 0
    BY Quantity
  <2>4. 0 >= MovedOn(o)
    BY <1>1 DEF IInv, Books, MovedIsBacked
  <2>5. MovedOn(o) \in Int
    <3>1. MovesOf(move, o) \in SUBSET Moves
      BY DEF MovesOf
    <3>2. IsFiniteSet(MovesOf(move, o)) /\ \A n \in MovesOf(move, o) : Signs[n] \in Int
      BY <3>1, CycleAssumption, FS_Subset, Quantity
    <3> QED BY <3>2, <1>1, SumIsInt, SumsOfNow
  <2> QED BY <2>2, <2>3, <2>4, <2>5
<1>6. UntilReturned'
  BY <1>1, <1>4, <1>5 DEF IInv, Books, UntilReturned
<1>7. ReservedIsOpen'
  <2> SUFFICES ASSUME NoReturnYet'
               PROVE  bin' = SumFunctionOnSet(LeftOf(order'), OpenOrders(order'))
    BY SumsOfNext
  <2>1. /\ SumFunctionOnSet(LeftOf(order), OpenOrders(order)) \in Int
        /\ SumFunctionOnSet(LeftOf(order'), OpenOrders(order')) =
             SumFunctionOnSet(LeftOf(order), OpenOrders(order)) + Part(order', o) - Part(order, o)
    BY <1>1, <1>2, OrderChanges
  <2>2. Part(order', o) = 0 /\ Part(order, o) = Cap(o)
    BY <1>1, <1>2 DEF Part
  <2>3. bin = SumFunctionOnSet(LeftOf(order), OpenOrders(order))
    BY <1>4, SumsOfNow DEF IInv, Books
  <2>4. SumFunctionOnSet(LeftOf(order), OpenOrders(order)) >= Part(order, o)
    <3>1. \A x \in Orders : order[x].moved \in Int /\ order[x].moved <= Cap(x)
      BY <1>2, <1>4 DEF IInv, Books, UntilReturned
    <3> QED BY <3>1, <1>1, OpenCovers
  <2>5. bin' = bin - Cap(o)
    BY <2>2, <2>3, <2>4, <1>1, <1>2 DEF Atleast0
  <2> QED BY <2>1, <2>2, <2>3, <2>5, <1>2
<1>8. bin' \in Nat
  BY <1>1, <1>2 DEF Atleast0
<1> QED BY <1>1, <1>3, <1>6, <1>7, <1>8 DEF IInv, Books

LEMMA CreateStep ==
  ASSUME NEW w, Clerks = {w}, IInv,
         (\E m \in Moves : CreateMove(m)) \/ (\E b \in Bills : CreateBill(b))
  PROVE  IInv'
<1>1. ASSUME NEW m \in Moves, CreateMove(m) PROVE IInv'
  <2>1. /\ move[m].docstatus = "Absent" /\ move' = [move EXCEPT ![m].docstatus = "Draft"]
        /\ UNCHANGED <<order, bill, bin, lock, desk>>
    BY <1>1 DEF CreateMove
  <2>2. move \in [Moves -> MoveRow]
    BY DEF IInv, Books
  <2>3. /\ move' \in [Moves -> MoveRow] /\ move'[m].docstatus = "Draft"
        /\ \A n \in Moves : move'[n].billed = move[n].billed
        /\ \A n \in Moves \ {m} : move'[n] = move[n]
    BY <2>1, <2>2 DEF MoveRow, Phases
  <2>4. NoReturnYet' => NoReturnYet
    BY <2>1, <2>3 DEF NoReturnYet
  <2>5. Books'
    BY <2>1, <2>3, <2>4, NothingCounted DEF IInv, Books
  <2>6. Desks'
    BY <2>1, <2>3, DraftDisturbsNobody DEF IInv
  <2> QED BY <2>5, <2>6 DEF IInv
<1>2. ASSUME NEW b \in Bills, CreateBill(b) PROVE IInv'
  <2>1. /\ bill[b] = "Absent" /\ bill' = [bill EXCEPT ![b] = "Draft"]
        /\ UNCHANGED <<order, move, bin, lock, desk>>
    BY <1>2 DEF CreateBill
  <2>2. bill \in [Bills -> Phases \cup {"Absent"}] /\ move \in [Moves -> MoveRow]
    BY DEF IInv, Books
  <2>3. /\ bill' \in [Bills -> Phases \cup {"Absent"}] /\ bill'[b] = "Draft"
        /\ \A c \in Bills \ {b} : bill'[c] = bill[c]
    BY <2>1, <2>2 DEF Phases
  <2>4. NoReturnYet' => NoReturnYet
    BY <2>1 DEF NoReturnYet
  <2>5. Books'
    BY <2>1, <2>2, <2>3, <2>4, NothingCounted DEF IInv
  <2>6. Desks'
    BY <2>1, <2>3, DraftDisturbsNobody DEF IInv
  <2> QED BY <2>5, <2>6 DEF IInv
<1> QED BY <1>1, <1>2

-----------------------------------------------------------------------------
(* Every step.                                                              *)

LEMMA NothingHappens ==
  ASSUME IInv, UNCHANGED <<order, move, bill, bin>>, Desks'
  PROVE  IInv'
<1>1. NoReturnYet' => NoReturnYet
  BY DEF NoReturnYet
<1>2. Books'
  BY <1>1, NothingCounted DEF IInv, Books
<1> QED BY <1>2 DEF IInv

LEMMA BeginStep ==
  ASSUME NEW w, Clerks = {w}, IInv,
         \/ \E o \in Orders : BeginSubmitOrder(w, o) \/ BeginCancelOrder(w, o)
         \/ \E m \in Moves : BeginSubmitMove(w, m) \/ BeginCancelMove(w, m)
         \/ \E b \in Bills : BeginSubmitBill(w, b) \/ BeginCancelBill(w, b)
  PROVE  IInv'
<1>1. PICK op, doc : Begin(w, op, doc) /\ Stands(op, doc)
  BY DEF BeginSubmitOrder, BeginCancelOrder, BeginSubmitMove, BeginCancelMove,
         BeginSubmitBill, BeginCancelBill, Stands
<1>2. Desks' /\ UNCHANGED <<order, move, bill, bin>>
  BY <1>1, BeginTakes DEF IInv
<1> QED BY <1>2, NothingHappens

\* Every step of the only clerk, or of nobody, is one of these.
LEMMA Steps ==
  ASSUME NEW w, Clerks = {w}, [TNext]_tvars
  PROVE  \/ UNCHANGED tvars
         \/ (\E m \in Moves : CreateMove(m)) \/ (\E b \in Bills : CreateBill(b))
         \/ \/ \E o \in Orders : BeginSubmitOrder(w, o) \/ BeginCancelOrder(w, o)
            \/ \E m \in Moves : BeginSubmitMove(w, m) \/ BeginCancelMove(w, m)
            \/ \E b \in Bills : BeginSubmitBill(w, b) \/ BeginCancelBill(w, b)
         \/ LockBin(w) \/ LoadCounters(w)
         \/ SubmitOrder(w) \/ CancelOrder(w)
         \/ SubmitMove(w) \/ CancelMove(w)
         \/ SubmitBill(w) \/ CancelBill(w)
         \/ Abandon(w)
BY DEF TNext

LEMMA Initial == ASSUME TInit PROVE IInv
<1>1. /\ order \in [Orders -> OrderRow] /\ move \in [Moves -> MoveRow]
      /\ bill \in [Bills -> Phases \cup {"Absent"}] /\ bin = 0
  BY DEF TInit, OrderRow, MoveRow, Phases, Statuses
<1>2. /\ \A o \in Orders : MovesOf(move, o) = {} /\ BillsOf(bill, o) = {}
      /\ \A m \in Moves : BillsFor(bill, m) = {}
      /\ OpenOrders(order) = {}
  BY DEF TInit, MovesOf, BillsOf, BillsFor, OpenOrders
<1>3. /\ \A o \in Orders : MovedOn(o) = 0 /\ BilledOn(o) = 0
      /\ \A m \in Moves : BilledFor(m) = 0
      /\ SumFunctionOnSet(LeftOf(order), OpenOrders(order)) = 0
  BY <1>2, SumsOfNow, SumOfEmpty
<1>4. /\ \A o \in Orders : /\ order[o].docstatus = "Draft"
                           /\ order[o].moved = 0 /\ order[o].billed = 0
      /\ \A m \in Moves : move[m].docstatus = "Absent" /\ move[m].billed = 0
  BY DEF TInit
<1>5. BilledIsExact /\ ReservedIsOpen
  BY <1>1, <1>3, <1>4, SumsOfNow DEF BilledIsExact
<1>6. MovedIsBacked /\ OrdersFirst /\ UntilReturned
  BY <1>3, <1>4, Quantity DEF MovedIsBacked, OrdersFirst, UntilReturned
<1>7. Desks
  BY DEF TInit, Desks, InHand
<1> QED BY <1>1, <1>5, <1>6, <1>7 DEF IInv, Books

LEMMA Inductive ==
  ASSUME NEW w, Clerks = {w}, IInv, [TNext]_tvars
  PROVE  IInv'
<1>1. CASE UNCHANGED tvars
  <2>1. UNCHANGED <<order, move, bill, bin>> /\ Desks'
    BY <1>1, DraftDisturbsNobody DEF tvars, IInv
  <2> QED BY <2>1, NothingHappens
<1>2. CASE (\E m \in Moves : CreateMove(m)) \/ (\E b \in Bills : CreateBill(b))
  BY <1>2, CreateStep
<1>3. CASE \/ \E o \in Orders : BeginSubmitOrder(w, o) \/ BeginCancelOrder(w, o)
           \/ \E m \in Moves : BeginSubmitMove(w, m) \/ BeginCancelMove(w, m)
           \/ \E b \in Bills : BeginSubmitBill(w, b) \/ BeginCancelBill(w, b)
  BY <1>3, BeginStep
<1>4. CASE LockBin(w) \/ LoadCounters(w)
  <2>1. Desks' /\ UNCHANGED <<order, move, bill, bin>>
    BY <1>4, LoadingIsCurrent DEF IInv
  <2> QED BY <2>1, NothingHappens
<1>5. ASSUME End(w) PROVE Desks'
  BY <1>5, EndLeaves DEF IInv
<1>6. CASE SubmitOrder(w) \/ CancelOrder(w)
  <2>1. Books'
    BY <1>6, SubmitOrderStep, CancelOrderStep
  <2>2. Desks'
    BY <1>5, <1>6 DEF SubmitOrder, CancelOrder
  <2> QED BY <2>1, <2>2 DEF IInv
<1>7. CASE SubmitMove(w) \/ CancelMove(w)
  <2>1. Books'
    BY <1>7, SubmitMoveStep, CancelMoveStep
  <2>2. Desks'
    BY <1>5, <1>7 DEF SubmitMove, CancelMove
  <2> QED BY <2>1, <2>2 DEF IInv
<1>8. CASE SubmitBill(w) \/ CancelBill(w)
  <2>1. Books'
    BY <1>8, SubmitBillStep, CancelBillStep
  <2>2. Desks'
    BY <1>5, <1>8 DEF SubmitBill, CancelBill
  <2> QED BY <2>1, <2>2 DEF IInv
<1>9. CASE Abandon(w)
  BY <1>5, <1>9, NothingHappens DEF Abandon
<1> QED BY <1>1, <1>2, <1>3, <1>4, <1>6, <1>7, <1>8, <1>9, Steps

LEMMA Implied == ASSUME IInv PROVE DocumentsAddUp
<1>1. order \in [Orders -> [docstatus : Phases, moved : Int, billed : Int,
                            status : {"Draft", "Cancelled", "Completed", "To Bill",
                                      "To Move", "To Move and Bill"}]]
  BY DEF IInv, Books, OrderRow, Statuses
<1>2. move \in [Moves -> [docstatus : Phases \cup {"Absent"}, billed : Int]]
  BY DEF IInv, Books, MoveRow
<1>3. ASSUME NEW v \in Clerks, desk[v] # Away
      PROVE  [op |-> desk[v].op, doc |-> desk[v].doc] \in Request
  <2>1. PICK op, doc, ready, loaded :
          /\ desk[v] = [op |-> op, doc |-> doc, ready |-> ready, loaded |-> loaded]
          /\ Stands(op, doc)
    BY <1>3 DEF IInv, Desks, InHand
  <2>2. /\ op \in {"submit order", "cancel order", "submit move", "cancel move",
                   "submit bill", "cancel bill"}
        /\ doc \in Orders \cup Moves \cup Bills
    BY <2>1 DEF Stands
  <2>3. desk[v].op = op /\ desk[v].doc = doc
    BY ONLY <2>1
  <2> QED BY <2>2, <2>3 DEF Request
<1> QED BY <1>1, <1>2, <1>3 DEF IInv, Books, Desks, DocumentsAddUp, TradeTypes

LEMMA Always ==
  ASSUME NEW w, Clerks = {w}
  PROVE  TSpec => []IInv
<1>1. TInit => IInv
  BY Initial
<1>2. IInv /\ [TNext]_tvars => IInv'
  BY Inductive
<1> QED BY <1>1, <1>2, PTL DEF TSpec

\* One request at a time, the billed counters of orders and movements are what
\* the submitted bills and credit notes add up to and, until a return is posted,
\* the bin reserves what the submitted orders have not moved, whatever is
\* submitted and cancelled in whatever order (_apply_cycle_links,
\* update_reserved_qty and update_ordered_qty with their floor at zero).
THEOREM DocumentsAgree ==
  ASSUME NEW w, Clerks = {w}
  PROVE  TSpec => []DocumentsAddUp
<1>1. IInv => DocumentsAddUp
  BY Implied
<1> QED BY <1>1, Always, PTL

-----------------------------------------------------------------------------
(* What a step may never do.                                                *)

LEMMA DriftStep ==
  ASSUME NEW w, Clerks = {w}, IInv, TNext, NEW x \in Orders, MovedDrift(x)' # MovedDrift(x)
  PROVE  \E m, r \in Moves :
           /\ Moving[m].order = x /\ ~IsReturn(m)
           /\ move[m].docstatus = "Submitted" /\ move'[m].docstatus = "Cancelled"
           /\ Moving[r].order = x /\ IsReturn(r) /\ move[r].docstatus = "Submitted"
<1>1. /\ order[x].moved \in Int /\ order[x].moved >= 0
      /\ order[x].moved >= MovedOn(x)
  BY DEF IInv, Books, OrderRow, MovedIsBacked
<1>2. ~(order'[x].moved = order[x].moved /\ MovedOn(x)' = MovedOn(x))
  BY DEF MovedDrift
<1>3. CASE SubmitMove(w)
  <2>1. PICK m :
          /\ m \in Moves /\ move[m].docstatus = "Draft" /\ move'[m].docstatus = "Submitted"
          /\ \A n \in Moves \ {m} : move'[n].docstatus = move[n].docstatus
          /\ order'[x].moved = IF x = Moving[m].order THEN order[x].moved + Signed(m)
                               ELSE order[x].moved
    BY <1>3, SubmitMoveWrites
  <2>2. /\ MovedOn(x) \in Int
        /\ MovedOn(x)' = MovedOn(x) + (IF Moving[m].order = x THEN Signed(m) ELSE 0)
    BY <2>1, MoveCounted
  <2>3. Signed(m) \in Int
    BY <2>1, Quantity
  <2> QED BY <2>1, <2>2, <2>3, <1>1 DEF MovedDrift
<1>4. CASE CancelMove(w)
  <2>1. PICK m :
          /\ m \in Moves /\ move[m].docstatus = "Submitted" /\ move'[m].docstatus = "Cancelled"
          /\ \A n \in Moves \ {m} : move'[n].docstatus = move[n].docstatus
          /\ order'[x].moved = IF x = Moving[m].order THEN Atleast0(order[x].moved - Signed(m))
                               ELSE order[x].moved
    BY <1>4, CancelMoveWrites
  <2>2. /\ MovedOn(x)' \in Int
        /\ MovedOn(x) = MovedOn(x)' + (IF Moving[m].order = x THEN Signed(m) ELSE 0)
    BY <2>1, MoveUncounted
  <2>3. /\ Signed(m) \in Int /\ Moving[m].qty \in Nat
        /\ Signed(m) = IF IsReturn(m) THEN -Moving[m].qty ELSE Moving[m].qty
    BY <2>1, Quantity
  \* the clamp took something away
  <2>4. Moving[m].order = x /\ ~(order[x].moved - Signed(m) >= 0)
    BY <2>1, <2>2, <2>3, <1>1, <1>2 DEF MovedDrift, Atleast0
  <2>5. ~IsReturn(m) /\ ~(MovedOn(x) >= Moving[m].qty)
    BY <2>2, <2>3, <2>4, <1>1
  <2>6. m \in MovesOf(move, x)
    BY <2>1, <2>4 DEF MovesOf
  <2>7. PICK r : r \in MovesOf(move, x) /\ IsReturn(r)
    BY <2>1, <2>5, <2>6, EachIsCounted, SumsOfNow
  <2> QED BY <2>1, <2>4, <2>5, <2>7 DEF MovesOf
<1>5. ASSUME \A y \in Orders : order'[y].moved = order[y].moved,
             \A n \in Moves : move'[n].docstatus = "Submitted" <=> move[n].docstatus = "Submitted"
      PROVE  FALSE
  <2>1. MovesOf(move', x) = MovesOf(move, x)
    BY <1>5 DEF MovesOf
  <2>2. MovedOn(x)' = MovedOn(x)
    BY <2>1, SumsOfNow, SumsOfNext
  <2> QED BY <2>2, <1>2, <1>5
<1>6. CASE SubmitOrder(w) \/ CancelOrder(w)
  BY <1>5, <1>6, SubmitOrderWrites, CancelOrderWrites
<1>7. CASE SubmitBill(w) \/ CancelBill(w)
  BY <1>5, <1>7, SubmitBillWrites, CancelBillWrites
<1>8. CASE \E m \in Moves : CreateMove(m)
  <2>1. PICK m \in Moves : CreateMove(m)
    BY <1>8
  <2>2. /\ move[m].docstatus = "Absent" /\ order' = order
        /\ move' = [move EXCEPT ![m].docstatus = "Draft"]
    BY <2>1 DEF CreateMove
  <2>3. move \in [Moves -> MoveRow]
    BY DEF IInv, Books
  <2>4. \A n \in Moves : move'[n].docstatus = "Submitted" <=> move[n].docstatus = "Submitted"
    BY <2>1, <2>2, <2>3 DEF MoveRow
  <2> QED BY <2>2, <2>4, <1>5
<1>9. ASSUME UNCHANGED <<order, move>> PROVE FALSE
  BY <1>5, <1>9
<1>10. UNCHANGED tvars => UNCHANGED <<order, move>>
  BY DEF tvars
<1>11. /\ \A b \in Bills : CreateBill(b) => UNCHANGED <<order, move>>
       /\ LockBin(w) => UNCHANGED <<order, move>>
       /\ LoadCounters(w) => UNCHANGED <<order, move>>
       /\ Abandon(w) => UNCHANGED <<order, move>>
       /\ \A op, doc : Begin(w, op, doc) => UNCHANGED <<order, move>>
  BY DEF CreateBill, LockBin, LoadCounters, Abandon, Begin
<1>12. CASE \/ \E o \in Orders : BeginSubmitOrder(w, o) \/ BeginCancelOrder(w, o)
            \/ \E m \in Moves : BeginSubmitMove(w, m) \/ BeginCancelMove(w, m)
            \/ \E b \in Bills : BeginSubmitBill(w, b) \/ BeginCancelBill(w, b)
  <2>1. \E op, doc : Begin(w, op, doc)
    BY <1>12 DEF BeginSubmitOrder, BeginCancelOrder, BeginSubmitMove, BeginCancelMove,
                 BeginSubmitBill, BeginCancelBill
  <2> QED BY <2>1, <1>9, <1>11
<1> QED BY <1>3, <1>4, <1>6, <1>7, <1>8, <1>9, <1>10, <1>11, <1>12, Steps

\* A bill that is no credit note is cancelled while no credit note for another
\* bill shares its counters: what is left of each counter is a sum of bills.
LEMMA BillsLeft ==
  ASSUME NEW S \in SUBSET Bills, \A c \in S : Billing[c].qty > 0
  PROVE  SumFunctionOnSet(Quantities, S) \in Nat
<1>1. IsFiniteSet(S) /\ \A c \in S : Quantities[c] \in Nat
  BY CycleAssumption, FS_Subset, Quantity
<1> QED BY <1>1, SumOfPart

LEMMA OverrunStep ==
  ASSUME NEW w, Clerks = {w}, IInv, IInv', TNext, WithinCaps, ~WithinCaps'
  PROVE  \/ \E m \in Moves : IsReturn(m) /\ move[m].docstatus = "Submitted"
                             /\ move'[m].docstatus = "Cancelled"
         \/ \E b \in Bills :
              /\ bill[b] = "Submitted" /\ bill'[b] = "Cancelled"
              /\ \/ Billing[b].credits # Nil
                 \/ \E c \in Bills : /\ Billing[c].credits \notin {Nil, b}
                                     /\ bill[c] = "Submitted" /\ CountedTogether(b, c)
<1>1. /\ \A x \in Orders :
           /\ order[x].moved \in Int /\ order[x].billed \in Int
           /\ order[x].moved >= 0 /\ order[x].moved <= Cap(x)
           /\ order[x].billed >= 0 /\ order[x].billed <= Ordered[x]
           /\ order[x].docstatus # "Submitted" => order[x].moved = 0 /\ order[x].billed = 0
           /\ Cap(x) \in Nat /\ Ordered[x] \in Nat
      /\ \A n \in Moves :
           /\ move[n].billed \in Int /\ Moving[n].qty \in Nat
           /\ move[n].billed >= 0 /\ move[n].billed <= Moving[n].qty
           /\ move[n].docstatus # "Submitted" => move[n].billed = 0
  BY Quantity DEF WithinCaps, IInv, Books, OrderRow, MoveRow, MovedIsBacked
\* the bounds, as inequalities
<1>2. ASSUME \A x \in Orders :
               /\ order'[x].moved <= Cap(x)
               /\ order'[x].billed >= 0 /\ order'[x].billed <= Ordered[x]
               /\ order'[x].docstatus # "Submitted"
                    => order'[x].moved = 0 /\ order'[x].billed = 0,
             \A n \in Moves :
               /\ move'[n].billed >= 0 /\ move'[n].billed <= Moving[n].qty
               /\ move'[n].docstatus # "Submitted" => move'[n].billed = 0
      PROVE  FALSE
  <2>1. /\ \A x \in Orders : order'[x].billed \in Int /\ Ordered[x] \in Nat
        /\ \A n \in Moves : move'[n].billed \in Int /\ Moving[n].qty \in Nat
    BY Quantity DEF IInv, Books, OrderRow, MoveRow
  <2> QED BY <2>1, <1>2 DEF WithinCaps
<1>3. CASE SubmitOrder(w)
  BY <1>1, <1>2, <1>3, SubmitOrderWrites
<1>4. CASE CancelOrder(w)
  <2>1. PICK o :
          /\ o \in Orders /\ order[o].moved = 0 /\ order[o].billed <= 0
          /\ \A x \in Orders : /\ order'[x].moved = order[x].moved
                               /\ order'[x].billed = order[x].billed
          /\ \A x \in Orders \ {o} : order'[x].docstatus = order[x].docstatus
          /\ UNCHANGED <<move, bill>>
    BY <1>4, CancelOrderWrites
  <2>2. order[o].billed = 0
    BY <2>1, <1>1
  <2> QED BY <2>1, <2>2, <1>1, <1>2
<1>5. CASE SubmitMove(w)
  <2>1. PICK m, o :
          /\ m \in Moves /\ o = Moving[m].order /\ o \in Orders \cup {Nil} /\ MoveFits(m)
          /\ move[m].docstatus = "Draft" /\ move'[m].docstatus = "Submitted"
          /\ \A n \in Moves : move'[n].billed = move[n].billed
          /\ \A n \in Moves \ {m} : move'[n].docstatus = move[n].docstatus
          /\ \A x \in Orders :
               /\ order'[x].docstatus = order[x].docstatus
               /\ order'[x].billed = order[x].billed
               /\ order'[x].moved = IF x = o THEN order[x].moved + Signed(m) ELSE order[x].moved
    BY <1>5, SubmitMoveWrites
  <2>2. ASSUME NEW x \in Orders, x = o
        PROVE  order[x].docstatus = "Submitted" /\ order[x].moved + Signed(m) <= Cap(x)
    BY <2>1, <2>2, CycleAssumption DEF MoveFits, WithinBounds
  <2> QED BY <2>1, <2>2, <1>1, <1>2
<1>6. CASE CancelMove(w)
  <2>1. PICK m, o :
          /\ m \in Moves /\ o = Moving[m].order /\ move[m].billed <= 0
          /\ move[m].docstatus = "Submitted" /\ move'[m].docstatus = "Cancelled"
          /\ \A n \in Moves : move'[n].billed = move[n].billed
          /\ \A n \in Moves \ {m} : move'[n].docstatus = move[n].docstatus
          /\ \A x \in Orders :
               /\ order'[x].docstatus = order[x].docstatus
               /\ order'[x].billed = order[x].billed
               /\ order'[x].moved = IF x = o THEN Atleast0(order[x].moved - Signed(m))
                                    ELSE order[x].moved
    BY <1>6, CancelMoveWrites
  <2>2. CASE IsReturn(m)
    BY <2>1, <2>2
  <2>3. CASE ~IsReturn(m)
    <3>1. Signed(m) = Moving[m].qty /\ Moving[m].qty \in Nat
      BY <2>1, <2>3, Quantity
    <3>2. \A x \in Orders :
            /\ order'[x].moved <= Cap(x)
            /\ order[x].docstatus # "Submitted" => order'[x].moved = 0
      BY <2>1, <3>1, <1>1 DEF Atleast0
    <3>3. move[m].billed = 0
      BY <2>1, <1>1
    <3> QED BY <2>1, <3>2, <3>3, <1>1, <1>2
  <2> QED BY <2>2, <2>3
<1>7. CASE SubmitBill(w)
  <2>1. PICK b :
          /\ b \in Bills /\ BillFits(b)
          /\ \A x \in Orders :
               /\ order'[x].docstatus = order[x].docstatus
               /\ order'[x].moved = order[x].moved
               /\ order'[x].billed =
                    order[x].billed + (IF Billing[b].order = x THEN Billing[b].qty ELSE 0)
          /\ \A n \in Moves :
               /\ move'[n].docstatus = move[n].docstatus
               /\ move'[n].billed =
                    move[n].billed + (IF Billing[b].move = n THEN Billing[b].qty ELSE 0)
    BY <1>7, SubmitBillWrites
  <2>2. Billing[b].qty \in Int /\ Nil \notin Orders \cup Moves
    BY <2>1, Quantity, CycleAssumption
  <2>3. ASSUME NEW x \in Orders
        PROVE  /\ order'[x].billed >= 0 /\ order'[x].billed <= Ordered[x]
               /\ order[x].docstatus # "Submitted" => order'[x].billed = 0
    <3>1. Billing[b].order = x =>
            /\ order[x].docstatus = "Submitted"
            /\ 0 <= order[x].billed + Billing[b].qty
            /\ order[x].billed + Billing[b].qty <= Ordered[x]
      BY <2>1, <2>2 DEF BillFits, WithinBounds
    <3> QED BY <2>1, <2>2, <3>1, <1>1
  <2>4. ASSUME NEW n \in Moves
        PROVE  /\ move'[n].billed >= 0 /\ move'[n].billed <= Moving[n].qty
               /\ move[n].docstatus # "Submitted" => move'[n].billed = 0
    <3>1. Billing[b].move = n =>
            /\ move[n].docstatus = "Submitted"
            /\ 0 <= move[n].billed + Billing[b].qty
            /\ move[n].billed + Billing[b].qty <= Moving[n].qty
      BY <2>1, <2>2 DEF BillFits, WithinBounds
    <3> QED BY <2>1, <2>2, <3>1, <1>1
  <2> QED BY <2>1, <2>3, <2>4, <1>1, <1>2
<1>8. CASE CancelBill(w)
  <2>1. PICK b :
          /\ b \in Bills /\ bill[b] = "Submitted" /\ bill'[b] = "Cancelled"
          /\ \A c \in Bills : Billing[c].credits = b => bill[c] # "Submitted"
          /\ \A c \in Bills \ {b} : bill'[c] = bill[c]
          /\ \A x \in Orders :
               /\ order'[x].docstatus = order[x].docstatus
               /\ order'[x].moved = order[x].moved
               /\ order'[x].billed =
                    order[x].billed + (IF Billing[b].order = x THEN -Billing[b].qty ELSE 0)
          /\ \A n \in Moves :
               /\ move'[n].docstatus = move[n].docstatus
               /\ move'[n].billed =
                    move[n].billed + (IF Billing[b].move = n THEN -Billing[b].qty ELSE 0)
    BY <1>8, CancelBillWrites
  <2> SUFFICES ASSUME Billing[b].credits = Nil,
                      \A c \in Bills : Billing[c].credits \notin {Nil, b} /\ bill[c] = "Submitted"
                                         => ~CountedTogether(b, c)
               PROVE  FALSE
    BY <2>1
  <2>2. Billing[b].qty \in Nat /\ Billing[b].qty > 0
    BY <2>1, BillingAssumption
  \* every bill that still counts on a counter of b adds to it
  <2>3. ASSUME NEW c \in Bills, bill'[c] = "Submitted", CountedTogether(b, c)
        PROVE  Billing[c].qty > 0
    <3>1. c # b /\ bill[c] = "Submitted"
      BY <2>1, <2>3
    <3>2. Billing[c].credits # b
      BY <2>1, <3>1
    <3>3. Billing[c].credits = Nil
      BY <2>3, <3>1, <3>2
    <3> QED BY <3>3, BillingAssumption
  <2>4. ASSUME NEW x \in Orders, Billing[b].order = x
        PROVE  order'[x].billed >= 0
    <3>1. PICK S : S = BillsOf(bill', x)
      OBVIOUS
    <3>2. S \in SUBSET Bills /\ \A c \in S : Billing[c].qty > 0
      BY <2>3, <2>4, <3>1, CycleAssumption DEF BillsOf, CountedTogether
    <3>3. SumFunctionOnSet(Quantities, S) \in Nat
      BY <3>2, BillsLeft
    <3>4. order'[x].billed = SumFunctionOnSet(Quantities, S)
      BY <3>1, SumsOfNext DEF IInv, Books, BilledIsExact
    <3> QED BY <3>3, <3>4
  <2>5. ASSUME NEW n \in Moves, Billing[b].move = n
        PROVE  move'[n].billed >= 0
    <3>1. PICK S : S = BillsFor(bill', n)
      OBVIOUS
    <3>2. S \in SUBSET Bills /\ \A c \in S : Billing[c].qty > 0
      BY <2>3, <2>5, <3>1, CycleAssumption DEF BillsFor, CountedTogether
    <3>3. SumFunctionOnSet(Quantities, S) \in Nat
      BY <3>2, BillsLeft
    <3>4. move'[n].billed = SumFunctionOnSet(Quantities, S)
      BY <3>1, SumsOfNext DEF IInv, Books, BilledIsExact
    <3> QED BY <3>3, <3>4
  <2>6. ASSUME NEW x \in Orders
        PROVE  /\ order'[x].billed >= 0 /\ order'[x].billed <= Ordered[x]
               /\ order[x].docstatus # "Submitted" => order'[x].billed = 0
    BY <2>1, <2>2, <2>4, <1>1
  <2>7. ASSUME NEW n \in Moves
        PROVE  /\ move'[n].billed >= 0 /\ move'[n].billed <= Moving[n].qty
               /\ move[n].docstatus # "Submitted" => move'[n].billed = 0
    BY <2>1, <2>2, <2>5, <1>1
  <2> QED BY <2>1, <2>6, <2>7, <1>1, <1>2
<1>9. ASSUME order' = order,
             \A n \in Moves : /\ move'[n].billed = move[n].billed
                              /\ move'[n].docstatus # "Submitted" => move[n].docstatus # "Submitted"
      PROVE  FALSE
  BY <1>1, <1>2, <1>9
<1>10. CASE \E m \in Moves : CreateMove(m)
  <2>1. PICK m \in Moves : CreateMove(m)
    BY <1>10
  <2>2. /\ move[m].docstatus = "Absent" /\ order' = order
        /\ move' = [move EXCEPT ![m].docstatus = "Draft"]
    BY <2>1 DEF CreateMove
  <2>3. move \in [Moves -> MoveRow]
    BY DEF IInv, Books
  <2>4. \A n \in Moves : /\ move'[n].billed = move[n].billed
                         /\ move'[n].docstatus # "Submitted" => move[n].docstatus # "Submitted"
    BY <2>1, <2>2, <2>3 DEF MoveRow
  <2> QED BY <2>2, <2>4, <1>9
<1>11. ASSUME UNCHANGED <<order, move>> PROVE FALSE
  BY <1>9, <1>11
<1>12. /\ UNCHANGED tvars => UNCHANGED <<order, move>>
       /\ \A b \in Bills : CreateBill(b) => UNCHANGED <<order, move>>
       /\ LockBin(w) => UNCHANGED <<order, move>>
       /\ LoadCounters(w) => UNCHANGED <<order, move>>
       /\ Abandon(w) => UNCHANGED <<order, move>>
       /\ \A op, doc : Begin(w, op, doc) => UNCHANGED <<order, move>>
  BY DEF tvars, CreateBill, LockBin, LoadCounters, Abandon, Begin
<1>13. CASE \/ \E o \in Orders : BeginSubmitOrder(w, o) \/ BeginCancelOrder(w, o)
            \/ \E m \in Moves : BeginSubmitMove(w, m) \/ BeginCancelMove(w, m)
            \/ \E b \in Bills : BeginSubmitBill(w, b) \/ BeginCancelBill(w, b)
  <2>1. \E op, doc : Begin(w, op, doc)
    BY <1>13 DEF BeginSubmitOrder, BeginCancelOrder, BeginSubmitMove, BeginCancelMove,
                 BeginSubmitBill, BeginCancelBill
  <2> QED BY <2>1, <1>11, <1>12
<1> QED BY <1>3, <1>4, <1>5, <1>6, <1>7, <1>8, <1>10, <1>11, <1>12, <1>13, Steps

\* One request at a time, what an order counts as moved departs from its
\* submitted movements only when a delivery is cancelled under a standing
\* return, where delivery_note.py clamps the counter at zero.
THEOREM DriftNeedsAReturn ==
  ASSUME NEW w, Clerks = {w}
  PROVE  TSpec => MovedDriftsUnderReturns
<1>1. IInv /\ [TNext]_tvars =>
        [\A o \in Orders :
           MovedDrift(o)' # MovedDrift(o) =>
             \E m, r \in Moves :
               /\ Moving[m].order = o /\ ~IsReturn(m)
               /\ move[m].docstatus = "Submitted" /\ move'[m].docstatus = "Cancelled"
               /\ Moving[r].order = o /\ IsReturn(r) /\ move[r].docstatus = "Submitted"]_tvars
  BY DriftStep
<1> QED BY <1>1, Always, PTL DEF TSpec, MovedDriftsUnderReturns

\* One request at a time, the counters leave their bounds only by cancelling
\* what had made room: a return, a credit note, or a bill under a credit note for
\* another bill of the same order or movement (validate_link_deltas runs at create
\* and at submit only, and never compares a credit note with the bill it credits).
THEOREM OverrunNeedsACancellation ==
  ASSUME NEW w, Clerks = {w}
  PROVE  TSpec => OverrunOnlyByCancelling
<1>1. IInv /\ IInv' /\ [TNext]_tvars =>
        [WithinCaps /\ ~WithinCaps' =>
           \/ \E m \in Moves : IsReturn(m) /\ move[m].docstatus = "Submitted"
                              /\ move'[m].docstatus = "Cancelled"
           \/ \E b \in Bills :
                /\ bill[b] = "Submitted" /\ bill'[b] = "Cancelled"
                /\ \/ Billing[b].credits # Nil
                   \/ \E c \in Bills : /\ Billing[c].credits \notin {Nil, b}
                                       /\ bill[c] = "Submitted" /\ CountedTogether(b, c)]_tvars
  BY OverrunStep
<1> QED BY <1>1, Always, PTL DEF TSpec, OverrunOnlyByCancelling

-----------------------------------------------------------------------------
(* Margin plans: rows of the right kind, ...                                *)

MarginDriver ==
  [method : {"none", "percentage", "fixed_amount"}, basis : {"none", "revenue", "quantity"}, percent : Nat]
MarginLine == [key : {"quotation", "order"}, qty : {1}, rate : Nat]
ScenarioRow ==
  [base : BOOLEAN, ov : [rate : Nat, factor : Nat], line : MarginLine, factor : Nat,
   costs : [revenue : Nat, variable : Nat, fixed : Nat]]
MarginPlan ==
  [docstatus : {"Draft", "Submitted", "Cancelled"}, order : Sales \cup {NoSale}, allocation : Nat,
   driver : MarginDriver, least : Nat, policy : {"warn", "block"}, scenarios : Seq(ScenarioRow)]

MarginQuotation ==
  [docstatus : {"Draft", "Submitted", "Cancelled"}, status : {"Draft", "Open", "Ordered", "Cancelled"},
   line : [qty : {1}, rate : Nat], cut : 0 .. 99]
MarginSale ==
  [docstatus : {"Absent", "Draft", "Submitted", "Cancelled"}, line : [qty : {0, 1}, rate : Nat]]

MarginTypes ==
  /\ quotation \in MarginQuotation
  /\ sales \in [Sales -> MarginSale]
  /\ plans \in Seq(MarginPlan)
  /\ settings \in [allocation : Nat, least : Nat, policy : {"warn", "block"}, saved : BOOLEAN]
  /\ structure \in MarginDriver

\* ... what charges by revenue is a percentage,
ByPercentage(d) == d.basis = "revenue" => d.method = "percentage"
\* an estimate is that of its line, and a baseline nobody overrode takes the
\* costs as they are,
Estimated(s) ==
  /\ s.costs.revenue = s.line.rate
  /\ s.costs.variable = UnitCost * s.factor
  /\ s.ov = NoOverride => s.factor = 1
\* the first scenario of a plan is its one baseline,
WholePlan(p) ==
  /\ Len(p.scenarios) > 0
  /\ \A k \in DOMAIN p.scenarios : p.scenarios[k].base <=> k = 1
  /\ \A k \in DOMAIN p.scenarios : Estimated(p.scenarios[k])
  /\ ByPercentage(p.driver)
  /\ p.driver.basis = "revenue" => p.driver.percent = p.allocation
\* and an order is there only once the quotation was submitted.
SalesFollow ==
  /\ quotation.docstatus = "Draft" => \A o \in Sales : sales[o].docstatus = "Absent"
  /\ \A o \in Sales : sales[o].docstatus # "Absent" => sales[o].line.qty = 1

OneDraft == \A i, j \in Drafts : plans[i].order = plans[j].order /\ plans[i].order # NoSale => i = j
MarginInv ==
  /\ MarginTypes
  /\ ByPercentage(structure)
  /\ \A i \in DOMAIN plans : WholePlan(plans[i])
  /\ OneDraft
  /\ OrderedTellsOrders
  /\ SalesFollow

-----------------------------------------------------------------------------
(* What the operators of margin plans give.                                 *)

LEMMA MarginConstants ==
  /\ Rates \subseteq Nat /\ Percents \subseteq Nat /\ UnitCost \in Nat
  /\ \A d \in Drivers : d \in MarginDriver /\ ByPercentage(d)
  /\ \A ov \in Overrides : ov \in [rate : Nat, factor : Nat]
  /\ Default \in [allocation : Nat, least : Nat, policy : {"warn", "block"}, saved : BOOLEAN]
  /\ NoStructure \in MarginDriver /\ ByPercentage(NoStructure)
  /\ NoOverride \in [rate : Nat, factor : Nat]
<1>1. Rates \subseteq Nat /\ Percents \subseteq Nat /\ UnitCost \in Nat /\ 0 .. 100 \subseteq Nat
  BY MarginsAssumption
<1>2. \A d \in Drivers : d \in MarginDriver /\ ByPercentage(d)
  BY <1>1, MarginsAssumption DEF MarginDriver, ByPercentage
<1>3. ASSUME NEW ov \in Overrides PROVE ov \in [rate : Nat, factor : Nat]
  <2>1. ov \in [rate : Rates \cup {0}, factor : Nat]
    BY MarginsAssumption
  <2>2. Rates \cup {0} \subseteq Nat
    BY <1>1
  <2> QED BY <2>1, <2>2
<1>4. Default \in [allocation : Nat, least : Nat, policy : {"warn", "block"}, saved : BOOLEAN]
  <2>1. Default \in [allocation : Percents, least : 0 .. 100, policy : {"warn", "block"}, saved : {FALSE}]
    BY MarginsAssumption
  <2> QED BY <1>1, <2>1
<1> QED BY <1>1, <1>2, <1>3, <1>4 DEF NoStructure, MarginDriver, ByPercentage, NoOverride

LEMMA SyncedDriver ==
  ASSUME NEW d \in MarginDriver, ByPercentage(d), NEW percent \in Nat
  PROVE  /\ Synced(d, percent) \in MarginDriver
         /\ ByPercentage(Synced(d, percent))
         /\ Synced(d, percent).basis = "revenue" => Synced(d, percent).percent = percent
BY DEF Synced, MarginDriver, ByPercentage

LEMMA StartingDriver ==
  ASSUME structure \in MarginDriver, ByPercentage(structure), NEW percent \in Nat
  PROVE  /\ DriverFor(percent) \in MarginDriver
         /\ ByPercentage(DriverFor(percent))
         /\ DriverFor(percent).basis = "revenue" => DriverFor(percent).percent = percent
<1>1. CASE structure # NoStructure
  BY <1>1, SyncedDriver DEF DriverFor
<1>2. CASE structure = NoStructure
  BY <1>2 DEF DriverFor, ByRevenue, MarginDriver, ByPercentage
<1> QED BY <1>1, <1>2

\* an estimate is that of its line
LEMMA EstimateOfLine ==
  ASSUME NEW base \in BOOLEAN, NEW ov \in [rate : Nat, factor : Nat], NEW line \in MarginLine,
         NEW factor \in Nat, NEW driver \in MarginDriver
  PROVE  LET s == Scenario(base, ov, line, factor, driver)
         IN /\ s \in ScenarioRow
            /\ s.base = base /\ s.ov = ov /\ s.line = line /\ s.factor = factor
            /\ s.costs = CostsOf(line, factor, driver)
            /\ (ov = NoOverride => factor = 1) => Estimated(s)
<1>1. line.qty = 1 /\ line.rate \in Nat
  BY DEF MarginLine
<1>2. PICK c : c = UnitCost /\ c \in Nat
  BY MarginConstants
<1>3. PICK q : q = line.qty /\ q = 1
  BY <1>1
<1>4. PICK r : r = line.rate /\ r \in Nat
  BY <1>1
<1>5. q * r = r /\ q * c * factor = c * factor /\ c * factor \in Nat
  BY <1>2, <1>3, <1>4
<1>6. PICK percent : percent = driver.percent /\ percent \in Nat
  BY DEF MarginDriver
<1>7. percent * q * r = percent * r /\ percent * q = percent /\ percent * r \in Nat
  BY <1>3, <1>4, <1>6
<1>8. FixedCost(driver, line) \in Nat
  BY <1>3, <1>4, <1>6, <1>7 DEF FixedCost
<1>9. CostsOf(line, factor, driver)
        = [revenue |-> r, variable |-> UnitCost * factor, fixed |-> FixedCost(driver, line)]
  BY <1>2, <1>3, <1>4, <1>5 DEF CostsOf
<1>10. CostsOf(line, factor, driver) \in [revenue : Nat, variable : Nat, fixed : Nat]
  BY <1>2, <1>4, <1>5, <1>8, <1>9
<1> QED BY <1>4, <1>9, <1>10 DEF Scenario, ScenarioRow, Estimated

LEMMA BaselineEstimate ==
  ASSUME NEW ov \in [rate : Nat, factor : Nat], NEW line \in MarginLine, NEW driver \in MarginDriver
  PROVE  LET s == Scenario(TRUE, ov, line, 1, driver)
         IN s \in ScenarioRow /\ s.base = TRUE /\ Estimated(s)
<1>1. TRUE \in BOOLEAN /\ 1 \in Nat
  OBVIOUS
<1> QED BY <1>1, EstimateOfLine

LEMMA PatchedLine ==
  ASSUME NEW line \in MarginLine, NEW ov \in [rate : Nat, factor : Nat]
  PROVE  Patched(line, ov) \in MarginLine
BY DEF Patched, MarginLine

LEMMA Reestimation ==
  ASSUME NEW p, p.driver \in MarginDriver, NEW s, s.base \in BOOLEAN,
         s.ov \in [rate : Nat, factor : Nat], NEW line \in MarginLine
  PROVE  LET t == Reestimate(p, s, line)
         IN /\ t \in ScenarioRow
            /\ t.base = s.base /\ t.ov = s.ov /\ t.line = Patched(line, s.ov)
            /\ t.costs = CostsOf(t.line, t.factor, p.driver)
            /\ Estimated(t)
<1>1. Patched(line, s.ov) \in MarginLine /\ s.ov.factor \in Nat
  BY PatchedLine
<1>2. s.ov = NoOverride => s.ov.factor = 1
  BY DEF NoOverride
<1> QED BY <1>1, <1>2, EstimateOfLine DEF Reestimate

LEMMA FirstIsBaseline ==
  ASSUME NEW p \in MarginPlan, WholePlan(p)
  PROVE  /\ 1 \in DOMAIN p.scenarios
         /\ BaselineOf(p) = p.scenarios[1]
         /\ BaselineOf(p) \in ScenarioRow
         /\ BaselineOf(p).line \in MarginLine
         /\ Estimated(BaselineOf(p))
<1>1. p.scenarios \in Seq(ScenarioRow) /\ Len(p.scenarios) > 0
  BY DEF MarginPlan, WholePlan
<1>2. 1 \in DOMAIN p.scenarios /\ p.scenarios[1] \in ScenarioRow
  BY <1>1
<1>3. BaselineOf(p) = p.scenarios[1]
  BY <1>2 DEF BaselineOf, WholePlan
<1>4. BaselineOf(p).line \in MarginLine
  BY <1>2, <1>3 DEF ScenarioRow
<1> QED BY <1>2, <1>3, <1>4 DEF WholePlan

\* every scenario written anew, one way or another, leaves the plan whole
LEMMA RewrittenPlan ==
  ASSUME NEW p \in MarginPlan, WholePlan(p), NEW t, t \in [DOMAIN p.scenarios -> ScenarioRow],
         \A k \in DOMAIN p.scenarios : t[k].base = p.scenarios[k].base /\ Estimated(t[k])
  PROVE  [p EXCEPT !.scenarios = t] \in MarginPlan /\ WholePlan([p EXCEPT !.scenarios = t])
<1>1. p.scenarios \in Seq(ScenarioRow)
  BY DEF MarginPlan
<1>2. t \in Seq(ScenarioRow) /\ Len(t) = Len(p.scenarios) /\ DOMAIN t = DOMAIN p.scenarios
  BY <1>1
<1> DEFINE new == [p EXCEPT !.scenarios = t]
<1>3. new.scenarios = t /\ new.driver = p.driver /\ new.allocation = p.allocation
  BY DEF MarginPlan
<1>4. new \in MarginPlan
  BY <1>2 DEF MarginPlan
<1> HIDE DEF new
<1>5. WholePlan(new)
  BY <1>2, <1>3 DEF WholePlan
<1> QED BY <1>4, <1>5 DEF new

LEMMA RecomputedPlan ==
  ASSUME NEW p \in MarginPlan, WholePlan(p)
  PROVE  /\ RecomputedAll(p) \in MarginPlan
         /\ WholePlan(RecomputedAll(p))
         /\ RecomputedAll(p).order = p.order /\ RecomputedAll(p).docstatus = p.docstatus
         /\ RecomputedAll(p).driver = p.driver
         /\ DOMAIN RecomputedAll(p).scenarios = DOMAIN p.scenarios
         /\ \A k \in DOMAIN p.scenarios :
              LET s == RecomputedAll(p).scenarios[k]
              IN /\ s.costs = CostsOf(s.line, s.factor, p.driver)
                 /\ s.ov = p.scenarios[k].ov
                 /\ s.line = Patched(BaselineOf(p).line, s.ov)
<1> DEFINE t == [k \in DOMAIN p.scenarios |-> Reestimate(p, p.scenarios[k], BaselineOf(p).line)]
<1>1. p.driver \in MarginDriver /\ BaselineOf(p).line \in MarginLine
  BY FirstIsBaseline DEF MarginPlan
<1>2. ASSUME NEW k \in DOMAIN p.scenarios
      PROVE  /\ t[k] \in ScenarioRow
             /\ t[k].base = p.scenarios[k].base /\ t[k].ov = p.scenarios[k].ov
             /\ t[k].line = Patched(BaselineOf(p).line, t[k].ov)
             /\ t[k].costs = CostsOf(t[k].line, t[k].factor, p.driver)
             /\ Estimated(t[k])
  <2>1. p.scenarios[k] \in ScenarioRow
    BY DEF MarginPlan
  <2>2. p.scenarios[k].base \in BOOLEAN /\ p.scenarios[k].ov \in [rate : Nat, factor : Nat]
    BY <2>1 DEF ScenarioRow
  <2>3. t[k] = Reestimate(p, p.scenarios[k], BaselineOf(p).line)
    OBVIOUS
  <2> HIDE DEF t
  <2> QED BY <1>1, <2>2, <2>3, Reestimation
<1>3. RecomputedAll(p) = [p EXCEPT !.scenarios = t]
  BY DEF RecomputedAll
<1>4. t \in [DOMAIN p.scenarios -> ScenarioRow] /\ DOMAIN t = DOMAIN p.scenarios
  BY <1>2
<1> HIDE DEF t
<1>5. [p EXCEPT !.scenarios = t] \in MarginPlan /\ WholePlan([p EXCEPT !.scenarios = t])
  BY <1>2, <1>4, RewrittenPlan
<1>6. RecomputedAll(p).scenarios = t /\ RecomputedAll(p).order = p.order
      /\ RecomputedAll(p).docstatus = p.docstatus /\ RecomputedAll(p).driver = p.driver
  BY <1>3 DEF MarginPlan
<1> QED BY <1>2, <1>3, <1>4, <1>5, <1>6

LEMMA ReseededPlan ==
  ASSUME NEW p \in MarginPlan, WholePlan(p), NEW line \in MarginLine
  PROVE  /\ Reseeded(p, line) \in MarginPlan
         /\ WholePlan(Reseeded(p, line))
         /\ Reseeded(p, line).order = p.order /\ Reseeded(p, line).docstatus = p.docstatus
         /\ Reseeded(p, line).driver = p.driver
<1> DEFINE old == p.scenarios
           t == [k \in DOMAIN old |->
                  IF old[k].base THEN Scenario(TRUE, old[k].ov, line, 1, p.driver) ELSE old[k]]
<1>1. ASSUME NEW k \in DOMAIN old
      PROVE  t[k] \in ScenarioRow /\ t[k].base = old[k].base /\ Estimated(t[k])
  <2>1. old[k] \in ScenarioRow /\ Estimated(old[k])
    BY DEF MarginPlan, WholePlan
  <2>2. CASE old[k].base
    <3>1. old[k].ov \in [rate : Nat, factor : Nat] /\ p.driver \in MarginDriver
      BY <2>1 DEF ScenarioRow, MarginPlan
    <3>2. t[k] = Scenario(TRUE, old[k].ov, line, 1, p.driver)
      BY <2>2
    <3>3. old[k].base = TRUE
      BY <2>1, <2>2 DEF ScenarioRow
    <3> DEFINE s == Scenario(TRUE, old[k].ov, line, 1, p.driver)
    <3>4. s \in ScenarioRow /\ s.base = TRUE /\ Estimated(s)
      BY <3>1, BaselineEstimate
    <3> HIDE DEF t, s
    <3> QED BY <3>2, <3>3, <3>4 DEF s
  <2>3. CASE ~old[k].base
    BY <2>1, <2>3
  <2> QED BY <2>2, <2>3
<1>2. Reseeded(p, line) = [p EXCEPT !.scenarios = t]
  BY DEF Reseeded
<1>3. t \in [DOMAIN p.scenarios -> ScenarioRow]
  BY <1>1
<1> HIDE DEF t
<1>4. [p EXCEPT !.scenarios = t] \in MarginPlan /\ WholePlan([p EXCEPT !.scenarios = t])
  BY <1>1, <1>3, RewrittenPlan
<1>5. Reseeded(p, line).order = p.order /\ Reseeded(p, line).docstatus = p.docstatus
      /\ Reseeded(p, line).driver = p.driver
  BY <1>2 DEF MarginPlan
<1> QED BY <1>2, <1>4, <1>5

LEMMA SeededPlan ==
  ASSUME MarginInv, NEW owner \in Sales \cup {NoSale}, NEW line \in MarginLine
  PROVE  NewPlan(owner, line) \in MarginPlan /\ WholePlan(NewPlan(owner, line))
<1>1. settings.allocation \in Nat /\ settings.least \in Nat /\ settings.policy \in {"warn", "block"}
  BY DEF MarginInv, MarginTypes
<1> DEFINE d == DriverFor(settings.allocation)
           s == Scenario(TRUE, NoOverride, line, 1, d)
           new == [docstatus |-> "Draft", order |-> owner, allocation |-> settings.allocation, driver |-> d,
                   least |-> settings.least, policy |-> settings.policy, scenarios |-> <<s>>]
<1>2. d \in MarginDriver /\ ByPercentage(d) /\ (d.basis = "revenue" => d.percent = settings.allocation)
  BY <1>1, StartingDriver DEF MarginInv, MarginTypes
<1>3. NewPlan(owner, line) = new
  BY DEF NewPlan
<1> HIDE DEF d
<1>4. s \in ScenarioRow /\ s.base = TRUE /\ Estimated(s)
  BY <1>2, EstimateOfLine, MarginConstants
<1> HIDE DEF s
<1>5. <<s>> \in Seq(ScenarioRow) /\ Len(<<s>>) = 1 /\ DOMAIN <<s>> = {1} /\ <<s>>[1] = s
  BY <1>4
<1>6. new \in MarginPlan
  BY <1>1, <1>2, <1>5 DEF MarginPlan
<1>7. WholePlan(new)
  BY <1>2, <1>4, <1>5 DEF WholePlan
<1> QED BY <1>3, <1>6, <1>7

-----------------------------------------------------------------------------
(* Margin plans: every step keeps the invariant.                            *)

PlansOk ==
  /\ plans \in Seq(MarginPlan)
  /\ \A i \in DOMAIN plans : WholePlan(plans[i])
  /\ OneDraft

\* a plan is rewritten and not put back into draft
LEMMA RewrittenPlans ==
  ASSUME PlansOk, NEW i \in DOMAIN plans, NEW p \in MarginPlan, WholePlan(p),
         p.order = plans[i].order, p.docstatus = "Draft" => plans[i].docstatus = "Draft",
         plans' = [plans EXCEPT ![i] = p]
  PROVE  PlansOk'
<1>1. plans' \in Seq(MarginPlan) /\ DOMAIN plans' = DOMAIN plans
  BY DEF PlansOk
<1>2. \A j \in DOMAIN plans : plans'[j] = IF j = i THEN p ELSE plans[j]
  BY DEF PlansOk
<1>3. \A j \in DOMAIN plans' : WholePlan(plans'[j]) /\ plans'[j].order = plans[j].order
                               /\ (plans'[j].docstatus = "Draft" => plans[j].docstatus = "Draft")
  BY <1>1, <1>2 DEF PlansOk
<1>4. OneDraft'
  BY <1>1, <1>3 DEF PlansOk, OneDraft, Drafts
<1> QED BY <1>1, <1>3, <1>4 DEF PlansOk

\* a plan is added, of an order without a draft
LEMMA AddedPlan ==
  ASSUME PlansOk, NEW p \in MarginPlan, WholePlan(p),
         p.order # NoSale => ~\E i \in Drafts : plans[i].order = p.order,
         plans' = Append(plans, p)
  PROVE  PlansOk'
<1>1. plans' \in Seq(MarginPlan) /\ DOMAIN plans' = DOMAIN plans \cup {Len(plans) + 1}
      /\ DOMAIN plans = 1 .. Len(plans) /\ Len(plans) \in Nat
  BY DEF PlansOk
<1>2. \A j \in DOMAIN plans : plans'[j] = plans[j]
  BY <1>1 DEF PlansOk
<1>3. plans'[Len(plans) + 1] = p
  BY <1>1 DEF PlansOk
<1>4. \A j \in DOMAIN plans' : WholePlan(plans'[j])
  BY <1>1, <1>2, <1>3 DEF PlansOk
<1>5. \A j \in Drafts' : j \in Drafts \/ j = Len(plans) + 1
  BY <1>1, <1>2 DEF Drafts
<1>6. OneDraft'
  BY <1>1, <1>2, <1>3, <1>5 DEF PlansOk, OneDraft, Drafts
<1> QED BY <1>1, <1>4, <1>6 DEF PlansOk

LEMMA SeededPlans ==
  ASSUME MarginInv, NEW drafts, drafts \subseteq Drafts, NEW owner \in Sales \cup {NoSale},
         owner # NoSale => \A i \in Drafts : plans[i].order = owner => i \in drafts,
         NEW line \in MarginLine, Seed(drafts, owner, line)
  PROVE  PlansOk'
<1>1. PlansOk
  BY DEF MarginInv, MarginTypes, PlansOk
<1>2. CASE drafts = {}
  <2>1. NewPlan(owner, line) \in MarginPlan /\ WholePlan(NewPlan(owner, line))
    BY SeededPlan
  <2>2. plans' = Append(plans, NewPlan(owner, line)) /\ NewPlan(owner, line).order = owner
    BY <1>2 DEF Seed, NewPlan
  <2> QED BY <1>1, <1>2, <2>1, <2>2, AddedPlan
<1>3. CASE drafts # {}
  <2>1. PICK i \in drafts : plans' = [plans EXCEPT ![i] = Reseeded(plans[i], line)]
    BY <1>3 DEF Seed
  <2>2. i \in DOMAIN plans /\ plans[i] \in MarginPlan /\ WholePlan(plans[i])
    BY <1>1 DEF Drafts, PlansOk
  <2>3. PICK p : p = Reseeded(plans[i], line)
    OBVIOUS
  <2>4. p \in MarginPlan /\ WholePlan(p) /\ p.order = plans[i].order /\ p.docstatus = plans[i].docstatus
    BY <2>2, <2>3, ReseededPlan
  <2> QED BY <1>1, <2>1, <2>2, <2>3, <2>4, RewrittenPlans
<1> QED BY <1>2, <1>3

LEMMA SeedingLine ==
  ASSUME MarginTypes
  PROVE  LineOfQuotation(quotation) \in MarginLine
<1>1. PICK r, c : r = quotation.line.rate /\ c = quotation.cut /\ r \in Nat /\ c \in 0 .. 99
  BY DEF MarginTypes, MarginQuotation
<1>2. PICK d : d = 100 - c /\ d \in Nat
  BY <1>1
<1>3. PICK n : n = r * d /\ n \in Nat
  BY <1>1, <1>2
<1>4. n \div 100 \in Nat
  BY <1>3
<1>5. NetRate(quotation) = n \div 100
  BY <1>1, <1>2, <1>3 DEF NetRate
<1>6. quotation.line.qty = 1
  BY DEF MarginTypes, MarginQuotation
<1> QED BY <1>4, <1>5, <1>6 DEF LineOfQuotation, Line, MarginLine

\* the documents and settings are left alone
LEMMA OnlyPlans ==
  ASSUME MarginInv, PlansOk', UNCHANGED <<quotation, sales, settings, structure>>
  PROVE  MarginInv'
<1>1. MarginTypes'
  BY DEF MarginInv, MarginTypes, PlansOk
<1>2. OrderedTellsOrders' /\ SalesFollow' /\ ByPercentage(structure)'
  BY DEF MarginInv, OrderedTellsOrders, SalesFollow
<1> QED BY <1>1, <1>2 DEF MarginInv, PlansOk

\* one draft or submitted plan is changed
LEMMA OnePlan ==
  ASSUME MarginInv, NEW i \in DOMAIN plans, NEW p \in MarginPlan, WholePlan(p),
         p.order = plans[i].order, p.docstatus = "Draft" => plans[i].docstatus = "Draft", Change(i, p)
  PROVE  MarginInv'
<1>1. PlansOk
  BY DEF MarginInv, MarginTypes, PlansOk
<1>2. plans' = [plans EXCEPT ![i] = p] /\ UNCHANGED <<quotation, sales, settings, structure>>
  BY DEF Change
<1>3. PlansOk'
  BY <1>1, <1>2, RewrittenPlans
<1> QED BY <1>2, <1>3, OnlyPlans

\* the plans are left alone
LEMMA PlansStay ==
  ASSUME MarginInv, plans' = plans
  PROVE  /\ plans' \in Seq(MarginPlan)
         /\ (\A i \in DOMAIN plans : WholePlan(plans[i]))'
         /\ OneDraft'
<1>1. DOMAIN plans' = DOMAIN plans /\ Drafts' = Drafts
  BY DEF Drafts
<1> QED BY <1>1 DEF MarginInv, MarginTypes, OneDraft

LEMMA CreateScenarioKeeps ==
  ASSUME MarginInv, NEW i \in DOMAIN plans, CreateScenario(i)
  PROVE  MarginInv'
<1>1. PICK ov \in Overrides : Change(i, [plans[i] EXCEPT !.scenarios = Append(@,
         Reestimate(plans[i], [base |-> FALSE, ov |-> ov], BaselineOf(plans[i]).line))])
  BY DEF CreateScenario
<1>2. PICK p : p = plans[i] /\ p \in MarginPlan /\ WholePlan(p)
  BY DEF MarginInv, MarginTypes
<1>3. PICK line : line = BaselineOf(p).line /\ line \in MarginLine
  BY <1>2, FirstIsBaseline
<1>4. p.driver \in MarginDriver /\ p.scenarios \in Seq(ScenarioRow)
  BY <1>2 DEF MarginPlan
<1> DEFINE asked == [base |-> FALSE, ov |-> ov]
<1>5. asked.base = FALSE /\ asked.base \in BOOLEAN /\ asked.ov \in [rate : Nat, factor : Nat]
  BY MarginConstants
<1> HIDE DEF asked
<1>6. PICK s : s = Reestimate(p, asked, line)
  OBVIOUS
<1>7. s \in ScenarioRow /\ s.base = asked.base /\ Estimated(s)
  BY <1>3, <1>4, <1>5, <1>6, Reestimation
<1> DEFINE new == [p EXCEPT !.scenarios = Append(p.scenarios, s)]
<1>8. Change(i, new)
  BY <1>1, <1>2, <1>3, <1>6 DEF asked
<1>9. /\ Append(p.scenarios, s) \in Seq(ScenarioRow)
      /\ Len(p.scenarios) \in Nat
      /\ DOMAIN Append(p.scenarios, s) = 1 .. Len(p.scenarios) + 1
      /\ DOMAIN p.scenarios = 1 .. Len(p.scenarios)
      /\ \A k \in DOMAIN Append(p.scenarios, s) :
           Append(p.scenarios, s)[k] = IF k = Len(p.scenarios) + 1 THEN s ELSE p.scenarios[k]
      /\ Len(Append(p.scenarios, s)) = Len(p.scenarios) + 1
  BY <1>4, <1>7
<1>10. /\ new \in MarginPlan /\ new.scenarios = Append(p.scenarios, s) /\ new.driver = p.driver
       /\ new.allocation = p.allocation /\ new.order = p.order /\ new.docstatus = p.docstatus
  BY <1>2, <1>9 DEF MarginPlan
<1> HIDE DEF new
<1>11. \A k \in DOMAIN new.scenarios :
         /\ new.scenarios[k].base <=> k = 1
         /\ Estimated(new.scenarios[k])
  BY <1>2, <1>5, <1>7, <1>9, <1>10 DEF WholePlan
<1>12. WholePlan(new)
  BY <1>2, <1>9, <1>10, <1>11 DEF WholePlan
<1> QED BY <1>2, <1>8, <1>10, <1>12, OnePlan

LEMMA UpdateScenarioKeeps ==
  ASSUME MarginInv, NEW i \in DOMAIN plans, NEW k \in DOMAIN plans[i].scenarios, UpdateScenario(i, k)
  PROVE  MarginInv'
<1>1. PICK ov \in Overrides : Change(i, [plans[i] EXCEPT !.scenarios[k] =
         Reestimate(plans[i], [base |-> @.base, ov |-> ov], BaselineOf(plans[i]).line)])
  BY DEF UpdateScenario
<1>2. PICK p : p = plans[i] /\ p \in MarginPlan /\ WholePlan(p)
  BY DEF MarginInv, MarginTypes
<1>3. PICK line : line = BaselineOf(p).line /\ line \in MarginLine
  BY <1>2, FirstIsBaseline
<1>4. p.driver \in MarginDriver /\ p.scenarios \in Seq(ScenarioRow) /\ p.scenarios[k] \in ScenarioRow
  BY <1>2 DEF MarginPlan
<1> DEFINE asked == [base |-> p.scenarios[k].base, ov |-> ov]
<1>5. asked.base = p.scenarios[k].base /\ asked.base \in BOOLEAN /\ asked.ov \in [rate : Nat, factor : Nat]
  BY <1>4, MarginConstants DEF ScenarioRow
<1> HIDE DEF asked
<1>6. PICK s : s = Reestimate(p, asked, line)
  OBVIOUS
<1>7. s \in ScenarioRow /\ s.base = asked.base /\ Estimated(s)
  BY <1>3, <1>4, <1>5, <1>6, Reestimation
<1> DEFINE t == [p.scenarios EXCEPT ![k] = s]
           new == [p EXCEPT !.scenarios = t]
<1>8. Change(i, new)
  BY <1>1, <1>2, <1>3, <1>6 DEF asked
<1>9. t \in [DOMAIN p.scenarios -> ScenarioRow]
  <2>1. PICK old : old = p.scenarios /\ old \in [DOMAIN old -> ScenarioRow]
    BY <1>4
  <2> QED BY <1>7, <2>1
<1>10. \A n \in DOMAIN p.scenarios : t[n].base = p.scenarios[n].base /\ Estimated(t[n])
  BY <1>2, <1>4, <1>5, <1>7 DEF WholePlan
<1> HIDE DEF t
<1>11. new \in MarginPlan /\ WholePlan(new)
  BY <1>2, <1>9, <1>10, RewrittenPlan
<1>12. new.order = p.order /\ new.docstatus = p.docstatus
  BY <1>2 DEF MarginPlan
<1> HIDE DEF new
<1> QED BY <1>2, <1>8, <1>11, <1>12, OnePlan

LEMMA DeleteScenarioKeeps ==
  ASSUME MarginInv, NEW i \in DOMAIN plans, NEW k \in DOMAIN plans[i].scenarios, DeleteScenario(i, k)
  PROVE  MarginInv'
<1>1. PICK p : p = plans[i] /\ p \in MarginPlan /\ WholePlan(p)
  BY DEF MarginInv, MarginTypes
<1>2. ~p.scenarios[k].base /\ Change(i, [p EXCEPT !.scenarios = RemoveAt(p.scenarios, k)])
  BY <1>1 DEF DeleteScenario
<1>3. PICK s : s = p.scenarios /\ s \in Seq(ScenarioRow)
  BY <1>1 DEF MarginPlan
<1>4. PICK n : n = Len(s) /\ n \in Nat /\ DOMAIN s = 1 .. n
  BY <1>3
<1>5. k \in 2 .. n
  BY <1>1, <1>2, <1>3, <1>4 DEF WholePlan
<1>6. PICK t : t = RemoveAt(s, k)
  OBVIOUS
<1>7. /\ t \in Seq(ScenarioRow) /\ Len(t) = n - 1
      /\ \A m \in 1 .. n - 1 : t[m] = IF m < k THEN s[m] ELSE s[m + 1]
  <2>1. SubSeq(s, 1, k - 1) \in Seq(ScenarioRow) /\ Len(SubSeq(s, 1, k - 1)) = k - 1
        /\ \A m \in 1 .. k - 1 : SubSeq(s, 1, k - 1)[m] = s[m]
    BY <1>3, <1>4, <1>5
  <2>2. SubSeq(s, k + 1, n) \in Seq(ScenarioRow) /\ Len(SubSeq(s, k + 1, n)) = n - k
        /\ \A m \in 1 .. n - k : SubSeq(s, k + 1, n)[m] = s[k + m]
    BY <1>3, <1>4, <1>5
  <2>3. t = SubSeq(s, 1, k - 1) \o SubSeq(s, k + 1, n)
    BY <1>4, <1>6 DEF RemoveAt
  <2>4. t \in Seq(ScenarioRow) /\ Len(t) = n - 1
    BY <1>4, <1>5, <2>1, <2>2, <2>3
  <2>5. ASSUME NEW m \in 1 .. n - 1 PROVE t[m] = IF m < k THEN s[m] ELSE s[m + 1]
    <3>1. CASE m < k
      BY <3>1, <1>4, <1>5, <2>1, <2>2, <2>3
    <3>2. CASE ~(m < k)
      <4>1. m - (k - 1) \in 1 .. n - k /\ k + (m - (k - 1)) = m + 1
        BY <3>2, <1>4, <1>5
      <4>2. t[m] = SubSeq(s, k + 1, n)[m - (k - 1)]
        BY <3>2, <1>4, <1>5, <2>1, <2>2, <2>3
      <4> QED BY <3>2, <4>1, <4>2, <2>2
    <3> QED BY <3>1, <3>2
  <2> QED BY <2>4, <2>5
<1> DEFINE new == [p EXCEPT !.scenarios = t]
<1>8. /\ new \in MarginPlan /\ new.scenarios = t /\ new.driver = p.driver
      /\ new.allocation = p.allocation /\ new.order = p.order /\ new.docstatus = p.docstatus
  BY <1>1, <1>7 DEF MarginPlan
<1>9. Change(i, new)
  BY <1>2, <1>3, <1>6
<1> HIDE DEF new
<1>10. DOMAIN t = 1 .. n - 1 /\ n - 1 > 0
  BY <1>4, <1>5, <1>7
<1>11. ASSUME NEW m \in DOMAIN t PROVE (t[m].base <=> m = 1) /\ Estimated(t[m])
  <2>1. PICK j \in 1 .. n : t[m] = s[j] /\ (j = 1 <=> m = 1)
    BY <1>4, <1>5, <1>7, <1>10
  <2> QED BY <1>1, <1>3, <1>4, <2>1 DEF WholePlan
<1>12. WholePlan(new)
  BY <1>1, <1>7, <1>8, <1>10, <1>11 DEF WholePlan
<1> QED BY <1>1, <1>8, <1>9, <1>12, OnePlan

\* the drivers, percentages and least margin of a plan may be edited
LEMMA EditedPlan ==
  ASSUME NEW old \in MarginPlan, WholePlan(old),
         NEW p \in {old} \cup {WithDriver(old, d) : d \in Drivers}
                  \cup {WithAllocation(old, a) : a \in Percents} \cup {[old EXCEPT !.least = 0]}
  PROVE  /\ p \in MarginPlan /\ WholePlan(p)
         /\ p.order = old.order /\ p.docstatus = old.docstatus /\ p.scenarios = old.scenarios
<1>1. CASE p = old
  BY <1>1
<1>2. CASE p \in {WithDriver(old, d) : d \in Drivers}
  <2>1. PICK d \in Drivers : p = WithDriver(old, d)
    BY <1>2
  <2>2. d \in MarginDriver /\ ByPercentage(d)
    BY MarginConstants
  <2>3. /\ p \in MarginPlan /\ p.scenarios = old.scenarios /\ p.driver = d
        /\ (d.basis = "revenue" => p.allocation = d.percent)
        /\ p.order = old.order /\ p.docstatus = old.docstatus
    BY <2>1, <2>2 DEF WithDriver, MarginPlan, MarginDriver
  <2> QED BY <2>2, <2>3 DEF WholePlan
<1>3. CASE p \in {WithAllocation(old, a) : a \in Percents}
  <2>1. PICK a \in Percents : p = WithAllocation(old, a)
    BY <1>3
  <2>2. a \in Nat
    BY MarginConstants
  <2>3. PICK d : d = Synced(old.driver, a)
    OBVIOUS
  <2>4. d \in MarginDriver /\ ByPercentage(d) /\ (d.basis = "revenue" => d.percent = a)
    BY <2>2, <2>3, SyncedDriver DEF MarginPlan, WholePlan
  <2>5. /\ p \in MarginPlan /\ p.scenarios = old.scenarios /\ p.driver = d /\ p.allocation = a
        /\ p.order = old.order /\ p.docstatus = old.docstatus
    BY <2>1, <2>2, <2>3, <2>4 DEF WithAllocation, MarginPlan
  <2> QED BY <2>4, <2>5 DEF WholePlan
<1>4. CASE p = [old EXCEPT !.least = 0]
  BY <1>4 DEF MarginPlan, WholePlan
<1> QED BY <1>1, <1>2, <1>3, <1>4

LEMMA UpdatePlanKeeps ==
  ASSUME MarginInv, NEW i \in DOMAIN plans, UpdatePlan(i)
  PROVE  MarginInv'
<1>1. PICK old : old = plans[i] /\ old \in MarginPlan /\ WholePlan(old)
  BY DEF MarginInv, MarginTypes
<1>2. PICK p \in {old} \cup {WithDriver(old, d) : d \in Drivers}
                 \cup {WithAllocation(old, a) : a \in Percents} \cup {[old EXCEPT !.least = 0]},
           recompute \in BOOLEAN : Change(i, IF recompute THEN RecomputedAll(p) ELSE p)
  BY <1>1 DEF UpdatePlan
<1>3. p \in MarginPlan /\ WholePlan(p) /\ p.order = old.order /\ p.docstatus = old.docstatus
  BY <1>1, <1>2, EditedPlan
<1>4. PICK new : new = IF recompute THEN RecomputedAll(p) ELSE p
  OBVIOUS
<1>5. new \in MarginPlan /\ WholePlan(new) /\ new.order = old.order /\ new.docstatus = old.docstatus
  <2>1. CASE recompute
    BY <1>3, <1>4, <2>1, RecomputedPlan
  <2>2. CASE ~recompute
    BY <1>3, <1>4, <2>2
  <2> QED BY <2>1, <2>2
<1> QED BY <1>1, <1>2, <1>4, <1>5, OnePlan

LEMMA StatusOfPlanKeeps ==
  ASSUME MarginInv, NEW i \in DOMAIN plans, SubmitMarginPlan(i) \/ CancelMarginPlan(i)
  PROVE  MarginInv'
<1>1. PICK p : p = plans[i] /\ p \in MarginPlan /\ WholePlan(p)
  BY DEF MarginInv, MarginTypes
<1>2. PICK status \in {"Submitted", "Cancelled"} : Change(i, [p EXCEPT !.docstatus = status])
  BY <1>1 DEF SubmitMarginPlan, CancelMarginPlan, Change
<1> DEFINE new == [p EXCEPT !.docstatus = status]
<1>3. /\ new \in MarginPlan /\ new.scenarios = p.scenarios /\ new.driver = p.driver
      /\ new.allocation = p.allocation /\ new.order = p.order /\ new.docstatus # "Draft"
  BY <1>1 DEF MarginPlan
<1>4. Change(i, new)
  BY <1>2
<1> HIDE DEF new
<1>5. WholePlan(new)
  BY <1>1, <1>3 DEF WholePlan
<1> QED BY <1>1, <1>3, <1>4, <1>5, OnePlan

LEMMA SeedingKeeps ==
  ASSUME MarginInv, SeedFromQuotation \/ \E o \in Sales : SeedFromOrder(o)
  PROVE  MarginInv'
<1>1. CASE SeedFromQuotation
  <2>1. LineOfQuotation(quotation) \in MarginLine
    BY SeedingLine DEF MarginInv
  <2>2. Seed(Drafts, NoSale, LineOfQuotation(quotation))
    BY <1>1 DEF SeedFromQuotation
  <2>3. PICK line : line = LineOfQuotation(quotation)
    OBVIOUS
  <2>4. PlansOk'
    BY <2>1, <2>2, <2>3, SeededPlans
  <2> QED BY <2>2, <2>4, OnlyPlans DEF Seed
<1>2. CASE \E o \in Sales : SeedFromOrder(o)
  <2>1. PICK o \in Sales : SeedFromOrder(o)
    BY <1>2
  <2>2. PICK line : line = LineOfOrder(o)
    OBVIOUS
  <2>3. line \in MarginLine
    <3>1. sales[o].line.qty = 1 /\ sales[o].line.rate \in Nat
      BY <2>1 DEF SeedFromOrder, MarginInv, SalesFollow, MarginTypes, MarginSale
    <3> QED BY <2>2, <3>1 DEF LineOfOrder, Line, MarginLine
  <2>4. PICK drafts : drafts = {i \in Drafts : plans[i].order = o}
    OBVIOUS
  <2>5. Seed(drafts, o, line)
    BY <2>1, <2>2, <2>4 DEF SeedFromOrder
  <2>6. drafts \subseteq Drafts /\ \A i \in Drafts : plans[i].order = o => i \in drafts
    BY <2>4
  <2>7. PlansOk'
    BY <2>3, <2>5, <2>6, SeededPlans
  <2> QED BY <2>5, <2>7, OnlyPlans DEF Seed
<1> QED BY <1>1, <1>2

LEMMA SettingsKeep ==
  ASSUME MarginInv, SaveSettings \/ ReplaceStructure \/ ApplyTemplate
  PROVE  MarginInv'
<1>1. plans' = plans /\ quotation' = quotation /\ sales' = sales
  BY DEF SaveSettings, ReplaceStructure, ApplyTemplate
<1>2. settings \in [allocation : Nat, least : Nat, policy : {"warn", "block"}, saved : BOOLEAN]
      /\ structure \in MarginDriver /\ ByPercentage(structure)
  BY DEF MarginInv, MarginTypes
<1>3. settings' \in [allocation : Nat, least : Nat, policy : {"warn", "block"}, saved : BOOLEAN]
      /\ structure' \in MarginDriver /\ ByPercentage(structure')
  <2>1. CASE SaveSettings
    BY <1>2, <2>1, MarginConstants DEF SaveSettings
  <2>2. CASE ReplaceStructure
    BY <1>2, <2>2, MarginConstants DEF ReplaceStructure
  <2>3. CASE ApplyTemplate
    <3>1. PICK a \in Percents : structure' = ByRevenue(a)
                                /\ settings' = [settings EXCEPT !.allocation = a, !.saved = TRUE]
      BY <2>3 DEF ApplyTemplate
    <3>2. a \in Nat
      BY MarginConstants
    <3>3. ByRevenue(a) \in MarginDriver /\ ByPercentage(ByRevenue(a))
      BY <3>2 DEF ByRevenue, MarginDriver, ByPercentage
    <3> QED BY <1>2, <3>1, <3>2, <3>3
  <2> QED BY <2>1, <2>2, <2>3
<1>4. MarginTypes'
  BY <1>1, <1>3 DEF MarginInv, MarginTypes
<1>5. (\A i \in DOMAIN plans : WholePlan(plans[i]))' /\ OneDraft'
  BY <1>1, PlansStay
<1> QED BY <1>1, <1>3, <1>4, <1>5 DEF MarginInv, OrderedTellsOrders, SalesFollow

LEMMA ApplyKeeps ==
  ASSUME MarginInv, NEW i \in DOMAIN plans, NEW k \in DOMAIN plans[i].scenarios, ApplyToQuotation(i, k)
  PROVE  MarginInv'
<1>1. PICK p : p = plans[i] /\ p \in MarginPlan
  BY DEF MarginInv, MarginTypes
<1>2. p.scenarios[k] \in ScenarioRow
  BY <1>1 DEF MarginPlan
<1>3. PICK line : line = p.scenarios[k].line /\ line.qty = 1 /\ line.rate \in Nat
  BY <1>2 DEF ScenarioRow, MarginLine
<1>4. quotation' = [quotation EXCEPT !.line = [qty |-> line.qty, rate |-> line.rate]]
      /\ UNCHANGED <<sales, plans, settings, structure>>
  BY <1>1, <1>3 DEF ApplyToQuotation
<1>5. MarginTypes' /\ quotation'.docstatus = quotation.docstatus /\ quotation'.status = quotation.status
  BY <1>3, <1>4 DEF MarginInv, MarginTypes, MarginQuotation
<1>6. (\A j \in DOMAIN plans : WholePlan(plans[j]))' /\ OneDraft'
  BY <1>4, PlansStay
<1> QED BY <1>4, <1>5, <1>6 DEF MarginInv, OrderedTellsOrders, SalesFollow

DocumentsOk ==
  quotation \in MarginQuotation /\ sales \in [Sales -> MarginSale] /\ OrderedTellsOrders /\ SalesFollow

\* a step of the quotation or an order
LEMMA DocumentsKeep ==
  ASSUME MarginInv,
         \/ SubmitQuotation \/ CancelQuotation
         \/ \E o \in Sales : CreateSale(o) \/ SubmitSale(o) \/ CancelSale(o)
  PROVE  MarginInv'
<1>1. UNCHANGED <<plans, settings, structure>>
  BY DEF SubmitQuotation, CancelQuotation, CreateSale, SubmitSale, CancelSale
<1>2. (\A j \in DOMAIN plans : WholePlan(plans[j]))' /\ OneDraft' /\ ByPercentage(structure)'
  BY <1>1, PlansStay DEF MarginInv
<1>3. quotation \in MarginQuotation /\ sales \in [Sales -> MarginSale] /\ OrderedTellsOrders /\ SalesFollow
  BY DEF MarginInv, MarginTypes
<1>4. DocumentsOk'
  <2>1. CASE SubmitQuotation
    BY <1>3, <2>1 DEF SubmitQuotation, DocumentsOk, MarginQuotation, OrderedTellsOrders, SalesFollow
  <2>2. CASE CancelQuotation
    BY <1>3, <2>2 DEF CancelQuotation, DocumentsOk, MarginQuotation, OrderedTellsOrders, SalesFollow
  <2>3. ASSUME NEW o \in Sales, CreateSale(o) PROVE DocumentsOk'
    <3>1. PICK rate \in Rates : sales' = [sales EXCEPT ![o] = [docstatus |-> "Draft", line |-> [qty |-> 1, rate |-> rate]]]
      BY <2>3 DEF CreateSale
    <3>2. rate \in Nat
      BY MarginConstants
    <3>3. \A p \in Sales : sales'[p] = IF p = o THEN [docstatus |-> "Draft", line |-> [qty |-> 1, rate |-> rate]] ELSE sales[p]
      BY <1>3, <3>1
    <3>4. sales' \in [Sales -> MarginSale]
      BY <1>3, <3>1, <3>2 DEF MarginSale
    <3> QED BY <1>3, <2>3, <3>3, <3>4 DEF DocumentsOk, CreateSale, OrderedTellsOrders, SalesFollow
  <2>4. ASSUME NEW o \in Sales, SubmitSale(o) PROVE DocumentsOk'
    <3>1. \A p \in Sales : /\ sales'[p].docstatus = IF p = o THEN "Submitted" ELSE sales[p].docstatus
                           /\ sales'[p].line = sales[p].line
      BY <1>3, <2>4 DEF SubmitSale, MarginSale, MarginQuotation
    <3>2. sales' \in [Sales -> MarginSale]
      BY <1>3, <2>4 DEF SubmitSale, MarginSale, MarginQuotation
    <3>3. quotation' \in MarginQuotation /\ quotation'.docstatus = quotation.docstatus
          /\ quotation'.status = IF quotation.docstatus = "Submitted" THEN "Ordered" ELSE quotation.status
      BY <1>3, <2>4 DEF SubmitSale, MarginSale, MarginQuotation
    <3>4. sales[o].docstatus = "Draft"
      BY <2>4 DEF SubmitSale
    <3> QED BY <1>3, <3>1, <3>2, <3>3, <3>4 DEF DocumentsOk, OrderedTellsOrders, SalesFollow
  <2>5. ASSUME NEW o \in Sales, CancelSale(o) PROVE DocumentsOk'
    <3>1. \A p \in Sales : /\ sales'[p].docstatus = IF p = o THEN "Cancelled" ELSE sales[p].docstatus
                           /\ sales'[p].line = sales[p].line
      BY <1>3, <2>5 DEF CancelSale, MarginSale, MarginQuotation
    <3>2. sales' \in [Sales -> MarginSale]
      BY <1>3, <2>5 DEF CancelSale, MarginSale, MarginQuotation
    <3>3. quotation' \in MarginQuotation /\ quotation'.docstatus = quotation.docstatus
          /\ quotation'.status = IF Reopened(o) THEN "Open" ELSE quotation.status
      BY <1>3, <2>5 DEF CancelSale, MarginSale, MarginQuotation
    <3>4. sales[o].docstatus = "Submitted"
      BY <2>5 DEF CancelSale
    <3> QED BY <1>3, <3>1, <3>2, <3>3, <3>4 DEF DocumentsOk, OrderedTellsOrders, SalesFollow, Reopened
  <2> QED BY <2>1, <2>2, <2>3, <2>4, <2>5
<1> QED BY <1>1, <1>2, <1>4 DEF MarginInv, MarginTypes, DocumentsOk

-----------------------------------------------------------------------------
(* Margin plans: what follows from the invariant.                           *)

LEMMA MarginStart == MInit => MarginInv
<1> SUFFICES ASSUME MInit PROVE MarginInv
  OBVIOUS
<1>1. PICK rate \in Rates, cut \in Cuts :
        quotation = [docstatus |-> "Draft", status |-> "Draft", line |-> [qty |-> 1, rate |-> rate], cut |-> cut]
  BY DEF MInit
<1>2. rate \in Nat /\ cut \in 0 .. 99
  BY MarginConstants, MarginsAssumption
<1>3. quotation \in MarginQuotation /\ quotation.docstatus = "Draft"
  BY <1>1, <1>2 DEF MarginQuotation
<1>4. sales \in [Sales -> MarginSale] /\ \A o \in Sales : sales[o].docstatus = "Absent"
  BY DEF MInit, MarginSale
<1>5. plans \in Seq(MarginPlan) /\ DOMAIN plans = {}
  BY DEF MInit
<1>6. settings \in [allocation : Nat, least : Nat, policy : {"warn", "block"}, saved : BOOLEAN]
      /\ structure \in MarginDriver /\ ByPercentage(structure)
  BY MarginConstants DEF MInit
<1>7. OneDraft /\ \A i \in DOMAIN plans : WholePlan(plans[i])
  BY <1>5 DEF OneDraft, Drafts
<1> QED BY <1>3, <1>4, <1>5, <1>6, <1>7 DEF MarginInv, MarginTypes, OrderedTellsOrders, SalesFollow

LEMMA MarginStep == MarginInv /\ [MNext]_mvars => MarginInv'
<1> SUFFICES ASSUME MarginInv, [MNext]_mvars PROVE MarginInv'
  OBVIOUS
<1>1. CASE SaveSettings \/ ReplaceStructure \/ ApplyTemplate
  BY <1>1, SettingsKeep
<1>2. CASE SeedFromQuotation \/ \E o \in Sales : SeedFromOrder(o)
  BY <1>2, SeedingKeeps
<1>3. CASE SubmitQuotation \/ CancelQuotation \/ \E o \in Sales : CreateSale(o) \/ SubmitSale(o) \/ CancelSale(o)
  BY <1>3, DocumentsKeep
<1>4. ASSUME NEW i \in DOMAIN plans,
             CreateScenario(i) \/ UpdatePlan(i) \/ SubmitMarginPlan(i) \/ CancelMarginPlan(i)
      PROVE  MarginInv'
  BY <1>4, CreateScenarioKeeps, UpdatePlanKeeps, StatusOfPlanKeeps
<1>5. ASSUME NEW i \in DOMAIN plans, NEW k \in DOMAIN plans[i].scenarios,
             UpdateScenario(i, k) \/ DeleteScenario(i, k) \/ ApplyToQuotation(i, k)
      PROVE  MarginInv'
  BY <1>5, UpdateScenarioKeeps, DeleteScenarioKeeps, ApplyKeeps
<1>6. CASE UNCHANGED mvars
  <2>1. PlansOk' /\ UNCHANGED <<quotation, sales, settings, structure>>
    BY <1>6, PlansStay DEF mvars, PlansOk
  <2> QED BY <2>1, OnlyPlans
<1> QED BY <1>1, <1>2, <1>3, <1>4, <1>5, <1>6 DEF MNext

LEMMA MarginSafe == MarginInv => MarginsHold
<1> SUFFICES ASSUME MarginInv PROVE MarginsHold
  OBVIOUS
<1>1. AllocationsTellDrivers
  BY DEF MarginInv, WholePlan, AllocationsTellDrivers
<1>2. ASSUME NEW i \in DOMAIN plans
      PROVE  {k \in DOMAIN plans[i].scenarios : plans[i].scenarios[k].base} = {1}
  <2>1. plans[i] \in MarginPlan /\ WholePlan(plans[i])
    BY DEF MarginInv, MarginTypes
  <2> QED BY <2>1, FirstIsBaseline DEF WholePlan
<1>3. PlansAreWhole
  BY <1>2 DEF MarginInv, OneDraft, PlansAreWhole
<1> QED BY <1>1, <1>3 DEF MarginInv, MarginsHold

\* what the gate lets pass
LEMMA GatePasses ==
  ASSUME MarginInv, NEW owner, NEW line, Passes(owner)
  PROVE  EnoughFor(owner, line)
<1> SUFFICES ASSUME NEW i \in PlansFor(owner), \A j \in PlansFor(owner) : j <= i, plans[i].policy = "block",
                    BaselineOf(plans[i]).ov = NoOverride, BaselineOf(plans[i]).line = line, line.rate # 0
             PROVE  (line.rate - UnitCost) * 100 >= plans[i].least * line.rate
  BY DEF EnoughFor
<1>1. i \in DOMAIN plans /\ i \in LatestOf(PlansFor(owner))
  BY DEF PlansFor, LatestOf
<1>2. KeepsLeast(BaselineOf(plans[i]).costs, plans[i].least)
  BY <1>1 DEF Passes
<1>3. PICK s : s = BaselineOf(plans[i]) /\ s \in ScenarioRow /\ Estimated(s)
  BY <1>1, FirstIsBaseline DEF MarginInv, MarginTypes
<1>4. PICK r : r = line.rate /\ r \in Nat /\ r # 0
  BY <1>3 DEF ScenarioRow, MarginLine
<1>5. PICK c : c = UnitCost /\ c \in Nat
  BY MarginConstants
<1>6. s.costs.revenue = r /\ s.costs.variable = c * 1
  BY <1>3, <1>4, <1>5 DEF Estimated
<1>7. s.costs.variable = c
  BY <1>5, <1>6
<1> QED BY <1>2, <1>3, <1>4, <1>5, <1>6, <1>7 DEF KeepsLeast

LEMMA GateKeeps ==
  MarginInv /\ [MNext]_mvars =>
    /\ quotation.docstatus = "Draft" /\ quotation'.docstatus = "Submitted"
         => EnoughFor(NoSale, Line("quotation", quotation.line.qty, NetRate(quotation)))
    /\ \A o \in Sales :
         sales[o].docstatus = "Draft" /\ sales'[o].docstatus = "Submitted" => EnoughFor(o, LineOfOrder(o))
<1> SUFFICES ASSUME MarginInv, [MNext]_mvars
             PROVE  /\ quotation.docstatus = "Draft" /\ quotation'.docstatus = "Submitted" => Passes(NoSale)
                    /\ \A o \in Sales :
                         sales[o].docstatus = "Draft" /\ sales'[o].docstatus = "Submitted" => Passes(o)
  BY GatePasses
<1> DEFINE Kept == quotation'.docstatus = quotation.docstatus /\ sales' = sales
<1>1. quotation \in MarginQuotation /\ sales \in [Sales -> MarginSale]
  BY DEF MarginInv, MarginTypes
<1>2. CASE SaveSettings \/ ReplaceStructure \/ ApplyTemplate
  BY <1>2 DEF SaveSettings, ReplaceStructure, ApplyTemplate
<1>3. CASE SeedFromQuotation \/ \E o \in Sales : SeedFromOrder(o)
  BY <1>3 DEF SeedFromQuotation, SeedFromOrder, Seed
<1>4. CASE SubmitQuotation
  BY <1>4 DEF SubmitQuotation
<1>5. CASE CancelQuotation
  BY <1>1, <1>5 DEF CancelQuotation, MarginQuotation
<1>6. ASSUME NEW p \in Sales, CreateSale(p)
      PROVE  quotation' = quotation /\ \A o \in Sales : sales'[o].docstatus = "Submitted" => sales[o].docstatus = "Submitted"
  <2>1. PICK rate \in Rates : sales' = [sales EXCEPT ![p] = [docstatus |-> "Draft", line |-> [qty |-> 1, rate |-> rate]]]
    BY <1>6 DEF CreateSale
  <2>2. \A o \in Sales : o # p => sales'[o] = sales[o]
    BY <1>1, <2>1
  <2>3. sales'[p].docstatus = "Draft"
    BY <1>1, <2>1
  <2> QED BY <1>6, <2>2, <2>3 DEF CreateSale
<1>7. ASSUME NEW p \in Sales, SubmitSale(p)
      PROVE  /\ Passes(p) /\ quotation'.docstatus = quotation.docstatus
             /\ \A o \in Sales : o # p => sales'[o] = sales[o]
  BY <1>1, <1>7 DEF SubmitSale, MarginQuotation
<1>8. ASSUME NEW p \in Sales, CancelSale(p)
      PROVE  /\ quotation'.docstatus = quotation.docstatus
             /\ sales'[p].docstatus = "Cancelled"
             /\ \A o \in Sales : o # p => sales'[o] = sales[o]
  BY <1>1, <1>8 DEF CancelSale, MarginQuotation, MarginSale
<1>9. ASSUME NEW i \in DOMAIN plans,
             CreateScenario(i) \/ UpdatePlan(i) \/ SubmitMarginPlan(i) \/ CancelMarginPlan(i)
      PROVE  Kept
  BY <1>9 DEF CreateScenario, UpdatePlan, SubmitMarginPlan, CancelMarginPlan, Change
<1>10. ASSUME NEW i \in DOMAIN plans, NEW k \in DOMAIN plans[i].scenarios,
              UpdateScenario(i, k) \/ DeleteScenario(i, k) \/ ApplyToQuotation(i, k)
       PROVE  Kept
  BY <1>1, <1>10 DEF UpdateScenario, DeleteScenario, ApplyToQuotation, Change, MarginQuotation
<1>11. CASE UNCHANGED mvars
  BY <1>11 DEF mvars
<1>12. CASE \E p \in Sales : CreateSale(p) \/ SubmitSale(p) \/ CancelSale(p)
  BY <1>12, <1>6, <1>7, <1>8
<1> QED BY <1>2, <1>3, <1>4, <1>5, <1>9, <1>10, <1>11, <1>12 DEF MNext

LEMMA DriversReachAll ==
  MarginInv /\ [MNext]_mvars =>
    \A i \in DOMAIN plans :
      /\ plans'[i].driver # plans[i].driver
      /\ \E k \in DOMAIN plans[i].scenarios : plans'[i].scenarios[k] # plans[i].scenarios[k]
      => Reestimated(plans[i], plans'[i])
<1> SUFFICES ASSUME MarginInv, [MNext]_mvars, NEW i \in DOMAIN plans,
                    plans'[i].driver # plans[i].driver,
                    \E k \in DOMAIN plans[i].scenarios : plans'[i].scenarios[k] # plans[i].scenarios[k]
             PROVE  Reestimated(plans[i], plans'[i])
  OBVIOUS
<1>1. plans \in Seq(MarginPlan) /\ \A j \in DOMAIN plans : WholePlan(plans[j])
  BY DEF MarginInv, MarginTypes
<1>2. plans' # plans
  OBVIOUS
<1>3. CASE SeedFromQuotation \/ \E o \in Sales : SeedFromOrder(o)
  <2>1. PICK drafts, owner, line : drafts \subseteq Drafts /\ Seed(drafts, owner, line)
                                   /\ line \in MarginLine
    <3>1. CASE SeedFromQuotation
      BY <3>1, SeedingLine DEF SeedFromQuotation, MarginInv
    <3>2. CASE \E o \in Sales : SeedFromOrder(o)
      <4>1. PICK o \in Sales : SeedFromOrder(o)
        BY <3>2
      <4>2. sales[o].line.qty = 1 /\ sales[o].line.rate \in Nat
        BY <4>1 DEF SeedFromOrder, MarginInv, SalesFollow, MarginTypes, MarginSale
      <4>3. LineOfOrder(o) \in MarginLine
        BY <4>2 DEF LineOfOrder, Line, MarginLine
      <4> QED BY <4>1, <4>3 DEF SeedFromOrder
    <3> QED BY <1>3, <3>1, <3>2
  <2>2. CASE drafts = {}
    <3>1. plans'[i] = plans[i]
      BY <1>1, <2>1, <2>2 DEF Seed
    <3> QED BY <3>1
  <2>3. CASE drafts # {}
    <3>1. PICK j \in drafts : plans' = [plans EXCEPT ![j] = Reseeded(plans[j], line)]
      BY <2>1, <2>3 DEF Seed
    <3>2. j \in DOMAIN plans
      BY <2>1 DEF Drafts
    <3>3. Reseeded(plans[j], line).driver = plans[j].driver
      BY <1>1, <2>1, <3>2, ReseededPlan
    <3>4. plans'[i].driver = plans[i].driver
      BY <1>1, <3>1, <3>2, <3>3
    <3> QED BY <3>4
  <2> QED BY <2>2, <2>3
<1>4. ASSUME NEW j \in DOMAIN plans, UpdatePlan(j) PROVE Reestimated(plans[i], plans'[i])
  <2>1. PICK old : old = plans[j] /\ old \in MarginPlan /\ WholePlan(old)
    BY <1>1
  <2>2. PICK p \in {old} \cup {WithDriver(old, d) : d \in Drivers}
                   \cup {WithAllocation(old, a) : a \in Percents} \cup {[old EXCEPT !.least = 0]},
             recompute \in BOOLEAN : Change(j, IF recompute THEN RecomputedAll(p) ELSE p)
    BY <1>4, <2>1 DEF UpdatePlan
  <2>3. p \in MarginPlan /\ WholePlan(p) /\ p.scenarios = old.scenarios
    BY <2>1, <2>2, EditedPlan
  <2>4. i = j
    BY <1>1, <2>2 DEF Change
  <2>5. recompute
    BY <1>1, <2>1, <2>2, <2>3, <2>4 DEF Change
  <2>6. PICK new : new = RecomputedAll(p) /\ plans'[i] = new
    BY <1>1, <2>2, <2>4, <2>5 DEF Change
  <2>7. /\ WholePlan(new) /\ new \in MarginPlan /\ new.driver = p.driver
        /\ DOMAIN new.scenarios = DOMAIN p.scenarios
        /\ \A k \in DOMAIN p.scenarios :
             /\ new.scenarios[k].costs = CostsOf(new.scenarios[k].line, new.scenarios[k].factor, p.driver)
             /\ new.scenarios[k].ov = p.scenarios[k].ov
             /\ new.scenarios[k].line = Patched(BaselineOf(p).line, new.scenarios[k].ov)
    BY <2>3, <2>6, RecomputedPlan
  <2>8. BaselineOf(old) = old.scenarios[1] /\ BaselineOf(p) = p.scenarios[1]
        /\ BaselineOf(new) = new.scenarios[1] /\ 1 \in DOMAIN p.scenarios
    BY <2>1, <2>3, <2>7, FirstIsBaseline
  <2>9. BaselineOf(old).ov = NoOverride => BaselineOf(new).line = BaselineOf(p).line
    <3>1. NoOverride.rate = 0
      BY DEF NoOverride
    <3>2. new.scenarios[1].ov = old.scenarios[1].ov
          /\ new.scenarios[1].line = Patched(BaselineOf(p).line, new.scenarios[1].ov)
      BY <2>3, <2>7, <2>8
    <3>3. Patched(BaselineOf(p).line, NoOverride) = BaselineOf(p).line
      BY <3>1 DEF Patched
    <3> QED BY <2>8, <3>2, <3>3
  <2>10. Reestimated(old, new)
    BY <2>3, <2>7, <2>8, <2>9 DEF Reestimated
  <2> QED BY <2>1, <2>4, <2>6, <2>10
<1>5. ASSUME NEW j \in DOMAIN plans, NEW p, p.driver = plans[j].driver, plans' = [plans EXCEPT ![j] = p]
      PROVE  FALSE
  <2>1. plans'[i].driver = plans[i].driver
    BY <1>1, <1>5
  <2> QED BY <2>1
<1>6. ASSUME NEW j \in DOMAIN plans, CreateScenario(j) \/ SubmitMarginPlan(j) \/ CancelMarginPlan(j)
      PROVE  FALSE
  <2>1. PICK old : old = plans[j] /\ old \in MarginPlan
    BY <1>1
  <2>2. PICK p : plans' = [plans EXCEPT ![j] = p] /\ p.driver = old.driver
    <3>1. CASE CreateScenario(j)
      BY <2>1, <3>1 DEF CreateScenario, Change, MarginPlan
    <3>2. CASE SubmitMarginPlan(j)
      BY <2>1, <3>2 DEF SubmitMarginPlan, Change, MarginPlan
    <3>3. CASE CancelMarginPlan(j)
      BY <2>1, <3>3 DEF CancelMarginPlan, MarginPlan
    <3> QED BY <1>6, <3>1, <3>2, <3>3
  <2> QED BY <1>5, <2>1, <2>2
<1>7. ASSUME NEW j \in DOMAIN plans, NEW k \in DOMAIN plans[j].scenarios,
             UpdateScenario(j, k) \/ DeleteScenario(j, k) \/ ApplyToQuotation(j, k)
      PROVE  FALSE
  <2>1. PICK old : old = plans[j] /\ old \in MarginPlan
    BY <1>1
  <2>2. ~ApplyToQuotation(j, k)
    BY <1>2 DEF ApplyToQuotation
  <2>3. PICK p : plans' = [plans EXCEPT ![j] = p] /\ p.driver = old.driver
    BY <1>7, <2>1, <2>2 DEF UpdateScenario, DeleteScenario, Change, MarginPlan
  <2> QED BY <1>5, <2>1, <2>3
<1>8. ~(SaveSettings \/ ReplaceStructure \/ ApplyTemplate \/ SubmitQuotation \/ CancelQuotation)
      /\ ~\E o \in Sales : CreateSale(o) \/ SubmitSale(o) \/ CancelSale(o)
  BY <1>2 DEF SaveSettings, ReplaceStructure, ApplyTemplate, SubmitQuotation, CancelQuotation,
              CreateSale, SubmitSale, CancelSale
<1>9. ~UNCHANGED mvars
  BY <1>2 DEF mvars
<1> QED BY <1>3, <1>4, <1>6, <1>7, <1>8, <1>9 DEF MNext

\* The percentages of a plan agree, a quotation is "Ordered" exactly while one
\* of its orders is submitted, and a plan has one baseline and an order one
\* draft plan, for any rates, drivers, overrides and orders.
THEOREM MarginsAreSafe == MSpec => []MarginsHold
BY MarginStart, MarginStep, MarginSafe, PTL DEF MSpec

\* Whatever is planned, patched, recomputed and edited before: what a blocking
\* policy lets pass keeps the least margin.
THEOREM GateHolds == MSpec => NothingSubmittedBelow
BY MarginStart, MarginStep, GateKeeps, PTL DEF MSpec, NothingSubmittedBelow

\* New drivers reach every scenario of a plan or none.
THEOREM DriversReachScenarios == MSpec => PlansRecomputed
BY MarginStart, MarginStep, DriversReachAll, PTL DEF MSpec, PlansRecomputed

=============================================================================
