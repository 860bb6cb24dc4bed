------------------------------ MODULE Requests ------------------------------
(***************************************************************************)
(* Material requests and the purchase orders raised against their rows     *)
(* (services/material_request.py, stock_reorder.py, purchase_order.py).  A *)
(* submitted order adds its quantity to the ordered quantity of the        *)
(* request's row and a cancelled one takes it off; both read the row and   *)
(* write the sum without locking it.  What keeps two of them apart is the  *)
(* bin they lock first, when they have one in common.                      *)
(***************************************************************************)
EXTENDS Integers, FiniteSets, Functions

CONSTANTS
  ReqRows,      \* rows of the request
  Wanted,       \* quantity of each, in stock units
  POs,          \* purchase orders, numbered as they are named
  Amounts,      \* what an order may order
  Bins,         \* the bins an order can be received into; NoBin: not a stock item
  Buyers, NoBin, NoDeal

ASSUME RequestAssumption ==
  /\ Wanted \in [ReqRows -> Nat \ {0}] /\ Amounts \subseteq Nat \ {0}
  /\ POs \subseteq Nat /\ NoBin \notin Bins

VARIABLES
  request,  \* docstatus, status and ordered quantity of each row
  po,       \* docstatus, row, quantity and bin of each order
  onOrder,  \* ordered_qty of each bin
  deal,     \* the order each buyer is submitting or cancelling
  met,      \* history: rows and status were written from overlapping reads
  shared    \* history: a row was drafted twice before either draft was submitted

rvars == <<request, po, onOrder, deal, met, shared>>

Absent == [docstatus |-> "Absent", row |-> 0, qty |-> 0, bin |-> NoBin]
Ordered(r) == request.ordered[r]
AtLeastZero(n) == IF n > 0 THEN n ELSE 0
TheLess(a, b) == IF a < b THEN a ELSE b

\* per_ordered, without the percentage
RequestStatus(ordered) ==
  LET total == SumFunctionOnSet(Wanted, ReqRows)
      done == SumFunctionOnSet([r \in ReqRows |-> TheLess(ordered[r], Wanted[r])], ReqRows) IN
  CASE done >= total -> "Ordered"
    [] done > 0 /\ done < total -> "Partially Ordered"
    [] OTHER -> "Pending"

RInit ==
  /\ request = [docstatus |-> "Draft", status |-> "Draft", ordered |-> [r \in ReqRows |-> 0]]
  /\ po = [o \in POs |-> Absent]
  /\ onOrder = [b \in Bins |-> 0]
  /\ deal = [c \in Buyers |-> NoDeal]
  /\ met = FALSE
  /\ shared = {}

----------------------------------------------------------------------------
SubmitRequest ==
  /\ request.docstatus = "Draft"
  /\ request' = [request EXCEPT !.docstatus = "Submitted", !.status = RequestStatus(request.ordered)]
  /\ UNCHANGED <<po, onOrder, deal, met, shared>>

CancelRequest ==
  /\ request.docstatus = "Submitted"
  /\ request' = [request EXCEPT !.docstatus = "Cancelled", !.status = "Cancelled"]
  /\ met' = (met \/ \E c \in Buyers : deal[c] # NoDeal)
  /\ UNCHANGED <<po, onOrder, deal, shared>>

\* mutant: what is on order already is not counted
FitsAlone(r, qty) == qty <= Wanted[r]

\* _validate_mr_links
Fits(r, qty) == Ordered(r) + qty <= Wanted[r]

DraftOrder(o, r, qty, bin) ==
  /\ po[o] = Absent /\ \A q \in POs : q < o => po[q] # Absent
  /\ request.docstatus = "Submitted"
  /\ Fits(r, qty)
  /\ po' = [po EXCEPT ![o] = [docstatus |-> "Draft", row |-> r, qty |-> qty, bin |-> bin]]
  /\ shared' = IF \E q \in POs : po[q].docstatus = "Draft" /\ po[q].row = r
               THEN shared \cup {r} ELSE shared
  /\ UNCHANGED <<request, onOrder, deal, met>>

----------------------------------------------------------------------------
(* Submitting and cancelling an order *)

Signed(o, sign) == sign * po[o].qty

\* mutant: the bin is not locked
Unlocked(bin) == TRUE

\* the bin is locked until the transaction ends
BinFree(bin) == bin = NoBin \/ \A c \in Buyers : deal[c] # NoDeal => po[deal[c].po].bin # bin

Wanting(o, sign) ==
  \/ sign = 1 /\ po[o].docstatus = "Draft"
  \/ sign = -1 /\ po[o].docstatus = "Submitted"

\* the bin is locked, and then the rows of the request are read; o itself is
\* loaded before, by one buyer at a time
BeginDeal(c, o, sign) ==
  /\ deal[c] = NoDeal /\ Wanting(o, sign)
  /\ \A d \in Buyers : deal[d] # NoDeal => deal[d].po # o
  /\ BinFree(po[o].bin)
  /\ deal' = [deal EXCEPT ![c] =
       [po |-> o, sign |-> sign, read |-> request.ordered, docstatus |-> request.docstatus,
        status |-> request.status,
        expected |-> IF po[o].bin = NoBin THEN 0 ELSE onOrder[po[o].bin]]]
  /\ met' = (met \/ \E d \in Buyers : deal[d] # NoDeal)
  /\ UNCHANGED <<request, po, onOrder, shared>>

\* mutant: the status is left to the next order
RowOnly(read, docstatus, status) == status

\* set_material_request_status
StatusOf(ordered, docstatus, status) ==
  IF docstatus = "Submitted" THEN RequestStatus(ordered) ELSE status

\* mutant: not cut off at zero
PlainSum(n, delta) == n + delta

SumOf(n, delta) == AtLeastZero(n + delta)

\* the row and the status are written as computed from what was read
EndDeal(c) ==
  /\ deal[c] # NoDeal
  /\ LET d == deal[c]
         o == po[d.po]
         new == [d.read EXCEPT ![o.row] = SumOf(@, Signed(d.po, d.sign))]
         status == StatusOf(new, d.docstatus, d.status) IN
     /\ request' = [request EXCEPT !.ordered[o.row] = new[o.row],
                                   !.status = IF status # d.status THEN status ELSE @]
     /\ po' = [po EXCEPT ![d.po].docstatus = IF d.sign = 1 THEN "Submitted" ELSE "Cancelled"]
     /\ onOrder' = IF o.bin = NoBin THEN onOrder
                   ELSE [onOrder EXCEPT ![o.bin] = SumOf(d.expected, Signed(d.po, d.sign))]
  /\ deal' = [deal EXCEPT ![c] = NoDeal]
  /\ UNCHANGED <<met, shared>>

RefuseDeal(c) ==
  /\ deal[c] # NoDeal
  /\ deal' = [deal EXCEPT ![c] = NoDeal]
  /\ UNCHANGED <<request, po, onOrder, met, shared>>

RNext ==
  \/ SubmitRequest \/ CancelRequest
  \/ \E o \in POs, r \in ReqRows, qty \in Amounts, bin \in Bins \cup {NoBin} :
       DraftOrder(o, r, qty, bin)
  \/ \E c \in Buyers :
       \/ \E o \in POs, sign \in {1, -1} : BeginDeal(c, o, sign)
       \/ EndDeal(c) \/ RefuseDeal(c)

RSpec == RInit /\ [][RNext]_rvars

----------------------------------------------------------------------------
(* Properties *)

\* Columns have their types; an order that left the draft stage names a row.
RTypeOK ==
  /\ request.docstatus \in {"Draft", "Submitted", "Cancelled"}
  /\ request.status \in {"Draft", "Pending", "Partially Ordered", "Ordered", "Cancelled"}
  /\ request.ordered \in [ReqRows -> Nat]
  /\ \A o \in POs : po[o].docstatus # "Absent" => po[o].row \in ReqRows /\ po[o].bin \in Bins \cup {NoBin}
  /\ onOrder \in [Bins -> Nat]

Standing(r) == {o \in POs : po[o].docstatus = "Submitted" /\ po[o].row = r}
QtyOf(S) == SumFunctionOnSet([o \in POs |-> po[o].qty], S)

\* A row whose orders all go into one bin counts exactly the submitted ones,
\* although its own row is never locked: the lock of the bin, taken for another
\* purpose, also orders the reads of the row (_refresh_material_requests).
OneBin(r) == \E b \in Bins : \A o \in POs : (po[o] # Absent /\ po[o].row = r) => po[o].bin = b
OrderedIsStanding == \A r \in ReqRows : OneBin(r) => Ordered(r) = QtyOf(Standing(r))

\* What a bin expects is what is on order for it (update_ordered_qty).
ExpectedIsStanding ==
  \A b \in Bins : onOrder[b] = QtyOf({o \in POs : po[o].docstatus = "Submitted" /\ po[o].bin = b})

\* A request reads Pending, Partially Ordered or Ordered as its rows say, unless
\* two orders for it overlapped (set_material_request_status).
StatusTellsOrdered ==
  (~met /\ request.docstatus = "Submitted") => request.status = RequestStatus(request.ordered)

\* More than was requested is ordered only where a row had two drafts at once:
\* each passes the check of its creation, and a submission checks nothing
\* ("with enough unordered quantity", _validate_mr_links).
NeverOverordered ==
  ~met => \A r \in ReqRows \ shared : Ordered(r) <= Wanted[r]

\* All of it together but NeverOverordered: a request and the bins follow the orders.
RequestFollowsOrders ==
  RTypeOK /\ OrderedIsStanding /\ ExpectedIsStanding /\ StatusTellsOrdered
=============================================================================
