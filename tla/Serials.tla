------------------------------ MODULE Serials ------------------------------
(***************************************************************************)
(* Serial numbers (services/stock_serials.py) and the vouchers that carry  *)
(* them: receipts and their returns, deliveries and theirs, transfers and  *)
(* issues.  A number is a row with a status, a warehouse and links to the  *)
(* receipt that created it and the delivery that holds it; the bin of the  *)
(* item keeps a quantity.  Nothing but the rules of move_serials makes the *)
(* two agree, and no number is ever locked: a voucher takes the row locks  *)
(* of its bins (make_sl_entries) before it reads its numbers.              *)
(*                                                                         *)
(* One serialised item.  A request takes all its bins at once, which       *)
(* StockLedger takes one by one, and reads its numbers in the same step.   *)
(* A second request for the same voucher is left out, and so are counts    *)
(* (stock_reconciliation.py), which move a bin and ask for no numbers.     *)
(***************************************************************************)
EXTENDS Integers, FiniteSets

CONSTANTS
  Numbers,
  Places,     \* warehouses
  Papers,     \* vouchers
  KindOf,     \* what each of them is
  RowFor,     \* RowFor[p]: for each number of p, the warehouse of its row
  Target,     \* where a transfer brings its numbers
  Returned,   \* return_against: the voucher a return is against, or NoPaper
  Keepers, NoPaper, NoPlace, Unasked

Kinds == {"Receipt", "Supplier return", "Issue", "Transfer", "Delivery", "Customer return"}

Of(kind) == {p \in Papers : KindOf[p] = kind}
RowsAt(p, s) == Cardinality({n \in DOMAIN RowFor[p] : RowFor[p][n] = s})

ASSUME SerialsAssumption ==
  /\ KindOf \in [Papers -> Kinds]
  /\ \A p \in Papers : RowFor[p] \in [DOMAIN RowFor[p] -> Places] /\ DOMAIN RowFor[p] \subseteq Numbers
  /\ Target \in [Papers -> Places] /\ DOMAIN Returned = Papers
  \* create_delivery_note, create_purchase_receipt: a return is against one that is none
  /\ \A p \in Papers : Returned[p] \in CASE KindOf[p] = "Customer return" -> Of("Delivery")
                                       [] KindOf[p] = "Supplier return" -> Of("Receipt")
                                       [] OTHER -> {NoPaper}
  /\ \A p \in Papers, s \in Places : Returned[p] # NoPaper => RowsAt(p, s) <= RowsAt(Returned[p], s)
  /\ NoPaper \notin Papers /\ NoPlace \notin Places /\ IsFiniteSet(Numbers)

VARIABLES
  number,  \* status, warehouse, delivery and purchase voucher
  onHand,  \* actual_qty of each bin
  paper,   \* docstatus of each voucher
  errand   \* the voucher each request posts or cancels, and the numbers it read

nvars == <<number, onHand, paper, errand>>

Unknown == [status |-> "Unknown", at |-> NoPlace, delivery |-> NoPaper, purchase |-> NoPaper]

NInit ==
  /\ number = [n \in Numbers |-> Unknown]
  /\ onHand = [s \in Places |-> 0]
  /\ paper = [p \in Papers |-> "Absent"]
  /\ errand = [k \in Keepers |-> Unasked]

\* a return is drafted against a submitted voucher
WritePaper(p) ==
  /\ paper[p] = "Absent"
  /\ Returned[p] # NoPaper => paper[Returned[p]] = "Submitted"
  /\ paper' = [paper EXCEPT ![p] = "Draft"]
  /\ UNCHANGED <<number, onHand, errand>>

----------------------------------------------------------------------------
(* What a voucher does to a number *)

Is(x, status) == x.status = status
Here(x, s) == x.status = "In Stock" /\ x.at = s

\* mutant: any delivery of the number will do
DeliveredAtAll(x, d) == Is(x, "Delivered")
\* delivery_voucher_match
DeliveredBy(x, d) == Is(x, "Delivered") /\ x.delivery = d

\* mutant: a receipt is cancelled wherever its goods are
InAnyStock(x, s) == Is(x, "In Stock")
\* the guard of delete_serials
StillThere(x, s) == Here(x, s)

\* the conditions of create_serials, delete_serials and move_serials
MayTake(p, op, x, s) ==
  CASE KindOf[p] = "Receipt"         -> IF op = "submit" THEN Is(x, "Unknown") ELSE StillThere(x, s)
    [] KindOf[p] = "Delivery"        -> IF op = "submit" THEN Here(x, s) ELSE DeliveredBy(x, p)
    [] KindOf[p] = "Customer return" -> IF op = "submit" THEN DeliveredBy(x, Returned[p]) ELSE Here(x, s)
    [] KindOf[p] = "Issue"           -> IF op = "submit" THEN Here(x, s) ELSE Is(x, "Returned")
    [] KindOf[p] = "Supplier return" -> /\ x.purchase = Returned[p]
                                        /\ IF op = "submit" THEN Here(x, s) ELSE Is(x, "Returned")
    [] KindOf[p] = "Transfer"        -> Here(x, IF op = "submit" THEN s ELSE Target[p])

\* mutant: the number keeps the link to the cancelled delivery
StillLinked(x) == [x EXCEPT !.status = "In Stock"]
\* cancelling a delivery leaves the warehouse column as it is
HomeAgain(x) == [x EXCEPT !.status = "In Stock", !.delivery = NoPaper]

Taken(p, op, x, s) ==
  CASE KindOf[p] = "Receipt" ->
         IF op = "submit" THEN [Unknown EXCEPT !.status = "In Stock", !.at = s, !.purchase = p] ELSE Unknown
    [] KindOf[p] = "Delivery" ->
         IF op = "submit" THEN [x EXCEPT !.status = "Delivered", !.delivery = p] ELSE HomeAgain(x)
    [] KindOf[p] = "Customer return" ->
         IF op = "submit" THEN [x EXCEPT !.status = "In Stock", !.at = s, !.delivery = NoPaper]
         ELSE [x EXCEPT !.status = "Delivered", !.delivery = Returned[p]]
    [] KindOf[p] \in {"Issue", "Supplier return"} ->
         IF op = "submit" THEN [x EXCEPT !.status = "Returned"]
         ELSE [x EXCEPT !.status = "In Stock", !.at = s]
    [] KindOf[p] = "Transfer" -> [x EXCEPT !.at = IF op = "submit" THEN Target[p] ELSE s]

\* the quantity its ledger entries add to a bin
Brought(p, s) ==
  CASE KindOf[p] \in {"Receipt", "Customer return"} -> RowsAt(p, s)
    [] KindOf[p] = "Transfer" ->
         (IF s = Target[p] THEN Cardinality(DOMAIN RowFor[p]) ELSE 0) - RowsAt(p, s)
    [] OTHER -> -RowsAt(p, s)

----------------------------------------------------------------------------
(* A request *)

BinsOf(p) ==
  {RowFor[p][n] : n \in DOMAIN RowFor[p]} \cup (IF KindOf[p] = "Transfer" THEN {Target[p]} ELSE {})

\* mutant: the numbers are read before the bins are locked
BinsAnyway(p) == TRUE
\* get_bin_for_update, until the transaction ends
BinsFree(p) == \A k \in Keepers : errand[k] # Unasked => BinsOf(errand[k].paper) \cap BinsOf(p) = {}

Take(k, p, op) ==
  /\ errand[k] = Unasked
  /\ \A j \in Keepers : errand[j] # Unasked => errand[j].paper # p
  /\ paper[p] = IF op = "submit" THEN "Draft" ELSE "Submitted"
  /\ BinsFree(p)
  /\ \A n \in DOMAIN RowFor[p] : MayTake(p, op, number[n], RowFor[p][n])
  /\ errand' = [errand EXCEPT ![k] = [paper |-> p, op |-> op, read |-> number]]
  /\ UNCHANGED <<number, onHand, paper>>

\* the columns that changed are written; a number exists once (uq_serial_no)
Written(now, read, new) == [c \in DOMAIN now |-> IF new[c] = read[c] THEN now[c] ELSE new[c]]

Keep(k) ==
  /\ errand[k] # Unasked
  /\ LET e == errand[k]
         new == [n \in DOMAIN RowFor[e.paper] |-> Taken(e.paper, e.op, e.read[n], RowFor[e.paper][n])]
     IN /\ \A n \in DOMAIN new : Is(e.read[n], "Unknown") => Is(number[n], "Unknown")
        /\ number' = [n \in Numbers |->
             IF n \in DOMAIN new THEN Written(number[n], e.read[n], new[n]) ELSE number[n]]
        /\ onHand' = [s \in Places |->
             onHand[s] + IF e.op = "submit" THEN Brought(e.paper, s) ELSE -Brought(e.paper, s)]
        /\ paper' = [paper EXCEPT ![e.paper] = IF e.op = "submit" THEN "Submitted" ELSE "Cancelled"]
  /\ errand' = [errand EXCEPT ![k] = Unasked]

\* the ledger refuses, or the process dies
Abort(k) ==
  /\ errand[k] # Unasked
  /\ errand' = [errand EXCEPT ![k] = Unasked]
  /\ UNCHANGED <<number, onHand, paper>>

NNext ==
  \/ \E p \in Papers : WritePaper(p)
  \/ \E k \in Keepers :
       \/ \E p \in Papers, op \in {"submit", "cancel"} : Take(k, p, op)
       \/ Keep(k) \/ Abort(k)

NSpec == NInit /\ [][NNext]_nvars

----------------------------------------------------------------------------
(* Properties *)

\* The columns have their types.
NTypeOK ==
  /\ number \in [Numbers -> [status : {"Unknown", "In Stock", "Delivered", "Returned"},
                             at : Places \cup {NoPlace},
                             delivery : Papers \cup {NoPaper}, purchase : Papers \cup {NoPaper}]]
  /\ onHand \in [Places -> Int]
  /\ paper \in [Papers -> {"Absent", "Draft", "Submitted", "Cancelled"}]

\* A bin holds as many units as there are numbers in stock there, after any
\* interleaving of vouchers that share numbers and any order of cancelling
\* them.  It takes that every delivery ships from one warehouse: where one
\* ships from two, a unit returned to the other one's warehouse stays there when
\* the return and then the delivery are cancelled ("cancel calls the inverse",
\* stock_serials.py).
NumbersFillBins ==
  \A s \in Places : onHand[s] = Cardinality({n \in Numbers : Here(number[n], s)})

\* A delivered number names the submitted delivery that has it and no live
\* return brought back, and a number in hand or sent back the receipt that
\* brought it, unless cancelled; no number is delivered and in stock at once.
NumbersNameTheirVouchers ==
  \A n \in Numbers :
    /\ Is(number[n], "Delivered") =>
         /\ paper[number[n].delivery] = "Submitted" /\ n \in DOMAIN RowFor[number[n].delivery]
         /\ \A p \in Papers :
              Returned[p] = number[n].delivery /\ n \in DOMAIN RowFor[p] => paper[p] # "Submitted"
    /\ ~Is(number[n], "Delivered") => number[n].delivery = NoPaper
    /\ ~Is(number[n], "Unknown") =>
         paper[number[n].purchase] = "Submitted" /\ n \in DOMAIN RowFor[number[n].purchase]

SerialsFollowVouchers == NTypeOK /\ NumbersFillBins /\ NumbersNameTheirVouchers
=============================================================================
