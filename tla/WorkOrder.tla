----------------------------- MODULE WorkOrder -----------------------------
(***************************************************************************)
(* One work order (services/work_order.py): its material is transferred to *)
(* the shop floor, consumed, and turned into finished goods, each by a     *)
(* stock entry the order drives, and each undone by cancelling that entry. *)
(*                                                                         *)
(* Driving an entry takes three transactions: the draft is committed, the  *)
(* draft is submitted (which posts stock), and the order's counters are    *)
(* advanced from the values the request loaded at its start - the session  *)
(* keeps the instance, so the second get_work_order refreshes nothing.     *)
(* Requests of one transaction are one step.  Quantities are whole         *)
(* multiples of the bill of materials; stock and accounts may refuse an    *)
(* entry, and then its draft stays behind.                                 *)
(***************************************************************************)
EXTENDS Integers, FiniteSetsExt

CONSTANTS
  Components,
  Substitutes,  \* item_alternative rows: component -> other item
  PerUnit,      \* required_qty of a component per finished unit
  Sample,       \* the order's first component row
  Qty,          \* ordered quantity
  Allowed,      \* with the over-production allowance
  Entries,      \* identities of stock entries
  Crew, Resting, NoPurpose

ASSUME WorkOrderAssumption ==
  /\ Qty \in Nat \ {0} /\ Allowed \in Nat /\ Allowed >= Qty
  /\ IsFiniteSet(Components) /\ IsFiniteSet(Entries)
  /\ Sample \in Components
  /\ \A c \in Components : PerUnit[c] \in Nat \ {0}
  /\ DOMAIN Substitutes \subseteq Components
  /\ \A c \in DOMAIN Substitutes : Substitutes[c] \notin Components

VARIABLES
  wo,     \* docstatus, status, produced, transferred; consumed and staged by component
  entry,  \* purpose, docstatus, finished quantity, rows by item
  turn,   \* the request each worker is serving
  orphans \* history: entries posted without the order being told

ovars == <<wo, entry, turn, orphans>>

Items == Components \cup {Substitutes[c] : c \in DOMAIN Substitutes}
Purposes == {"Manufacture", "Transfer", "Consumption"}
Counts == [Components -> Nat]
OrderRow ==
  [docstatus : {"Draft", "Submitted", "Cancelled"},
   status : {"Draft", "Not Started", "In Process", "Completed", "Stopped", "Cancelled"},
   produced : Nat, transferred : Nat, consumed : Counts, staged : Counts]
Drive == [entry : Entries, loaded : OrderRow, counted : Counts, posted : BOOLEAN]

ASSUME RestingAssumption == Resting \notin Drive

Zero == [c \in Components |-> 0]
Fewer(a, b) == IF a < b THEN a ELSE b
NotBelow0(n) == IF n > 0 THEN n ELSE 0
Required(c) == PerUnit[c] * Qty

Started(o) == o.produced > 0 \/ o.transferred > 0 \/ \E c \in Components : o.consumed[c] > 0

\* _recompute_status
Recomputed(o) ==
  IF o.produced >= Qty THEN "Completed"
  ELSE IF Started(o) THEN "In Process" ELSE "Not Started"

OInit ==
  /\ wo = [docstatus |-> "Draft", status |-> "Draft", produced |-> 0, transferred |-> 0,
           consumed |-> Zero, staged |-> Zero]
  /\ entry = [e \in Entries |->
       [purpose |-> NoPurpose, docstatus |-> "Absent", qty |-> 0, rows |-> [i \in Items |-> 0]]]
  /\ turn = [w \in Crew |-> Resting]
  /\ orphans = {}

\* what a request of w that loaded o and computed n writes: the changed columns
Columns(o, n) ==
  [docstatus |-> wo.docstatus,
   status |-> IF n.status = o.status THEN wo.status ELSE n.status,
   produced |-> IF n.produced = o.produced THEN wo.produced ELSE n.produced,
   transferred |-> IF n.transferred = o.transferred THEN wo.transferred ELSE n.transferred,
   consumed |-> [c \in Components |->
     IF n.consumed[c] = o.consumed[c] THEN wo.consumed[c] ELSE n.consumed[c]],
   staged |-> [c \in Components |->
     IF n.staged[c] = o.staged[c] THEN wo.staged[c] ELSE n.staged[c]]]

------------------------------------------------------------------------------
\* Requests of one transaction.

SubmitWorkOrder(w) ==
  /\ turn[w] = Resting
  /\ wo.docstatus = "Draft"
  /\ wo' = [wo EXCEPT !.docstatus = "Submitted", !.status = "Not Started"]
  /\ UNCHANGED <<entry, turn, orphans>>

\* mutant: consumed material does not keep the order alive
CancelUnproduced(w) ==
  /\ turn[w] = Resting
  /\ wo.docstatus = "Submitted"
  /\ wo.produced <= 0 /\ wo.transferred <= 0
  /\ wo' = [wo EXCEPT !.docstatus = "Cancelled", !.status = "Cancelled"]
  /\ UNCHANGED <<entry, turn, orphans>>

CancelWorkOrder(w) ==
  /\ turn[w] = Resting
  /\ wo.docstatus = "Submitted"
  /\ ~Started(wo)
  /\ wo' = [wo EXCEPT !.docstatus = "Cancelled", !.status = "Cancelled"]
  /\ UNCHANGED <<entry, turn, orphans>>

StopOrder(w) ==
  /\ turn[w] = Resting
  /\ wo.docstatus = "Submitted"
  /\ wo.status # "Completed"
  /\ wo' = [wo EXCEPT !.status = "Stopped"]
  /\ UNCHANGED <<entry, turn, orphans>>

ResumeOrder(w) ==
  /\ turn[w] = Resting
  /\ wo.docstatus = "Submitted"
  /\ wo.status = "Stopped"
  /\ wo' = [wo EXCEPT !.status = Recomputed(wo)]
  /\ UNCHANGED <<entry, turn, orphans>>

------------------------------------------------------------------------------
\* Requests that drive a stock entry: first transaction.

\* the draft e for q finished units is committed; counted is what the order will
\* count for each component
Draft(w, e, purpose, q, rows, counted) ==
  /\ entry[e].docstatus = "Absent"
  /\ entry' = [entry EXCEPT ![e] =
       [purpose |-> purpose, docstatus |-> "Draft", qty |-> q, rows |-> rows]]
  /\ turn' = [turn EXCEPT ![w] =
       [entry |-> e, loaded |-> wo, counted |-> counted, posted |-> FALSE]]
  /\ UNCHANGED <<wo, orphans>>

\* mutant: what was consumed before is not subtracted
NeedAll(q) == [c \in Components |-> PerUnit[c] * q]

\* mutant: it is subtracted from the need of these units
NeedLessConsumed(q) == [c \in Components |-> NotBelow0(PerUnit[c] * q - wo.consumed[c])]

\* consume_qty: never more than is still pending
Need(q) ==
  [c \in Components |-> Fewer(PerUnit[c] * q, NotBelow0(Required(c) - wo.consumed[c]))]

\* the rows of an entry that takes counted, with the components of swap replaced
RowsOf(counted, swap) ==
  [i \in Items |->
     IF i \in Components THEN IF i \in swap THEN 0 ELSE counted[i]
     ELSE SumFunctionOnSet(counted, {c \in swap : Substitutes[c] = i})]

BeginFinish(w, e, q, swap) ==
  /\ turn[w] = Resting
  /\ wo.docstatus = "Submitted" /\ wo.status # "Stopped"
  /\ q <= Allowed - wo.produced
  /\ Draft(w, e, "Manufacture", q, RowsOf(Need(q), swap), Need(q))

BeginConsume(w, e, q) ==
  /\ turn[w] = Resting
  /\ wo.docstatus = "Submitted" /\ wo.status \notin {"Stopped", "Completed"}
  /\ q <= Allowed - wo.produced
  /\ Need(q) # Zero
  /\ Draft(w, e, "Consumption", q, RowsOf(Need(q), {}), Need(q))

BeginTransfer(w, e, q) ==
  /\ turn[w] = Resting
  /\ wo.docstatus = "Submitted"
  /\ q <= Allowed - wo.transferred
  /\ LET moved == [c \in Components |-> PerUnit[c] * q]
     IN  Draft(w, e, "Transfer", q, RowsOf(moved, {}), moved)

------------------------------------------------------------------------------
\* Second transaction: submit_stock_entry.

PostEntry(w) ==
  /\ turn[w] # Resting /\ ~turn[w].posted
  /\ entry[turn[w].entry].docstatus = "Draft"
  /\ entry' = [entry EXCEPT ![turn[w].entry].docstatus = "Submitted"]
  /\ turn' = [turn EXCEPT ![w].posted = TRUE]
  /\ UNCHANGED <<wo, orphans>>

\* the submit is refused (no stock, or not a draft any more), the draft stays
RefuseEntry(w) ==
  /\ turn[w] # Resting /\ ~turn[w].posted
  /\ turn' = [turn EXCEPT ![w] = Resting]
  /\ UNCHANGED <<wo, entry, orphans>>

\* the server dies before the order was advanced
DieBetween(w) ==
  /\ turn[w] # Resting /\ turn[w].posted
  /\ turn' = [turn EXCEPT ![w] = Resting]
  /\ orphans' = orphans \cup {turn[w].entry}
  /\ UNCHANGED <<wo, entry>>

\* POST /stock-entries/{id}/submit on a draft left behind
SubmitByHand(w, e) ==
  /\ turn[w] = Resting
  /\ entry[e].docstatus = "Draft"
  /\ entry' = [entry EXCEPT ![e].docstatus = "Submitted"]
  /\ orphans' = orphans \cup {e}
  /\ UNCHANGED <<wo, turn>>

------------------------------------------------------------------------------
\* Third transaction: the order's counters.

\* the counters of o after an entry of units finished units and these component rows
Counted(o, purpose, units, rows) ==
  IF purpose = "Transfer"
  THEN [o EXCEPT !.transferred = NotBelow0(@ + units),
                 !.staged = [c \in Components |-> NotBelow0(@[c] + rows[c])]]
  ELSE [o EXCEPT !.produced = IF purpose = "Manufacture" THEN NotBelow0(@ + units) ELSE @,
                 !.consumed = [c \in Components |-> NotBelow0(@[c] + rows[c])]]

\* mutant: the over-produced units are not counted
AddedUpToQty(o, purpose, q, counted) ==
  LET n == Counted(o, purpose, q, counted)
  IN  [n EXCEPT !.produced = Fewer(@, Qty), !.status = Recomputed(n)]

\* the order o with an entry of q units added
Added(o, purpose, q, counted) ==
  LET n == Counted(o, purpose, q, counted)
  IN  [n EXCEPT !.status =
         IF purpose # "Transfer" THEN Recomputed(n)
         ELSE IF @ = "Not Started" THEN "In Process" ELSE @]

Advance(w) ==
  /\ turn[w] # Resting /\ turn[w].posted
  /\ LET e == entry[turn[w].entry]
         o == turn[w].loaded
     IN  wo' = Columns(o, Added(o, e.purpose, e.qty, turn[w].counted))
  /\ turn' = [turn EXCEPT ![w] = Resting]
  /\ UNCHANGED <<entry, orphans>>

------------------------------------------------------------------------------
\* cancel_stock_entry, which rolls the order back in its own transaction.

\* the finished units of an entry; those of a transfer are inferred from one row
UnitsOf(e) == IF e.purpose = "Transfer" THEN e.rows[Sample] \div PerUnit[Sample] ELSE e.qty

\* mutant: a cancelled transfer leaves the status alone
RevertedQuietly(o, e) ==
  LET n == Counted(o, e.purpose, -UnitsOf(e), [c \in Components |-> -e.rows[c]])
  IN  [n EXCEPT !.status =
         IF @ = "Stopped" \/ e.purpose = "Transfer" THEN @ ELSE Recomputed(n)]

\* mutant: only the finished goods are taken back
RevertedProduct(o, e) ==
  LET n == Counted(o, e.purpose, -UnitsOf(e), Zero)
  IN  [n EXCEPT !.status = IF @ = "Stopped" THEN @ ELSE Recomputed(n)]

\* revert_manufacture_entry, revert_transfer_entry, revert_consumption_entry: the
\* rows are matched by item
Reverted(o, e) ==
  LET n == Counted(o, e.purpose, -UnitsOf(e), [c \in Components |-> -e.rows[c]])
  IN  [n EXCEPT !.status = IF @ = "Stopped" THEN @ ELSE Recomputed(n)]

CancelEntry(w, e) ==
  /\ turn[w] = Resting
  /\ entry[e].docstatus = "Submitted"
  /\ entry' = [entry EXCEPT ![e].docstatus = "Cancelled"]
  /\ wo' = Reverted(wo, entry[e])
  /\ UNCHANGED <<turn, orphans>>

ONext ==
  \E w \in Crew :
    \/ SubmitWorkOrder(w) \/ CancelWorkOrder(w) \/ StopOrder(w) \/ ResumeOrder(w)
    \/ \E e \in Entries :
         \/ \E q \in 1 .. Allowed :
              \/ \E swap \in SUBSET DOMAIN Substitutes : BeginFinish(w, e, q, swap)
              \/ BeginConsume(w, e, q)
              \/ BeginTransfer(w, e, q)
         \/ SubmitByHand(w, e)
         \/ CancelEntry(w, e)
    \/ PostEntry(w) \/ RefuseEntry(w) \/ DieBetween(w) \/ Advance(w)

OSpec == OInit /\ [][ONext]_ovars

------------------------------------------------------------------------------
(***************************************************************************)
(* Properties                                                              *)
(***************************************************************************)

\* The columns have their types, and no component is consumed beyond its requirement.
OTypeOK ==
  /\ wo \in OrderRow
  /\ \A c \in Components : wo.consumed[c] <= Required(c)
  /\ entry \in [Entries -> [purpose : Purposes \cup {NoPurpose},
                            docstatus : {"Absent", "Draft", "Submitted", "Cancelled"},
                            qty : Nat, rows : [Items -> Nat]]]
  /\ turn \in [Crew -> Drive \cup {Resting}]

LiveEntries(purpose) ==
  {e \in Entries : entry[e].docstatus = "Submitted" /\ entry[e].purpose = purpose}
Units(S) == SumFunctionOnSet([e \in Entries |-> entry[e].qty], S)

\* posted, and about to be counted
InFlight == {turn[w].entry : w \in {x \in Crew : turn[x] # Resting /\ turn[x].posted}}

\* Unless an entry was posted behind the order's back, what the order counts as
\* produced and transferred is what its submitted stock entries say, through any
\* order of finishing, transferring and cancelling, whatever drafts were left behind
\* (work_order.py:7 "accrue produced/consumed qty").
CountersTellEntries ==
  orphans = {} =>
    /\ wo.produced = Units(LiveEntries("Manufacture") \ InFlight)
    /\ wo.transferred = Units(LiveEntries("Transfer") \ InFlight)
    /\ \A c \in Components :
         wo.staged[c] = PerUnit[c] * Units(LiveEntries("Transfer") \ InFlight)

\* Then finished goods never enter stock beyond the over-production allowance
\* either (work_order.py:502).
NeverOverproduced == orphans = {} => Units(LiveEntries("Manufacture")) <= Allowed

\* A submitted order that is not stopped reads Completed, In Process or Not Started
\* exactly as its counters say, although seven operations maintain the status and
\* the server may die between them.
StatusTellsProgress ==
  wo.docstatus = "Submitted" /\ wo.status # "Stopped" => wo.status = Recomputed(wo)

\* Finished units up to the ordered quantity are backed by their material, whoever
\* consumed it first; only cancelling an entry can take the backing away.
Backed ==
  \A c \in Components : wo.consumed[c] >= PerUnit[c] * Fewer(wo.produced, Qty)
BackedUntilCancelled ==
  [][Backed /\ ~Backed' =>
       \E e \in Entries : entry[e].docstatus = "Submitted" /\ entry'[e].docstatus = "Cancelled"]_ovars

\* As long as no entry uses a substitute, the consumed counters are the rows of the
\* submitted entries.  (Cancelling an entry matches its rows by item, and a
\* substitute's row does not name the component it was counted for.)
UsedOf(c) ==
  SumFunctionOnSet([e \in Entries |-> entry[e].rows[c]],
                   (LiveEntries("Manufacture") \cup LiveEntries("Consumption")) \ InFlight)
Swapped(e) == \E i \in Items \ Components : entry[e].rows[i] > 0
ConsumedIsPosted ==
  orphans = {} /\ (\A e \in Entries : ~Swapped(e)) =>
    \A c \in Components : wo.consumed[c] = UsedOf(c)

\* A cancelled order has no stock posted (work_order.py:394 "blocked once anything
\* has been produced"), substitutes or not, unless behind its back.
NoStock == \A e \in Entries : entry[e].docstatus # "Submitted"
CancelledIsEmpty == orphans = {} /\ wo.docstatus = "Cancelled" => NoStock

\* The same without the exception.
CancelledHasNoStock == wo.docstatus = "Cancelled" => NoStock

\* Cancelling every entry of an order gives every counter back (work_order.py:701
\* "Roll back a Work Order's produced / consumed qty when its Manufacture Stock
\* Entry is cancelled").
AllGivenBack ==
  orphans = {} /\ NoStock => wo.produced = 0 /\ wo.transferred = 0 /\ wo.consumed = Zero

\* All counters together: an order follows its stock entries.
OrderFollowsEntries ==
  OTypeOK /\ CountersTellEntries /\ ConsumedIsPosted /\ CancelledIsEmpty /\ NeverOverproduced
=============================================================================
