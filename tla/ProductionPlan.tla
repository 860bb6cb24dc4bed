--------------------------- MODULE ProductionPlan ---------------------------
(***************************************************************************)
(* One production plan (services/production_plan.py): rows of finished     *)
(* goods are pulled from open sales orders or typed in, exploded into a    *)
(* proposal of raw materials, and turned into work orders and one material *)
(* request.  Editing, submitting and cancelling are one transaction each.  *)
(* Creating the work orders is two per row: the order commits, and then    *)
(* the link and the counter of the row; so is the material request.  A     *)
(* request works on the plan as it loaded it, because the session keeps    *)
(* the instances through its commits.                                      *)
(***************************************************************************)
EXTENDS Integers, Sequences, FiniteSetsExt

CONSTANTS
  PlanRows,     \* rows of the plan
  Quantities,   \* what a row may be planned for
  MaxOrders,    \* bound: work orders of one row
  MaxEdits,     \* bound: times the rows are replaced
  Planners, NoTask

ASSUME PlanAssumption ==
  /\ IsFiniteSet(PlanRows) /\ Quantities \subseteq Nat \ {0}
  /\ MaxOrders \in Nat /\ MaxEdits \in Nat

VARIABLES
  plan,       \* docstatus, status, rows, edition of the rows, proposal, flags
  orders,     \* work orders created for each row: quantities, in order
  requests,   \* material requests created for the proposal
  task,       \* what each planner is doing, with the plan it loaded
  interrupted \* history: a creation died half-way, or met another request

pvars == <<plan, orders, requests, task, interrupted>>

RowType == [planned : Quantities \cup {0}, ordered : Nat, order : 0 .. MaxOrders]
PlanType ==
  [docstatus : {"Draft", "Submitted", "Cancelled"}, status : {"Draft", "Submitted", "Completed", "Cancelled"},
   rows : [PlanRows -> RowType], edition : 0 .. MaxEdits,
   proposal : [edition : 0 .. MaxEdits, requested : BOOLEAN], ordersMade : BOOLEAN, requestsMade : BOOLEAN]
TaskType ==
  [doing : {"orders", "request"}, todo : SUBSET PlanRows, copy : PlanType, made : 0 .. MaxOrders,
   row : PlanRows \cup {0}]
ASSUME TaskAssumption == NoTask \notin TaskType

NoRow == [planned |-> 0, ordered |-> 0, order |-> 0]
NoProposal == [edition |-> 0, requested |-> FALSE]
RowOf(qty) == [planned |-> qty, ordered |-> 0, order |-> 0]

PInit ==
  /\ plan = [docstatus |-> "Draft", status |-> "Draft", rows |-> [r \in PlanRows |-> NoRow],
             edition |-> 0, proposal |-> NoProposal, ordersMade |-> FALSE, requestsMade |-> FALSE]
  /\ orders = [r \in PlanRows |-> <<>>]
  /\ requests = 0
  /\ task = [p \in Planners |-> NoTask]
  /\ interrupted = FALSE

Working(p) == task[p] # NoTask
Meets(p) == interrupted' = (interrupted \/ \E q \in Planners \ {p} : Working(q))
Planned(x) == {r \in PlanRows : x.rows[r].planned > 0}
LeftToOrder(row) == IF row.planned > row.ordered THEN row.planned - row.ordered ELSE 0

----------------------------------------------------------------------------
(* One transaction *)

\* mutant: the proposal for the old rows stays
RowsReplaced(x, qty) ==
  [x EXCEPT !.rows = [r \in PlanRows |-> IF qty[r] = 0 THEN NoRow ELSE RowOf(qty[r])],
            !.edition = @ + 1]

\* rows typed in, or the pending quantities of sales orders: either replaces all
WithRows(x, qty) ==
  [x EXCEPT !.rows = [r \in PlanRows |-> IF qty[r] = 0 THEN NoRow ELSE RowOf(qty[r])],
            !.edition = @ + 1, !.proposal = NoProposal]

\* mutant: a submitted plan can be edited
NotCancelled(x) == x.docstatus # "Cancelled"

Editable(x) == x.docstatus = "Draft"

EditRows(p, qty) ==
  /\ ~Working(p) /\ Editable(plan) /\ plan.edition < MaxEdits
  /\ plan' = WithRows(plan, qty)
  /\ UNCHANGED <<orders, requests, task, interrupted>>

\* the shortfall of raw materials for the rows as they are
GetRawMaterials(p) ==
  /\ ~Working(p) /\ plan.docstatus = "Draft"
  /\ Planned(plan) # {}
  /\ plan' = [plan EXCEPT !.proposal = [edition |-> plan.edition, requested |-> FALSE]]
  /\ UNCHANGED <<orders, requests, task, interrupted>>

SubmitPlan(p) ==
  /\ ~Working(p) /\ plan.docstatus = "Draft"
  /\ Planned(plan) # {}
  /\ plan' = [plan EXCEPT !.docstatus = "Submitted", !.status = "Submitted"]
  /\ UNCHANGED <<orders, requests, task, interrupted>>

\* mutant: a plan is barred by the flag alone, which is set after the last row
Unused(x) == ~x.ordersMade /\ ~x.requestsMade

Barren(x) ==
  /\ ~x.ordersMade /\ \A r \in PlanRows : x.rows[r].order = 0
  /\ ~x.requestsMade /\ ~x.proposal.requested

CancelPlan(p) ==
  /\ ~Working(p) /\ plan.docstatus = "Submitted"
  /\ Barren(plan)
  /\ plan' = [plan EXCEPT !.docstatus = "Cancelled", !.status = "Cancelled"]
  /\ Meets(p)
  /\ UNCHANGED <<orders, requests, task>>

----------------------------------------------------------------------------
(* Work orders *)

\* mutant: a row that has its order is not passed over
Unordered(x) == {r \in Planned(x) : x.rows[r].planned > 0}

\* rows that still need an order
NeedsOrder(x) == {r \in Planned(x) : LeftToOrder(x.rows[r]) > 0 /\ x.rows[r].order = 0}

BeginOrders(p) ==
  /\ ~Working(p) /\ plan.docstatus = "Submitted"
  /\ NeedsOrder(plan) # {}
  /\ task' = [task EXCEPT ![p] =
       [doing |-> "orders", todo |-> NeedsOrder(plan), copy |-> plan, made |-> 0, row |-> 0]]
  /\ Meets(p)
  /\ UNCHANGED <<plan, orders, requests>>

\* create_work_order commits
CreateOrder(p, r) ==
  /\ Working(p) /\ task[p].doing = "orders" /\ task[p].made = 0
  /\ r \in task[p].todo
  /\ Len(orders[r]) < MaxOrders
  /\ orders' = [orders EXCEPT ![r] = Append(@, LeftToOrder(task[p].copy.rows[r]))]
  /\ task' = [task EXCEPT ![p].made = Len(orders[r]) + 1, ![p].row = r, ![p].todo = @ \ {r}]
  /\ UNCHANGED <<plan, requests, interrupted>>

\* mutant: the counter of the row is left alone
LinkedOnly(row, order) == [row EXCEPT !.order = order]

Linked(row, order) ==
  [row EXCEPT !.order = order, !.ordered = @ + LeftToOrder(row)]

\* both columns are written from the copy
LinkOrder(p) ==
  /\ Working(p) /\ task[p].doing = "orders" /\ task[p].made # 0
  /\ LET r == task[p].row
         new == Linked(task[p].copy.rows[r], task[p].made) IN
     /\ plan' = [plan EXCEPT !.rows[r].order = new.order, !.rows[r].ordered = new.ordered]
     /\ task' = [task EXCEPT ![p].copy.rows[r] = new, ![p].made = 0, ![p].row = 0]
  /\ UNCHANGED <<orders, requests, interrupted>>

AllOrdered(x) == \A r \in Planned(x) : LeftToOrder(x.rows[r]) = 0

EndOrders(p) ==
  /\ Working(p) /\ task[p].doing = "orders" /\ task[p].made = 0 /\ task[p].todo = {}
  /\ plan' = [plan EXCEPT !.ordersMade = TRUE,
                          !.status = IF AllOrdered(task[p].copy) THEN "Completed" ELSE @]
  /\ task' = [task EXCEPT ![p] = NoTask]
  /\ UNCHANGED <<orders, requests, interrupted>>

----------------------------------------------------------------------------
(* The material request *)

BeginRequest(p) ==
  /\ ~Working(p) /\ plan.docstatus = "Submitted"
  /\ plan.proposal.edition # 0 /\ ~plan.proposal.requested
  /\ requests < MaxOrders
  /\ requests' = requests + 1
  /\ task' = [task EXCEPT ![p] =
       [doing |-> "request", todo |-> {}, copy |-> plan, made |-> 0, row |-> 0]]
  /\ Meets(p)
  /\ UNCHANGED <<plan, orders>>

LinkRequest(p) ==
  /\ Working(p) /\ task[p].doing = "request"
  /\ plan' = [plan EXCEPT !.proposal.requested = TRUE, !.requestsMade = TRUE]
  /\ task' = [task EXCEPT ![p] = NoTask]
  /\ UNCHANGED <<orders, requests, interrupted>>

\* between two transactions the server dies, or the next order is refused
Halt(p) ==
  /\ Working(p)
  /\ interrupted' = (interrupted \/ task[p].doing = "request" \/ task[p].made # 0)
  /\ task' = [task EXCEPT ![p] = NoTask]
  /\ UNCHANGED <<plan, orders, requests>>

PNext ==
  \E p \in Planners :
    \/ \E qty \in [PlanRows -> Quantities \cup {0}] : EditRows(p, qty)
    \/ GetRawMaterials(p) \/ SubmitPlan(p) \/ CancelPlan(p)
    \/ BeginOrders(p) \/ \E r \in PlanRows : CreateOrder(p, r)
    \/ LinkOrder(p) \/ EndOrders(p)
    \/ BeginRequest(p) \/ LinkRequest(p) \/ Halt(p)

PSpec == PInit /\ [][PNext]_pvars

----------------------------------------------------------------------------
(* Properties *)

\* Rows have their types, and no row counts more as ordered than it plans.
PTypeOK ==
  /\ plan.docstatus \in {"Draft", "Submitted", "Cancelled"}
  /\ plan.status \in {"Draft", "Submitted", "Completed", "Cancelled"}
  /\ plan.rows \in [PlanRows -> RowType]
  /\ \A r \in PlanRows : plan.rows[r].ordered <= plan.rows[r].planned
  /\ plan.edition \in 0 .. MaxEdits /\ requests \in 0 .. MaxOrders

\* However often the creation is stopped after a row and started again, each
\* row gets one work order for what it plans: the "Draft Work Order for each FG
\* row that still needs one" (create_work_orders_from_plan).
OrderedOnce ==
  ~interrupted =>
    \A r \in PlanRows :
      /\ Len(orders[r]) <= 1
      /\ Len(orders[r]) = 1 => orders[r][1] = plan.rows[r].planned
      /\ plan.rows[r].order # 0 => plan.rows[r].ordered = plan.rows[r].planned

\* A row that names a work order counts that order's quantity, whoever linked
\* it, and a completed plan has an order for every row, even when two planners
\* work on it.
LinksTellOrders ==
  /\ \A r \in PlanRows : plan.rows[r].order # 0 =>
       /\ plan.rows[r].order \in DOMAIN orders[r]
       /\ orders[r][plan.rows[r].order] = plan.rows[r].ordered
  /\ plan.status = "Completed" => \A r \in Planned(plan) : plan.rows[r].order # 0

\* A cancelled plan left no work order and no request behind, although the flags
\* that bar it are set in the last of several transactions.
CancelledPlanIsBarren ==
  (~interrupted /\ plan.docstatus = "Cancelled") =>
    requests = 0 /\ \A r \in PlanRows : orders[r] = <<>>

\* The raw materials requested are those of the rows that are produced: every
\* change of the rows drops the proposal made for the old ones.
ProposalIsCurrent == plan.proposal.edition \in {0, plan.edition}

\* All of it together: a plan follows the orders made from it.
PlanFollowsOrders ==
  PTypeOK /\ OrderedOnce /\ LinksTellOrders /\ CancelledPlanIsBarren /\ ProposalIsCurrent
=============================================================================
