------------------------------ MODULE Planning ------------------------------
(***************************************************************************)
(* The documents around production, side by side: a subcontracting job, a  *)
(* production plan, a material request, a job card and the bills of        *)
(* materials.  Each is served on its own; none reads another's state here. *)
(***************************************************************************)
EXTENDS Subcontract, ProductionPlan, Requests, JobCards, Boms

\* What each document counts is what hangs on it, after any order of
\* entries, orders, requests, reports and their cancellation: the counters of
\* the subcontracting job, the rows of the production plan, the ordered
\* quantities of the request, the totals of the job card; and of the bills of
\* an item, the one in use.
CountersFollow ==
  /\ JobFollowsSlips /\ PlanFollowsOrders /\ RequestFollowsOrders /\ CardFollowsLogs /\ NeverOverordered
  /\ BomsAgree
=============================================================================
