------------------------------ MODULE JobCards ------------------------------
(***************************************************************************)
(* One job card of a work order's operation (services/job_card.py): its    *)
(* timer is started and stopped, finished pieces are reported, and each    *)
(* request also writes the operation.  A request reads the card with its   *)
(* time logs and commits later, so two of them may overlap.                *)
(***************************************************************************)
EXTENDS Integers, Sequences, SequencesExt

CONSTANTS
  ForQty,   \* quantity of the work order
  Reports,  \* quantities a worker reports, 0 for none
  MaxLogs,  \* bound
  Hands, Free

ASSUME CardAssumption == ForQty \in Nat \ {0} /\ Reports \subseteq Nat /\ MaxLogs \in Nat

VARIABLES
  card,       \* docstatus, status, completed quantity
  logs,       \* time logs of the card: running or not, and pieces
  operation,  \* the work order's operation: status and completed quantity
  hand,       \* the request each worker is making, with what it read
  overlapped  \* history

jvars == <<card, logs, operation, hand, overlapped>>

JInit ==
  /\ card = [docstatus |-> "Draft", status |-> "Open", total |-> 0]
  /\ logs = <<>>
  /\ operation = [status |-> "Pending", completed |-> 0]
  /\ hand = [h \in Hands |-> Free]
  /\ overlapped = FALSE

Running(ls) == {i \in DOMAIN ls : ls[i].running}
Unfinished(c) == c.docstatus # "Cancelled" /\ c.status # "Completed"

Read(h, request) ==
  /\ hand[h] = Free
  /\ hand' = [hand EXCEPT ![h] = [does |-> request, card |-> card, logs |-> logs]]
  /\ overlapped' = (overlapped \/ \E g \in Hands : hand[g] # Free)
  /\ UNCHANGED <<card, logs, operation>>


MayStart(c, ls) == Unfinished(c) /\ Running(ls) = {}


MayCancel(c, ls) == c.docstatus # "Cancelled" /\ c.total <= 0 /\ Running(ls) = {}

\* mutant: each report alone is compared with the quantity
SmallReport(c, qty) == qty <= ForQty

Fitting(c, qty) == qty <= ForQty - c.total

BeginStart(h) == MayStart(card, logs) /\ Len(logs) < MaxLogs /\ Read(h, [kind |-> "start", qty |-> 0])
BeginComplete(h, qty) ==
  /\ Unfinished(card) /\ Fitting(card, qty) /\ Len(logs) < MaxLogs
  /\ Read(h, [kind |-> "complete", qty |-> qty])
BeginCancelCard(h) == MayCancel(card, logs) /\ Read(h, [kind |-> "cancel", qty |-> 0])

\* columns that differ from what was read
Written(old, new) ==
  [docstatus |-> IF new.docstatus # old.docstatus THEN new.docstatus ELSE card.docstatus,
   status |-> IF new.status # old.status THEN new.status ELSE card.status,
   total |-> IF new.total # old.total THEN new.total ELSE card.total]
Submitted(c) == IF c.docstatus = "Draft" THEN "Submitted" ELSE c.docstatus

Start(h) ==
  /\ hand[h] # Free /\ hand[h].does.kind = "start"
  /\ LET old == hand[h].card IN
     card' = Written(old, [old EXCEPT !.status = "Work In Progress", !.docstatus = Submitted(old)])
  /\ logs' = Append(logs, [running |-> TRUE, qty |-> 0])
  /\ operation' = [operation EXCEPT !.status = "Work In Progress"]
  /\ hand' = [hand EXCEPT ![h] = Free]
  /\ UNCHANGED overlapped

StatusAfter(total) ==
  CASE total >= ForQty -> "Completed"
    [] total > 0 /\ total < ForQty -> "Work In Progress"
    [] OTHER -> "Open"

\* mutant: pieces reported without a timer are not logged
TimedOnly(now, read, qty) ==
  IF Running(read) # {} THEN [now EXCEPT ![Min(Running(read))] = [running |-> FALSE, qty |-> qty]] ELSE now

\* the timer stops, or the pieces are logged without one
LogsAfter(now, read, qty) ==
  IF Running(read) # {} THEN [now EXCEPT ![Min(Running(read))] = [running |-> FALSE, qty |-> qty]]
  ELSE IF qty > 0 THEN Append(now, [running |-> FALSE, qty |-> qty]) ELSE now

\* mutant: the operation is told when the card is completed
OperationAtEnd(total) ==
  [status |-> IF total >= ForQty THEN "Completed" ELSE "Work In Progress",
   completed |-> IF total >= ForQty THEN total ELSE operation.completed]

OperationAfter(total) ==
  [status |-> IF total >= ForQty THEN "Completed" ELSE "Work In Progress", completed |-> total]

Complete(h) ==
  /\ hand[h] # Free /\ hand[h].does.kind = "complete"
  /\ LET old == hand[h].card
         total == old.total + hand[h].does.qty IN
     /\ card' = Written(old, [docstatus |-> Submitted(old), status |-> StatusAfter(total), total |-> total])
     /\ logs' = LogsAfter(logs, hand[h].logs, hand[h].does.qty)
     /\ operation' = OperationAfter(total)
  /\ hand' = [hand EXCEPT ![h] = Free]
  /\ UNCHANGED overlapped

CancelCard(h) ==
  /\ hand[h] # Free /\ hand[h].does.kind = "cancel"
  /\ card' = Written(hand[h].card, [hand[h].card EXCEPT !.docstatus = "Cancelled", !.status = "Cancelled"])
  /\ operation' = [status |-> "Pending", completed |-> 0]
  /\ hand' = [hand EXCEPT ![h] = Free]
  /\ UNCHANGED <<logs, overlapped>>

JNext ==
  \E h \in Hands :
    \/ BeginStart(h) \/ BeginCancelCard(h) \/ \E qty \in Reports : BeginComplete(h, qty)
    \/ Start(h) \/ Complete(h) \/ CancelCard(h)

JSpec == JInit /\ [][JNext]_jvars

----------------------------------------------------------------------------
(* Properties *)

\* Columns have their types, whatever overlaps.
JTypeOK ==
  /\ card \in [docstatus : {"Draft", "Submitted", "Cancelled"},
               status : {"Open", "Work In Progress", "Completed", "Cancelled"}, total : 0 .. ForQty]
  /\ operation \in [status : {"Pending", "Work In Progress", "Completed"}, completed : 0 .. ForQty]

\* Unless two requests overlap, the card counts the pieces of its time logs,
\* timed or not, and at most one timer runs (complete_job_card).
LogsTellCard ==
  ~overlapped =>
    /\ SumFunctionOnSet([i \in DOMAIN logs |-> logs[i].qty], DOMAIN logs) = card.total
    /\ Cardinality(Running(logs)) <= 1

\* The operation of the work order follows the card through starts, reports
\* and a cancellation (_sync_wo_operation_status); a cancelled card has no
\* timer left running.
OperationFollows ==
  ~overlapped =>
    /\ operation.completed = card.total
    /\ operation.status = "Completed" <=> card.status = "Completed"
    /\ card.docstatus = "Cancelled" => operation.status = "Pending" /\ Running(logs) = {}

\* All of it together: card, logs and operation follow one another.
CardFollowsLogs == JTypeOK /\ LogsTellCard /\ OperationFollows
=============================================================================
