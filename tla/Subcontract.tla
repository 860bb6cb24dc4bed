---------------------------- MODULE Subcontract ----------------------------
(***************************************************************************)
(* One subcontract job (services/subcontract_job.py): its material is sent *)
(* to a vendor's warehouse and finished goods come back for it.  Sending   *)
(* and receiving are three transactions each: a draft stock entry, its     *)
(* submission, and the counters of the job; cancelling an entry rolls the  *)
(* job back from the rows of the entry.  Requests are served one at a      *)
(* time, and the server may die between two transactions.                  *)
(*                                                                         *)
(* All quantities are counted in the smallest step a column keeps, the     *)
(* sixth decimal.  Material is sent and used up in proportion to the       *)
(* finished units, rounded to a step, and a cancelled send is turned back  *)
(* into units by the rounded inverse: where required and ordered quantity  *)
(* do not divide, the way back does not end where it began.  The counters  *)
(* of the job's rows are kept by item, so a bill of materials that lists   *)
(* an item twice (two source warehouses) confuses them.                    *)
(***************************************************************************)
EXTENDS Integers, FiniteSetsExt, Functions

CONSTANTS
  JobRows,    \* component rows, numbered in the order of the job
  ItemOf,     \* the item of each row
  RequiredQty,   \* the quantity of it the whole job needs
  JobQty,     \* ordered quantity
  Lots,       \* quantities that are sent and received for
  Spare,      \* stock of each item the vendor holds for other jobs
  Slips,      \* stock entries, numbered as they are named
  NoErrand

ASSUME JobAssumption ==
  /\ JobRows \subseteq Nat \ {0} /\ IsFiniteSet(JobRows) /\ 1 \in JobRows
  /\ RequiredQty \in [JobRows -> Nat \ {0}] /\ JobQty \in Nat \ {0}
  /\ Lots \subseteq Nat \ {0}
  /\ Slips \subseteq Nat
  /\ Spare \in [{ItemOf[r] : r \in JobRows} -> Nat]

VARIABLES
  job,     \* docstatus, status, sent and received units, and both by row
  slip,    \* the stock entries: kind, docstatus, units, quantity of each row
  errand,  \* the request being served, after its first transaction
  untold   \* history: entries posted without the job being told

svars == <<job, slip, errand, untold>>

Errands == [slip : Slips, posted : BOOLEAN]
ASSUME ErrandAssumption == NoErrand \notin Errands

RowZero == [r \in JobRows |-> 0]
LowerOf(a, b) == IF a < b THEN a ELSE b
NotNegative(n) == IF n > 0 THEN n ELSE 0
Distance(a, b) == IF a > b THEN a - b ELSE b - a
SameItem(r) == {q \in JobRows : ItemOf[q] = ItemOf[r]}

\* QTY_EPS, the step by which the checks of quantities are lenient
Eps == 1

\* a / n to the nearest step, a tie to the even one (Decimal.quantize); the 28
\* digits at which the code cuts a ratio off matter to ties alone
Quantized(a, n) ==
  LET q == a \div n
      rest == a % n
  IN  IF 2 * rest < n \/ (2 * rest = n /\ q % 2 = 0) THEN q ELSE q + 1

\* the material of row r for so many finished units
MaterialFor(r, units) == Quantized(RequiredQty[r] * units, JobQty)

JobStatus(j) ==
  CASE j.received >= JobQty - Eps -> "Completed"
    [] j.received < JobQty - Eps /\ j.received > 0 -> "Partially Received"
    [] j.received < JobQty - Eps /\ j.received <= 0 /\ j.sent > 0 -> "Materials Sent"
    [] OTHER -> "Open"

Slip(kind, docstatus, units, rows) ==
  [kind |-> kind, docstatus |-> docstatus, units |-> units, rows |-> rows]

SInit ==
  /\ job = [docstatus |-> "Draft", status |-> "Draft", sent |-> 0, received |-> 0,
            sentRows |-> RowZero, usedRows |-> RowZero]
  /\ slip = [e \in Slips |-> Slip("none", "Absent", 0, RowZero)]
  /\ errand = NoErrand
  /\ untold = {}

----------------------------------------------------------------------------
(* What the vendor holds *)

Posted(kind) == {e \in Slips : slip[e].docstatus = "Submitted" /\ slip[e].kind = kind}
OfItem(rows, item) == SumFunctionOnSet(rows, {r \in JobRows : ItemOf[r] = item})
Moved(kind, item) == SumFunctionOnSet([e \in Slips |-> OfItem(slip[e].rows, item)], Posted(kind))
Held(item) == Spare[item] + Moved("Send", item) - Moved("Receipt", item)

\* the stock ledger lets nothing leave the vendor's warehouse that is not there
Covered(rows) ==
  \A r \in JobRows : OfItem(rows, ItemOf[r]) <= Held(ItemOf[r])

----------------------------------------------------------------------------
SubmitJob ==
  /\ errand = NoErrand /\ job.docstatus = "Draft"
  /\ job' = [job EXCEPT !.docstatus = "Submitted", !.status = "Open"]
  /\ UNCHANGED <<slip, errand, untold>>

\* mutant: sent material is not looked at
CancelUnreceived ==
  /\ errand = NoErrand /\ job.docstatus = "Submitted"
  /\ job.received <= 0
  /\ job' = [job EXCEPT !.docstatus = "Cancelled", !.status = "Cancelled"]
  /\ UNCHANGED <<slip, errand, untold>>

CancelJob ==
  /\ errand = NoErrand /\ job.docstatus = "Submitted"
  /\ job.sent <= 0 /\ job.received <= 0
  /\ job' = [job EXCEPT !.docstatus = "Cancelled", !.status = "Cancelled"]
  /\ UNCHANGED <<slip, errand, untold>>

\* the first transaction of both errands commits the draft e
DraftSlip(e, kind, units, rows) ==
  /\ slip[e].docstatus = "Absent" /\ \A d \in Slips : d < e => slip[d].docstatus # "Absent"
  /\ slip' = [slip EXCEPT ![e] = Slip(kind, "Draft", units, rows)]
  /\ errand' = [slip |-> e, posted |-> FALSE]
  /\ UNCHANGED <<job, untold>>

\* mutant: what was sent before is not subtracted
SendableAtAll(units) == units <= JobQty + Eps

Sendable(units) == units <= JobQty - job.sent + Eps

BeginSend(e, units) ==
  /\ errand = NoErrand /\ job.docstatus = "Submitted"
  /\ Sendable(units)
  /\ LET rows == [r \in JobRows |->
                    LowerOf(MaterialFor(r, units), NotNegative(RequiredQty[r] - job.sentRows[r]))] IN
     /\ rows # RowZero
     /\ DraftSlip(e, "Send", units, rows)

\* mutant: goods are received for material that was never sent
SentEnough(units) == job.sent > 0

SentFor(units) == job.sent > 0 /\ units <= job.sent - job.received + Eps

BeginReceive(e, units) ==
  /\ errand = NoErrand /\ job.docstatus = "Submitted"
  /\ units <= JobQty - job.received + Eps
  /\ SentFor(units)
  /\ DraftSlip(e, "Receipt", units,
       [r \in JobRows |-> LowerOf(MaterialFor(r, units),
                                NotNegative(job.sentRows[r] - job.usedRows[r]))])

\* the entry posts stock, or is refused and stays a draft
PostSlip ==
  /\ errand # NoErrand /\ ~errand.posted
  /\ slip[errand.slip].docstatus = "Draft"
  /\ slip[errand.slip].kind = "Receipt" => Covered(slip[errand.slip].rows)
  /\ slip' = [slip EXCEPT ![errand.slip].docstatus = "Submitted"]
  /\ errand' = [errand EXCEPT !.posted = TRUE]
  /\ UNCHANGED <<job, untold>>

RefuseSlip ==
  /\ errand # NoErrand /\ ~errand.posted
  /\ errand' = NoErrand
  /\ UNCHANGED <<job, slip, untold>>

Die ==
  /\ errand # NoErrand /\ errand.posted
  /\ errand' = NoErrand
  /\ untold' = untold \cup {errand.slip}
  /\ UNCHANGED <<job, slip>>

\* a draft left behind is submitted as a plain stock entry
SubmitSlip(e) ==
  /\ errand = NoErrand /\ slip[e].docstatus = "Draft"
  /\ slip[e].kind = "Receipt" => Covered(slip[e].rows)
  /\ slip' = [slip EXCEPT ![e].docstatus = "Submitted"]
  /\ untold' = untold \cup {e}
  /\ UNCHANGED <<job, errand>>

\* what a row is told of an entry: the quantity of the last row of its item
Told(rows, r) ==
  LET moved == {q \in SameItem(r) : rows[q] > 0} IN
  IF moved = {} THEN 0 ELSE rows[Max(moved)]

\* mutant: the status is that of the job before
CountedQuietly(s) ==
  IF s.kind = "Send"
  THEN [job EXCEPT !.sent = @ + s.units,
                   !.sentRows = [r \in JobRows |-> @[r] + Told(s.rows, r)]]
  ELSE [job EXCEPT !.received = @ + s.units,
                   !.usedRows = [r \in JobRows |-> @[r] + Told(s.rows, r)]]

CountedIn(s) ==
  LET n == IF s.kind = "Send"
           THEN [job EXCEPT !.sent = @ + s.units,
                            !.sentRows = [r \in JobRows |-> @[r] + Told(s.rows, r)]]
           ELSE [job EXCEPT !.received = @ + s.units,
                            !.usedRows = [r \in JobRows |-> @[r] + Told(s.rows, r)]]
  IN  [n EXCEPT !.status = JobStatus(n)]

TellJob ==
  /\ errand # NoErrand /\ errand.posted
  /\ job' = CountedIn(slip[errand.slip])
  /\ errand' = NoErrand
  /\ UNCHANGED <<slip, untold>>

----------------------------------------------------------------------------
(* Cancelling an entry *)

\* mutant: the units are not taken back
RowsTakenBack(s) ==
  LET n == IF s.kind = "Send"
           THEN [job EXCEPT !.sentRows = [r \in JobRows |-> NotNegative(@[r] - OfItem(s.rows, ItemOf[r]))]]
           ELSE [job EXCEPT !.usedRows = [r \in JobRows |-> NotNegative(@[r] - OfItem(s.rows, ItemOf[r]))]]
  IN  [n EXCEPT !.status = JobStatus(n)]

\* the units of a send, inferred from the first row of the job
UnitsFor(rows) == Quantized(OfItem(rows, ItemOf[1]) * JobQty, RequiredQty[1])

TakenBack(s) ==
  LET n == IF s.kind = "Send"
           THEN [job EXCEPT !.sent = NotNegative(@ - UnitsFor(s.rows)),
                            !.sentRows = [r \in JobRows |-> NotNegative(@[r] - OfItem(s.rows, ItemOf[r]))]]
           ELSE [job EXCEPT !.received = NotNegative(@ - s.units),
                            !.usedRows = [r \in JobRows |-> NotNegative(@[r] - OfItem(s.rows, ItemOf[r]))]]
  IN  [n EXCEPT !.status = JobStatus(n)]

CancelSlip(e) ==
  /\ errand = NoErrand /\ slip[e].docstatus = "Submitted"
  /\ slip[e].kind = "Send" => Covered(slip[e].rows)
  /\ slip' = [slip EXCEPT ![e].docstatus = "Cancelled"]
  /\ job' = TakenBack(slip[e])
  /\ UNCHANGED <<errand, untold>>

SNext ==
  \/ SubmitJob \/ CancelJob \/ PostSlip \/ RefuseSlip \/ Die \/ TellJob
  \/ \E e \in Slips :
       \/ SubmitSlip(e) \/ CancelSlip(e)
       \/ \E units \in Lots : BeginSend(e, units) \/ BeginReceive(e, units)

SSpec == SInit /\ [][SNext]_svars

----------------------------------------------------------------------------
(* Properties *)

\* what is posted and the job was told of
Known(kind) == Posted(kind) \ IF errand # NoErrand THEN {errand.slip} ELSE {}
UnitsIn(kind) == SumFunctionOnSet([e \in Slips |-> slip[e].units], Known(kind))
RowsIn(kind, r) == SumFunctionOnSet([e \in Slips |-> slip[e].rows[r]], Known(kind))

\* every entry was told to the job, and every item has one row
InOrder == untold = {} /\ \A r \in JobRows : SameItem(r) = {r}

\* entries ever drafted
Drafted(kind) == {e \in Slips : slip[e].kind = kind}

\* what an entry has too little of a material for its units (times JobQty),
\* and by how much its units are missed when it is cancelled
Short(s, r) == NotNegative(RequiredQty[r] * s.units - JobQty * s.rows[r])
Off(s) == Distance(UnitsFor(s.rows), s.units)

\* what the cancelled sends may have left behind or taken too much
Slack ==
  SumFunctionOnSet([e \in Slips |-> Off(slip[e])],
                   {e \in Drafted("Send") : slip[e].docstatus = "Cancelled"})

\* what all sends are short of a material, and what rounding, tolerance and
\* cancelled sends may have made one entry of a kind short of it (both twice)
Lacking(r) == SumFunctionOnSet([e \in Slips |-> 2 * Short(slip[e], r)], Drafted("Send"))
Leeway(kind, r) == JobQty * Cardinality(Drafted(kind)) + 2 * RequiredQty[r] * (Eps + Slack)

\* The columns have their types; whatever was posted behind the job's back,
\* the job never counts more than its quantity as sent or received, and the
\* tolerance of the check.
STypeOK ==
  /\ job \in [docstatus : {"Draft", "Submitted", "Cancelled"},
              status : {"Draft", "Open", "Materials Sent", "Partially Received", "Completed", "Cancelled"},
              sent : 0 .. JobQty + Eps, received : 0 .. JobQty + Eps,
              sentRows : [JobRows -> Nat], usedRows : [JobRows -> Nat]]
  /\ errand # NoErrand => errand.slip \in Slips /\ slip[errand.slip].docstatus # "Absent"

\* Through any order of sending, receiving and cancelling, with refused drafts
\* in between, the job counts what its submitted entries say: every material
\* and the received units to the step, the sent units to what the cancelled
\* sends were off, because those infer them from one rounded row
\* (send_to_subcontractor, revert_send_entry, revert_receipt_entry).
JobTellsSlips ==
  InOrder =>
    /\ Distance(job.sent, UnitsIn("Send")) <= Slack
    /\ job.received = UnitsIn("Receipt")
    /\ \A r \in JobRows : /\ job.sentRows[r] = RowsIn("Send", r)
                          /\ job.usedRows[r] = RowsIn("Receipt", r)

\* A send comes back as the units it went out for, to half a step and half a
\* step of its first material - or what it was short of it - in units
\* (revert_send_entry): exactly, if there is more than one of that material
\* to a finished unit and the send had its full share.
SendsComeBack ==
  InOrder =>
    \A e \in Drafted("Send") :
      LET short == 2 * Short(slip[e], 1) IN
      2 * RequiredQty[1] * Off(slip[e]) <= RequiredQty[1] + IF short > JobQty THEN short ELSE JobQty

\* Entries have the material of their units, although each is cut to what is
\* left of a row after any number of others, some since cancelled, were rounded
\* up: short of it by half a step for every entry of the kind, by the tolerance
\* of the check and by what cancelled sends were off, a receipt also by what
\* the sends were short (send_to_subcontractor, receive_from_subcontractor).
EntriesHaveMaterial ==
  InOrder =>
    \A r \in JobRows :
      /\ \A e \in Drafted("Send") : 2 * Short(slip[e], r) <= Leeway("Send", r)
      /\ \A e \in Drafted("Receipt") : 2 * Short(slip[e], r) <= Leeway("Receipt", r) + Lacking(r)

\* no entry was rounded or cut short
InProportion ==
  \A e \in Slips, r \in JobRows : JobQty * slip[e].rows[r] = RequiredQty[r] * slip[e].units

\* Goods come back only for material that went out, although nothing in the
\* job refuses to cancel a send whose material is used up: the stock of the
\* vendor's warehouse does, as long as it holds nothing else
\* (receive_from_subcontractor, cancel_stock_entry).
GoodsWereSupplied ==
  (InOrder /\ \A i \in DOMAIN Spare : Spare[i] = 0) =>
    /\ \A r \in JobRows : job.usedRows[r] <= job.sentRows[r]
    /\ InProportion => job.received <= job.sent

\* A cancelled job has nothing posted (cancel_subcontract_job: "Cancel linked
\* Stock Entries (Send / Receipt) before cancelling this job"): the counters
\* it looks at reach 0 no sooner than the last receipt is cancelled, and the
\* sends but for units their cancellations were off.
CancelledJobIsEmpty ==
  (InOrder /\ job.docstatus = "Cancelled") =>
    /\ Posted("Receipt") = {}
    /\ UnitsIn("Send") <= Slack

\* A submitted job of more than one step reads as its counters say, whatever
\* order it was sent, received, refused and reverted in.
JobStatusTells == (job.docstatus = "Submitted" /\ JobQty > Eps) => job.status = JobStatus(job)

\* All of it together: a subcontracting job follows its stock entries.
JobFollowsSlips ==
  STypeOK /\ JobTellsSlips /\ SendsComeBack /\ EntriesHaveMaterial
  /\ GoodsWereSupplied /\ CancelledJobIsEmpty /\ JobStatusTells

\* cancel_subcontract_job: "Cancel linked Stock Entries (Send / Receipt) before
\* cancelling this job".  Does it suffice?  A job whose entries are all
\* cancelled counts nothing as sent or received, and so can be cancelled.
EmptiedJobCancels ==
  (InOrder /\ errand = NoErrand /\ Posted("Send") \cup Posted("Receipt") = {}) =>
    job.sent <= 0 /\ job.received <= 0
=============================================================================
