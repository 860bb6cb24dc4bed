------------------------------ MODULE Banking ------------------------------
(***************************************************************************)
(* Lines of a bank statement and the vouchers they are matched with        *)
(* (services/bank_reconciliation_tool.py).  A match is kept twice: the     *)
(* line names its voucher, and the voucher has the date of the line as its *)
(* clearance_date.  Either side can be changed from its own screen.        *)
(*                                                                         *)
(* For a line without a voucher the tool makes one - a journal entry       *)
(* (create_voucher) or a payment (pay_invoice): drafted, submitted and     *)
(* cleared in three transactions, and the line is marked in a fourth.  The *)
(* process may die between any two, and the user tries again.  One such    *)
(* request runs at a time; others interleave with it, but do not touch its *)
(* line or voucher.                                                        *)
(***************************************************************************)
EXTENDS Integers

CONSTANTS
  Lines,       \* statement lines, each with its date and signed amount
  DateOf, AmountOf,
  Vouchers,    \* identities of journal entries and payments
  Dates,       \* clearance dates a user may enter
  NoDate, NoVoucher, NoMatch

ASSUME BankAssumption ==
  /\ DateOf \in [Lines -> Dates] /\ NoDate \notin Dates
  /\ AmountOf \in [Lines -> Int]
  /\ NoVoucher \notin Vouchers /\ NoMatch \notin Lines

VARIABLES
  line,     \* status, matched voucher, whether the tool made it
  voucher,  \* docstatus, signed amount, clearance date
  making,   \* the line and the voucher of the request that is making one
  byHand,   \* history: vouchers whose clearance date a user entered
  adrift    \* history: vouchers of requests that were cut short

bvars == <<line, voucher, making, byHand, adrift>>

Blank == [docstatus |-> "Absent", amount |-> 0, cleared |-> NoDate]
Free == [status |-> "Unreconciled", voucher |-> NoVoucher, made |-> FALSE]
Nobody == [line |-> NoMatch, voucher |-> NoVoucher, stage |-> "none"]
Reconciled(l) == line[l].status = "Reconciled"

BInit ==
  /\ line = [l \in Lines |-> [Free EXCEPT !.status = "Absent"]]
  /\ voucher = [v \in Vouchers |-> Blank]
  /\ making = Nobody
  /\ byHand = {} /\ adrift = {}

----------------------------------------------------------------------------
(* From the screens of the line and of the voucher *)

ImportLine(l) ==
  /\ line[l].status = "Absent"
  /\ line' = [line EXCEPT ![l] = Free]
  /\ UNCHANGED <<voucher, making, byHand, adrift>>

DeleteLine(l) ==
  /\ line[l].status = "Unreconciled"
  /\ making.line # l
  /\ line' = [line EXCEPT ![l].status = "Absent"]
  /\ UNCHANGED <<voucher, making, byHand, adrift>>

EnterVoucher(v) ==
  /\ voucher[v] = Blank
  /\ \E l \in Lines :
       voucher' = [voucher EXCEPT ![v] = [Blank EXCEPT !.docstatus = "Draft", !.amount = AmountOf[l]]]
  /\ UNCHANGED <<line, making, byHand, adrift>>

SubmitVoucher(v) ==
  /\ voucher[v].docstatus = "Draft"
  /\ making.voucher # v
  /\ voucher' = [voucher EXCEPT ![v].docstatus = "Submitted"]
  /\ UNCHANGED <<line, making, byHand, adrift>>

\* set_clearance_date
EnterClearance(v) ==
  /\ voucher[v].docstatus = "Submitted"
  /\ making.voucher # v
  /\ \E d \in Dates : voucher' = [voucher EXCEPT ![v].cleared = d]
  /\ byHand' = byHand \cup {v}
  /\ UNCHANGED <<line, making, adrift>>

\* mutant: only lines whose voucher the tool made are released
ReleasedIfMade(v) == [l \in Lines |-> IF line[l].voucher = v /\ line[l].made THEN Free ELSE line[l]]
\* release_matched_transactions
Released(v) == [l \in Lines |-> IF line[l].voucher = v THEN Free ELSE line[l]]

\* the clearance date of a cancelled voucher stays
CancelVoucher(v) ==
  /\ voucher[v].docstatus = "Submitted"
  /\ making.voucher # v
  /\ voucher' = [voucher EXCEPT ![v].docstatus = "Cancelled"]
  /\ line' = Released(v)
  /\ UNCHANGED <<making, byHand, adrift>>

----------------------------------------------------------------------------
(* Matching *)

\* mutant: a voucher that was cleared can be matched again
AnySubmitted(v) == voucher[v].docstatus = "Submitted"
\* _uncleared_vouchers
Uncleared(v) == voucher[v].docstatus = "Submitted" /\ voucher[v].cleared = NoDate

Marked(v, made) == [status |-> "Reconciled", voucher |-> v, made |-> made]

Reconcile(l, v) ==
  /\ line[l].status = "Unreconciled" /\ making.line # l
  /\ Uncleared(v) /\ making.voucher # v
  /\ voucher[v].amount = AmountOf[l]
  /\ voucher' = [voucher EXCEPT ![v].cleared = DateOf[l]]
  /\ line' = [line EXCEPT ![l] = Marked(v, FALSE)]
  /\ UNCHANGED <<making, byHand, adrift>>

\* mutant: the date stays on the voucher
LeftCleared(l) == voucher
\* what unreconciling a line does to its voucher: one that was made is cancelled
Unmatched(l) ==
  IF voucher[line[l].voucher].docstatus = "Cancelled" THEN voucher
  ELSE IF line[l].made THEN [voucher EXCEPT ![line[l].voucher].docstatus = "Cancelled"]
  ELSE [voucher EXCEPT ![line[l].voucher].cleared = NoDate]

\* cancelling what the tool made releases the line in a transaction of its own,
\* and the next one writes the same again
Unreconcile(l) ==
  /\ Reconciled(l)
  /\ voucher' = Unmatched(l)
  /\ line' = [line EXCEPT ![l] = Free]
  /\ UNCHANGED <<making, byHand, adrift>>

----------------------------------------------------------------------------
(* Making the voucher of a line *)

BeginMaking(l, v) ==
  /\ making = Nobody
  /\ line[l].status = "Unreconciled"
  /\ voucher[v] = Blank
  /\ voucher' = [voucher EXCEPT ![v] = [Blank EXCEPT !.docstatus = "Draft", !.amount = AmountOf[l]]]
  /\ making' = [line |-> l, voucher |-> v, stage |-> "drafted"]
  /\ UNCHANGED <<line, byHand, adrift>>

SubmitMade ==
  /\ making.stage = "drafted"
  /\ voucher' = [voucher EXCEPT ![making.voucher].docstatus = "Submitted"]
  /\ making' = [making EXCEPT !.stage = "submitted"]
  /\ UNCHANGED <<line, byHand, adrift>>

ClearMade ==
  /\ making.stage = "submitted"
  /\ voucher' = [voucher EXCEPT ![making.voucher].cleared = DateOf[making.line]]
  /\ making' = [making EXCEPT !.stage = "cleared"]
  /\ UNCHANGED <<line, byHand, adrift>>

MarkLine ==
  /\ making.stage = "cleared"
  /\ line' = [line EXCEPT ![making.line] = Marked(making.voucher, TRUE)]
  /\ making' = Nobody
  /\ UNCHANGED <<voucher, byHand, adrift>>

\* refused by the ledger while it is a draft, or the process dies: the voucher
\* stays as it is and the line Unreconciled
CutShort ==
  /\ making # Nobody
  /\ making' = Nobody
  /\ adrift' = adrift \cup {making.voucher}
  /\ UNCHANGED <<line, voucher, byHand>>

BNext ==
  \/ \E l \in Lines : ImportLine(l) \/ DeleteLine(l) \/ Unreconcile(l)
  \/ \E v \in Vouchers : EnterVoucher(v) \/ SubmitVoucher(v) \/ EnterClearance(v) \/ CancelVoucher(v)
  \/ \E l \in Lines, v \in Vouchers : Reconcile(l, v) \/ BeginMaking(l, v)
  \/ SubmitMade \/ ClearMade \/ MarkLine \/ CutShort

BSpec == BInit /\ [][BNext]_bvars

----------------------------------------------------------------------------
(* Properties *)

Statuses == {"Absent", "Unreconciled", "Reconciled"}

\* The columns have their types; a line names a voucher if it is Reconciled.
BTypeOK ==
  /\ line \in [Lines -> [status : Statuses, voucher : Vouchers \cup {NoVoucher}, made : BOOLEAN]]
  /\ \A l \in Lines : Reconciled(l) <=> line[l].voucher # NoVoucher
  /\ voucher \in [Vouchers -> [docstatus : {"Absent", "Draft", "Submitted", "Cancelled"},
                               amount : Int, cleared : Dates \cup {NoDate}]]
  /\ making \in [line : Lines, voucher : Vouchers, stage : {"drafted", "submitted", "cleared"}]
                \cup {Nobody}
  /\ byHand \in SUBSET Vouchers /\ adrift \in SUBSET Vouchers

\* A reconciled line has a voucher to itself, submitted, of its amount, and
\* cleared on its date unless a user entered another - whichever side is
\* unmatched, cancelled or matched again, and wherever the tool was cut short.
MatchIsMutual ==
  \A l \in Lines : Reconciled(l) =>
    LET v == line[l].voucher
    IN /\ voucher[v].docstatus = "Submitted" /\ voucher[v].amount = AmountOf[l]
       /\ voucher[v].cleared \in Dates
       /\ v \in byHand \/ voucher[v].cleared = DateOf[l]
       /\ \A k \in Lines : line[k].voucher = v => k = l

\* Every cleared voucher that counts for the balance per bank is on a line of
\* the statement, or a user cleared it, or the tool was cut short on it, or is
\* about to mark its line: "balance_per_bank converges to the statement"
\* (bank_reconciliation_tool.py).
ClearedIsOnStatement ==
  \A v \in Vouchers :
    voucher[v].docstatus = "Submitted" /\ voucher[v].cleared # NoDate =>
      \/ v \in byHand \cup adrift \cup {making.voucher}
      \/ \E l \in Lines : line[l].voucher = v

BankFollowsStatement == BTypeOK /\ MatchIsMutual /\ ClearedIsOnStatement

\* One line is booked once.  Not so: a request cut short after its submission
\* leaves a voucher in the books, and the user who tries again makes another.
BookedOncePerLine ==
  \A v \in adrift : voucher[v].docstatus = "Submitted" =>
    ~\E l \in Lines : Reconciled(l) /\ line[l].made /\ voucher[v].amount = AmountOf[l]
=============================================================================
