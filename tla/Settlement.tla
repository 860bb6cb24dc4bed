----------------------------- MODULE Settlement -----------------------------
(***************************************************************************)
(* Invoices, payments and what is outstanding between them                 *)
(* (services/payment_entry.py, payment_reconciliation.py and the submit    *)
(* and cancel handlers of sales_invoice.py and purchase_invoice.py), for   *)
(* one party.                                                              *)
(*                                                                         *)
(* A request loads the rows it decides on, validates, and at the end       *)
(* writes the columns it changed with the values it computed: the ORM      *)
(* writes absolute values, nothing is locked and no version is compared,   *)
(* so each handler is a Check step and a Write step.  In between another   *)
(* request may have written.  Where a handler selects a row again the      *)
(* session hands out the instance it still holds.                          *)
(*                                                                         *)
(* Returns credit an invoice that is not itself a return, of this party.   *)
(* Frozen periods and accounts belong to the general ledger and only       *)
(* refuse a request, which then changes nothing (GiveUp).                  *)
(***************************************************************************)
EXTENDS Integers, Sequences, FiniteSets, Functions

CONSTANTS
  Invoices, Payments, None,
  Workers,     \* requests that can be in flight at once
  Idle,        \* a worker without a request
  Gross,       \* base_payable_total: grand total plus rounding, negative for a return
  Withheld,    \* TCS on top of a sale, minus TDS kept from a purchase
  Against,     \* return_against_id, None for an ordinary invoice
  Receives,    \* TRUE: sales invoices and receipts, FALSE: purchase invoices and payments out
  Paid,        \* base_paid of each payment
  Deducted,    \* total of its deduction rows (charges, exchange loss)
  Asked,       \* the reference lists a payment may be entered with
  Amounts      \* what a reconciliation may allocate

ASSUME AgainstAssumption ==
  \A i \in Invoices :
    /\ Against[i] = None <=> Gross[i] > 0
    /\ Against[i] # None => /\ Gross[i] < 0
                            /\ Against[i] \in Invoices /\ Against[Against[i]] = None
ASSUME AskedAssumption ==
  \A p \in Payments : \A rows \in Asked[p] :
    rows \in Seq([invoice : Invoices, amount : Nat \ {0}])
ASSUME PartyAssumption ==
  /\ IsFiniteSet(Invoices) /\ IsFiniteSet(Payments)
  /\ None \notin Invoices \cup Payments /\ Invoices \cap Payments = {}
ASSUME DueAssumption == \A i \in Invoices : Gross[i] \in Int /\ Withheld[i] \in Int
ASSUME PaidAssumption ==
  /\ \A p \in Payments : Paid[p] \in Nat \ {0} /\ Deducted[p] \in Int
  /\ Amounts \subseteq Nat \ {0}
  /\ Receives \in BOOLEAN

VARIABLES
  inv,   \* sales_invoices / purchase_invoices: docstatus, outstanding_amount
  pay,   \* payment_entries: docstatus, unallocated_amount
  refs,  \* payment_entry_references of each entry
  gl,    \* party rows of the general ledger per voucher: posted and reversed
  work   \* what each request has loaded

vars == <<inv, pay, refs, gl, work>>

Stages == {"Draft", "Submitted", "Cancelled"}

Due(i) == Gross[i] + Withheld[i]

Each(rows) == [k \in DOMAIN rows |-> rows[k].amount]
Total(rows) == SumFunctionOnSet(Each(rows), DOMAIN rows)
Claimed(rows, i) == SumFunctionOnSet(Each(rows), {k \in DOMAIN rows : rows[k].invoice = i})
Referenced(rows) == {rows[k].invoice : k \in DOMAIN rows}

\* the party side of a payment's ledger rows: the references plus a positive remainder
PartyRows(p, rows) ==
  LET remainder == Paid[p] - Total(rows) - Deducted[p]
  IN  Total(rows) + (IF remainder > 0 THEN remainder ELSE 0)

\* a receipt settles what was paid, whatever the bank kept of it
Value(p) == IF Receives THEN Paid[p] ELSE Paid[p] - Deducted[p]
\* debit = credit over party, bank and deduction rows; paid = received + deducted
\* was checked when the entry was created
Balanced(p, rows) == PartyRows(p, rows) = Value(p)

\* mutant: forgets what the references take
AllUnallocated(p, rows) == Paid[p] - Deducted[p]
\* unallocated_amount of a new entry
Unallocated(p, rows) == Paid[p] - Total(rows) - Deducted[p]

\* mutant: does not look at the outstanding amount
AnyInvoice(i, out) == TRUE
\* "no payment yet" is read off the outstanding amount; a return goes unasked
Untouched(i, out) == out = Due(i) \/ Against[i] # None

\* mutant: one too many
OneTooMany(out, amount) == amount <= out + 1
\* an allocation must fit what the loaded row says is outstanding
Fits(out, amount) == amount <= out

\* a flush writes a column only if the session changed it
Column(now, loaded, new) == IF new = loaded THEN now ELSE new
\* mutant: no credit balance is kept
ClampedRow(now, loaded, new) ==
  [docstatus |-> Column(now.docstatus, loaded.docstatus, new.docstatus),
   out |-> IF new.out < 0 THEN 0 ELSE Column(now.out, loaded.out, new.out)]
InvoiceRow(now, loaded, new) ==
  [docstatus |-> Column(now.docstatus, loaded.docstatus, new.docstatus),
   out |-> Column(now.out, loaded.out, new.out)]
PaymentRow(now, loaded, new) ==
  [docstatus |-> Column(now.docstatus, loaded.docstatus, new.docstatus),
   free |-> Column(now.free, loaded.free, new.free)]

Init ==
  /\ inv = [i \in Invoices |-> [docstatus |-> "Draft", out |-> 0]]
  /\ pay = [p \in Payments |-> [docstatus |-> "Absent", free |-> 0]]
  /\ refs = [p \in Payments |-> <<>>]
  /\ gl = [v \in Invoices \cup Payments |-> [posted |-> 0, reversed |-> 0]]
  /\ work = [w \in Workers |-> Idle]

\* a request that loads invoices is and payment p, and keeps rows for later
Load(w, op, is, p, rows) ==
  /\ work[w] = Idle
  /\ work' = [work EXCEPT ![w] =
       [op |-> op, rows |-> rows, p |-> p,
        inv |-> [i \in is |-> inv[i]],
        pay |-> IF p = None THEN None ELSE pay[p]]]
  /\ UNCHANGED <<inv, pay, refs, gl>>

\* the request w holds, ready to be written
Writes(w, op) == work[w] # Idle /\ work[w].op = op

Done(w) == work' = [work EXCEPT ![w] = Idle]

\* the writes of w: invoice columns new(i), payment columns newPay
StoreInvoices(w, new) ==
  inv' = [i \in Invoices |->
            IF i \in DOMAIN new THEN InvoiceRow(inv[i], work[w].inv[i], new[i])
                                ELSE inv[i]]
StorePayment(w, new) ==
  pay' = [pay EXCEPT ![work[w].p] = PaymentRow(pay[work[w].p], work[w].pay, new)]

Post(v, amount) == gl' = [gl EXCEPT ![v].posted = @ + amount]
\* mirrors every row of the voucher that is not itself a cancellation
ReverseAll(v) == gl' = [gl EXCEPT ![v].reversed = @ + gl[v].posted]

------------------------------------------------------------------------------
\* create_payment_entry: every reference fits on its own
CreatePayment(p) ==
  /\ pay[p].docstatus = "Absent"
  /\ \E rows \in Asked[p] :
       /\ \A k \in DOMAIN rows :
            /\ inv[rows[k].invoice].docstatus = "Submitted"
            /\ Fits(inv[rows[k].invoice].out, rows[k].amount)
       /\ Total(rows) <= Paid[p]
       /\ refs' = [refs EXCEPT ![p] = rows]
       /\ pay' = [pay EXCEPT ![p] = [docstatus |-> "Draft", free |-> Unallocated(p, rows)]]
  /\ UNCHANGED <<inv, gl, work>>

CheckSubmitPayment(w, p) ==
  /\ pay[p].docstatus = "Draft"
  /\ \A k \in DOMAIN refs[p] : Fits(inv[refs[p][k].invoice].out, refs[p][k].amount)
  /\ Balanced(p, refs[p])
  /\ Load(w, "submit payment", Referenced(refs[p]), p, refs[p])

WriteSubmitPayment(w) ==
  /\ Writes(w, "submit payment")
  /\ LET r == work[w]
     IN  /\ Post(r.p, PartyRows(r.p, r.rows))
         /\ StoreInvoices(w, [i \in DOMAIN r.inv |->
              [r.inv[i] EXCEPT !.out = @ - Claimed(r.rows, i)]])
         /\ StorePayment(w, [r.pay EXCEPT !.docstatus = "Submitted"])
  /\ Done(w) /\ UNCHANGED refs

CheckCancelPayment(w, p) ==
  /\ pay[p].docstatus = "Submitted"
  /\ Load(w, "cancel payment", Referenced(refs[p]), p, refs[p])

\* whatever has become of the invoices, their outstanding amount is put back
WriteCancelPayment(w) ==
  /\ Writes(w, "cancel payment")
  /\ LET r == work[w]
     IN  /\ ReverseAll(r.p)
         /\ StoreInvoices(w, [i \in DOMAIN r.inv |->
              [r.inv[i] EXCEPT !.out = @ + Claimed(r.rows, i)]])
         /\ StorePayment(w, [r.pay EXCEPT !.docstatus = "Cancelled"])
  /\ Done(w) /\ UNCHANGED refs

\* reconcile, one allocation; a longer request repeats it on the same session
CheckReconcile(w, p, i, amount) ==
  /\ pay[p].docstatus = "Submitted" /\ inv[i].docstatus = "Submitted"
  /\ Fits(pay[p].free, amount)
  /\ Fits(inv[i].out, amount)
  /\ Load(w, "reconcile", {i}, p, <<[invoice |-> i, amount |-> amount]>>)

\* adds a reference and moves both counters; the general ledger stays as it is
WriteReconcile(w) ==
  /\ Writes(w, "reconcile")
  /\ LET r == work[w]
         amount == Total(r.rows)
     IN  /\ refs' = [refs EXCEPT ![r.p] = @ \o r.rows]
         /\ StorePayment(w, [r.pay EXCEPT !.free = @ - amount])
         /\ StoreInvoices(w, [i \in DOMAIN r.inv |->
              [r.inv[i] EXCEPT !.out = @ - amount]])
  /\ Done(w) /\ UNCHANGED gl

\* an invoice handler loads the invoice and, for a return, the one it credits
Original(i) == {Against[i]} \cap Invoices

CheckSubmitInvoice(w, i) ==
  /\ inv[i].docstatus = "Draft"
  /\ \A o \in Original(i) : inv[o].docstatus = "Submitted"
  /\ Load(w, "submit invoice", {i} \cup Original(i), None, <<[invoice |-> i, amount |-> 0]>>)

WriteSubmitInvoice(w) ==
  /\ Writes(w, "submit invoice")
  /\ LET r == work[w]
         i == r.rows[1].invoice
     IN  /\ Post(i, Due(i))
         /\ StoreInvoices(w, [j \in DOMAIN r.inv |->
              IF j = i THEN [docstatus |-> "Submitted",
                             out |-> IF Against[i] = None THEN Due(i) ELSE 0]
                       ELSE [r.inv[j] EXCEPT !.out = @ + Due(i)]])
  /\ Done(w) /\ UNCHANGED <<pay, refs>>

CheckCancelInvoice(w, i) ==
  /\ inv[i].docstatus = "Submitted"
  /\ Untouched(i, inv[i].out)
  /\ Load(w, "cancel invoice", {i} \cup Original(i), None, <<[invoice |-> i, amount |-> 0]>>)

\* the original gets back base_payable_total of the return, without withholding
WriteCancelInvoice(w) ==
  /\ Writes(w, "cancel invoice")
  /\ LET r == work[w]
         i == r.rows[1].invoice
     IN  /\ ReverseAll(i)
         /\ StoreInvoices(w, [j \in DOMAIN r.inv |->
              IF j = i THEN [docstatus |-> "Cancelled", out |-> 0]
                       ELSE [r.inv[j] EXCEPT !.out = @ - Gross[i]]])
  /\ Done(w) /\ UNCHANGED <<pay, refs>>

\* an error, a crash or a lost connection rolls the transaction back
GiveUp(w) ==
  /\ work[w] # Idle
  /\ Done(w) /\ UNCHANGED <<inv, pay, refs, gl>>

Next ==
  \/ \E p \in Payments : CreatePayment(p)
  \/ \E w \in Workers :
       \/ \E p \in Payments : CheckSubmitPayment(w, p) \/ CheckCancelPayment(w, p)
       \/ \E p \in Payments, i \in Invoices, a \in Amounts : CheckReconcile(w, p, i, a)
       \/ \E i \in Invoices : CheckSubmitInvoice(w, i) \/ CheckCancelInvoice(w, i)
       \/ WriteSubmitPayment(w) \/ WriteCancelPayment(w) \/ WriteReconcile(w)
       \/ WriteSubmitInvoice(w) \/ WriteCancelInvoice(w)
       \/ GiveUp(w)

Spec == Init /\ [][Next]_vars

------------------------------------------------------------------------------
(***************************************************************************)
(* Properties                                                              *)
(***************************************************************************)

\* The columns have their types, and an unallocated amount is not negative
\* unless deductions are.
TypeOK ==
  /\ inv \in [Invoices -> [docstatus : Stages, out : Int]]
  /\ pay \in [Payments -> [docstatus : Stages \cup {"Absent"}, free : Int]]
  /\ \A p \in Payments : Deducted[p] = 0 => pay[p].free >= 0
  /\ refs \in [Payments -> Seq([invoice : Invoices, amount : Nat \ {0}])]
  /\ gl \in [Invoices \cup Payments -> [posted : Int, reversed : Int]]
  /\ \A w \in Workers :
       work[w] # Idle => Referenced(work[w].rows) \subseteq DOMAIN work[w].inv

Live == {p \in Payments : pay[p].docstatus = "Submitted"}

\* The stored balances implement open-item bookkeeping: what a submitted
\* payment settles is the sum of its reference rows.
Books == INSTANCE OpenItems WITH
  invoice <- [i \in Invoices |-> inv[i].docstatus],
  payment <- [p \in Payments |->
                IF pay[p].docstatus = "Absent" THEN "Draft" ELSE pay[p].docstatus],
  matched <- [p \in Payments |-> [i \in Invoices |->
                IF p \in Live THEN Claimed(refs[p], i) ELSE 0]],
  Claim <- [i \in Invoices |-> Due(i)],
  Worth <- [p \in Payments |-> Value(p)]

\* Submitting, cancelling and reconciling, which read and write stored
\* balances, do only what the books allow: no invoice is settled beyond what
\* is left of it, no payment used twice, and no settled invoice cancelled.
ImplementsBooks == Books!Spec

\* outstanding_amount, moved up and down by seven handlers, is what the
\* submitted returns and the submitted payments leave of the invoice; zero
\* for drafts and cancelled invoices.
OutstandingIsLeft == \A i \in Invoices : inv[i].out = Books!Left(i)

\* The ledger balance of the party equals its open invoices less its
\* unallocated payments, although reconciliation posts no ledger rows.
PartyLedgerAgrees ==
  LET rows == [v \in Invoices \cup Payments |-> gl[v].posted - gl[v].reversed]
  IN  SumFunctionOnSet(rows, Invoices) - SumFunctionOnSet(rows, Payments)
      = SumFunctionOnSet([i \in Invoices |-> inv[i].out], Invoices)
        - SumFunctionOnSet([p \in Payments |-> pay[p].free], Live)

\* Submitted payments never settle more of an invoice than it ever claimed
\* (the check that submit repeats because the outstanding amount may have moved).
NeverOverAllocated ==
  \A i \in Invoices :
    Against[i] = None /\ inv[i].docstatus = "Submitted" =>
      SumFunctionOnSet([p \in Payments |-> Claimed(refs[p], i)], Live) <= Due(i)

\* An invoice that nothing settles or credits is outstanding with the amount
\* first booked, the condition under which it can be cancelled.
UnpaidMeansFull ==
  \A i \in Invoices :
    Against[i] = None /\ inv[i].docstatus = "Submitted"
      /\ (\A p \in Live : Claimed(refs[p], i) = 0)
      /\ (\A r \in Invoices : Against[r] = i => inv[r].docstatus # "Submitted")
    => inv[i].out = Due(i)

\* A document only moves from draft to submitted to cancelled.
DocstatusMovesForward ==
  [][/\ \A p \in Payments :
          pay[p].docstatus = "Cancelled" => pay'[p].docstatus = "Cancelled"
     /\ \A i \in Invoices :
          inv[i].docstatus = "Cancelled" => inv'[i].docstatus = "Cancelled"]_vars

\* Balances, documents and the party ledger agree.
BalancesAddUp == TypeOK /\ OutstandingIsLeft /\ PartyLedgerAgrees
=============================================================================
