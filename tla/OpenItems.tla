------------------------------ MODULE OpenItems ------------------------------
(***************************************************************************)
(* What settling a party's account promises, without stored balances: a    *)
(* claim (an invoice, or a return that credits one) is issued and          *)
(* withdrawn, a payment is matched against claims and released, and what   *)
(* is left of either is whatever the matches leave.  Settlement keeps the  *)
(* leftovers in columns and decides by them; it implements this module.    *)
(***************************************************************************)
EXTENDS Integers, Functions

CONSTANTS
  Invoices, Payments, None,
  Claim,      \* what an invoice claims when issued; negative for a return
  Against,  \* the invoice a return credits, or None
  Worth     \* what a payment can settle

VARIABLES
  invoice,  \* stage of each invoice
  payment,  \* stage of each payment
  matched   \* matched[p][i]: how much of payment p settles invoice i

vars == <<invoice, payment, matched>>

Stages == {"Draft", "Submitted", "Cancelled"}

Returns(i) == {r \in Invoices : Against[r] = i /\ invoice[r] = "Submitted"}
Settled(i) == SumFunctionOnSet([p \in Payments |-> matched[p][i]], Payments)
Used(m) == SumFunctionOnSet(m, Invoices)

\* what is still owed on i
Left(i) ==
  IF invoice[i] # "Submitted" \/ Against[i] # None THEN 0
  ELSE Claim[i] + SumFunctionOnSet(Claim, Returns(i)) - Settled(i)

TypeOK ==
  /\ invoice \in [Invoices -> Stages]
  /\ payment \in [Payments -> Stages]
  /\ matched \in [Payments -> [Invoices -> Nat]]

Init ==
  /\ invoice = [i \in Invoices |-> "Draft"]
  /\ payment = [p \in Payments |-> "Draft"]
  /\ matched = [p \in Payments |-> [i \in Invoices |-> 0]]

Issue(i) ==
  /\ invoice[i] = "Draft"
  /\ Against[i] # None => invoice[Against[i]] = "Submitted"
  /\ invoice' = [invoice EXCEPT ![i] = "Submitted"]
  /\ UNCHANGED <<payment, matched>>

\* nothing may still settle or credit an invoice that is withdrawn
Withdraw(i) ==
  /\ invoice[i] = "Submitted"
  /\ Settled(i) = 0 /\ Returns(i) = {}
  /\ invoice' = [invoice EXCEPT ![i] = "Cancelled"]
  /\ UNCHANGED <<payment, matched>>

\* m says what the payment settles from the start
Settle(p, m) ==
  /\ payment[p] = "Draft"
  /\ \A i \in Invoices : m[i] > 0 => invoice[i] = "Submitted" /\ m[i] <= Left(i)
  /\ Used(m) <= Worth[p]
  /\ payment' = [payment EXCEPT ![p] = "Submitted"]
  /\ matched' = [matched EXCEPT ![p] = m]
  /\ UNCHANGED invoice

Match(p, i, amount) ==
  /\ payment[p] = "Submitted" /\ invoice[i] = "Submitted"
  /\ amount <= Left(i)
  /\ Used(matched[p]) + amount <= Worth[p]
  /\ matched' = [matched EXCEPT ![p][i] = @ + amount]
  /\ UNCHANGED <<invoice, payment>>

Release(p) ==
  /\ payment[p] = "Submitted"
  /\ payment' = [payment EXCEPT ![p] = "Cancelled"]
  /\ matched' = [matched EXCEPT ![p] = [i \in Invoices |-> 0]]
  /\ UNCHANGED invoice

Next ==
  \/ \E i \in Invoices : Issue(i) \/ Withdraw(i)
  \/ \E p \in Payments : Release(p) \/ Settle(p, matched'[p])
  \/ \E p \in Payments, i \in Invoices :
       Match(p, i, matched'[p][i] - matched[p][i]) /\ matched'[p][i] > matched[p][i]

Spec == Init /\ [][Next]_vars
=============================================================================
