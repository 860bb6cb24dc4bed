--------------------------- MODULE MCGeneralLedger ---------------------------
(* The ledger, what it is arranged by - the trees of the masters, the      *)
(* chart of accounts - and the calculations that end in it, each on its    *)
(* own small instance: TLC starts one behaviour for each of them, and the  *)
(* others rest.                                                            *)
EXTENDS GeneralLedger, Masters, TLC

VARIABLES part, question

Calculated == INSTANCE MCCalculations

allvars == <<gvars, treevars, chartvars, question, part>>

BooksInit ==
  /\ GLInit /\ TreeInit /\ ChartInit /\ Calculated!Init
  /\ part \in 1 .. 4
  /\ chart["root"].label = "Big"
BooksNext ==
  /\ UNCHANGED part
  /\ \/ part = 1 /\ GLNext /\ UNCHANGED <<treevars, chartvars, question>>
     \/ part = 2 /\ TreeNext /\ UNCHANGED <<gvars, chartvars, question>>
     \/ part = 3 /\ ChartNext /\ UNCHANGED <<gvars, treevars, question>>
     \/ part = 4 /\ Calculated!Next /\ UNCHANGED <<gvars, treevars, chartvars>>
BooksSpec == BooksInit /\ [][BooksNext]_allvars

\* The amounts of a document add up to its totals whatever was rounded on the
\* way, discounted or included (services/taxes_and_totals.py).
TotalsHold == Calculated!TotalsHold
\* Income tax never falls when income rises, a threshold crossed costs no more
\* than what crosses it, losses and credits are used once and in order, and a
\* projection that is followed leaves no interest (services/taxation).
TaxHolds == Calculated!TaxHolds
\* Every cost of a deal reaches its margin once, and promised dates agree
\* forwards and backwards (contribution margin engine, delivery_estimate.py).
EstimatesHold == Calculated!EstimatesHold

Row(a, n) == [account |-> a, amount |-> n]
MCDrafts == {
  [date |-> 1, rows |-> <<Row("rent", 2), Row("bank", -2)>>],
  [date |-> 2, rows |-> <<Row("rent", 1), Row("rent", 1), Row("bank", -2)>>],
  [date |-> 1, rows |-> <<Row("bank", 1), Row("rent", -1)>>]}
MCYear == <<1, 1>>
MCCapUpTo == <<1, 2>>

MCSlugOf == "Big" :> "big" @@ "Other" :> "other"
\* cash in a group, bank beside it
MCParentOf == "root" :> TopLevel @@ "group" :> "root" @@ "cash" :> "group" @@ "bank" :> "root"
MCNetOf == "cash" :> 1 @@ "bank" :> 2
MCLabelSlug == "Big" :> "big" @@ "BIG" :> "big" @@ "Other" :> "other"

\* the clerks are the editors of the trees and the keepers of the chart too
Sym == Permutations(Entries) \cup Permutations(Closings) \cup Permutations(Clerks)
=============================================================================
