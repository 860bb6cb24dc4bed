---------------------------- MODULE MCSettlement ----------------------------
(* Small instances of Settlement: two invoices, a return against the first *)
(* one, and two payments.                                                  *)
EXTENDS Settlement, TLC

CONSTANTS A, B, R, P1, P2

Row(i, a) == [invoice |-> i, amount |-> a]

MCInvoices == {A, B, R}
MCPayments == {P1, P2}
MCAgainst == A :> None @@ B :> None @@ R :> A
MCGross == A :> 3 @@ B :> 2 @@ R :> -2
MCPaid == P1 :> 3 @@ P2 :> 2
NothingDeducted == P1 :> 0 @@ P2 :> 0
OneDeducted == P1 :> 1 @@ P2 :> 0

\* tax on the first invoice only, or on its return as well; tax kept from a
\* purchase lowers what is due
NoTax == A :> 0 @@ B :> 0 @@ R :> 0
TaxKept == A :> -1 @@ B :> 0 @@ R :> 0
ReturnTax == A :> 1 @@ B :> 0 @@ R :> -1

MCAsked == P1 :> {<<>>, <<Row(A, 2)>>, <<Row(A, 1), Row(B, 2)>>}
        @@ P2 :> {<<>>, <<Row(A, 2)>>, <<Row(B, 1)>>}
OnAccount == P1 :> {<<>>} @@ P2 :> {<<Row(A, 1)>>}
=============================================================================
