------------------------------ MODULE MCTrade ------------------------------
(* One run over the trading documents, each module on its own small         *)
(* instance: TLC starts one behaviour for each, and the other rests.        *)
(* TradeCycle has two orders for the same bin, deliveries that together     *)
(* exceed the first order, a return, bills that exceed a movement and a     *)
(* credit note of more than the bill it credits.  WorkOrder makes two       *)
(* units, one more allowed, of two components, of which one has a           *)
(* substitute.  Serials has two numbers and seven vouchers for two requests *)
(* at a time, Banking two lines that any of three vouchers could match.     *)
EXTENDS MCSettlement, TradeCycle, WorkOrder, MCSerials, Banking

CONSTANTS O1, O2, M1, M2, R1, B1, B2, B3, C1, E1, E2, E3, V1, V2, V3

Moved(o, q, r) == [order |-> o, qty |-> q, returns |-> r]
Bill(o, m, q, c) == [order |-> o, move |-> m, qty |-> q, credits |-> c]

MCOrdered == O1 :> 2 @@ O2 :> 1
NoFactor == O1 :> 1 @@ O2 :> 1
TwoPerUnit == O1 :> 2 @@ O2 :> 1

MCMoving == M1 :> Moved(O1, 2, Nil) @@ M2 :> Moved(O1, 1, Nil)
         @@ R1 :> Moved(O1, 1, M1)
MCBilling == B1 :> Bill(O1, M1, 1, Nil) @@ B2 :> Bill(O1, Nil, 1, Nil)
          @@ B3 :> Bill(Nil, M1, 2, Nil) @@ C1 :> Bill(O1, Nil, -2, B1)

MCPerUnit == "frame" :> 1 @@ "wheel" :> 2
WithSubstitute == "frame" :> "spare frame"
\* entries and bank vouchers are only told apart by what they hold
TradeSymmetry == Permutations({E1, E2, E3}) \cup Permutations({V1, V2, V3})

MCDateOf == <<1, 2>>
MCAmountOf == <<5, 5>>

VARIABLE side

trade == <<vars, tvars, ovars, nvars, bvars>>

TradeInit ==
  /\ Init /\ TInit /\ OInit /\ NInit /\ BInit
  /\ side \in {"settlement", "cycle", "work order", "serials", "bank"}
TradeNext ==
  /\ UNCHANGED side
  /\ \/ side = "settlement" /\ Next /\ UNCHANGED <<tvars, ovars, nvars, bvars>>
     \/ side = "cycle" /\ TNext /\ UNCHANGED <<vars, ovars, nvars, bvars>>
     \/ side = "work order" /\ ONext /\ UNCHANGED <<vars, tvars, nvars, bvars>>
     \/ side = "serials" /\ NNext /\ UNCHANGED <<vars, tvars, ovars, bvars>>
     \/ side = "bank" /\ BNext /\ UNCHANGED <<vars, tvars, ovars, nvars>>
TradeSpec == TradeInit /\ [][TradeNext]_<<trade, side>>
=============================================================================
