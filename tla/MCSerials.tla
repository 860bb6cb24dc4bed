----------------------------- MODULE MCSerials -----------------------------
(* Small instances of Serials: seven vouchers over two numbers, and the       *)
(* shortest history in which one delivery ships from two warehouses.          *)
EXTENDS Serials, TLC

\* two numbers bought into s1, moved, sold and bought back, or sent back
MCKinds == "PR" :> "Receipt" @@ "MT" :> "Transfer" @@ "DN" :> "Delivery" @@ "DN2" :> "Delivery"
        @@ "CR" :> "Customer return" @@ "SR" :> "Supplier return" @@ "MI" :> "Issue"
MCRows == "PR" :> ("n1" :> "s1" @@ "n2" :> "s1") @@ "MT" :> ("n1" :> "s1")
       @@ "DN" :> ("n1" :> "s1" @@ "n2" :> "s1") @@ "DN2" :> ("n1" :> "s2")
       @@ "CR" :> ("n1" :> "s1") @@ "SR" :> ("n2" :> "s1") @@ "MI" :> ("n2" :> "s1")
MCTarget == [p \in DOMAIN MCKinds |-> "s2"]
MCReturned == [p \in DOMAIN MCKinds |->
  CASE p = "CR" -> "DN" [] p = "SR" -> "PR" [] OTHER -> NoPaper]

\* n1 ships from s1 and n2 from s2, and n1 comes back to s2
SplitKinds == "PR" :> "Receipt" @@ "DN" :> "Delivery" @@ "CR" :> "Customer return"
SplitRows == "PR" :> ("n1" :> "s1" @@ "n2" :> "s2") @@ "DN" :> ("n1" :> "s1" @@ "n2" :> "s2")
          @@ "CR" :> ("n1" :> "s2")
SplitTarget == [p \in DOMAIN SplitKinds |-> "s2"]
SplitReturned == "PR" :> NoPaper @@ "DN" :> NoPaper @@ "CR" :> "DN"
=============================================================================
