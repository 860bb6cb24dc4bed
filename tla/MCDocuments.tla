---------------------------- MODULE MCDocuments ----------------------------
(* The documents of planning - production, margins, income tax - each on   *)
(* its own small instance: TLC starts one behaviour for each of them, and  *)
(* the others rest.                                                        *)
EXTENDS Planning, Margins, TaxWorksheet, TLC

VARIABLE part

allvars == <<svars, pvars, rvars, jvars, mvars, wvars, bomvars, part>>

DocumentsInit ==
  /\ SInit /\ PInit /\ RInit /\ JInit /\ MInit /\ WInit /\ BomInit
  /\ part \in 1 .. 7
  /\ quotation.line.rate = 1600
DocumentsNext ==
  /\ UNCHANGED part
  /\ \/ part = 1 /\ SNext /\ UNCHANGED <<pvars, rvars, jvars, mvars, wvars, bomvars>>
     \/ part = 2 /\ PNext /\ UNCHANGED <<svars, rvars, jvars, mvars, wvars, bomvars>>
     \/ part = 3 /\ RNext /\ UNCHANGED <<svars, pvars, jvars, mvars, wvars, bomvars>>
     \/ part = 4 /\ JNext /\ UNCHANGED <<svars, pvars, rvars, mvars, wvars, bomvars>>
     \/ part = 5 /\ MNext /\ UNCHANGED <<svars, pvars, rvars, jvars, wvars, bomvars>>
     \/ part = 6 /\ WNext /\ UNCHANGED <<svars, pvars, rvars, jvars, mvars, bomvars>>
     \/ part = 7 /\ BomNext /\ UNCHANGED <<svars, pvars, rvars, jvars, mvars, wvars>>
DocumentsSpec == DocumentsInit /\ [][DocumentsNext]_allvars

\* one set of two values serves the buyers, planners, hands and sales: a
\* symmetry group of its own for each would be applied to every state
Symmetry == Permutations(Hands)

TwoItems == <<"steel", "paint">>
\* two materials: of the first a third to a unit, of the second two
FourOfTwelve == <<4, 24>>
NoSpare == [i \in {"steel", "paint"} |-> 0]
MCWanted == <<2, 1>>
MCDrivers == {ByRevenue(5), [method |-> "percentage", basis |-> "quantity", percent |-> 5]}
MCOverrides == {[rate |-> 800, factor |-> 2]}
MCDefault == [allocation |-> 2, least |-> 60, policy |-> "block", saved |-> FALSE]
OneLoss == <<3>>
MCRecipes == {{1}, {2, 3}, {3}}

\* A recomputation reaches everything computed from what changed: the what-if
\* scenarios of a plan, the bills below a bill.
RecomputeReachesAll == PlansRecomputed /\ RefreshReachesLeaves
=============================================================================
