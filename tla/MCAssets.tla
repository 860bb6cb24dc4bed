------------------------------ MODULE MCAssets ------------------------------
(* One press, written down by half of its book value in each of two periods. *)
EXTENDS Assets

MCIds == {"press"}
MCCost == [a \in MCIds |-> 12]
MCMethod == [a \in MCIds |-> "Written Down Value"]
MCRate == [a \in MCIds |-> 50]
MCSalvage == [a \in MCIds |-> 10]
MCDueOn == [a \in MCIds |-> <<1, 2>>]
MCManual == [a \in MCIds |-> <<>>]
MCMaxChanges == [a \in MCIds |-> 2]
MCNewValues == {1, 14}
=============================================================================
