--------------------------- MODULE MCSubcontract ---------------------------
(* A job of three pieces that needs one unit of a material, in steps of a  *)
(* hundredth.                                                              *)
EXTENDS Subcontract

OneItem == <<"steel">>
OneUnit == <<100>>
NoneSpare == [i \in {"steel"} |-> 0]
=============================================================================
