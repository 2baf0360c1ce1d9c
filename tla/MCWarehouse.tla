----------------------------- MODULE MCWarehouse -----------------------------
(* The instance of Warehouse that TLC checks. *)
EXTENDS Warehouse

MCDateOf == [e \in Events |-> IF e < 4 THEN 0 ELSE 1]
MCTypeOf == [e \in Events |-> 1]
MCSaves == <<2>>
MCRanges == {<<0, 0>>, <<1, 1>>}
=============================================================================
