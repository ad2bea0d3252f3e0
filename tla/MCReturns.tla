------------------------------ MODULE MCReturns ------------------------------
(****************************************************************************)
(* Instances of Returns for TLC: a quarantine bin and a sales floor, which  *)
(* may have no level for the product yet.                                   *)
(****************************************************************************)
EXTENDS Returns

CONSTANTS bin, floor, mug

MCOpening == [k \in Keys |-> 0]
MCStocked == {<<bin, mug>>}

(* quantity_change of an adjustment; a positive one does what a return does. *)
Loss == {-1}
==============================================================================
