----------------------------- MODULE MCStocktake -----------------------------
(****************************************************************************)
(* Instances of Stocktake for TLC: a shop and a depot with one session in   *)
(* progress each, and one a client asks for.  Clients take turns on the     *)
(* session of the shop.                                                     *)
(****************************************************************************)
EXTENDS Stocktake

CONSTANTS
    shop, depot, mug, jar,
    calm, busy, next,    \* the sessions
    a1, a2, b1, b2, b3   \* rows of calm and of busy

(* The shop has only mugs and the depot only jars. *)
MCStocked == {<<shop, mug>>, <<depot, jar>>}
MCOpening == [k \in Keys |-> IF k \in MCStocked THEN 1 ELSE 0]
MCSiteOf == [s \in Sessions |-> IF s = busy THEN depot ELSE shop]
MCTakeOf == [i \in Slips |-> IF i \in {a1, a2} THEN calm ELSE busy]
MCProductOf == [i \in Slips |-> IF i \in {a2, b1} THEN jar ELSE mug]
MCSnapshot == {a1, b1}

Scan(p, q) == [product |-> p, qty |-> q]
MCBatches == {<<Scan(mug, 1)>>, <<Scan(jar, 1), Scan(mug, 2)>>}
Moves == {-1, 1}
==============================================================================
