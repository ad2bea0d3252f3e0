------------------------------ MODULE MCTransfer ------------------------------
(****************************************************************************)
(* Instances of Transfer for TLC: a warehouse that ships to a store.        *)
(****************************************************************************)
EXTENDS Transfer

CONSTANTS
    warehouse, store, apple, pear,
    t1, t2, i1, i2, i3, i4

Row(i, q) == [item |-> i, qty |-> q]

(* Opening stock: the store has never had a pear. *)
MCStocked == {warehouse, store} \X Products \ {<<store, pear>>}
MCOpening == [k \in Keys |-> IF k[1] = warehouse THEN 2 ELSE 0]

(* The first transfer ships apples and pears, the second one pears.  Clients *)
(* list the lines of the first in either order and one of them twice, send   *)
(* quantity 0, and mistake a line of one transfer for a line of the other.   *)
MCTransferOf == [i \in Items |-> IF i \in {i1, i2} THEN t1 ELSE t2]
MCProductOf == [i \in Items |-> IF i \in {i1, i4} THEN apple ELSE pear]
MCScans ==
    {<<Row(i1, 1), Row(i2, 1)>>, <<Row(i2, 1), Row(i1, 1), Row(i2, 1)>>,
     <<Row(i4, 0), Row(i3, 2)>>}

(* quantity_change of a delivery; no adjustments.                           *)
Delivery == {1}
None == {}

FromWarehouse == [t \in Transfers |-> warehouse]
ToStore == [t \in Transfers |-> store]
==============================================================================
