----------------------------- MODULE MCPurchasing -----------------------------
(****************************************************************************)
(* Instances of Purchasing for TLC: orders for one store.  Clients take     *)
(* turns on the first and not on the second.                                *)
(****************************************************************************)
EXTENDS Purchasing

CONSTANTS
    store, apple, pear,
    calm, busy,         \* the orders
    f1, f2, g1, g2,     \* their forms
    a1, b1, c1, c2, d1  \* and the rows on them

Row(i, q) == [item |-> i, qty |-> q]

(* The store has never had a pear. *)
MCOpening == [k \in Keys |-> 0]
MCStocked == {<<store, apple>>}

MCOrderOf == [f \in Forms |-> IF f \in {f1, f2} THEN calm ELSE busy]
MCFormOf ==
    [i \in Items |-> CASE i = a1 -> f1 [] i = b1 -> f2 [] i = d1 -> g2 [] OTHER -> g1]
MCProductOf == [i \in Items |-> IF i \in {a1, c1} THEN pear ELSE apple]
MCOrdered == [i \in Items |-> IF i = a1 THEN 2 ELSE 1]
ToStore == [o \in Orders |-> store]

(* Part of a line, the rest or all of it; two lines in either order; a line  *)
(* the client takes for one of the order; nothing.                           *)
MCScans ==
    {<<Row(a1, 1)>>, <<Row(a1, 2)>>, <<Row(c1, 1), Row(c2, 1)>>,
     <<Row(c2, 1), Row(c1, 1)>>, <<Row(c1, 1), Row(a1, 1)>>, <<>>}

(* Two clerks who each scan one of two lines. *)
BusyOf == [f \in Forms |-> busy]
OneForm == [i \in Items |-> g1]
SplitScans == {<<Row(c1, 1)>>, <<Row(c2, 1)>>}

None == {}
==============================================================================
