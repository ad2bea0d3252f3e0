------------------------------ MODULE StockBook ------------------------------
(****************************************************************************)
(* What the stock-keeping services promise together, with no transactions,  *)
(* locks or requests: quantity_on_hand and the inventory ledger change in   *)
(* the same instant and by the same amount.  A step may touch several rows, *)
(* as a dispatch of several lines does, and is then one entry of the book.  *)
(****************************************************************************)
EXTENDS Integers

CONSTANTS
    Keys,    \* the (location, product, variant) triples
    Opening  \* the stock of each key before the first ledger row

VARIABLES
    level,   \* quantity_on_hand by key
    ledger   \* the sum of the ledger's quantity_change by key

bookVars == <<level, ledger>>

Init ==
    /\ level = Opening
    /\ ledger = [k \in Keys |-> 0]

(* One committed transaction: any movement, posted in full. *)
Post ==
    /\ level' \in [Keys -> Int]
    /\ ledger' \in [Keys -> Int]
    /\ \A k \in Keys : level'[k] - level[k] = ledger'[k] - ledger[k]

Spec == Init /\ [][Post]_bookVars
==============================================================================
