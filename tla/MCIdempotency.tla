---------------------------- MODULE MCIdempotency ----------------------------
(****************************************************************************)
(* Instances of Idempotency for TLC: two keys under which alice and bob pay *)
(* each other, and one under which bob would pay himself.                   *)
(****************************************************************************)
EXTENDS Idempotency

CONSTANTS alice, bob, tea, rent, gift

MCRank == [a \in Accounts |-> IF a = alice THEN 1 ELSE 2]
MCFunding == [a \in Accounts |-> IF a = alice THEN 3 ELSE 1]
MCOrder == [k \in Keys |->
    IF k = tea THEN [source |-> alice, target |-> bob, amount |-> 2]
    ELSE IF k = rent THEN [source |-> bob, target |-> alice, amount |-> 2]
    ELSE [source |-> bob, target |-> bob, amount |-> 2]]
==============================================================================
