--------------------------- MODULE MCAccountChain ---------------------------
(****************************************************************************)
(* An instance of AccountChain for TLC: three accounts that pay each other  *)
(* in circles, one of which is still to be opened.                          *)
(****************************************************************************)
EXTENDS AccountChain

CONSTANTS alice, bob, carol

MCRank == [a \in Accounts |-> CASE a = alice -> 1 [] a = bob -> 2 [] OTHER -> 3]
MCFunding == [a \in Accounts |-> IF a = alice THEN 3 ELSE IF a = bob THEN 1 ELSE 0]
==============================================================================
