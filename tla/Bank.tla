--------------------------------- MODULE Bank ---------------------------------
(****************************************************************************)
(* What the account ledger promises: money only moves, from an account that *)
(* has it to another one, and both accounts and both ledger entries change  *)
(* in the same instant.                                                     *)
(****************************************************************************)
EXTENDS Integers

CONSTANTS
    Accounts,  \* ids of accounts
    Funding    \* what each account held before the first entry

VARIABLES
    held,      \* the balance of each account
    booked     \* the sum of its ledger entries

bankVars == <<held, booked>>

Init ==
    /\ held = Funding
    /\ booked = [a \in Accounts |-> 0]

Shift(f, from, to, sum) == [f EXCEPT ![from] = @ - sum, ![to] = @ + sum]

Pay(from, to) ==
    LET sum == held[from] - held'[from]
    IN  /\ from # to
        /\ sum \in 1..held[from]
        /\ held' = Shift(held, from, to, sum)
        /\ booked' = Shift(booked, from, to, sum)

Next == \E from, to \in Accounts : Pay(from, to)

Spec == Init /\ [][Next]_bankVars
==============================================================================
