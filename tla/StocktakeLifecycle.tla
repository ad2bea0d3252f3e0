-------------------------- MODULE StocktakeLifecycle --------------------------
(****************************************************************************)
(* The life of a stocktake as the state diagram of the README draws it, with*)
(* every operation one step: it is started, counts change only while it is  *)
(* in progress, it is completed or deleted once, and a completion books, for*)
(* every row, the difference between the count and what was expected.       *)
(****************************************************************************)
EXTENDS Integers

CONSTANTS
    Sessions,
    Slips,     \* the rows of the sessions
    TakeOf,    \* the session of a row
    Began,     \* the sessions in progress at the start
    Foreseen   \* the quantity a row expects

VARIABLES
    phase,     \* the status of a session
    tally,     \* the count on a row
    ledger     \* the sum of the ledger rows written for it

lifeVars == <<phase, tally, ledger>>

Init ==
    /\ phase = [s \in Sessions |-> IF s \in Began THEN "IN_PROGRESS" ELSE "ABSENT"]
    /\ tally = [i \in Slips |-> 0]
    /\ ledger = [i \in Slips |-> 0]

Start(s) ==
    /\ phase[s] = "ABSENT"
    /\ phase' = [phase EXCEPT ![s] = "IN_PROGRESS"]
    /\ UNCHANGED <<tally, ledger>>

(* Some rows of the session get other counts. *)
Count(s) ==
    /\ phase[s] = "IN_PROGRESS"
    /\ tally' \in [Slips -> Nat]
    /\ \A i \in Slips : TakeOf[i] # s => tally'[i] = tally[i]
    /\ UNCHANGED <<phase, ledger>>

Close(s, to) ==
    /\ phase[s] = "IN_PROGRESS"
    /\ phase' = [phase EXCEPT ![s] = to]
    /\ UNCHANGED tally

Complete(s) ==
    /\ Close(s, "COMPLETED")
    /\ ledger' = [i \in Slips |-> IF TakeOf[i] = s THEN tally[i] - Foreseen[i] ELSE ledger[i]]

Abort(s) == Close(s, "DELETED") /\ UNCHANGED ledger

Next == \E s \in Sessions : Start(s) \/ Count(s) \/ Complete(s) \/ Abort(s)

Spec == Init /\ [][Next]_lifeVars
==============================================================================
