---------------------------- MODULE OrderLifecycle ----------------------------
(****************************************************************************)
(* The life of a purchase order as the state diagram of the README draws it,*)
(* with every operation one step: a draft is sent, cancelled or deleted,    *)
(* only a sent order receives stock, and it is RECEIVED, for ever, exactly  *)
(* when every line of it has come in.                                       *)
(****************************************************************************)
EXTENDS Integers

CONSTANT Orders

VARIABLES
    state,    \* the order's status
    in,       \* what its RECEIPT ledger rows added
    complete  \* whether every line has received what was ordered

lifeVars == <<state, in, complete>>

Init ==
    /\ state = [o \in Orders |-> "ABSENT"]
    /\ in = [o \in Orders |-> 0]
    /\ complete = [o \in Orders |-> FALSE]

Become(o, from, to) ==
    /\ state[o] = from
    /\ state' = [state EXCEPT ![o] = to]
    /\ UNCHANGED <<in, complete>>

Write(o) == Become(o, "ABSENT", "DRAFT")

Leave(o) == \E to \in {"SENT", "CANCELLED", "DELETED"} : Become(o, "DRAFT", to)

Receive(o) ==
    /\ state[o] \in {"SENT", "PARTIAL"}
    /\ in'[o] >= in[o]
    /\ in' = [in EXCEPT ![o] = in'[o]]
    /\ \E done \in BOOLEAN :
         /\ complete' = [complete EXCEPT ![o] = done]
         /\ state' = [state EXCEPT ![o] = IF done THEN "RECEIVED" ELSE "PARTIAL"]

Next == \E o \in Orders : Write(o) \/ Leave(o) \/ Receive(o)

Spec == Init /\ [][Next]_lifeVars
==============================================================================
