-------------------------- MODULE TransferLifecycle --------------------------
(****************************************************************************)
(* The life of a transfer as the state diagram of the README draws it, with *)
(* every operation one step: it is shipped at most once, delivered at most  *)
(* once and only after it was shipped, and COMPLETED, CANCELLED and         *)
(* REJECTED are final.  The diagram knows no two requests at a time: a      *)
(* transfer whose requests overlap leaves it for OVERLAPPED, where nothing  *)
(* more is promised of it.                                                  *)
(****************************************************************************)
EXTENDS Integers

CONSTANT Transfers

VARIABLES
    state,    \* the transfer's status
    out,      \* what its TRANSFER_OUT ledger rows took from the source
    in        \* what its TRANSFER_IN rows added at the destination

lifeVars == <<state, out, in>>

Init ==
    /\ state = [t \in Transfers |-> "ABSENT"]
    /\ out = [t \in Transfers |-> 0]
    /\ in = [t \in Transfers |-> 0]

Become(t, from, to) ==
    /\ state[t] = from
    /\ state' = [state EXCEPT ![t] = to]

Request(t) ==
    /\ Become(t, "ABSENT", "PENDING")
    /\ UNCHANGED <<out, in>>

Ship(t) ==
    /\ Become(t, "PENDING", "IN_TRANSIT")
    /\ out'[t] \in Nat
    /\ out' = [out EXCEPT ![t] = out'[t]]
    /\ UNCHANGED in

Deliver(t) ==
    /\ Become(t, "IN_TRANSIT", "COMPLETED")
    /\ in'[t] \in Nat
    /\ in' = [in EXCEPT ![t] = in'[t]]
    /\ UNCHANGED out

CallOff(t) ==
    /\ \/ Become(t, "PENDING", "CANCELLED")
       \/ Become(t, "IN_TRANSIT", "REJECTED")
    /\ UNCHANGED <<out, in>>

Overlap(t) ==
    /\ state[t] # "ABSENT"
    /\ state' = [state EXCEPT ![t] = "OVERLAPPED"]
    /\ out' = [out EXCEPT ![t] = 0]
    /\ in' = [in EXCEPT ![t] = 0]

Next ==
    \E t \in Transfers :
        Request(t) \/ Ship(t) \/ Deliver(t) \/ CallOff(t) \/ Overlap(t)

Spec == Init /\ [][Next]_lifeVars
==============================================================================
