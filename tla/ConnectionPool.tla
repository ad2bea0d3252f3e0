---------------------------- MODULE ConnectionPool ----------------------------
(****************************************************************************)
(* The pg pool all services share: at most 25 connections, a queue in the   *)
(* order of the calls, and an exception for whoever waits 5 s in it.        *)
(*                                                                          *)
(* Most requests work on one connection.  PurchaseOrderService.update and   *)
(* StocktakeService.create call this.findOne inside their transaction: they *)
(* hold one connection and ask the pool for a second one for each of its    *)
(* queries, two in a row for an order and one for a stocktake (it throws).  *)
(*                                                                          *)
(* On a signal Nest closes the HTTP server, which waits for the requests in *)
(* service, and then calls onApplicationShutdown.                           *)
(****************************************************************************)
EXTENDS Integers, SequencesExt

CONSTANTS
    Requests,     \* requests that can be in service at the same time
    Connections,  \* max: 25
    Nobody        \* who holds a connection that is idle or not opened yet

ASSUME NobodyAssumption == Nobody \notin Requests

VARIABLES
    mode,    \* the process: "open", "closing" after a signal, "ended"
    holder,  \* who holds a connection
    queue,   \* requests that wait for a connection, in the order they asked
    stage,   \* what a request does
    rereads  \* the queries a request has yet to make inside its transaction

vars == <<mode, holder, queue, stage, rereads>>

Init ==
    /\ mode = "open"
    /\ holder = [c \in Connections |-> Nobody]
    /\ queue = <<>>
    /\ stage = [r \in Requests |-> "none"]
    /\ rereads = [r \in Requests |-> 0]

Become(r, there) == stage' = [stage EXCEPT ![r] = there]

(* pool.connect(): a connection at once, or a place in the queue. *)
Connect(r, working, waiting) ==
    \/ \E c \in Connections :
         /\ holder[c] = Nobody
         /\ holder' = [holder EXCEPT ![c] = r]
         /\ Become(r, working)
         /\ UNCHANGED queue
    \/ /\ \A c \in Connections : holder[c] # Nobody
       /\ queue' = Append(queue, r)
       /\ Become(r, waiting)
       /\ UNCHANGED holder

(* A request enters its service. *)
Enter(r) ==
    /\ mode = "open"
    /\ stage[r] = "none"
    /\ \E n \in 0..2 : rereads' = [rereads EXCEPT ![r] = n]
    /\ Connect(r, "work", "wait")
    /\ UNCHANGED mode

(* A query of this.findOne(id) in the callback of the transaction. *)
Reread(r) ==
    /\ stage[r] = "work"
    /\ rereads[r] > 0
    /\ Connect(r, "reread", "waitAgain")
    /\ UNCHANGED <<mode, rereads>>

(* Mutant: the queue is not looked at.                                       *)
Release_NoPulse(r, there) ==
    /\ \E c \in Connections :
         /\ holder[c] = r
         /\ holder' = [holder EXCEPT ![c] = Nobody]
    /\ Become(r, there)
    /\ UNCHANGED queue

(* release(): the connection goes to the head of the queue, or is idle.      *)
Release(r, there) ==
    \E c \in Connections :
      /\ holder[c] = r
      /\ \/ /\ queue = <<>>
            /\ holder' = [holder EXCEPT ![c] = Nobody]
            /\ Become(r, there)
            /\ UNCHANGED queue
         \/ /\ queue # <<>>
            /\ holder' = [holder EXCEPT ![c] = Head(queue)]
            /\ stage' = [stage EXCEPT ![r] = there,
                   ![Head(queue)] = IF @ = "wait" THEN "work" ELSE "reread"]
            /\ queue' = Tail(queue)

(* Kysely gives the connection of a single query back after it. *)
EndReread(r) ==
    /\ stage[r] = "reread"
    /\ Release(r, "work")
    /\ rereads' = [rereads EXCEPT ![r] = @ - 1]
    /\ UNCHANGED mode

(* COMMIT or ROLLBACK, and release() in the finally. *)
Finish(r) ==
    /\ stage[r] = "work"
    /\ rereads[r] = 0
    /\ Release(r, "none")
    /\ UNCHANGED <<mode, rereads>>

(* A statement or a query of findOne fails; the finally releases as well. *)
Fail(r) ==
    /\ stage[r] = "work"
    /\ Release(r, "none")
    /\ rereads' = [rereads EXCEPT ![r] = 0]
    /\ UNCHANGED mode

(* Mutant: no connectionTimeoutMillis.                                       *)
TimeOut_Never(r) ==
    /\ stage[r] \in {"wait", "waitAgain"}
    /\ FALSE
    /\ UNCHANGED vars

(* Mutant: the exception of the second connect() leaves the transaction open.*)
TimeOut_LeavesOpen(r) ==
    /\ stage[r] \in {"wait", "waitAgain"}
    /\ \E i \in DOMAIN queue : queue[i] = r /\ queue' = RemoveAt(queue, i)
    /\ Become(r, "none")
    /\ rereads' = [rereads EXCEPT ![r] = 0]
    /\ UNCHANGED <<mode, holder>>

(* 5 s are over.  A request without a connection is answered 500; one that   *)
(* holds the first one makes no more queries and goes on to roll back.       *)
TimeOut(r) ==
    /\ stage[r] \in {"wait", "waitAgain"}
    /\ \E i \in DOMAIN queue : queue[i] = r /\ queue' = RemoveAt(queue, i)
    /\ Become(r, IF stage[r] = "wait" THEN "none" ELSE "work")
    /\ rereads' = [rereads EXCEPT ![r] = 0]
    /\ UNCHANGED <<mode, holder>>

(* A signal: no new requests. *)
Close ==
    /\ mode = "open"
    /\ mode' = "closing"
    /\ UNCHANGED <<holder, queue, stage, rereads>>

(* pool.end() waits for every connection to come back. *)
EndPool ==
    /\ mode = "closing"
    /\ \A r \in Requests : stage[r] = "none"
    /\ \A c \in Connections : holder[c] = Nobody
    /\ mode' = "ended"
    /\ UNCHANGED <<holder, queue, stage, rereads>>

Step(r) == Reread(r) \/ EndReread(r) \/ Finish(r)

Next ==
    \/ \E r \in Requests : Enter(r) \/ Step(r) \/ Fail(r) \/ TimeOut(r)
    \/ Close
    \/ EndPool

(* A request that holds what it needs runs on, a timer that runs out fires,  *)
(* and Nest calls the hook once the requests are over.  The pool itself      *)
(* promises nothing to those in the queue.                                   *)
Fairness ==
    /\ \A r \in Requests : WF_vars(Step(r)) /\ WF_vars(TimeOut(r))
    /\ WF_vars(EndPool)

Spec == Init /\ [][Next]_vars /\ Fairness

------------------------------------------------------------------------------
(* Properties *)

Waiting == {r \in Requests : stage[r] \in {"wait", "waitAgain"}}
HeldBy(r) == {c \in Connections : holder[c] = r}

PoolTypeOK ==
    /\ mode \in {"open", "closing", "ended"}
    /\ holder \in [Connections -> Requests \cup {Nobody}]
    /\ queue \in Seq(Requests)
    /\ stage \in [Requests -> {"none", "wait", "work", "waitAgain", "reread"}]
    /\ rereads \in [Requests -> 0..2]

(* The connections a request holds at a stage. *)
Fits(there, held) ==
    /\ there \in {"none", "wait"} => held = {}
    /\ there \in {"work", "waitAgain"} => \E c \in Connections : held = {c}
    /\ there = "reread" => \E c, d \in Connections : c # d /\ held = {c, d}

(* Whatever fails or times out, a request holds two connections while it     *)
(* re-reads, one as long as its transaction is open, and none before and     *)
(* after: no path leaks a connection (release in every finally).             *)
NothingLeaks == \A r \in Requests : Fits(stage[r], HeldBy(r))

(* Nobody waits while a connection is idle, and those who wait are those in  *)
(* the queue.                                                                *)
NoIdleWhileWaiting ==
    /\ \A r \in Requests : r \in Waiting <=> \E i \in DOMAIN queue : queue[i] = r
    /\ queue # <<>> => \A c \in Connections : holder[c] # Nobody

(* The pool comes to a stand, everyone in service waiting, only if each of   *)
(* its connections is held by a transaction that asks for a second one       *)
(* (this.findOne inside the callback): single connections never block it.    *)
OnlyNestingStalls ==
    (Waiting # {} /\ \A r \in Requests : stage[r] = "none" \/ r \in Waiting)
        => \A c \in Connections : \E r \in Requests :
             holder[c] = r /\ stage[r] = "waitAgain"

(* Also then everyone is answered: the 5 s of connectionTimeoutMillis break  *)
(* the stand.                                                                *)
EveryRequestAnswered == \A r \in Requests : stage[r] # "none" ~> stage[r] = "none"

(* After a signal the process ends: pool.end() gets every connection back.   *)
ShutdownEnds == mode = "closing" ~> mode = "ended"
==============================================================================
