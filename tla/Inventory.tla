------------------------------ MODULE Inventory ------------------------------
(****************************************************************************)
(* Stock levels, the inventory ledger, and the PostgreSQL transactions that *)
(* change them (InventoryService).  The other services write the same two   *)
(* tables: each of their modules extends this one and runs its requests     *)
(* next to adjustments, so there is no specification here.                  *)
(*                                                                          *)
(* A worker is one HTTP request being served on its own pooled connection.  *)
(* Every await between two SQL statements is a point where other workers    *)
(* run, so each statement is an action.  Two statements are taken together  *)
(* only where no other worker can tell: the INSERT of a ledger row is       *)
(* invisible until the commit, so it goes with the level write it belongs   *)
(* to.                                                                      *)
(*                                                                          *)
(* PostgreSQL runs at its default level, READ COMMITTED: a SELECT sees the  *)
(* committed version of a row or the worker's own, an UPDATE waits for the  *)
(* holder of the row lock and then works on the newest version, and locks   *)
(* are kept until the transaction ends.                                     *)
(****************************************************************************)
EXTENDS Integers

CONSTANTS
    Workers,      \* requests that can be in service at the same time
    NoWorker,     \* the holder of a free row
    Locations,    \* stores and warehouses
    Products,     \* (product_id, variant_id) pairs, the null variant included
    NoKey,        \* the target of a worker that has none
    Opening,      \* quantity_on_hand of each key at the start
    Stocked,      \* the keys that have an inventory_levels row at the start
    Adjustments,  \* the quantity_change values clients send
    MaxRequests   \* bound: how many requests clients send in a behaviour

Keys == Locations \X Products

ASSUME WorkerAssumption == NoWorker \notin Workers
ASSUME KeyAssumption == NoKey \notin Keys
ASSUME OpeningAssumption ==
    /\ Stocked \subseteq Keys
    /\ Opening \in [Keys -> Int]
    /\ \A k \in Keys \ Stocked : Opening[k] = 0
ASSUME AdjustmentAssumption == Adjustments \subseteq Int \ {0}
ASSUME RequestAssumption == MaxRequests \in Nat

VARIABLES
    on_hand,   \* quantity_on_hand, committed (0 where there is no row)
    tracked,   \* the keys with a committed inventory_levels row
    posted,    \* SUM(quantity_change) of the committed ledger rows of a key
    newest,    \* quantity_on_hand in the newest version of the row
    posting,   \* SUM(quantity_change) of the lock holder's uncommitted rows
    lock,      \* the worker whose open transaction wrote the row
    pc,        \* the statement a worker runs next
    op,        \* the operation it serves
    key,       \* the row its next level write is for
    change,    \* and the quantity that write adds
    requests   \* requests begun so far

storeVars == <<on_hand, tracked, posted, newest, posting, lock>>
jobVars == <<pc, op, key, change>>
stockVars == <<storeVars, jobVars, requests>>

StockInit ==
    /\ on_hand = Opening
    /\ newest = Opening
    /\ tracked = Stocked
    /\ posted = [k \in Keys |-> 0]
    /\ posting = [k \in Keys |-> 0]
    /\ lock = [k \in Keys |-> NoWorker]
    /\ pc = [w \in Workers |-> "idle"]
    /\ op = [w \in Workers |-> "none"]
    /\ key = [w \in Workers |-> NoKey]
    /\ change = [w \in Workers |-> 0]
    /\ requests = 0

------------------------------------------------------------------------------
(* The transaction machinery every operation uses. *)

Held(w) == {k \in Keys : lock[k] = w}

(* What a SELECT of w sees of a level. *)
Visible(w, k) == IF lock[k] = w THEN newest[k] ELSE on_hand[k]

(* Whether it finds the row: committed, or inserted by w itself. *)
Exists(w, k) == k \in tracked \/ lock[k] = w

CanLock(w, k) == lock[k] \in {NoWorker, w}

(* `quantity_on_hand + change` on the newest version of the row, which the   *)
(* worker keeps locked, and the ledger row of the same quantity.             *)
WriteLevel(w) ==
    /\ CanLock(w, key[w])
    /\ lock' = [lock EXCEPT ![key[w]] = w]
    /\ newest' = [newest EXCEPT ![key[w]] = @ + change[w]]
    /\ posting' = [posting EXCEPT ![key[w]] = @ + change[w]]
    /\ UNCHANGED <<on_hand, tracked, posted>>

Unlock(w) == lock' = [k \in Keys |-> IF lock[k] = w THEN NoWorker ELSE lock[k]]

CommitStock(w) ==
    /\ on_hand' = [k \in Keys |-> Visible(w, k)]
    /\ tracked' = tracked \cup Held(w)
    /\ posted' = [k \in Keys |->
                    IF lock[k] = w THEN posted[k] + posting[k] ELSE posted[k]]
    /\ posting' = [k \in Keys |-> IF lock[k] = w THEN 0 ELSE posting[k]]
    /\ Unlock(w)
    /\ UNCHANGED newest

RollbackStock(w) ==
    /\ newest' = [k \in Keys |-> IF lock[k] = w THEN on_hand[k] ELSE newest[k]]
    /\ posting' = [k \in Keys |-> IF lock[k] = w THEN 0 ELSE posting[k]]
    /\ Unlock(w)
    /\ UNCHANGED <<on_hand, tracked, posted>>

(* Row locks can make workers wait for one another.  A set of workers that   *)
(* wait for exactly one another is made of circles; waits[v] is the worker v *)
(* waits for, or NoWorker.                                                   *)
InCircleOf(waits, w) ==
    \E C \in SUBSET Workers : w \in C /\ {waits[v] : v \in C} = C

(* A request enters service: it gets a connection and opens a transaction.   *)
StartJob(w, label, name) ==
    /\ pc[w] = "idle"
    /\ requests < MaxRequests
    /\ requests' = requests + 1
    /\ pc' = [pc EXCEPT ![w] = label]
    /\ op' = [op EXCEPT ![w] = name]

(* The request is answered and its connection goes back to the pool. *)
EndJob(w) ==
    /\ pc' = [pc EXCEPT ![w] = "idle"]
    /\ op' = [op EXCEPT ![w] = "none"]
    /\ key' = [key EXCEPT ![w] = NoKey]
    /\ change' = [change EXCEPT ![w] = 0]
    /\ UNCHANGED requests

Goto(w, label) ==
    /\ pc' = [pc EXCEPT ![w] = label]
    /\ UNCHANGED <<op, key, change, requests>>

------------------------------------------------------------------------------
(* The upsert of a level, which adjust, receive and restock share: look for  *)
(* the row, then UPDATE or INSERT it.  `next` is where the operation goes on.*)

FindLevel(w) ==
    /\ pc[w] = "find"
    /\ Goto(w, IF Exists(w, key[w]) THEN "update" ELSE "insert")
    /\ UNCHANGED storeVars

UpdateLevel(w, next) ==
    /\ pc[w] = "update"
    /\ WriteLevel(w)
    /\ Goto(w, next)

(* Mutant: ON CONFLICT DO UPDATE with the inserted quantity.                 *)
InsertLevel_Overwrites(w, next) ==
    /\ pc[w] = "insert"
    /\ CanLock(w, key[w])
    /\ lock' = [lock EXCEPT ![key[w]] = w]
    /\ newest' = [newest EXCEPT ![key[w]] = change[w]]
    /\ posting' = [posting EXCEPT ![key[w]] = @ + change[w]]
    /\ Goto(w, next)
    /\ UNCHANGED <<on_hand, tracked, posted>>

InsertLevel(w, next) ==
    /\ pc[w] = "insert"
    /\ key[w] \notin tracked
    /\ WriteLevel(w)
    /\ Goto(w, next)

(* Someone committed a row for the key after w looked: the unique index      *)
(* refuses the INSERT and the exception rolls the transaction back.          *)
DuplicateLevel(w) ==
    /\ pc[w] = "insert"
    /\ key[w] \in tracked
    /\ CanLock(w, key[w])
    /\ RollbackStock(w)
    /\ EndJob(w)

------------------------------------------------------------------------------
(* POST /inventory/adjust.  transaction_type and the reference are only read *)
(* back by ReturnService: Returns adds what an adjustment writes there.      *)

BeginAdjust(w) ==
    \E k \in Keys, c \in Adjustments :
        /\ StartJob(w, "find", "adjust")
        /\ key' = [key EXCEPT ![w] = k]
        /\ change' = [change EXCEPT ![w] = c]
        /\ UNCHANGED storeVars

FinishAdjust(w) ==
    /\ pc[w] = "commit"
    /\ CommitStock(w)
    /\ EndJob(w)

(* The statements of an adjustment, for the services that run next to it.    *)
StockStep(w) ==
    \/ FindLevel(w)
    \/ UpdateLevel(w, "commit")
    \/ InsertLevel(w, "commit")
    \/ DuplicateLevel(w)
    \/ FinishAdjust(w)

------------------------------------------------------------------------------
(* Properties *)

(* The types of the variables of this module, which those that extend it     *)
(* repeat.                                                                   *)
StockTypeOK ==
    /\ on_hand \in [Keys -> Int]
    /\ newest \in [Keys -> Int]
    /\ tracked \in SUBSET Keys
    /\ posted \in [Keys -> Int]
    /\ posting \in [Keys -> Int]
    /\ lock \in [Keys -> Workers \cup {NoWorker}]
    /\ key \in [Workers -> Keys \cup {NoKey}]
    /\ change \in [Workers -> Int]
    /\ requests \in Nat

(* The committed stock of every key is its opening stock plus what the       *)
(* committed ledger rows say was moved, however the upserts of concurrent    *)
(* requests interleave (adjustInventory's "Guarantees atomicity").           *)
StockMatchesLedger == \A k \in Keys : on_hand[k] = Opening[k] + posted[k]

(* Every request in service is answered: it commits, it is refused, it is    *)
(* lost with its connection or chosen by the deadlock detector; none waits   *)
(* for ever for a row.                                                       *)
EveryRequestFinishes == \A w \in Workers : pc[w] # "idle" ~> pc[w] = "idle"

(* The stock and the ledger change together, step by step (StockBook).       *)
Book == INSTANCE StockBook WITH level <- on_hand, ledger <- posted
StockBookKept == Book!Spec
==============================================================================
