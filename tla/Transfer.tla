------------------------------- MODULE Transfer -------------------------------
(****************************************************************************)
(* Stock transfers between two locations (TransferService), running next to *)
(* one another and next to the adjustments of Inventory on the same levels. *)
(*                                                                          *)
(* dispatch and receive open a transaction, read the status of the transfer *)
(* without locking its row, walk the lines the client sent and write the    *)
(* new status last.  The final UPDATE of the status and the COMMIT are one  *)
(* action: the open transaction waits for nothing in between.  cancel and   *)
(* reject read the status in one statement and overwrite it in another.     *)
(****************************************************************************)
EXTENDS Inventory, Sequences, Sums

CONSTANTS
    Transfers,    \* ids of transfers, created or yet to be
    NoTransfer,   \* the reference of a worker that serves none
    Items,        \* ids of transfer_items
    TransferOf,   \* the transfer an item belongs to
    ProductOf,    \* and its product
    SourceOf,     \* source_location_id of a transfer
    DestOf,       \* destination_location_id
    Scans         \* the `items` arrays clients send to dispatch and receive

Lines == [item : Items, qty : Nat]

ASSUME TransferAssumption ==
    /\ NoTransfer \notin Transfers
    /\ TransferOf \in [Items -> Transfers]
    /\ ProductOf \in [Items -> Products]
    /\ SourceOf \in [Transfers -> Locations]
    /\ DestOf \in [Transfers -> Locations]
    /\ \A t \in Transfers : SourceOf[t] # DestOf[t]
ASSUME RowsAssumption == IsFiniteSet(Items)  \* ids are uuids
ASSUME ScanAssumption == Scans \subseteq Seq(Lines)

VARIABLES
    status,        \* transfers.status ("ABSENT" before the INSERT)
    dispatched_at, \* whether transfers.dispatched_at is set
    item,          \* committed quantities of a transfer_items row
    itemNew,       \* the newest version of that row
    itemLock,      \* the worker whose open transaction wrote it
    shipped,       \* -SUM(quantity_change) of the TRANSFER_OUT rows of a transfer
    arrived,       \* SUM(quantity_change) of its TRANSFER_IN rows
    ref,           \* the transfer a worker serves
    todo,          \* the lines it has not done, the current one first
    moved          \* SUM of what its open transaction moved

(* History: what the clients did to a transfer.  No guard reads it.          *)
VARIABLES
    overlapped,    \* transfers asked for while a request for them was in service
    repeated       \* transfers sent a scan that lists an item twice

manifestVars == <<item, itemNew, itemLock>>
outcomeVars == <<status, dispatched_at, shipped, arrived>>
walkVars == <<ref, todo, moved>>
clientVars == <<overlapped, repeated>>
transferVars == <<manifestVars, outcomeVars, walkVars, clientVars>>
vars == <<stockVars, transferVars>>

Nothing == [dispatched |-> 0, received |-> 0]

Init ==
    /\ StockInit
    /\ status = [t \in Transfers |-> "ABSENT"]
    /\ dispatched_at = [t \in Transfers |-> FALSE]
    /\ item = [i \in Items |-> Nothing]
    /\ itemNew = [i \in Items |-> Nothing]
    /\ itemLock = [i \in Items |-> NoWorker]
    /\ shipped = [t \in Transfers |-> 0]
    /\ arrived = [t \in Transfers |-> 0]
    /\ ref = [w \in Workers |-> NoTransfer]
    /\ todo = [w \in Workers |-> <<>>]
    /\ moved = [w \in Workers |-> 0]
    /\ overlapped = {}
    /\ repeated = {}

------------------------------------------------------------------------------
(* The end of a transaction, for the rows this module adds. *)

UnlockItems(w) ==
    itemLock' = [i \in Items |-> IF itemLock[i] = w THEN NoWorker ELSE itemLock[i]]

CommitItems(w) ==
    /\ item' = [i \in Items |-> IF itemLock[i] = w THEN itemNew[i] ELSE item[i]]
    /\ UnlockItems(w)
    /\ UNCHANGED itemNew

RollbackItems(w) ==
    /\ itemNew' = [i \in Items |-> IF itemLock[i] = w THEN item[i] ELSE itemNew[i]]
    /\ UnlockItems(w)
    /\ UNCHANGED item

EndWalk(w) ==
    /\ ref' = [ref EXCEPT ![w] = NoTransfer]
    /\ todo' = [todo EXCEPT ![w] = <<>>]
    /\ moved' = [moved EXCEPT ![w] = 0]

(* Mutant: the items are updated on this.db instead of trx.                  *)
Rollback_KeepsItems(w) ==
    /\ RollbackStock(w)
    /\ EndJob(w)
    /\ CommitItems(w)
    /\ EndWalk(w)
    /\ UNCHANGED <<outcomeVars, clientVars>>

(* An exception, a lost connection or a deadlock victim. *)
Rollback(w) ==
    /\ RollbackStock(w)
    /\ EndJob(w)
    /\ RollbackItems(w)
    /\ EndWalk(w)
    /\ UNCHANGED <<outcomeVars, clientVars>>

------------------------------------------------------------------------------
(* POST /transfers: the transfer and its items appear in one commit. *)

Create(t) ==
    /\ status[t] = "ABSENT"
    /\ status' = [status EXCEPT ![t] = "PENDING"]
    /\ UNCHANGED <<stockVars, manifestVars, walkVars, clientVars, dispatched_at, shipped,
                   arrived>>

------------------------------------------------------------------------------
(* The first SELECT of dispatch, cancel, receive and reject.  Any other      *)
(* status is answered 409 (404 for an unknown id) and changes nothing, so    *)
(* that outcome is not a step.                                               *)

InService(t) == \E v \in Workers : ref[v] = t

(* A scan with one line for each item.                                       *)
NamesOnce(scan) == \A m, n \in 1 .. Len(scan) : m # n => scan[m].item # scan[n].item

Remember(t, scan) ==
    /\ overlapped' = overlapped \cup {u \in {t} : InService(u)}
    /\ repeated' = repeated \cup {u \in {t} : ~NamesOnce(scan)}

(* Mutant: the status check is gone.                                         *)
Begin_Unchecked(w, t, name, from, label, scan) ==
    /\ status[t] # "ABSENT"
    /\ StartJob(w, label, name)
    /\ ref' = [ref EXCEPT ![w] = t]
    /\ todo' = [todo EXCEPT ![w] = scan]
    /\ Remember(t, scan)
    /\ UNCHANGED <<storeVars, key, change, manifestVars, outcomeVars, moved>>

Begin(w, t, name, from, label, scan) ==
    /\ status[t] = from
    /\ StartJob(w, label, name)
    /\ ref' = [ref EXCEPT ![w] = t]
    /\ todo' = [todo EXCEPT ![w] = scan]
    /\ Remember(t, scan)
    /\ UNCHANGED <<storeVars, key, change, manifestVars, outcomeVars, moved>>

BeginDispatch(w, t) ==
    \E scan \in Scans : Begin(w, t, "dispatch", "PENDING", "line", scan)

(* Mutant: receive is offered while the transfer is still PENDING.           *)
BeginReceive_Early(w, t) ==
    \E scan \in Scans : Begin(w, t, "receive", "PENDING", "line", scan)

BeginReceive(w, t) ==
    \E scan \in Scans : Begin(w, t, "receive", "IN_TRANSIT", "line", scan)

BeginCancel(w, t) == Begin(w, t, "cancel", "PENDING", "flag", <<>>)

BeginReject(w, t) == Begin(w, t, "reject", "IN_TRANSIT", "flag", <<>>)

------------------------------------------------------------------------------
(* One line of the loop in dispatch and receive. *)

Line(w) == Head(todo[w])

AtLine(w) == pc[w] = "line" /\ todo[w] # <<>>

OwnLine(w) == TransferOf[Line(w).item] = ref[w]

(* `WHERE id = ... AND transfer_id = ...` finds no row: executeTakeFirst-    *)
(* OrThrow throws out of the transaction.                                    *)
LineNotFound(w) ==
    /\ AtLine(w)
    /\ ~OwnLine(w)
    /\ Rollback(w)

(* quantity <= 0: continue *)
SkipLine(w) ==
    /\ AtLine(w)
    /\ OwnLine(w)
    /\ Line(w).qty = 0
    /\ todo' = [todo EXCEPT ![w] = Tail(@)]
    /\ UNCHANGED <<stockVars, manifestVars, outcomeVars, clientVars, ref, moved>>

(* Mutant: the item gets the ledger's signed quantity.                       *)
Counted_Signed(w, row) ==
    IF op[w] = "dispatch" THEN [row EXCEPT !.dispatched = -Line(w).qty]
                          ELSE [row EXCEPT !.received = Line(w).qty]

(* Mutant: receive counts into the column of dispatch.                       *)
Counted_OneColumn(w, row) == [row EXCEPT !.dispatched = Line(w).qty]

Counted(w, row) ==
    IF op[w] = "dispatch" THEN [row EXCEPT !.dispatched = Line(w).qty]
                          ELSE [row EXCEPT !.received = Line(w).qty]

(* The UPDATE of the item's quantity, an overwrite; the level the line moves *)
(* is read next: dispatch checks the source, receive upserts the destination.*)
TakeLine(w) ==
    /\ AtLine(w)
    /\ OwnLine(w)
    /\ Line(w).qty > 0
    /\ itemLock[Line(w).item] \in {NoWorker, w}
    /\ itemLock' = [itemLock EXCEPT ![Line(w).item] = w]
    /\ itemNew' = [itemNew EXCEPT ![Line(w).item] = Counted(w, @)]
    /\ LET product == ProductOf[Line(w).item]
       IN  IF op[w] = "dispatch"
             THEN /\ pc' = [pc EXCEPT ![w] = "check"]
                  /\ key' = [key EXCEPT ![w] = <<SourceOf[ref[w]], product>>]
                  /\ change' = [change EXCEPT ![w] = -Line(w).qty]
             ELSE /\ pc' = [pc EXCEPT ![w] = "find"]
                  /\ key' = [key EXCEPT ![w] = <<DestOf[ref[w]], product>>]
                  /\ change' = [change EXCEPT ![w] = Line(w).qty]
    /\ UNCHANGED <<storeVars, op, requests, item, outcomeVars, clientVars, walkVars>>

Enough(w) ==
    Exists(w, key[w]) /\ Visible(w, key[w]) >= Line(w).qty

(* dispatch reads the source level without locking it ... *)
FindSource(w) ==
    /\ pc[w] = "check"
    /\ Enough(w)
    /\ Goto(w, "update")
    /\ UNCHANGED <<storeVars, transferVars>>

(* Mutant: the exception is answered without ending the transaction.         *)
InsufficientStock_NoRollback(w) ==
    /\ pc[w] = "check"
    /\ ~Enough(w)
    /\ EndJob(w)
    /\ EndWalk(w)
    /\ UNCHANGED <<storeVars, manifestVars, outcomeVars, clientVars>>

(* ... and throws when it shows too little. *)
InsufficientStock(w) ==
    /\ pc[w] = "check"
    /\ ~Enough(w)
    /\ Rollback(w)

(* The level and ledger writes of the line, after which the loop goes on. *)
NextLine(w) ==
    /\ op[w] \in {"dispatch", "receive"}
    /\ todo' = [todo EXCEPT ![w] = Tail(@)]
    /\ moved' = [moved EXCEPT ![w] = @ + Line(w).qty]
    /\ UNCHANGED <<manifestVars, outcomeVars, clientVars, ref>>

(* Mutant: the TRANSFER_OUT row is not written.                              *)
MoveLine_Unbooked(w) ==
    /\ pc[w] = "update"
    /\ CanLock(w, key[w])
    /\ lock' = [lock EXCEPT ![key[w]] = w]
    /\ newest' = [newest EXCEPT ![key[w]] = @ + change[w]]
    /\ UNCHANGED <<on_hand, tracked, posted, posting>>
    /\ Goto(w, "line")
    /\ NextLine(w)

MoveLine(w) ==
    /\ UpdateLevel(w, "line")
    /\ NextLine(w)

ReceiveNewProduct(w) ==
    /\ InsertLevel(w, "line")
    /\ NextLine(w)

------------------------------------------------------------------------------
(* The last statement and the commit. *)

SetStatus(w, to) == status' = [status EXCEPT ![ref[w]] = to]

Commit(w) ==
    /\ CommitStock(w)
    /\ EndJob(w)
    /\ CommitItems(w)
    /\ EndWalk(w)

AtEnd(w, name) == op[w] = name /\ pc[w] = "line" /\ todo[w] = <<>>

FinishDispatch(w) ==
    /\ AtEnd(w, "dispatch")
    /\ SetStatus(w, "IN_TRANSIT")
    /\ dispatched_at' = [dispatched_at EXCEPT ![ref[w]] = TRUE]
    /\ shipped' = [shipped EXCEPT ![ref[w]] = @ + moved[w]]
    /\ Commit(w)
    /\ UNCHANGED <<arrived, clientVars>>

FinishReceive(w) ==
    /\ AtEnd(w, "receive")
    /\ SetStatus(w, "COMPLETED")
    /\ arrived' = [arrived EXCEPT ![ref[w]] = @ + moved[w]]
    /\ Commit(w)
    /\ UNCHANGED <<dispatched_at, shipped, clientVars>>

(* The UPDATE of cancel and reject has no condition on the status.  Nothing  *)
(* was written before it.                                                    *)
Flag(w, name, to) ==
    /\ pc[w] = "flag"
    /\ op[w] = name
    /\ SetStatus(w, to)
    /\ EndJob(w)
    /\ EndWalk(w)
    /\ UNCHANGED <<storeVars, manifestVars, clientVars, dispatched_at, shipped, arrived>>

FinishCancel(w) == Flag(w, "cancel", "CANCELLED")

FinishReject(w) == Flag(w, "reject", "REJECTED")

------------------------------------------------------------------------------
(* Row locks are taken in the order of the client's lines, so workers can    *)
(* wait for one another in a circle.  PostgreSQL rolls back a worker of the  *)
(* circle.                                                                   *)

WaitsFor(w) ==
    LET holder ==
          CASE AtLine(w) /\ OwnLine(w) /\ Line(w).qty > 0 -> itemLock[Line(w).item]
            [] pc[w] \in {"update", "insert"} -> lock[key[w]]
            [] OTHER -> NoWorker
    IN  IF holder = w THEN NoWorker ELSE holder

InCircle(w) == InCircleOf([v \in Workers |-> WaitsFor(v)], w)

DetectDeadlock(w) ==
    /\ InCircle(w)
    /\ Rollback(w)

Fail(w) == pc[w] # "idle" /\ Rollback(w)

(* A step of an adjustment leaves the transfers alone. *)
AdjustStep(w) ==
    /\ UNCHANGED transferVars
    /\ \/ op[w] = "adjust" /\ StockStep(w)
       \/ op[w] = "receive" /\ FindLevel(w)

(* The destination row appeared after receive looked for it. *)
ReceiveDuplicate(w) ==
    /\ op[w] = "receive"
    /\ DuplicateLevel(w)
    /\ RollbackItems(w)
    /\ EndWalk(w)
    /\ UNCHANGED <<outcomeVars, clientVars>>

Step(w) ==
    \/ AdjustStep(w)
    \/ LineNotFound(w)
    \/ SkipLine(w)
    \/ TakeLine(w)
    \/ FindSource(w)
    \/ InsufficientStock(w)
    \/ MoveLine(w)
    \/ ReceiveNewProduct(w)
    \/ ReceiveDuplicate(w)
    \/ FinishDispatch(w)
    \/ FinishReceive(w)
    \/ FinishCancel(w)
    \/ FinishReject(w)

BeginRequest(w) ==
    \/ BeginAdjust(w) /\ UNCHANGED transferVars
    \/ \E t \in Transfers :
         BeginDispatch(w, t) \/ BeginReceive(w, t) \/ BeginCancel(w, t) \/ BeginReject(w, t)

Next ==
    \/ \E t \in Transfers : Create(t)
    \/ \E w \in Workers : BeginRequest(w) \/ Step(w) \/ DetectDeadlock(w) \/ Fail(w)

(* A request in service keeps running and PostgreSQL breaks every circle;    *)
(* clients need not ask and connections need not fail.                       *)
Fairness == \A w \in Workers : WF_vars(Step(w)) /\ WF_vars(DetectDeadlock(w))

Spec == Init /\ [][Next]_vars /\ Fairness

------------------------------------------------------------------------------
(* Properties *)

Statuses ==
    {"ABSENT", "PENDING", "IN_TRANSIT", "COMPLETED", "CANCELLED", "REJECTED"}
Counts == [dispatched : Nat, received : Nat]
Labels ==
    {"idle", "line", "check", "find", "update", "insert", "commit", "flag"}
Operations == {"none", "adjust", "dispatch", "receive", "cancel", "reject"}

(* The types of all variables: rows, ledger sums, locks and workers.         *)
TransferTypeOK ==
    /\ StockTypeOK
    /\ pc \in [Workers -> Labels]
    /\ op \in [Workers -> Operations]
    /\ status \in [Transfers -> Statuses]
    /\ dispatched_at \in [Transfers -> BOOLEAN]
    /\ item \in [Items -> Counts]
    /\ itemNew \in [Items -> Counts]
    /\ itemLock \in [Items -> Workers \cup {NoWorker}]
    /\ shipped \in [Transfers -> Nat]
    /\ arrived \in [Transfers -> Nat]
    /\ ref \in [Workers -> Transfers \cup {NoTransfer}]
    /\ todo \in [Workers -> Seq(Lines)]
    /\ moved \in [Workers -> Nat]
    /\ overlapped \subseteq Transfers
    /\ repeated \subseteq Transfers

(* A transfer that is PENDING (or not created) has no ledger rows and no     *)
(* counted items, whatever aborted, refused and concurrent dispatches tried: *)
(* the only way out of PENDING takes all of a dispatch with it.              *)
PendingUntouched ==
    \A t \in Transfers : status[t] \in {"ABSENT", "PENDING"} =>
        /\ shipped[t] = 0
        /\ arrived[t] = 0
        /\ \A i \in Items : TransferOf[i] = t => item[i] = Nothing

(* Stock arrives for, or a final status after transit is given to, a         *)
(* transfer only if some dispatch of it was committed before, also when      *)
(* cancels and dispatches overwrite each other's status.                     *)
ReceivedOnlyAfterDispatch ==
    \A t \in Transfers :
        arrived[t] # 0 \/ status[t] \in {"IN_TRANSIT", "COMPLETED", "REJECTED"}
            => dispatched_at[t]

ItemsOf(t) == {i \in Items : TransferOf[i] = t}

(* The quantities on the manifest of a transfer are those its ledger rows    *)
(* moved: what left the source is what the items say was dispatched.  Two    *)
(* requests that overlap, or a scan that lists an item twice, overwrite the  *)
(* quantities of an item whose movements add up, so those transfers are      *)
(* exempt.  Requests for other transfers, adjustments of the same levels,    *)
(* refused lines and rollbacks take nobody the promise away.                 *)
ManifestMatchesLedger ==
    \A t \in Transfers \ (overlapped \cup repeated) :
        /\ shipped[t] = SumOver([i \in Items |-> item[i].dispatched], ItemsOf(t))
        /\ arrived[t] = SumOver([i \in Items |-> item[i].received], ItemsOf(t))

(* A committed dispatch leaves no level it took from below zero: dispatch    *)
(* refuses to take more than it saw on hand.                                 *)
DispatchNeverOverdraws ==
    [][\A w \in Workers : op[w] = "dispatch" /\ op'[w] = "none" =>
         \A k \in Held(w) : on_hand'[k] < on_hand[k] => on_hand'[k] >= 0]_vars

(* The status and the ledger rows of a transfer follow the life cycle as if  *)
(* every operation were one step, until two requests for it overlap: nothing *)
(* but such an overlap (no failure, no other transfer, no adjustment) makes  *)
(* a transfer ship twice or leave a final status.                            *)
LifeState == [t \in Transfers |-> IF t \in overlapped THEN "OVERLAPPED" ELSE status[t]]
LifeOut == [t \in Transfers |-> IF t \in overlapped THEN 0 ELSE shipped[t]]
LifeIn == [t \in Transfers |-> IF t \in overlapped THEN 0 ELSE arrived[t]]
Life == INSTANCE TransferLifecycle WITH
            state <- LifeState, out <- LifeOut, in <- LifeIn
LifecycleKept == Life!Spec
==============================================================================
