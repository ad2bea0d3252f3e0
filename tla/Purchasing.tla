------------------------------ MODULE Purchasing ------------------------------
(****************************************************************************)
(* Purchase orders (PurchaseOrderService) and the receipt of their lines    *)
(* (ReceivingService), which moves the levels of Inventory.                 *)
(*                                                                          *)
(* Every operation reads the status of the order without locking its row    *)
(* and acts on it in later statements.  receive walks the lines the client  *)
(* scanned, reads all lines of the order back and writes the status last.   *)
(* An edit deletes the lines the order has and inserts those of its form; a *)
(* deletion locks the order and deletes the lines after it.  A DELETE takes *)
(* the rows its statement found, one after the other, and passes over those *)
(* that are gone when it gets to them.  The last write and the COMMIT are   *)
(* one action.                                                              *)
(****************************************************************************)
EXTENDS Inventory, Sequences, Sums

CONSTANTS
    Orders,     \* ids of purchase_orders, written or yet to be
    NoOrder,    \* the order of a worker that serves none
    Forms,      \* the bodies of POST and PATCH requests, one for each request
    NoForm,     \* the form of a worker that has none
    OrderOf,    \* the order a form is for
    Items,      \* ids of purchase_order_items, written or yet to be
    FormOf,     \* the form a row is on
    ProductOf,  \* its product
    Ordered,    \* and its quantity_ordered
    DestOf,     \* destination_location_id of an order
    Scans,      \* the `items` arrays clients send to receive
    Careful     \* the orders whose clients never overlap two requests

Lines == [item : Items, qty : Nat]

ASSUME OrderAssumption ==
    /\ NoOrder \notin Orders
    /\ NoForm \notin Forms
    /\ OrderOf \in [Forms -> Orders]
    /\ FormOf \in [Items -> Forms]
    /\ \A f \in Forms : \E i \in Items : FormOf[i] = f
    /\ ProductOf \in [Items -> Products]
    /\ Ordered \in [Items -> Nat \ {0}]
    /\ DestOf \in [Orders -> Locations]
ASSUME RowsAssumption == IsFiniteSet(Items)  \* ids are uuids
ASSUME ScanAssumption == Scans \subseteq Seq(Lines)
ASSUME CarefulAssumption == Careful \subseteq Orders

VARIABLES
    status,     \* purchase_orders.status ("ABSENT", "DELETED": no row)
    orderLock,  \* the worker whose open transaction wrote the row
    row,        \* "unwritten", "live" or "deleted": a purchase_order_items row
    got,        \* its quantity_received, committed
    gotNew,     \* and in the newest version
    itemLock,   \* the worker whose open transaction wrote or deleted it
    booked,     \* SUM(quantity_change) of the RECEIPT rows of an order
    ref,        \* the order a worker serves
    form,       \* the form it edits with
    todo,       \* the lines it has not received, the current one first
    doomed,     \* the rows its DELETE has found and not taken
    moved       \* SUM of what its open transaction received

orderVars == <<status, orderLock>>
lineVars == <<row, got, gotNew, itemLock>>
deskVars == <<ref, form, todo, doomed, moved>>
purchaseVars == <<orderVars, lineVars, deskVars, booked>>
vars == <<stockVars, purchaseVars>>

Init ==
    /\ StockInit
    /\ status = [o \in Orders |-> "ABSENT"]
    /\ orderLock = [o \in Orders |-> NoWorker]
    /\ row = [i \in Items |-> "unwritten"]
    /\ got = [i \in Items |-> 0]
    /\ gotNew = [i \in Items |-> 0]
    /\ itemLock = [i \in Items |-> NoWorker]
    /\ booked = [o \in Orders |-> 0]
    /\ ref = [w \in Workers |-> NoOrder]
    /\ form = [w \in Workers |-> NoForm]
    /\ todo = [w \in Workers |-> <<>>]
    /\ doomed = [w \in Workers |-> {}]
    /\ moved = [w \in Workers |-> 0]

HomeOf(i) == OrderOf[FormOf[i]]

(* The committed lines of an order. *)
Live(o) == {i \in Items : row[i] = "live" /\ HomeOf(i) = o}

------------------------------------------------------------------------------
(* The end of a transaction. *)

LeaveDesk(w) ==
    /\ ref' = [ref EXCEPT ![w] = NoOrder]
    /\ form' = [form EXCEPT ![w] = NoForm]
    /\ todo' = [todo EXCEPT ![w] = <<>>]
    /\ doomed' = [doomed EXCEPT ![w] = {}]
    /\ moved' = [moved EXCEPT ![w] = 0]

UnlockRows(w) ==
    /\ itemLock' = [i \in Items |-> IF itemLock[i] = w THEN NoWorker ELSE itemLock[i]]
    /\ orderLock' = [o \in Orders |-> IF orderLock[o] = w THEN NoWorker ELSE orderLock[o]]

(* Mutant: the lines are updated on this.db instead of trx.                  *)
Rollback_KeepsCounts(w) ==
    /\ RollbackStock(w)
    /\ EndJob(w)
    /\ got' = [i \in Items |-> IF itemLock[i] = w THEN gotNew[i] ELSE got[i]]
    /\ UnlockRows(w)
    /\ LeaveDesk(w)
    /\ UNCHANGED <<status, row, gotNew, booked>>

(* An exception, a lost connection or a deadlock victim. *)
Rollback(w) ==
    /\ RollbackStock(w)
    /\ EndJob(w)
    /\ gotNew' = [i \in Items |-> IF itemLock[i] = w THEN got[i] ELSE gotNew[i]]
    /\ UnlockRows(w)
    /\ LeaveDesk(w)
    /\ UNCHANGED <<status, row, got, booked>>

Commit(w) ==
    /\ CommitStock(w)
    /\ EndJob(w)
    /\ got' = [i \in Items |-> IF itemLock[i] = w THEN gotNew[i] ELSE got[i]]
    /\ UnlockRows(w)
    /\ LeaveDesk(w)
    /\ UNCHANGED gotNew

------------------------------------------------------------------------------
(* POST /purchase-orders: the DRAFT and its lines appear in one commit. *)

Unused(f) == \A i \in Items : FormOf[i] = f => row[i] = "unwritten"

Create(f) ==
    /\ status[OrderOf[f]] = "ABSENT"
    /\ Unused(f)
    /\ status' = [status EXCEPT ![OrderOf[f]] = "DRAFT"]
    /\ row' = [i \in Items |-> IF FormOf[i] = f THEN "live" ELSE row[i]]
    /\ UNCHANGED <<stockVars, orderLock, got, gotNew, itemLock, booked, deskVars>>

(* The first SELECT of an operation.  Any other status is answered 409 (404  *)
(* where there is no row) and changes nothing: not a step.                   *)
Begin(w, o, name, from, label) ==
    /\ status[o] \in from
    /\ o \in Careful => \A v \in Workers : ref[v] # o
    /\ StartJob(w, label, name)
    /\ ref' = [ref EXCEPT ![w] = o]
    /\ UNCHANGED <<storeVars, key, change, orderVars, lineVars, booked, doomed, moved>>

BeginReceive(w, o) ==
    \E scan \in Scans :
        /\ Begin(w, o, "receive", {"SENT", "PARTIAL"}, "line")
        /\ todo' = [todo EXCEPT ![w] = scan]
        /\ UNCHANGED form

(* An edit may also change the header of the order, which locks its row; an  *)
(* edit of the header alone changes nothing any operation reads.             *)
BeginEdit(w, f) ==
    \E first \in {"order", "items"} :
        /\ Unused(f)
        /\ \A v \in Workers : form[v] # f
        /\ Begin(w, OrderOf[f], "edit", {"DRAFT"}, first)
        /\ form' = [form EXCEPT ![w] = f]
        /\ UNCHANGED todo

BeginStatus(w, o) ==
    \E to \in {"SENT", "CANCELLED"} :
        /\ Begin(w, o, "status", {"DRAFT"}, to)
        /\ UNCHANGED <<form, todo>>

BeginRemove(w, o) ==
    /\ Begin(w, o, "remove", {"DRAFT"}, "order")
    /\ UNCHANGED <<form, todo>>

------------------------------------------------------------------------------
(* POST /purchase-orders/:id/receive, one line of the loop. *)

Line(w) == Head(todo[w])

AtLine(w) == pc[w] = "line" /\ todo[w] # <<>>

(* `WHERE id = ... AND po_id = ...`: the row is there, or the exception of   *)
(* executeTakeFirstOrThrow ends the transaction.                             *)
FindLine(w) ==
    /\ AtLine(w)
    /\ Line(w).item \in Live(ref[w])
    /\ Goto(w, "count")
    /\ UNCHANGED <<storeVars, purchaseVars>>

(* Mutant: the exception is answered without ending the transaction.         *)
LineNotFound_NoRollback(w) ==
    /\ AtLine(w)
    /\ Line(w).item \notin Live(ref[w])
    /\ EndJob(w)
    /\ LeaveDesk(w)
    /\ UNCHANGED <<storeVars, orderVars, lineVars, booked>>

LineNotFound(w) ==
    /\ AtLine(w)
    /\ Line(w).item \notin Live(ref[w])
    /\ Rollback(w)

(* Mutant: the quantity replaces the one of earlier receipts.                *)
CountLine_Overwrites(w) ==
    LET i == Line(w).item IN
    /\ pc[w] = "count"
    /\ itemLock[i] \in {NoWorker, w}
    /\ itemLock' = [itemLock EXCEPT ![i] = w]
    /\ gotNew' = [gotNew EXCEPT ![i] = Line(w).qty]
    /\ pc' = [pc EXCEPT ![w] = "find"]
    /\ key' = [key EXCEPT ![w] = <<DestOf[ref[w]], ProductOf[i]>>]
    /\ change' = [change EXCEPT ![w] = Line(w).qty]
    /\ UNCHANGED <<storeVars, op, requests, orderVars, row, got, booked, deskVars>>

(* quantity_received is increased on the newest version of the row.  A row   *)
(* that was deleted meanwhile is not updated, which nothing notices.         *)
CountLine(w) ==
    LET i == Line(w).item IN
    /\ pc[w] = "count"
    /\ itemLock[i] \in {NoWorker, w}
    /\ IF row[i] = "live"
         THEN /\ itemLock' = [itemLock EXCEPT ![i] = w]
              /\ gotNew' = [gotNew EXCEPT ![i] = @ + Line(w).qty]
         ELSE UNCHANGED <<itemLock, gotNew>>
    /\ pc' = [pc EXCEPT ![w] = "find"]
    /\ key' = [key EXCEPT ![w] = <<DestOf[ref[w]], ProductOf[i]>>]
    /\ change' = [change EXCEPT ![w] = Line(w).qty]
    /\ UNCHANGED <<storeVars, op, requests, orderVars, row, got, booked, deskVars>>

(* The upsert of the level with the RECEIPT row; the loop goes on. *)
LookUp(w) == FindLevel(w) /\ UNCHANGED purchaseVars

(* Mutant: a RECEIPT row is signed like a TRANSFER_OUT row.                  *)
ReceiveLine_Signed(w) ==
    /\ UpdateLevel(w, "line") \/ InsertLevel(w, "line")
    /\ todo' = [todo EXCEPT ![w] = Tail(@)]
    /\ moved' = [moved EXCEPT ![w] = @ - Line(w).qty]
    /\ UNCHANGED <<orderVars, lineVars, booked, ref, form, doomed>>

ReceiveLine(w) ==
    /\ UpdateLevel(w, "line") \/ InsertLevel(w, "line")
    /\ todo' = [todo EXCEPT ![w] = Tail(@)]
    /\ moved' = [moved EXCEPT ![w] = @ + Line(w).qty]
    /\ UNCHANGED <<orderVars, lineVars, booked, ref, form, doomed>>

(* The level appeared after receive looked for it. *)
ReceiveDuplicate(w) ==
    /\ pc[w] = "insert"
    /\ key[w] \in tracked
    /\ CanLock(w, key[w])
    /\ Rollback(w)

(* What a SELECT of w sees of quantity_received. *)
Received(w, i) == IF itemLock[i] = w THEN gotNew[i] ELSE got[i]

(* Mutant: more than was ordered must come in.                               *)
Evaluate_Strict(w) ==
    /\ pc[w] = "line"
    /\ todo[w] = <<>>
    /\ Goto(w, IF \A i \in Live(ref[w]) : Received(w, i) > Ordered[i]
                 THEN "RECEIVED" ELSE "PARTIAL")
    /\ UNCHANGED <<storeVars, purchaseVars>>

(* After the loop the lines are read back.  The label is the status that     *)
(* goes into the next UPDATE.                                                *)
Evaluate(w) ==
    /\ pc[w] = "line"
    /\ todo[w] = <<>>
    /\ Goto(w, IF \A i \in Live(ref[w]) : Received(w, i) >= Ordered[i]
                 THEN "RECEIVED" ELSE "PARTIAL")
    /\ UNCHANGED <<storeVars, purchaseVars>>

------------------------------------------------------------------------------
(* The statements that write the row of an order wait for its lock.          *)

NewStatuses == {"SENT", "CANCELLED", "PARTIAL", "RECEIVED"}

CanLockOrder(w) == orderLock[ref[w]] \in {NoWorker, w}

(* The UPDATE of the status in receive and in updateStatus, by id alone: no  *)
(* row is not an error in the one and changes nothing in the other.          *)
WriteStatus(w) ==
    /\ pc[w] \in NewStatuses
    /\ CanLockOrder(w)
    /\ status' = [status EXCEPT ![ref[w]] = IF @ = "DELETED" THEN @ ELSE pc[w]]
    /\ booked' = [booked EXCEPT ![ref[w]] = @ + moved[w]]
    /\ Commit(w)
    /\ UNCHANGED row

(* The UPDATE of the header in an edit, or the DELETE of remove, locks the   *)
(* row, if it is still there, before the lines.                              *)
LockOrder(w) ==
    /\ pc[w] = "order"
    /\ CanLockOrder(w)
    /\ orderLock' = [orderLock EXCEPT ![ref[w]] = IF status[ref[w]] = "DELETED" THEN @ ELSE w]
    /\ Goto(w, "items")
    /\ UNCHANGED <<storeVars, status, lineVars, booked, deskVars>>

------------------------------------------------------------------------------
(* DELETE FROM purchase_order_items WHERE po_id = ..., from an edit or from  *)
(* the cascade of remove.                                                    *)

FindRows(w) ==
    /\ pc[w] = "items"
    /\ doomed' = [doomed EXCEPT ![w] = Live(ref[w])]
    /\ Goto(w, "delete")
    /\ UNCHANGED <<storeVars, orderVars, lineVars, booked, ref, form, todo, moved>>

(* Rows are taken in their order in the table, whatever that is.             *)
NextRow(w) == CHOOSE i \in doomed[w] : TRUE

DeleteRow(w) ==
    LET i == NextRow(w) IN
    /\ pc[w] = "delete"
    /\ doomed[w] # {}
    /\ itemLock[i] = NoWorker
    /\ itemLock' = [itemLock EXCEPT ![i] = IF row[i] = "live" THEN w ELSE @]
    /\ doomed' = [doomed EXCEPT ![w] = @ \ {i}]
    /\ UNCHANGED <<stockVars, orderVars, row, got, gotNew, booked, ref, form, todo, moved>>

RowsTaken(w) == pc[w] = "delete" /\ doomed[w] = {}

AfterDelete(w, i) == IF itemLock[i] = w THEN "deleted" ELSE row[i]

(* The new lines refer to the order, which a remove may have locked.         *)
MayRefer(w) ==
    orderLock[ref[w]] \in {NoWorker, w} \cup {v \in Workers : op[v] # "remove"}

(* Mutant: the new lines are inserted next to the old ones.                  *)
Rewrite_Appends(w) ==
    /\ op[w] = "edit"
    /\ RowsTaken(w)
    /\ MayRefer(w)
    /\ status[ref[w]] # "DELETED"
    /\ row' = [i \in Items |-> IF FormOf[i] = form[w] THEN "live" ELSE row[i]]
    /\ Commit(w)
    /\ UNCHANGED <<status, booked>>

Rewrite(w) ==
    /\ op[w] = "edit"
    /\ RowsTaken(w)
    /\ MayRefer(w)
    /\ status[ref[w]] # "DELETED"
    /\ row' = [i \in Items |-> IF FormOf[i] = form[w] THEN "live" ELSE AfterDelete(w, i)]
    /\ Commit(w)
    /\ UNCHANGED <<status, booked>>

(* ... and deleted: the foreign key refuses the lines. *)
RewriteOrphan(w) ==
    /\ op[w] = "edit"
    /\ RowsTaken(w)
    /\ MayRefer(w)
    /\ status[ref[w]] = "DELETED"
    /\ Rollback(w)

FinishRemove(w) ==
    /\ op[w] = "remove"
    /\ RowsTaken(w)
    /\ status' = [status EXCEPT ![ref[w]] = "DELETED"]
    /\ row' = [i \in Items |-> AfterDelete(w, i)]
    /\ Commit(w)
    /\ UNCHANGED booked

------------------------------------------------------------------------------
(* Lines are locked in the order of the scan, rows in that of the table, and *)
(* receive locks the order after its lines, edit and remove before.          *)

WaitsFor(w) ==
    LET holder ==
          CASE pc[w] = "count" -> itemLock[Line(w).item]
            [] pc[w] \in {"update", "insert"} -> lock[key[w]]
            [] pc[w] \in NewStatuses \cup {"order"} -> orderLock[ref[w]]
            [] pc[w] = "delete" /\ doomed[w] # {} -> itemLock[NextRow(w)]
            [] RowsTaken(w) /\ ~MayRefer(w) -> orderLock[ref[w]]
            [] OTHER -> NoWorker
    IN  IF holder = w THEN NoWorker ELSE holder

DetectDeadlock(w) ==
    /\ InCircleOf([v \in Workers |-> WaitsFor(v)], w)
    /\ Rollback(w)

Fail(w) == pc[w] # "idle" /\ Rollback(w)

Step(w) ==
    \/ FindLine(w) \/ LineNotFound(w)
    \/ CountLine(w)
    \/ LookUp(w) \/ ReceiveLine(w) \/ ReceiveDuplicate(w)
    \/ Evaluate(w)
    \/ WriteStatus(w)
    \/ LockOrder(w)
    \/ FindRows(w) \/ DeleteRow(w)
    \/ Rewrite(w) \/ RewriteOrphan(w)
    \/ FinishRemove(w)

BeginRequest(w) ==
    \/ \E o \in Orders : BeginReceive(w, o) \/ BeginStatus(w, o) \/ BeginRemove(w, o)
    \/ \E f \in Forms : BeginEdit(w, f)

Next ==
    \/ \E f \in Forms : Create(f)
    \/ \E w \in Workers : BeginRequest(w) \/ Step(w) \/ DetectDeadlock(w) \/ Fail(w)

(* A request in service keeps running and PostgreSQL breaks every circle.    *)
Fairness == \A w \in Workers : WF_vars(Step(w)) /\ WF_vars(DetectDeadlock(w))

Spec == Init /\ [][Next]_vars /\ Fairness

------------------------------------------------------------------------------
(* Properties *)

Statuses ==
    {"ABSENT", "DRAFT", "SENT", "CANCELLED", "PARTIAL", "RECEIVED", "DELETED"}
Labels ==
    {"idle", "line", "count", "find", "update", "insert", "order", "items", "delete"}
        \cup NewStatuses
Operations == {"none", "receive", "edit", "status", "remove"}

(* The types of all variables.                                               *)
PurchaseTypeOK ==
    /\ StockTypeOK
    /\ pc \in [Workers -> Labels]
    /\ op \in [Workers -> Operations]
    /\ status \in [Orders -> Statuses]
    /\ orderLock \in [Orders -> Workers \cup {NoWorker}]
    /\ row \in [Items -> {"unwritten", "live", "deleted"}]
    /\ got \in [Items -> Nat]
    /\ gotNew \in [Items -> Nat]
    /\ itemLock \in [Items -> Workers \cup {NoWorker}]
    /\ booked \in [Orders -> Nat]
    /\ ref \in [Workers -> Orders \cup {NoOrder}]
    /\ form \in [Workers -> Forms \cup {NoForm}]
    /\ todo \in [Workers -> Seq(Lines)]
    /\ doomed \in [Workers -> SUBSET Items]
    /\ moved \in [Workers -> Nat]

(* Whatever edits, deletions and receipts overlap and whichever of them      *)
(* fail, the lines of an order never claim more than its RECEIPT rows        *)
(* brought in (they can claim less: an edit may delete a counted line).      *)
CountsAreBooked ==
    \A o \in Orders :
        SumOver(got, {i \in Items : HomeOf(i) = o}) <= booked[o]

(* The lines of an order say what its RECEIPT rows say, where clients take   *)
(* turns on it: no count is lost to an edit or a rollback.                   *)
LinesMatchReceipts ==
    \A o \in Careful : booked[o] = SumOver(got, Live(o))

(* "Replace items entirely": all lines of an order come from one form.       *)
EditsReplace ==
    \A o \in Careful : \A i, j \in Live(o) : FormOf[i] = FormOf[j]

(* All lines of an order have come in. *)
AllReceived(o) == Live(o) # {} /\ \A i \in Live(o) : got[i] >= Ordered[i]

(* receive's question "Are we PARTIAL or fully RECEIVED?" gets the right     *)
(* answer: when nobody works on an order, PARTIAL means that a line is open. *)
PartialIsPartial ==
    \A o \in Orders :
        status[o] = "PARTIAL" /\ (\A w \in Workers : ref[w] # o) => ~AllReceived(o)

(* Where clients take turns on an order, its status follows the life cycle   *)
(* as if every operation were one step.                                      *)
Life == INSTANCE OrderLifecycle
          WITH Orders <- Careful,
               state <- [o \in Careful |-> status[o]],
               in <- [o \in Careful |-> booked[o]],
               complete <- [o \in Careful |-> AllReceived(o)]
LifecycleKept == Life!Spec
==============================================================================
