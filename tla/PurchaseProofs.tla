---------------------------- MODULE PurchaseProofs ----------------------------
(****************************************************************************)
(* Theorems about Purchasing, for any orders, forms, lines and workers.     *)
(****************************************************************************)
EXTENDS Purchasing, InventoryProofs

(* The statements of each operation, and what a worker at one of them has.   *)
DeskInv ==
    \A w \in Workers :
        /\ pc[w] = "idle" => op[w] = "none"
        /\ pc[w] \in {"line", "count", "find", "update", "insert", "PARTIAL", "RECEIVED"}
             => op[w] = "receive"
        /\ pc[w] \in {"SENT", "CANCELLED"} => op[w] = "status"
        /\ pc[w] \in {"order", "items", "delete"} => op[w] \in {"edit", "remove"}
        /\ op[w] # "none" => ref[w] \in Orders
        /\ op[w] # "receive" => moved[w] = 0
        /\ pc[w] \in {"count", "find", "update", "insert"} => todo[w] # <<>>
        /\ op[w] = "edit" => form[w] \in Forms /\ OrderOf[form[w]] = ref[w]

(* The inductive type invariant.                                             *)
TypedInv == PurchaseTypeOK /\ StoreInv /\ DeskInv

(* The types of the workers.                                                 *)
WorkTypeOK ==
    /\ pc \in [Workers -> Labels]
    /\ op \in [Workers -> Operations]
    /\ key \in [Workers -> Keys \cup {NoKey}]
    /\ change \in [Workers -> Int]
    /\ requests \in Nat
    /\ ref \in [Workers -> Orders \cup {NoOrder}]
    /\ form \in [Workers -> Forms \cup {NoForm}]
    /\ todo \in [Workers -> Seq(Lines)]
    /\ doomed \in [Workers -> SUBSET Items]
    /\ moved \in [Workers -> Nat]

(* The types of the orders and their lines.                                  *)
RowTypeOK ==
    /\ status \in [Orders -> Statuses]
    /\ orderLock \in [Orders -> Workers \cup {NoWorker}]
    /\ row \in [Items -> {"unwritten", "live", "deleted"}]
    /\ got \in [Items -> Nat]
    /\ gotNew \in [Items -> Nat]
    /\ itemLock \in [Items -> Workers \cup {NoWorker}]
    /\ booked \in [Orders -> Nat]

(* PurchaseTypeOK falls into parts that different actions disturb.           *)
LEMMA TypeParts ==
    PurchaseTypeOK /\ StoreInv <=> WorkTypeOK /\ RowTypeOK /\ StoreInv
BY DEF PurchaseTypeOK, StockTypeOK, StoreInv, StoreTypeOK, WorkTypeOK, RowTypeOK

------------------------------------------------------------------------------
(* The effect of the steps on the store. *)

(* Every step of the two services touches the store in one of the four ways  *)
(* of StoreEffect.                                                           *)
LEMMA PurchaseEffect ==
    ASSUME [Next]_vars
    PROVE  StoreEffect
<1> USE DEF StoreEffect
<1>1. CASE UNCHANGED vars
  BY <1>1 DEF vars, stockVars
<1>2. ASSUME NEW f \in Forms, Create(f)
      PROVE  StoreEffect
  BY <1>2 DEF Create, stockVars
<1>3. ASSUME NEW w \in Workers, BeginRequest(w)
      PROVE  StoreEffect
  BY <1>3 DEF BeginRequest, BeginReceive, BeginEdit, BeginStatus, BeginRemove, Begin
<1>4. ASSUME NEW w \in Workers, Step(w)
      PROVE  StoreEffect
  <2>1. CASE FindLine(w) \/ CountLine(w) \/ LookUp(w) \/ Evaluate(w)
    BY <2>1 DEF FindLine, CountLine, LookUp, FindLevel, Evaluate
  <2>2. CASE LockOrder(w) \/ FindRows(w) \/ DeleteRow(w)
    BY <2>2 DEF LockOrder, FindRows, DeleteRow, stockVars
  <2>3. CASE LineNotFound(w) \/ ReceiveDuplicate(w) \/ RewriteOrphan(w)
    BY <2>3 DEF LineNotFound, ReceiveDuplicate, RewriteOrphan, Rollback
  <2>4. CASE ReceiveLine(w)
    BY <2>4 DEF ReceiveLine, UpdateLevel, InsertLevel
  <2>5. CASE WriteStatus(w) \/ Rewrite(w) \/ FinishRemove(w)
    BY <2>5 DEF WriteStatus, Rewrite, FinishRemove, Commit
  <2> QED
    BY <1>4, <2>1, <2>2, <2>3, <2>4, <2>5 DEF Step
<1>5. ASSUME NEW w \in Workers, DetectDeadlock(w) \/ Fail(w)
      PROVE  StoreEffect
  BY <1>5 DEF DetectDeadlock, Fail, Rollback
<1> QED
  BY <1>1, <1>2, <1>3, <1>4, <1>5 DEF Next

------------------------------------------------------------------------------
(* Types. *)

(* The opening state is well typed.                                          *)
LEMMA TypedInit == Init => TypedInv
<1> SUFFICES ASSUME Init PROVE TypedInv
  OBVIOUS
<1>1. StoreInv
  BY StoreInit DEF Init
<1>2. WorkTypeOK /\ RowTypeOK
  BY RequestAssumption DEF Init, StockInit, WorkTypeOK, RowTypeOK, Labels, Operations, Statuses
<1>3. DeskInv
  BY DEF Init, StockInit, DeskInv
<1> QED
  BY <1>1, <1>2, <1>3, TypeParts DEF TypedInv

(* A worker that is done has nothing; the others are as they were.           *)
LEMMA EndTyped ==
    ASSUME WorkTypeOK, DeskInv, NEW w \in Workers, EndJob(w), LeaveDesk(w)
    PROVE  WorkTypeOK' /\ DeskInv'
<1>1. WorkTypeOK'
  BY DEF WorkTypeOK, EndJob, LeaveDesk, Labels, Operations
<1>2. /\ pc' = [pc EXCEPT ![w] = "idle"] /\ op' = [op EXCEPT ![w] = "none"]
      /\ ref' = [ref EXCEPT ![w] = NoOrder] /\ form' = [form EXCEPT ![w] = NoForm]
      /\ todo' = [todo EXCEPT ![w] = <<>>] /\ moved' = [moved EXCEPT ![w] = 0]
  BY DEF EndJob, LeaveDesk
<1> QED
  BY <1>1, <1>2 DEF WorkTypeOK, DeskInv

(* The locks a worker gives back.                                            *)
LEMMA UnlockTyped ==
    ASSUME RowTypeOK, NEW w, UnlockRows(w)
    PROVE  /\ itemLock' \in [Items -> Workers \cup {NoWorker}]
           /\ orderLock' \in [Orders -> Workers \cup {NoWorker}]
BY DEF RowTypeOK, UnlockRows

(* A transaction that is undone leaves well-typed rows and workers.          *)
LEMMA RollbackTyped ==
    ASSUME WorkTypeOK, RowTypeOK, DeskInv, NEW w \in Workers, Rollback(w)
    PROVE  WorkTypeOK' /\ RowTypeOK' /\ DeskInv'
<1>1. RowTypeOK'
  BY UnlockTyped DEF Rollback, RowTypeOK
<1> QED
  BY <1>1, EndTyped DEF Rollback

(* So does one that is committed.                                            *)
LEMMA CommitTyped ==
    ASSUME WorkTypeOK, RowTypeOK, DeskInv, NEW w \in Workers, Commit(w)
    PROVE  /\ WorkTypeOK' /\ DeskInv'
           /\ got' \in [Items -> Nat] /\ gotNew' \in [Items -> Nat]
           /\ itemLock' \in [Items -> Workers \cup {NoWorker}]
           /\ orderLock' \in [Orders -> Workers \cup {NoWorker}]
<1>1. got' \in [Items -> Nat] /\ gotNew' \in [Items -> Nat]
  BY DEF Commit, RowTypeOK
<1> QED
  BY <1>1, UnlockTyped, EndTyped DEF Commit

(* The operations start with what their statements need.                     *)
LEMMA BeginTyped ==
    ASSUME WorkTypeOK, RowTypeOK, DeskInv, NEW w \in Workers, BeginRequest(w)
    PROVE  WorkTypeOK' /\ RowTypeOK' /\ DeskInv'
<1>1. RowTypeOK'
  BY DEF BeginRequest, BeginReceive, BeginEdit, BeginStatus, BeginRemove, Begin,
         orderVars, lineVars, RowTypeOK
<1>2. ASSUME NEW o \in Orders, BeginReceive(w, o)
      PROVE  WorkTypeOK' /\ DeskInv'
  <2>1. WorkTypeOK'
    BY <1>2, ScanAssumption, RequestAssumption
       DEF BeginReceive, Begin, StartJob, WorkTypeOK, Labels, Operations
  <2> QED
    BY <1>2, <2>1 DEF BeginReceive, Begin, StartJob, WorkTypeOK, DeskInv
<1>3. ASSUME NEW o \in Orders, BeginStatus(w, o)
      PROVE  WorkTypeOK' /\ DeskInv'
  <2>1. PICK to \in {"SENT", "CANCELLED"} :
          /\ Begin(w, o, "status", {"DRAFT"}, to)
          /\ UNCHANGED <<form, todo>>
    BY <1>3 DEF BeginStatus
  <2>2. to \in Labels
    BY DEF Labels, NewStatuses
  <2>3. WorkTypeOK'
    BY <2>1, <2>2, RequestAssumption DEF Begin, StartJob, WorkTypeOK, Operations
  <2> QED
    BY <2>1, <2>3 DEF Begin, StartJob, WorkTypeOK, DeskInv
<1>5. ASSUME NEW o \in Orders, BeginRemove(w, o)
      PROVE  WorkTypeOK' /\ DeskInv'
  <2>1. WorkTypeOK'
    BY <1>5, RequestAssumption DEF BeginRemove, Begin, StartJob, WorkTypeOK, Labels, Operations
  <2> QED
    BY <1>5, <2>1 DEF BeginRemove, Begin, StartJob, WorkTypeOK, DeskInv
<1>4. ASSUME NEW f \in Forms, BeginEdit(w, f)
      PROVE  WorkTypeOK' /\ DeskInv'
  <2>1. WorkTypeOK'
    BY <1>4, RequestAssumption, OrderAssumption
       DEF BeginEdit, Begin, StartJob, WorkTypeOK, Labels, Operations
  <2> QED
    BY <1>4, <2>1, OrderAssumption DEF BeginEdit, Begin, StartJob, WorkTypeOK, DeskInv
<1> QED
  BY <1>1, <1>2, <1>3, <1>4, <1>5 DEF BeginRequest

(* The line a worker stands at, and what is left after it.                   *)
LEMMA HeadLine ==
    ASSUME WorkTypeOK, NEW w \in Workers, todo[w] # <<>>
    PROVE  /\ Line(w).item \in Items
           /\ Line(w).qty \in Nat
           /\ Tail(todo[w]) \in Seq(Lines)
<1>1. todo[w] \in Seq(Lines) /\ todo[w] # <<>>
  BY DEF WorkTypeOK
<1>2. Head(todo[w]) \in Lines /\ Tail(todo[w]) \in Seq(Lines)
  BY <1>1
<1> QED
  BY <1>2 DEF Line, Lines

(* The statements of the loop in receive.                                    *)
LEMMA ReceiveTyped ==
    ASSUME WorkTypeOK, RowTypeOK, DeskInv, NEW w \in Workers,
           FindLine(w) \/ CountLine(w) \/ LookUp(w) \/ ReceiveLine(w) \/ Evaluate(w)
    PROVE  WorkTypeOK' /\ RowTypeOK' /\ DeskInv'
<1>1. CASE FindLine(w) \/ LookUp(w) \/ Evaluate(w)
  <2>1. RowTypeOK'
    BY <1>1 DEF FindLine, LookUp, Evaluate, purchaseVars, orderVars, lineVars, RowTypeOK
  <2>2. WorkTypeOK'
    BY <1>1 DEF FindLine, LookUp, FindLevel, Evaluate, Goto, purchaseVars, deskVars,
                WorkTypeOK, Labels, NewStatuses
  <2> QED
    BY <1>1, <2>1, <2>2 DEF FindLine, LookUp, FindLevel, Evaluate, AtLine, Goto,
       purchaseVars, deskVars, WorkTypeOK, DeskInv
<1>2. CASE CountLine(w)
  <2>1. /\ pc[w] = "count" /\ op[w] = "receive" /\ todo[w] # <<>> /\ ref[w] \in Orders
        /\ Line(w).item \in Items /\ Line(w).qty \in Nat
    BY <1>2, HeadLine DEF CountLine, DeskInv
  <2>2. RowTypeOK'
    <3>1. \A i \in Items : gotNew[i] + Line(w).qty \in Nat
      BY <2>1 DEF RowTypeOK
    <3>2. gotNew' \in [Items -> Nat] /\ itemLock' \in [Items -> Workers \cup {NoWorker}]
      <4>1. CASE row[Line(w).item] = "live"
        <5>1. /\ gotNew' = [gotNew EXCEPT ![Line(w).item] = @ + Line(w).qty]
              /\ itemLock' = [itemLock EXCEPT ![Line(w).item] = w]
          BY <1>2, <4>1 DEF CountLine
        <5> QED
          BY <3>1, <5>1, <2>1 DEF RowTypeOK
      <4>2. CASE row[Line(w).item] # "live"
        BY <1>2, <4>2 DEF CountLine, RowTypeOK
      <4> QED
        BY <4>1, <4>2
    <3> QED
      BY <1>2, <3>2 DEF CountLine, orderVars, RowTypeOK
  <2>3. <<DestOf[ref[w]], ProductOf[Line(w).item]>> \in Keys
    BY <2>1, OrderAssumption DEF Keys
  <2>4. WorkTypeOK'
    BY <1>2, <2>1, <2>3 DEF CountLine, deskVars, WorkTypeOK, Labels
  <2> QED
    BY <1>2, <2>1, <2>2, <2>4 DEF CountLine, deskVars, WorkTypeOK, DeskInv
<1>3. CASE ReceiveLine(w)
  <2>1. /\ pc[w] \in {"update", "insert"}
        /\ pc' = [pc EXCEPT ![w] = "line"]
        /\ UNCHANGED <<op, key, change, requests>>
    BY <1>3 DEF ReceiveLine, UpdateLevel, InsertLevel, Goto
  <2>2. op[w] = "receive" /\ Line(w).qty \in Nat /\ Tail(todo[w]) \in Seq(Lines)
    BY <2>1, HeadLine DEF DeskInv
  <2>3. RowTypeOK'
    BY <1>3 DEF ReceiveLine, orderVars, lineVars, RowTypeOK
  <2>4. WorkTypeOK'
    BY <1>3, <2>1, <2>2 DEF ReceiveLine, WorkTypeOK, Labels
  <2> QED
    BY <1>3, <2>1, <2>2, <2>3, <2>4 DEF ReceiveLine, WorkTypeOK, DeskInv
<1> QED
  BY <1>1, <1>2, <1>3

(* The statements of edit and remove before their last.                      *)
LEMMA DeleteTyped ==
    ASSUME WorkTypeOK, RowTypeOK, DeskInv, NEW w \in Workers,
           LockOrder(w) \/ FindRows(w) \/ DeleteRow(w)
    PROVE  WorkTypeOK' /\ RowTypeOK' /\ DeskInv'
<1>1. RowTypeOK'
  BY DEF LockOrder, FindRows, DeleteRow, orderVars, lineVars, RowTypeOK
<1>2. WorkTypeOK'
  BY DEF LockOrder, FindRows, DeleteRow, Goto, stockVars, jobVars, deskVars, Live,
         WorkTypeOK, Labels
<1> QED
  BY <1>1, <1>2 DEF LockOrder, FindRows, DeleteRow, Goto, stockVars, jobVars, deskVars,
     WorkTypeOK, DeskInv

(* The last statements, with their commit.                                   *)
LEMMA FinishTyped ==
    ASSUME WorkTypeOK, RowTypeOK, DeskInv, NEW w \in Workers,
           WriteStatus(w) \/ Rewrite(w) \/ FinishRemove(w)
    PROVE  WorkTypeOK' /\ RowTypeOK' /\ DeskInv'
<1>1. Commit(w)
  BY DEF WriteStatus, Rewrite, FinishRemove
<1>2. /\ WorkTypeOK' /\ DeskInv'
      /\ got' \in [Items -> Nat] /\ gotNew' \in [Items -> Nat]
      /\ itemLock' \in [Items -> Workers \cup {NoWorker}]
      /\ orderLock' \in [Orders -> Workers \cup {NoWorker}]
  BY <1>1, CommitTyped
<1>3. status' \in [Orders -> Statuses]
  BY DEF WriteStatus, Rewrite, FinishRemove, RowTypeOK, NewStatuses, Statuses
<1>4. row' \in [Items -> {"unwritten", "live", "deleted"}]
  BY DEF WriteStatus, Rewrite, FinishRemove, AfterDelete, RowTypeOK
<1>5. booked' \in [Orders -> Nat]
  BY DEF WriteStatus, Rewrite, FinishRemove, RowTypeOK, WorkTypeOK
<1> QED
  BY <1>2, <1>3, <1>4, <1>5 DEF RowTypeOK

(* Every step keeps the types.                                               *)
LEMMA TypedNext == TypedInv /\ [Next]_vars => TypedInv'
<1> SUFFICES ASSUME TypedInv, [Next]_vars PROVE TypedInv'
  OBVIOUS
<1>1. WorkTypeOK /\ RowTypeOK /\ DeskInv
  BY TypeParts DEF TypedInv
<1>2. StoreInv'
  BY PurchaseEffect, EffectKeepsStore DEF TypedInv, PurchaseTypeOK
<1>3. WorkTypeOK' /\ RowTypeOK' /\ DeskInv'
  <2>1. CASE UNCHANGED vars
    BY <1>1, <2>1 DEF vars, stockVars, jobVars, purchaseVars, orderVars, lineVars, deskVars,
       WorkTypeOK, RowTypeOK, DeskInv
  <2>2. ASSUME NEW f \in Forms, Create(f)
        PROVE  WorkTypeOK' /\ RowTypeOK' /\ DeskInv'
    BY <1>1, <2>2 DEF Create, stockVars, jobVars, deskVars, WorkTypeOK, RowTypeOK, DeskInv,
       Statuses
  <2>3. ASSUME NEW w \in Workers, Step(w)
        PROVE  WorkTypeOK' /\ RowTypeOK' /\ DeskInv'
    BY <1>1, <2>3, ReceiveTyped, DeleteTyped, FinishTyped, RollbackTyped
       DEF Step, LineNotFound, ReceiveDuplicate, RewriteOrphan
  <2>4. ASSUME NEW w \in Workers, DetectDeadlock(w) \/ Fail(w)
        PROVE  WorkTypeOK' /\ RowTypeOK' /\ DeskInv'
    BY <1>1, <2>4, RollbackTyped DEF DetectDeadlock, Fail
  <2> QED
    BY <1>1, <2>1, <2>2, <2>3, <2>4, BeginTyped DEF Next
<1> QED
  BY <1>2, <1>3 DEF TypedInv, PurchaseTypeOK, StockTypeOK, StoreInv, StoreTypeOK,
     WorkTypeOK, RowTypeOK

(* The inductive type invariant in every reachable state.                    *)
LEMMA PurchaseInv == Spec => []TypedInv
BY TypedInit, TypedNext, PTL DEF Spec

(* The types of all variables, for any sets of orders and workers.           *)
THEOREM PurchaseTyped == Spec => []PurchaseTypeOK
<1>1. TypedInv => PurchaseTypeOK
  BY DEF TypedInv
<1> QED
  BY <1>1, PurchaseInv, PTL

(* Levels and ledger agree, whatever receipts, edits and deletions do.       *)
THEOREM PurchaseMatchesLedger == Spec => []StockMatchesLedger
<1>1. TypedInv => StockMatchesLedger
  BY DEF TypedInv, StoreInv, Balanced
<1> QED
  BY <1>1, PurchaseInv, PTL

(* Every transaction of the two services is one entry of the book or none.   *)
THEOREM PurchaseKeepsBook == Spec => StockBookKept
<1>1. Init => Book!Init
  BY StoreInit DEF Init
<1>2. TypedInv /\ [Next]_vars => [Book!Post]_(Book!bookVars)
  BY PurchaseEffect, EffectKeepsStore DEF TypedInv, PurchaseTypeOK, BookStep
<1> QED
  BY <1>1, <1>2, PurchaseInv, PTL DEF Spec, StockBookKept, Book!Spec

------------------------------------------------------------------------------
(* What a worker touches. *)

(* An open transaction holds lines of the order it serves and of no other,   *)
(* receipts alone have counts to commit, and rows that were never inserted   *)
(* are as nobody left them.                                                  *)
RowInv ==
    /\ \A w \in Workers : op[w] = "none" => ref[w] = NoOrder /\ doomed[w] = {}
    /\ \A w \in Workers : \A i \in doomed[w] : HomeOf(i) = ref[w]
    /\ \A w \in Workers : pc[w] = "count" => HomeOf(Line(w).item) = ref[w]
    /\ \A i \in Items, w \in Workers : itemLock[i] = w =>
         /\ op[w] # "none"
         /\ ref[w] = HomeOf(i)
         /\ op[w] # "receive" => gotNew[i] = got[i]
    /\ \A i \in Items : itemLock[i] = NoWorker => gotNew[i] = got[i]
    /\ \A i \in Items : row[i] = "unwritten" => got[i] = 0 /\ itemLock[i] = NoWorker

(* Nobody has touched anything at the start.                                 *)
LEMMA RowInit == Init => RowInv
BY WorkerAssumption DEF Init, StockInit, RowInv

(* The end of a transaction keeps it, if rows come or go with the commit but *)
(* never become unwritten.                                                   *)
LEMMA EndRows ==
    ASSUME TypedInv, RowInv, NEW w \in Workers,
           \/ Rollback(w)
           \/ /\ Commit(w)
              /\ \A i \in Items : row'[i] = "unwritten" => row[i] = "unwritten"
    PROVE  RowInv'
<1> USE WorkerAssumption
<1>1. WorkTypeOK /\ RowTypeOK
  BY TypeParts DEF TypedInv
<1>2. /\ EndJob(w) /\ LeaveDesk(w) /\ UnlockRows(w)
      /\ \A i \in Items : row'[i] = "unwritten" => row[i] = "unwritten"
  BY DEF Rollback, Commit
<1>3. \A i \in Items :
        /\ itemLock[i] = w => gotNew'[i] = got'[i]
        /\ itemLock[i] # w => gotNew'[i] = gotNew[i] /\ got'[i] = got[i]
  BY <1>1 DEF Rollback, Commit, RowTypeOK
<1>4. \A i \in Items : /\ itemLock[i] = w => itemLock'[i] = NoWorker
                       /\ itemLock[i] # w => itemLock'[i] = itemLock[i]
  BY <1>2 DEF UnlockRows
<1>5. /\ \A v \in Workers \ {w} :
           /\ pc'[v] = pc[v] /\ op'[v] = op[v] /\ ref'[v] = ref[v]
           /\ doomed'[v] = doomed[v] /\ todo'[v] = todo[v]
      /\ pc'[w] = "idle" /\ op'[w] = "none" /\ ref'[w] = NoOrder /\ doomed'[w] = {}
  BY <1>1, <1>2 DEF EndJob, LeaveDesk, WorkTypeOK
<1> QED
  BY <1>2, <1>3, <1>4, <1>5 DEF RowInv, Line

(* Every step keeps it.                                                      *)
LEMMA RowNext == TypedInv /\ RowInv /\ [Next]_vars => RowInv'
<1> SUFFICES ASSUME TypedInv, RowInv, [Next]_vars PROVE RowInv'
  OBVIOUS
<1> USE WorkerAssumption
<1>1. WorkTypeOK /\ RowTypeOK /\ DeskInv
  BY TypeParts DEF TypedInv
<1>2. CASE UNCHANGED vars
  BY <1>2 DEF vars, stockVars, jobVars, purchaseVars, orderVars, lineVars, deskVars, RowInv, Line
<1>3. ASSUME NEW f \in Forms, Create(f)
      PROVE  RowInv'
  BY <1>1, <1>3 DEF Create, stockVars, jobVars, deskVars, RowInv, RowTypeOK, Line
<1>4. ASSUME NEW w \in Workers, BeginRequest(w)
      PROVE  RowInv'
  <2>1. /\ pc[w] = "idle" /\ op[w] = "none"
        /\ op'[w] # "none" /\ pc'[w] # "count"
        /\ \A v \in Workers \ {w} :
             /\ pc'[v] = pc[v] /\ op'[v] = op[v] /\ ref'[v] = ref[v] /\ todo'[v] = todo[v]
        /\ UNCHANGED <<lineVars, doomed>>
    BY <1>1, <1>4 DEF BeginRequest, BeginReceive, BeginEdit, BeginStatus, BeginRemove, Begin,
       StartJob, WorkTypeOK, DeskInv
  <2> QED
    BY <2>1 DEF RowInv, lineVars, Line
<1>5. ASSUME NEW w \in Workers, FindLine(w) \/ LookUp(w) \/ Evaluate(w) \/ LockOrder(w)
      PROVE  RowInv'
  <2>1. /\ \A v \in Workers \ {w} : pc'[v] = pc[v]
        /\ pc'[w] = "count" => HomeOf(Line(w).item) = ref[w]
        /\ UNCHANGED <<op, deskVars, lineVars>>
    BY <1>1, <1>5 DEF FindLine, LookUp, FindLevel, Evaluate, LockOrder, Goto, purchaseVars, Live,
       WorkTypeOK
  <2> QED
    BY <2>1 DEF RowInv, deskVars, lineVars, Line
<1>6. ASSUME NEW w \in Workers, CountLine(w)
      PROVE  RowInv'
  <2> DEFINE i == Line(w).item
  <2>1. pc[w] = "count" /\ op[w] = "receive" /\ HomeOf(i) = ref[w] /\ i \in Items
    BY <1>1, <1>6, HeadLine DEF CountLine, DeskInv, RowInv
  <2>2. /\ \A v \in Workers \ {w} : pc'[v] = pc[v]
        /\ pc'[w] = "find"
        /\ UNCHANGED <<op, row, got, deskVars>>
    BY <1>1, <1>6 DEF CountLine, WorkTypeOK
  <2>3. /\ \A j \in Items \ {i} : itemLock'[j] = itemLock[j] /\ gotNew'[j] = gotNew[j]
        /\ row[i] = "live" => itemLock'[i] = w
        /\ row[i] # "live" => itemLock'[i] = itemLock[i] /\ gotNew'[i] = gotNew[i]
    BY <1>1, <1>6, <2>1 DEF CountLine, RowTypeOK
  <2> HIDE DEF i
  <2> QED
    BY <2>1, <2>2, <2>3 DEF RowInv, deskVars, Line
<1>7. ASSUME NEW w \in Workers, ReceiveLine(w)
      PROVE  RowInv'
  <2>1. /\ \A v \in Workers \ {w} : pc'[v] = pc[v] /\ todo'[v] = todo[v]
        /\ pc'[w] = "line"
        /\ UNCHANGED <<op, ref, doomed, lineVars>>
    BY <1>1, <1>7 DEF ReceiveLine, UpdateLevel, InsertLevel, Goto, WorkTypeOK
  <2> QED
    BY <2>1 DEF RowInv, lineVars, Line
<1>8. ASSUME NEW w \in Workers, FindRows(w)
      PROVE  RowInv'
  <2>1. /\ \A v \in Workers \ {w} : pc'[v] = pc[v] /\ doomed'[v] = doomed[v]
        /\ pc'[w] = "delete" /\ doomed'[w] = Live(ref[w]) /\ op[w] # "none"
        /\ UNCHANGED <<op, ref, todo, lineVars>>
    BY <1>1, <1>8 DEF FindRows, Goto, WorkTypeOK, DeskInv
  <2> QED
    BY <2>1 DEF RowInv, lineVars, Line, Live
<1>9. ASSUME NEW w \in Workers, DeleteRow(w)
      PROVE  RowInv'
  <2> DEFINE i == NextRow(w)
  <2>1. i \in doomed[w] /\ i \in Items /\ itemLock[i] = NoWorker /\ op[w] \in {"edit", "remove"}
    BY <1>1, <1>9 DEF DeleteRow, NextRow, WorkTypeOK, DeskInv
  <2>2. /\ \A v \in Workers \ {w} : doomed'[v] = doomed[v]
        /\ doomed'[w] \subseteq doomed[w]
        /\ \A j \in Items \ {i} : itemLock'[j] = itemLock[j]
        /\ itemLock'[i] = IF row[i] = "live" THEN w ELSE NoWorker
        /\ UNCHANGED <<pc, op, ref, todo, row, got, gotNew>>
    BY <1>1, <1>9, <2>1 DEF DeleteRow, WorkTypeOK, RowTypeOK, stockVars, jobVars
  <2> HIDE DEF i
  <2> QED
    BY <2>1, <2>2 DEF RowInv, Line
<1>10. ASSUME NEW w \in Workers, WriteStatus(w) \/ Rewrite(w) \/ FinishRemove(w)
       PROVE  RowInv'
  <2>1. /\ Commit(w)
        /\ \A i \in Items : row'[i] = "unwritten" => row[i] = "unwritten"
    BY <1>10 DEF WriteStatus, Rewrite, FinishRemove, AfterDelete
  <2> QED
    BY <2>1, EndRows
<1>11. ASSUME NEW w \in Workers, Rollback(w)
       PROVE  RowInv'
  BY <1>11, EndRows
<1> QED
  BY <1>2, <1>3, <1>4, <1>5, <1>6, <1>7, <1>8, <1>9, <1>10, <1>11
     DEF Next, Step, LineNotFound, ReceiveDuplicate, RewriteOrphan, DetectDeadlock, Fail

(* Its invariance, together with the types.                                  *)
LEMMA PurchaseRows == Spec => [](TypedInv /\ RowInv)
<1>1. Init => TypedInv /\ RowInv
  BY TypedInit, RowInit
<1>2. TypedInv /\ RowInv /\ [Next]_vars => (TypedInv /\ RowInv)'
  BY TypedNext, RowNext
<1> QED
  BY <1>1, <1>2, PTL DEF Spec

------------------------------------------------------------------------------
(* Orders whose clients take turns. *)

(* Such an order has lines as long as it exists, all from one form, and none *)
(* of them has received anything before the order was sent.                  *)
OrderInv(o) ==
    /\ Live(o) = {} <=> status[o] \in {"ABSENT", "DELETED"}
    /\ status[o] \notin {"PARTIAL", "RECEIVED"} => \A i \in Items : HomeOf(i) = o => got[i] = 0
    /\ \A i, j \in Live(o) : FormOf[i] = FormOf[j]

(* What the worker of such an order has read is still so.                    *)
WorkerInv(w) ==
    /\ op[w] = "receive" => status[ref[w]] \in {"SENT", "PARTIAL"}
    /\ op[w] \in {"edit", "status", "remove"} => status[ref[w]] = "DRAFT"
    /\ op[w] = "edit" => Unused(form[w])
    /\ pc[w] = "delete" => \A i \in Live(ref[w]) : i \in doomed[w] \/ itemLock[i] = w
    /\ pc[w] = "RECEIVED" => \A i \in Live(ref[w]) : Received(w, i) >= Ordered[i]
    /\ pc[w] = "PARTIAL" => ~ \A i \in Live(ref[w]) : Received(w, i) >= Ordered[i]

TurnInv ==
    /\ \A v, w \in Workers : ref[v] = ref[w] /\ ref[w] \in Careful => v = w
    /\ \A o \in Careful : OrderInv(o)
    /\ \A w \in Workers : ref[w] \in Careful => WorkerInv(w)

(* There is no order yet, and nobody serves one.                             *)
LEMMA TurnInit == Init => TurnInv
BY OrderAssumption, CarefulAssumption DEF Init, StockInit, TurnInv, OrderInv, Live

(* A step of w that touches nothing but the order it serves.                 *)
Apart(w) ==
    /\ \A v \in Workers \ {w} :
         /\ pc'[v] = pc[v] /\ op'[v] = op[v]
         /\ ref'[v] = ref[v] /\ form'[v] = form[v] /\ doomed'[v] = doomed[v]
    /\ \A o \in Orders \ {ref[w]} : status'[o] = status[o] /\ booked'[o] = booked[o]
    /\ \A i \in Items : HomeOf(i) # ref[w] =>
         /\ row'[i] = row[i]
         /\ got'[i] = got[i]
         /\ gotNew'[i] = gotNew[i]
         /\ itemLock'[i] = itemLock[i]

(* For such a step only the order served and its worker need a second look.  *)
LEMMA ApartTurn ==
    ASSUME TypedInv, RowInv, TurnInv, NEW w \in Workers, Apart(w),
           ref'[w] \in {ref[w], NoOrder},
           \A o \in Careful : o = ref[w] => OrderInv(o)',
           ref'[w] \in Careful => WorkerInv(w)'
    PROVE  TurnInv'
<1> USE OrderAssumption, CarefulAssumption
<1>1. \A o \in Careful \ {ref[w]} :
        /\ Live(o)' = Live(o) /\ status'[o] = status[o]
        /\ \A i \in Items : HomeOf(i) = o =>
             /\ row'[i] = row[i] /\ got'[i] = got[i]
             /\ gotNew'[i] = gotNew[i] /\ itemLock'[i] = itemLock[i]
  BY DEF Apart, Live
<1>2. \A o \in Careful : OrderInv(o)'
  BY <1>1 DEF TurnInv, OrderInv
<1>3. \A u, v \in Workers : ref'[u] = ref'[v] /\ ref'[v] \in Careful => u = v
  BY DEF Apart, TurnInv
<1>4. ASSUME NEW v \in Workers, ref'[v] \in Careful
      PROVE  WorkerInv(v)'
  <2>1. CASE v = w
    BY <1>4, <2>1
  <2>2. CASE v # w
    <3>1. /\ pc'[v] = pc[v] /\ op'[v] = op[v] /\ ref'[v] = ref[v] /\ form'[v] = form[v]
          /\ doomed'[v] = doomed[v] /\ ref[v] \in Careful /\ ref[v] # ref[w]
      BY <1>4, <2>2 DEF Apart, TurnInv
    <3>2. WorkerInv(v)
      BY <3>1 DEF TurnInv
    <3>3. op[v] = "edit" => Unused(form[v])'
      <4>1. op[v] = "edit" => \A i \in Items : FormOf[i] = form[v] => HomeOf(i) = ref[v]
        BY DEF TypedInv, DeskInv, HomeOf
      <4> QED
        BY <4>1, <3>1, <3>2 DEF WorkerInv, Unused, Apart
    <3>4. \A i \in Live(ref[v]) :
            Received(v, i)' = Received(v, i) /\ itemLock'[i] = itemLock[i]
      BY <1>1, <3>1 DEF Live, Received
    <3> QED
      BY <1>1, <3>1, <3>2, <3>3, <3>4 DEF WorkerInv
  <2> QED
    BY <2>1, <2>2
<1> QED
  BY <1>2, <1>3, <1>4 DEF TurnInv

(* The end of a transaction touches nothing else.                            *)
LEMMA EndApart ==
    ASSUME TypedInv, RowInv, NEW w \in Workers,
           \/ Rollback(w)
           \/ /\ Commit(w)
              /\ \A o \in Orders \ {ref[w]} : status'[o] = status[o] /\ booked'[o] = booked[o]
              /\ \A i \in Items : HomeOf(i) # ref[w] => row'[i] = row[i]
    PROVE  Apart(w) /\ ref'[w] = NoOrder
<1>1. WorkTypeOK /\ RowTypeOK
  BY TypeParts DEF TypedInv
<1>2. EndJob(w) /\ LeaveDesk(w) /\ UnlockRows(w)
  BY DEF Rollback, Commit
<1>3. \A i \in Items : HomeOf(i) # ref[w] => itemLock[i] # w
  BY DEF RowInv
<1>4. \A i \in Items : HomeOf(i) # ref[w] =>
        /\ gotNew'[i] = gotNew[i] /\ got'[i] = got[i] /\ itemLock'[i] = itemLock[i]
  BY <1>1, <1>2, <1>3 DEF Rollback, Commit, RowTypeOK, UnlockRows
<1>5. ref'[w] = NoOrder
  BY <1>1, <1>2 DEF LeaveDesk, WorkTypeOK
<1>6. \A v \in Workers \ {w} :
        /\ pc'[v] = pc[v] /\ op'[v] = op[v]
        /\ ref'[v] = ref[v] /\ form'[v] = form[v] /\ doomed'[v] = doomed[v]
  BY <1>1, <1>2 DEF LeaveDesk, EndJob, WorkTypeOK
<1>7. /\ \A o \in Orders \ {ref[w]} : status'[o] = status[o] /\ booked'[o] = booked[o]
      /\ \A i \in Items : HomeOf(i) # ref[w] => row'[i] = row[i]
  BY DEF Rollback
<1> QED
  BY <1>4, <1>5, <1>6, <1>7 DEF Apart

(* A statement before the last: the order and its committed lines stay.      *)
LEMMA MiddleTurn ==
    ASSUME TypedInv, RowInv, TurnInv, NEW w \in Workers,
           \/ FindLine(w) \/ CountLine(w) \/ LookUp(w) \/ ReceiveLine(w) \/ Evaluate(w)
           \/ LockOrder(w) \/ FindRows(w) \/ DeleteRow(w)
    PROVE  TurnInv' /\ UNCHANGED <<status, row, got, booked>>
<1>1. WorkTypeOK /\ RowTypeOK /\ DeskInv
  BY TypeParts DEF TypedInv
<1>2. UNCHANGED <<status, row, got, booked, op, ref, form>>
  BY DEF FindLine, CountLine, LookUp, FindLevel, ReceiveLine, UpdateLevel, InsertLevel, Evaluate,
         LockOrder, FindRows, DeleteRow, Goto, purchaseVars, orderVars, lineVars, deskVars,
         stockVars, jobVars
<1>3. \A v \in Workers \ {w} : pc'[v] = pc[v] /\ doomed'[v] = doomed[v]
  BY <1>1 DEF FindLine, CountLine, LookUp, FindLevel, ReceiveLine, UpdateLevel, InsertLevel,
         Evaluate, LockOrder, FindRows, DeleteRow, Goto, purchaseVars, deskVars, stockVars, jobVars,
         WorkTypeOK
<1>4. \A i \in Items : HomeOf(i) # ref[w] => gotNew'[i] = gotNew[i] /\ itemLock'[i] = itemLock[i]
  <2>1. CASE CountLine(w)
    <3>1. HomeOf(Line(w).item) = ref[w]
      BY <2>1 DEF CountLine, RowInv
    <3> QED
      BY <1>1, <2>1, <3>1 DEF CountLine, RowTypeOK
  <2>2. CASE DeleteRow(w)
    <3>1. HomeOf(NextRow(w)) = ref[w]
      BY <2>2 DEF DeleteRow, NextRow, RowInv
    <3> QED
      BY <1>1, <2>2, <3>1 DEF DeleteRow, RowTypeOK
  <2>3. CASE FindLine(w) \/ LookUp(w) \/ ReceiveLine(w) \/ Evaluate(w)
              \/ LockOrder(w) \/ FindRows(w)
    BY <2>3 DEF FindLine, LookUp, ReceiveLine, Evaluate, LockOrder, FindRows, purchaseVars, lineVars
  <2> QED
    BY <2>1, <2>2, <2>3
<1>5. Apart(w)
  BY <1>2, <1>3, <1>4 DEF Apart
<1>6. \A o \in Orders : Live(o)' = Live(o)
  BY <1>2 DEF Live
<1>7. \A o \in Careful : OrderInv(o)'
  BY <1>2, <1>6, CarefulAssumption DEF TurnInv, OrderInv
<1>8. ASSUME ref[w] \in Careful
      PROVE  WorkerInv(w)'
  <2>1. WorkerInv(w) /\ ref[w] \in Orders
    BY <1>8, CarefulAssumption DEF TurnInv
  <2>2. op[w] = "edit" => Unused(form[w])'
    BY <1>2, <2>1 DEF WorkerInv, Unused
  <2>3. CASE Evaluate(w)
    <3>1. /\ UNCHANGED <<gotNew, itemLock>>
          /\ pc'[w] = IF \A i \in Live(ref[w]) : Received(w, i) >= Ordered[i]
                        THEN "RECEIVED" ELSE "PARTIAL"
      BY <1>1, <2>3 DEF Evaluate, Goto, purchaseVars, lineVars, WorkTypeOK
    <3>2. \A i \in Live(ref[w]) : Received(w, i)' = Received(w, i)
      BY <1>2, <3>1 DEF Received
    <3> QED
      BY <1>2, <1>6, <2>1, <2>2, <3>1, <3>2 DEF WorkerInv
  <2>4. CASE FindRows(w)
    <3>1. pc'[w] = "delete" /\ doomed'[w] = Live(ref[w])
      BY <1>1, <2>4 DEF FindRows, Goto, WorkTypeOK
    <3> QED
      BY <1>2, <1>6, <2>1, <2>2, <3>1 DEF WorkerInv
  <2>5. CASE DeleteRow(w)
    <3> DEFINE i == NextRow(w)
    <3>1. /\ pc[w] = "delete" /\ pc' = pc /\ i \in doomed[w] /\ i \in Items
          /\ doomed'[w] = doomed[w] \ {i}
          /\ row[i] = "live" => itemLock'[i] = w
          /\ \A j \in Items \ {i} : itemLock'[j] = itemLock[j]
      BY <1>1, <2>5 DEF DeleteRow, NextRow, WorkTypeOK, RowTypeOK, stockVars, jobVars
    <3> HIDE DEF i
    <3>2. \A j \in Live(ref[w]) : j \in doomed'[w] \/ itemLock'[j] = w
      BY <2>1, <3>1 DEF WorkerInv, Live
    <3> QED
      BY <1>2, <1>6, <2>1, <2>2, <3>1, <3>2 DEF WorkerInv
  <2>6. CASE FindLine(w) \/ CountLine(w) \/ LookUp(w) \/ ReceiveLine(w) \/ LockOrder(w)
    <3>1. pc'[w] \in {"count", "find", "update", "insert", "line", "items"}
      BY <1>1, <2>6 DEF FindLine, CountLine, LookUp, FindLevel, ReceiveLine, UpdateLevel,
         InsertLevel, LockOrder, Goto, WorkTypeOK
    <3> QED
      BY <1>2, <1>6, <2>1, <2>2, <3>1 DEF WorkerInv
  <2> QED
    BY <2>3, <2>4, <2>5, <2>6
<1> QED
  BY <1>2, <1>5, <1>7, <1>8, ApartTurn

(* A rollback leaves orders and committed lines as they were.                *)
LEMMA RollbackTurn ==
    ASSUME TypedInv, RowInv, TurnInv, NEW w \in Workers, Rollback(w)
    PROVE  TurnInv' /\ UNCHANGED <<status, row, got, booked>>
<1>1. UNCHANGED <<status, row, got, booked>>
  BY DEF Rollback
<1>2. Apart(w) /\ ref'[w] = NoOrder
  BY EndApart
<1>3. \A o \in Careful : OrderInv(o)'
  BY <1>1 DEF TurnInv, OrderInv, Live
<1> QED
  BY <1>1, <1>2, <1>3, ApartTurn, OrderAssumption, CarefulAssumption

(* A request begins with what it has just read, and no other serves the same *)
(* order.                                                                    *)
LEMMA BeginTurn ==
    ASSUME TypedInv, RowInv, TurnInv, NEW w \in Workers, BeginRequest(w)
    PROVE  TurnInv' /\ UNCHANGED <<status, row, got, booked>>
<1>1. PICK o \in Orders, name \in {"receive", "edit", "status", "remove"},
            from \in {{"SENT", "PARTIAL"}, {"DRAFT"}}, label \in Labels :
        /\ Begin(w, o, name, from, label)
        /\ from = IF name = "receive" THEN {"SENT", "PARTIAL"} ELSE {"DRAFT"}
        /\ label \notin {"delete", "PARTIAL", "RECEIVED"}
        /\ name # "edit" => UNCHANGED form
        /\ name = "edit" => \E f \in Forms : Unused(f) /\ form' = [form EXCEPT ![w] = f]
  BY OrderAssumption DEF BeginRequest, BeginReceive, BeginEdit, BeginStatus, BeginRemove, Labels,
     NewStatuses
<1>2. WorkTypeOK /\ RowTypeOK
  BY TypeParts DEF TypedInv
<1>3. UNCHANGED <<status, row, got, gotNew, itemLock, booked, doomed>>
  BY <1>1 DEF Begin, orderVars, lineVars
<1>4. /\ \A v \in Workers \ {w} :
           pc'[v] = pc[v] /\ op'[v] = op[v] /\ ref'[v] = ref[v] /\ form'[v] = form[v]
      /\ pc'[w] = label /\ op'[w] = name /\ ref'[w] = o
      /\ status[o] \in from
      /\ o \in Careful => \A v \in Workers : ref[v] # o
      /\ name = "edit" => Unused(form'[w])
  BY <1>1, <1>2 DEF Begin, StartJob, WorkTypeOK
<1>5. \A p \in Careful : OrderInv(p)'
  BY <1>3 DEF TurnInv, OrderInv, Live
<1>6. \A u, v \in Workers : ref'[u] = ref'[v] /\ ref'[v] \in Careful => u = v
  BY <1>4 DEF TurnInv
<1>7. ASSUME NEW v \in Workers, ref'[v] \in Careful
      PROVE  WorkerInv(v)'
  <2>1. CASE v = w
    <3>1. op'[w] = "edit" => Unused(form[w])'
      BY <1>3, <1>4 DEF Unused
    <3> QED
      BY <1>1, <1>3, <1>4, <2>1, <3>1 DEF WorkerInv
  <2>2. CASE v # w
    <3>1. WorkerInv(v)
      BY <1>4, <1>7, <2>2 DEF TurnInv
    <3> QED
      BY <1>3, <1>4, <2>2, <3>1 DEF WorkerInv, Unused, Live, Received
  <2> QED
    BY <2>1, <2>2
<1> QED
  BY <1>3, <1>5, <1>6, <1>7 DEF TurnInv
------------------------------------------------------------------------------
(* The last statements, and the life cycle. *)

(* A step of the life cycle or a stutter.                                    *)
LifeStep == Life!Next \/ UNCHANGED Life!lifeVars

(* Before a receipt is over, an order is not complete.                       *)
LEMMA NotComplete ==
    ASSUME NEW o \in Careful, OrderInv(o), status[o] \notin {"PARTIAL", "RECEIVED"}
    PROVE  ~AllReceived(o)
<1> SUFFICES ASSUME AllReceived(o) PROVE FALSE
  OBVIOUS
<1>1. PICK i \in Items : HomeOf(i) = o /\ got[i] >= Ordered[i]
  BY DEF AllReceived, Live
<1>2. got[i] = 0 /\ Ordered[i] \in Nat \ {0}
  BY <1>1, OrderAssumption DEF OrderInv
<1> QED
  BY <1>1, <1>2

(* The same after a step.                                                    *)
LEMMA NotCompleteNext ==
    ASSUME NEW o \in Careful, OrderInv(o)', status'[o] \notin {"PARTIAL", "RECEIVED"}
    PROVE  ~AllReceived(o)'
<1> SUFFICES ASSUME AllReceived(o)' PROVE FALSE
  OBVIOUS
<1>1. PICK i \in Items : HomeOf(i) = o /\ got'[i] >= Ordered[i]
  BY DEF AllReceived, Live
<1>2. got'[i] = 0 /\ Ordered[i] \in Nat \ {0}
  BY <1>1, OrderAssumption DEF OrderInv
<1> QED
  BY <1>1, <1>2

(* What the orders of a life cycle have in common when nothing of theirs     *)
(* changes.                                                                  *)
LEMMA ApartLife ==
    ASSUME NEW w \in Workers, Apart(w)
    PROVE  \A o \in Careful \ {ref[w]} :
             /\ status'[o] = status[o] /\ booked'[o] = booked[o]
             /\ AllReceived(o)' = AllReceived(o)
<1>1. \A o \in Careful \ {ref[w]} : Live(o)' = Live(o) /\ \A i \in Live(o) : got'[i] = got[i]
  BY DEF Apart, Live
<1> QED
  BY <1>1, CarefulAssumption DEF Apart, AllReceived

(* The last statement of an edit: the lines are those of its form.           *)
LEMMA RewriteTurn ==
    ASSUME TypedInv, RowInv, TurnInv, NEW w \in Workers, Rewrite(w)
    PROVE  TurnInv' /\ LifeStep
<1>0. PICK o : o = ref[w]
  OBVIOUS
<1>1. WorkTypeOK /\ RowTypeOK /\ DeskInv
  BY TypeParts DEF TypedInv
<1>2. /\ op[w] = "edit" /\ pc[w] = "delete" /\ doomed[w] = {}
      /\ ref[w] \in Orders /\ form[w] \in Forms /\ OrderOf[form[w]] = ref[w]
      /\ UNCHANGED <<status, booked>>
      /\ \A i \in Items :
           row'[i] = IF FormOf[i] = form[w] THEN "live"
                     ELSE IF itemLock[i] = w THEN "deleted" ELSE row[i]
  BY <1>1 DEF Rewrite, RowsTaken, AfterDelete, DeskInv
<1>3. \A i \in Items : HomeOf(i) # ref[w] => row'[i] = row[i]
  BY <1>2 DEF HomeOf, RowInv
<1>4. Apart(w) /\ ref'[w] = NoOrder
  BY <1>2, <1>3, EndApart DEF Rewrite
<1>5. got' = got
  BY <1>1, <1>2 DEF Rewrite, Commit, RowInv, RowTypeOK
<1>6. ASSUME o \in Careful
      PROVE  OrderInv(o)' /\ OrderInv(o) /\ status[o] = "DRAFT"
  <2>1. WorkerInv(w) /\ OrderInv(o)
    BY <1>0, <1>6 DEF TurnInv
  <2>2. status[o] = "DRAFT" /\ \A i \in Live(o) : itemLock[i] = w
    BY <1>0, <1>2, <2>1 DEF WorkerInv
  <2>3. Live(o)' = {i \in Items : FormOf[i] = form[w]}
    BY <1>0, <1>2, <2>2 DEF Live, HomeOf
  <2>4. Live(o)' # {}
    BY <1>2, <2>3, OrderAssumption
  <2>5. \A i, j \in Live(o)' : FormOf[i] = FormOf[j]
    BY <2>3
  <2> QED
    BY <1>2, <1>5, <2>1, <2>2, <2>4, <2>5 DEF OrderInv
<1>7. TurnInv'
  BY <1>0, <1>4, <1>6, ApartTurn, OrderAssumption, CarefulAssumption
<1>8. \A p \in Careful : AllReceived(p)' = AllReceived(p)
  <2>1. ASSUME o \in Careful
        PROVE  AllReceived(o)' = AllReceived(o)
    <3>1. ~AllReceived(o)
      BY <1>6, <2>1, NotComplete
    <3>2. ~AllReceived(o)'
      BY <1>2, <1>6, <2>1, NotCompleteNext
    <3> QED
      BY <3>1, <3>2 DEF AllReceived
  <2> QED
    BY <1>0, <2>1, <1>4, ApartLife
<1>9. UNCHANGED Life!lifeVars
  BY <1>2, <1>8 DEF Life!lifeVars
<1> QED
  BY <1>7, <1>9 DEF LifeStep

(* The last statement of a deletion.                                         *)
LEMMA RemoveTurn ==
    ASSUME TypedInv, RowInv, TurnInv, NEW w \in Workers, FinishRemove(w)
    PROVE  TurnInv' /\ LifeStep
<1>0. PICK o : o = ref[w]
  OBVIOUS
<1>1. WorkTypeOK /\ RowTypeOK /\ DeskInv
  BY TypeParts DEF TypedInv
<1>2. /\ op[w] = "remove" /\ pc[w] = "delete" /\ doomed[w] = {} /\ o \in Orders
      /\ status' = [status EXCEPT ![o] = "DELETED"] /\ booked' = booked
      /\ \A i \in Items : row'[i] = IF itemLock[i] = w THEN "deleted" ELSE row[i]
  BY <1>0, <1>1 DEF FinishRemove, RowsTaken, AfterDelete, DeskInv
<1>3. \A i \in Items : HomeOf(i) # o => row'[i] = row[i]
  BY <1>0, <1>2 DEF RowInv
<1>4. Apart(w) /\ ref'[w] = NoOrder
  BY <1>0, <1>1, <1>2, <1>3, EndApart DEF FinishRemove, RowTypeOK
<1>5. got' = got
  BY <1>0, <1>1, <1>2 DEF FinishRemove, Commit, RowInv, RowTypeOK
<1>6. ASSUME o \in Careful
      PROVE  OrderInv(o)' /\ OrderInv(o) /\ status[o] = "DRAFT" /\ Live(o)' = {}
  <2>1. WorkerInv(w) /\ OrderInv(o)
    BY <1>0, <1>6 DEF TurnInv
  <2>2. status[o] = "DRAFT" /\ \A i \in Live(o) : itemLock[i] = w
    BY <1>0, <1>2, <2>1 DEF WorkerInv
  <2>3. Live(o)' = {} /\ status'[o] = "DELETED"
    <3>1. \A i \in Items : HomeOf(i) = o => row'[i] # "live"
      BY <1>2, <2>2 DEF Live
    <3> QED
      BY <1>0, <1>1, <1>2, <3>1 DEF Live, RowTypeOK
  <2> QED
    BY <1>0, <1>5, <2>1, <2>2, <2>3 DEF OrderInv
<1>7. TurnInv'
  BY <1>0, <1>4, <1>6, ApartTurn, OrderAssumption, CarefulAssumption
<1>8. CASE o \in Careful
  <2>1. ~AllReceived(o) /\ ~AllReceived(o)'
    BY <1>0, <1>6, <1>8, NotComplete DEF AllReceived
  <2>2. \A p \in Careful : AllReceived(p)' = AllReceived(p)
    BY <1>0, <1>4, <2>1, ApartLife DEF AllReceived
  <2>3. \A p \in Careful : status'[p] = IF p = o THEN "DELETED" ELSE status[p]
    BY <1>0, <1>1, <1>2, CarefulAssumption DEF RowTypeOK
  <2>4. Life!Become(o, "DRAFT", "DELETED")
    BY <1>0, <1>2, <1>6, <1>8, <2>2, <2>3 DEF Life!Become
  <2> QED
    BY <1>0, <1>7, <1>8, <2>4 DEF LifeStep, Life!Next, Life!Leave
<1>9. CASE o \notin Careful
  BY <1>0, <1>4, <1>7, <1>9, ApartLife DEF LifeStep, Life!lifeVars
<1> QED
  BY <1>0, <1>8, <1>9

(* The UPDATE of the status: of a draft that is sent or cancelled, or at the *)
(* end of a receipt.                                                         *)
LEMMA StatusTurn ==
    ASSUME TypedInv, RowInv, TurnInv, NEW w \in Workers, WriteStatus(w)
    PROVE  TurnInv' /\ LifeStep
<1>0. PICK o : o = ref[w]
  OBVIOUS
<1>1. WorkTypeOK /\ RowTypeOK /\ DeskInv
  BY TypeParts DEF TypedInv
<1>2. /\ pc[w] \in NewStatuses /\ o \in Orders
      /\ op[w] = IF pc[w] \in {"SENT", "CANCELLED"} THEN "status" ELSE "receive"
      /\ booked' = [booked EXCEPT ![o] = @ + moved[w]]
      /\ row' = row
  BY <1>0, <1>1 DEF WriteStatus, DeskInv, NewStatuses
<1>3. Apart(w) /\ ref'[w] = NoOrder
  <2>1. \A p \in Orders \ {o} : status'[p] = status[p] /\ booked'[p] = booked[p]
    BY <1>0, <1>1, <1>2 DEF WriteStatus, RowTypeOK
  <2> QED
    BY <1>0, <1>2, <2>1, EndApart DEF WriteStatus
<1>4. \A i \in Items : got'[i] = Received(w, i)
  BY <1>0, <1>1 DEF WriteStatus, Commit, Received, RowTypeOK
<1>5. \A p \in Orders : Live(p)' = Live(p)
  BY <1>0, <1>2 DEF Live
<1>6. ASSUME o \in Careful
      PROVE  /\ OrderInv(o) /\ OrderInv(o)' /\ WorkerInv(w)
             /\ status' = [status EXCEPT ![o] = pc[w]]
             /\ Live(o) # {}
  <2>1. WorkerInv(w) /\ OrderInv(o)
    BY <1>0, <1>6 DEF TurnInv
  <2>2. status[o] \in {"DRAFT", "SENT", "PARTIAL"} /\ (op[w] = "status" => status[o] = "DRAFT")
    BY <1>0, <1>2, <2>1 DEF WorkerInv
  <2>3. status' = [status EXCEPT ![o] = pc[w]] /\ status'[o] = pc[w]
    BY <1>0, <1>1, <1>2, <2>2 DEF WriteStatus, RowTypeOK
  <2>4. Live(o) # {}
    BY <1>0, <2>1, <2>2 DEF OrderInv
  <2>5. op[w] = "status" => \A i \in Items : got'[i] = got[i]
    BY <1>0, <1>4 DEF Received, RowInv
  <2>6. pc[w] \notin {"PARTIAL", "RECEIVED"} => \A i \in Items : HomeOf(i) = o => got'[i] = 0
    BY <1>0, <1>2, <2>1, <2>2, <2>5 DEF OrderInv, NewStatuses
  <2>7. OrderInv(o)'
    BY <1>0, <1>2, <1>5, <2>1, <2>3, <2>4, <2>6 DEF OrderInv, NewStatuses
  <2> QED
    BY <1>0, <2>1, <2>3, <2>4, <2>7
<1>7. TurnInv'
  BY <1>0, <1>3, <1>6, ApartTurn, OrderAssumption, CarefulAssumption
<1>8. CASE o \notin Careful
  BY <1>0, <1>3, <1>7, <1>8, ApartLife DEF LifeStep, Life!lifeVars
<1>9. CASE o \in Careful /\ op[w] = "status"
  <2>1. pc[w] \in {"SENT", "CANCELLED"} /\ status[o] = "DRAFT" /\ moved[w] = 0
    BY <1>0, <1>1, <1>2, <1>6, <1>9 DEF WorkerInv, DeskInv, NewStatuses
  <2>2. status'[o] = pc[w]
    BY <1>0, <1>1, <1>2, <1>6, <1>9 DEF RowTypeOK
  <2>3. ~AllReceived(o)
    BY <1>0, <1>6, <1>9, <2>1, NotComplete
  <2>4. ~AllReceived(o)'
    BY <1>6, <1>9, <2>1, <2>2, NotCompleteNext
  <2>5. \A p \in Careful : AllReceived(p)' = AllReceived(p)
    BY <1>0, <1>3, <2>3, <2>4, ApartLife DEF AllReceived
  <2>6. \A p \in Careful :
          /\ status'[p] = IF p = o THEN pc[w] ELSE status[p]
          /\ booked'[p] = booked[p]
    BY <1>0, <1>1, <1>2, <1>6, <1>9, <2>1, CarefulAssumption DEF RowTypeOK
  <2>7. PICK to \in {"SENT", "CANCELLED"} : to = pc[w]
    BY <2>1
  <2>8. Life!Become(o, "DRAFT", to)
    BY <1>9, <2>1, <2>5, <2>6, <2>7 DEF Life!Become
  <2> QED
    BY <1>0, <1>7, <1>9, <2>8 DEF LifeStep, Life!Next, Life!Leave
<1>10. CASE o \in Careful /\ op[w] = "receive"
  <2>1. pc[w] \in {"PARTIAL", "RECEIVED"} /\ status[o] \in {"SENT", "PARTIAL"}
    BY <1>0, <1>2, <1>6, <1>10 DEF WorkerInv, NewStatuses
  <2>2. AllReceived(o)' <=> pc[w] = "RECEIVED"
    BY <1>0, <1>2, <1>4, <1>5, <1>6, <1>10, <2>1 DEF WorkerInv, AllReceived, Live
  <2>3. moved[w] \in Nat /\ booked[o] \in Nat /\ booked'[o] = booked[o] + moved[w]
    BY <1>0, <1>1, <1>2 DEF WorkTypeOK, RowTypeOK
  <2>4. booked'[o] >= booked[o]
    BY <1>0, <2>3
  <2>5. \A p \in Careful \ {o} :
          /\ status'[p] = status[p] /\ booked'[p] = booked[p]
          /\ AllReceived(p)' = AllReceived(p)
    BY <1>0, <1>3, ApartLife
  <2>6. status'[o] = IF pc[w] = "RECEIVED" THEN "RECEIVED" ELSE "PARTIAL"
    BY <1>0, <1>1, <1>2, <1>6, <1>10, <2>1 DEF RowTypeOK
  <2>7. Life!Receive(o)
    <3> DEFINE done == pc[w] = "RECEIVED"
    <3>1. done \in BOOLEAN
      OBVIOUS
    <3>2. [p \in Careful |-> booked[p]]'[o] >= [p \in Careful |-> booked[p]][o]
      BY <1>0, <1>10, <2>4
    <3>3. [p \in Careful |-> booked[p]]'
            = [[p \in Careful |-> booked[p]] EXCEPT ![o] = [p \in Careful |-> booked[p]]'[o]]
      BY <1>0, <1>10, <2>5
    <3>4. [p \in Careful |-> AllReceived(p)]'
            = [[p \in Careful |-> AllReceived(p)] EXCEPT ![o] = done]
      <4>1. AllReceived(o)' = done
        BY <2>2 DEF AllReceived
      <4> QED
        BY <1>10, <2>5, <4>1, Zenon
    <3>5. [p \in Careful |-> status[p]]'
            = [[p \in Careful |-> status[p]] EXCEPT ![o] = IF done THEN "RECEIVED" ELSE "PARTIAL"]
      BY <1>0, <1>10, <2>5, <2>6
    <3>6. [p \in Careful |-> status[p]][o] \in {"SENT", "PARTIAL"}
      BY <1>0, <1>10, <2>1
    <3> HIDE DEF done
    <3> QED
      BY <3>1, <3>2, <3>3, <3>4, <3>5, <3>6 DEF Life!Receive
  <2> QED
    BY <1>0, <1>7, <1>10, <2>7 DEF LifeStep, Life!Next
<1> QED
  BY <1>0, <1>2, <1>8, <1>9, <1>10

(* A new draft.                                                              *)
LEMMA CreateTurn ==
    ASSUME TypedInv, RowInv, TurnInv, NEW f \in Forms, Create(f)
    PROVE  TurnInv' /\ LifeStep
<1> DEFINE o == OrderOf[f]
<1> USE OrderAssumption, CarefulAssumption
<1>1. WorkTypeOK /\ RowTypeOK /\ DeskInv
  BY TypeParts DEF TypedInv
<1>2. /\ o \in Orders /\ status[o] = "ABSENT" /\ Unused(f)
      /\ \A p \in Orders : status'[p] = IF p = o THEN "DRAFT" ELSE status[p]
      /\ \A i \in Items : row'[i] = IF FormOf[i] = f THEN "live" ELSE row[i]
      /\ UNCHANGED <<pc, op, ref, form, doomed, got, gotNew, itemLock, booked>>
  BY <1>1 DEF Create, RowTypeOK, stockVars, jobVars, deskVars
<1>3. \A p \in Orders \ {o} : Live(p)' = Live(p)
  BY <1>2 DEF Live, HomeOf
<1>4. ASSUME o \in Careful
      PROVE  /\ OrderInv(o) /\ OrderInv(o)'
             /\ \A w \in Workers : ref[w] # o
  <2>1. OrderInv(o) /\ Live(o) = {}
    BY <1>2, <1>4 DEF TurnInv, OrderInv
  <2>2. Live(o)' = {i \in Items : FormOf[i] = f}
    BY <1>2, <2>1 DEF Live, HomeOf
  <2>3. Live(o)' # {}
    BY <2>2
  <2>4. OrderInv(o)'
    BY <1>2, <2>1, <2>2, <2>3 DEF OrderInv
  <2>5. ASSUME NEW w \in Workers, ref[w] = o
        PROVE  FALSE
    <3>1. op[w] # "none" /\ op[w] \in Operations
      BY <1>1, <1>2, <2>5 DEF RowInv, WorkTypeOK
    <3>2. WorkerInv(w)
      BY <1>4, <2>5 DEF TurnInv
    <3> QED
      BY <1>2, <2>5, <3>1, <3>2 DEF WorkerInv, Operations
  <2> QED
    BY <2>1, <2>4, <2>5
<1>5. TurnInv'
  <2>1. \A p \in Careful \ {o} : OrderInv(p)'
    BY <1>2, <1>3 DEF TurnInv, OrderInv
  <2>2. ASSUME NEW w \in Workers, ref[w] \in Careful
        PROVE  WorkerInv(w)'
    <3>1. WorkerInv(w) /\ ref[w] # o
      BY <1>4, <2>2 DEF TurnInv
    <3>2. op[w] = "edit" => Unused(form[w])'
      <4>1. op[w] = "edit" => form[w] # f
        BY <1>1, <3>1 DEF DeskInv
      <4> QED
        BY <1>2, <3>1, <4>1 DEF WorkerInv, Unused
    <3>3. \A i \in Live(ref[w]) : Received(w, i)' = Received(w, i)
      BY <1>2 DEF Received
    <3> QED
      BY <1>2, <1>3, <2>2, <3>1, <3>2, <3>3 DEF WorkerInv
  <2> QED
    BY <1>2, <1>4, <2>1, <2>2 DEF TurnInv
<1>6. \A p \in Careful \ {o} : AllReceived(p)' = AllReceived(p)
  BY <1>2, <1>3 DEF AllReceived
<1>7. CASE o \in Careful
  <2>1. ~AllReceived(o)
    BY <1>2, <1>4, <1>7, NotComplete
  <2>2. ~AllReceived(o)'
    BY <1>2, <1>4, <1>7, NotCompleteNext
  <2>3. \A p \in Careful : AllReceived(p)' = AllReceived(p)
    BY <1>6, <2>1, <2>2 DEF AllReceived
  <2>4. Life!Write(o)
    <3>1. \A p \in Careful : /\ status'[p] = IF p = o THEN "DRAFT" ELSE status[p]
                             /\ booked'[p] = booked[p]
      BY <1>2
    <3>2. status[o] = "ABSENT"
      BY <1>2
    <3> HIDE DEF o
    <3> QED
      BY <1>7, <2>3, <3>1, <3>2 DEF Life!Write, Life!Become
  <2> QED
    BY <1>5, <1>7, <2>4 DEF LifeStep, Life!Next
<1>8. CASE o \notin Careful
  BY <1>2, <1>5, <1>6, <1>8 DEF LifeStep, Life!lifeVars
<1> QED
  BY <1>7, <1>8

(* A step that changes nothing the life cycle sees.                          *)
LEMMA Stutter ==
    ASSUME UNCHANGED <<status, row, got, booked>>
    PROVE  LifeStep
BY DEF LifeStep, Life!lifeVars, AllReceived, Live

(* So every step keeps TurnInv and is one of the life cycle's or none of its *)
(* business.                                                                 *)
LEMMA TurnNext ==
    ASSUME TypedInv, RowInv, TurnInv, [Next]_vars
    PROVE  TurnInv' /\ LifeStep
<1>1. CASE UNCHANGED vars
  <2>1. UNCHANGED <<status, row, got, booked>>
    BY <1>1 DEF vars, purchaseVars, orderVars, lineVars
  <2>2. TurnInv'
    BY <1>1 DEF vars, stockVars, jobVars, purchaseVars, orderVars, lineVars, deskVars,
       TurnInv, OrderInv, WorkerInv, Live, Unused, Received
  <2> QED
    BY <2>1, <2>2, Stutter
<1>2. ASSUME NEW f \in Forms, Create(f)
      PROVE  TurnInv' /\ LifeStep
  BY <1>2, CreateTurn
<1>3. ASSUME NEW w \in Workers, BeginRequest(w)
      PROVE  TurnInv' /\ LifeStep
  BY <1>3, BeginTurn, Stutter
<1>4. ASSUME NEW w \in Workers, Step(w)
      PROVE  TurnInv' /\ LifeStep
  <2>1. CASE FindLine(w) \/ CountLine(w) \/ LookUp(w) \/ ReceiveLine(w) \/ Evaluate(w)
              \/ LockOrder(w) \/ FindRows(w) \/ DeleteRow(w)
    BY <2>1, MiddleTurn, Stutter
  <2>2. CASE LineNotFound(w) \/ ReceiveDuplicate(w) \/ RewriteOrphan(w)
    BY <2>2, RollbackTurn, Stutter DEF LineNotFound, ReceiveDuplicate, RewriteOrphan
  <2>3. CASE WriteStatus(w) \/ Rewrite(w) \/ FinishRemove(w)
    BY <2>3, StatusTurn, RewriteTurn, RemoveTurn
  <2> QED
    BY <1>4, <2>1, <2>2, <2>3 DEF Step
<1>5. ASSUME NEW w \in Workers, DetectDeadlock(w) \/ Fail(w)
      PROVE  TurnInv' /\ LifeStep
  BY <1>5, RollbackTurn, Stutter DEF DetectDeadlock, Fail
<1> QED
  BY <1>1, <1>2, <1>3, <1>4, <1>5 DEF Next

(* TurnInv in every reachable state.                                         *)
LEMMA PurchaseTurns == Spec => []TurnInv
<1>1. TypedInv /\ RowInv /\ TurnInv /\ [Next]_vars => TurnInv'
  BY TurnNext
<1> QED
  BY <1>1, TurnInit, PurchaseRows, PTL DEF Spec

(* An edit replaces the lines of an order whose clients take turns, whatever *)
(* fails and whatever happens to other orders.                               *)
THEOREM EditsAlwaysReplace == Spec => []EditsReplace
<1>1. TurnInv => EditsReplace
  BY DEF TurnInv, OrderInv, EditsReplace
<1> QED
  BY <1>1, PurchaseTurns, PTL

(* Such an order goes through the states of the README: nothing comes in     *)
(* before it is sent, and it is RECEIVED exactly when every line has come in.*)
THEOREM OrdersKeepLifecycle == Spec => LifecycleKept
<1>1. Init => Life!Init
  <2> SUFFICES ASSUME Init PROVE Life!Init
    OBVIOUS
  <2>1. \A o \in Careful : AllReceived(o) = FALSE
    BY DEF Init, AllReceived, Live
  <2>2. \A o \in Careful : status[o] = "ABSENT" /\ booked[o] = 0
    BY CarefulAssumption DEF Init
  <2> QED
    BY <2>1, <2>2 DEF Life!Init
<1>2. TypedInv /\ RowInv /\ TurnInv /\ [Next]_vars => [Life!Next]_(Life!lifeVars)
  BY TurnNext DEF LifeStep
<1> QED
  BY <1>1, <1>2, PurchaseRows, PurchaseTurns, PTL DEF Spec, LifecycleKept, Life!Spec

------------------------------------------------------------------------------
(* What the lines of an order claim, and what its RECEIPT rows brought in.   *)

Rows(o) == {i \in Items : HomeOf(i) = o}

(* What an open transaction has counted on each line, and what it has        *)
(* counted and not moved yet.                                                *)
Fresh(w) == [i \in Items |-> IF itemLock[i] = w THEN gotNew[i] - got[i] ELSE 0]
Pending(w) == IF pc[w] \in {"find", "update", "insert"} THEN Line(w).qty ELSE 0

(* What was booked and not claimed: by an order, and by a receipt.           *)
Surplus(o) == booked[o] - SumOver(got, Rows(o))
Excess(w) == moved[w] + Pending(w) - SumOver(Fresh(w), Rows(ref[w]))

(* All of these are integers.                                                *)
LEMMA SumsTyped ==
    ASSUME TypedInv
    PROVE  /\ \A o : IsFiniteSet(Rows(o))
           /\ \A o \in Orders : SumOver(got, Rows(o)) \in Int /\ Surplus(o) \in Int
           /\ \A w \in Workers : \A i \in Items : Fresh(w)[i] \in Int
           /\ \A w \in Workers : \A o : SumOver(Fresh(w), Rows(o)) \in Int
           /\ \A w \in Workers : Pending(w) \in Nat /\ Excess(w) \in Int
<1>1. WorkTypeOK /\ RowTypeOK /\ DeskInv
  BY TypeParts DEF TypedInv
<1>2. \A o : IsFiniteSet(Rows(o))
  BY RowsAssumption, FS_Subset DEF Rows
<1>3. \A o : SumOver(got, Rows(o)) \in Int
  <2>1. \A o : \A i \in Rows(o) : got[i] \in Int
    BY <1>1 DEF RowTypeOK, Rows
  <2> QED
    BY <1>2, <2>1, SumOfIntegers
<1>4. \A w \in Workers : \A i \in Items : Fresh(w)[i] \in Int
  BY <1>1 DEF RowTypeOK, Fresh
<1>5. \A w \in Workers : \A o : SumOver(Fresh(w), Rows(o)) \in Int
  <2>1. \A w \in Workers : \A o : \A i \in Rows(o) : Fresh(w)[i] \in Int
    BY <1>4 DEF Rows
  <2> QED
    BY <1>2, <2>1, SumOfIntegers
<1>6. \A w \in Workers : Pending(w) \in Nat
  BY <1>1, HeadLine DEF Pending, DeskInv
<1>7. \A o \in Orders : Surplus(o) \in Int
  BY <1>1, <1>3 DEF Surplus, RowTypeOK
<1>8. ASSUME NEW w \in Workers
      PROVE  Excess(w) \in Int
  <2>1. moved[w] \in Nat /\ Pending(w) \in Nat /\ SumOver(Fresh(w), Rows(ref[w])) \in Int
    BY <1>1, <1>5, <1>6 DEF WorkTypeOK
  <2> HIDE DEF Pending, Fresh, Rows
  <2> QED
    BY <2>1 DEF Excess
<1> QED
  BY <1>2, <1>3, <1>4, <1>5, <1>6, <1>7, <1>8

(* The receipt of a worker whose position and lines a step leaves alone.     *)
Unmoved(v) ==
    /\ op'[v] = op[v] /\ ref'[v] = ref[v] /\ moved'[v] = moved[v]
    /\ Pending(v)' = Pending(v)
    /\ \A i \in Items : /\ itemLock'[i] = v <=> itemLock[i] = v
                        /\ itemLock[i] = v => gotNew'[i] = gotNew[i] /\ got'[i] = got[i]

(* Such a worker has counted ahead of the ledger what it had.                *)
LEMMA UnmovedExcess ==
    ASSUME NEW v \in Workers, Unmoved(v)
    PROVE  Excess(v)' = Excess(v)
<1>1. Fresh(v)' = Fresh(v)
  BY DEF Unmoved, Fresh
<1>2. Rows(ref[v])' = Rows(ref[v])
  BY DEF Unmoved, Rows, HomeOf
<1> QED
  BY <1>1, <1>2 DEF Unmoved, Excess

(* What a step can do to them.  Only a commit of a receipt books anything,   *)
(* and what it books exceeds what it claims by what the receipt exceeded it; *)
(* only a line that is gone makes a receipt count less than it moves.        *)
OrderSettled(o) ==
    \/ Surplus(o)' = Surplus(o)
    \/ \E w \in Workers : /\ op[w] = "receive" /\ ref[w] = o
                          /\ Surplus(o)' = Surplus(o) + Excess(w)

ReceiptSettled(w) ==
    \/ op'[w] # "receive"
    \/ Excess(w)' = 0
    \/ op[w] = "receive" /\ ref'[w] = ref[w] /\ Excess(w)' = Excess(w)
    \/ /\ pc[w] = "count" /\ row[Line(w).item] # "live"
       /\ op[w] = "receive" /\ ref'[w] = ref[w] /\ Excess(w)' = Excess(w) + Line(w).qty

Settled == /\ \A o \in Orders : OrderSettled(o)
           /\ \A w \in Workers : ReceiptSettled(w)

(* A step that leaves counts and bookings alone, and all workers but one.    *)
LEMMA QuietSettled ==
    ASSUME NEW w \in Workers, UNCHANGED <<got, booked>>,
           \A v \in Workers \ {w} : Unmoved(v), ReceiptSettled(w)
    PROVE  Settled
<1>1. \A o \in Orders : Surplus(o)' = Surplus(o)
  BY DEF Surplus, Rows, HomeOf
<1>2. \A v \in Workers \ {w} : ReceiptSettled(v)
  BY UnmovedExcess DEF ReceiptSettled, Unmoved
<1> QED
  BY <1>1, <1>2 DEF Settled, OrderSettled

(* The start of a receipt has counted nothing.                               *)
LEMMA BeginSettled ==
    ASSUME TypedInv, RowInv, NEW w \in Workers, BeginRequest(w)
    PROVE  Settled
<1>1. WorkTypeOK /\ RowTypeOK /\ DeskInv
  BY TypeParts DEF TypedInv
<1>2. /\ pc[w] = "idle" /\ op[w] = "none" /\ moved[w] = 0
      /\ UNCHANGED <<got, gotNew, itemLock, booked, moved>>
      /\ \A v \in Workers \ {w} :
           pc'[v] = pc[v] /\ op'[v] = op[v] /\ ref'[v] = ref[v] /\ todo'[v] = todo[v]
      /\ op'[w] = "receive" => pc'[w] = "line"
  BY <1>1 DEF BeginRequest, BeginReceive, BeginEdit, BeginStatus, BeginRemove, Begin,
     StartJob, lineVars, WorkTypeOK, DeskInv
<1>3. \A v \in Workers \ {w} : Unmoved(v)
  BY <1>2 DEF Unmoved, Pending, Line
<1>4. \A i \in Items : Fresh(w)'[i] = 0
  BY <1>2 DEF RowInv, Fresh
<1>5. PICK o : o = ref'[w]
  OBVIOUS
<1>6. SumOver(Fresh(w)', Rows(o)) = 0
  <2>1. IsFiniteSet(Rows(o)) /\ \A i \in Rows(o) : Fresh(w)'[i] = 0
    BY <1>4, SumsTyped DEF Rows
  <2> HIDE DEF Fresh, Rows
  <2> QED
    BY <2>1, SumOfZeros
<1>7. op'[w] = "receive" => Excess(w)' = 0
  <2>1. Rows(ref[w])' = Rows(o)
    BY <1>5 DEF Rows, HomeOf
  <2>2. op'[w] = "receive" => Pending(w)' = 0
    BY <1>2 DEF Pending
  <2> QED
    BY <1>2, <1>6, <2>1, <2>2 DEF Excess
<1> QED
  BY <1>2, <1>3, <1>7, QuietSettled DEF ReceiptSettled

(* The statements that count and move nothing.                               *)
LEMMA LookSettled ==
    ASSUME TypedInv, RowInv, NEW w \in Workers,
           \/ FindLine(w) \/ LookUp(w) \/ Evaluate(w)
           \/ LockOrder(w) \/ FindRows(w) \/ DeleteRow(w)
    PROVE  Settled
<1> USE WorkerAssumption
<1>1. WorkTypeOK /\ RowTypeOK /\ DeskInv
  BY TypeParts DEF TypedInv
<1>2. /\ UNCHANGED <<got, gotNew, booked, op, ref, todo, moved>>
      /\ \A v \in Workers \ {w} : pc'[v] = pc[v]
  BY <1>1 DEF FindLine, LookUp, FindLevel, Evaluate, LockOrder, FindRows, DeleteRow, Goto,
     purchaseVars, lineVars, deskVars, stockVars, jobVars, WorkTypeOK
<1>3. \A i \in Items : itemLock'[i] = itemLock[i] \/ (itemLock[i] = NoWorker /\ itemLock'[i] = w)
  <2>1. CASE DeleteRow(w)
    BY <1>1, <2>1 DEF DeleteRow, RowTypeOK
  <2>2. CASE FindLine(w) \/ LookUp(w) \/ Evaluate(w) \/ LockOrder(w) \/ FindRows(w)
    BY <2>2 DEF FindLine, LookUp, Evaluate, LockOrder, FindRows, purchaseVars, lineVars
  <2> QED
    BY <2>1, <2>2
<1>4. \A v \in Workers \ {w} : Unmoved(v)
  BY <1>2, <1>3 DEF Unmoved, Pending, Line
<1>5. CASE FindLine(w) \/ LookUp(w) \/ Evaluate(w)
  <2>1. itemLock' = itemLock
    BY <1>5 DEF FindLine, LookUp, Evaluate, purchaseVars, lineVars
  <2>2. Pending(w)' = Pending(w)
    BY <1>1, <1>2, <1>5 DEF FindLine, LookUp, FindLevel, Evaluate, AtLine, Goto, Pending, Line, WorkTypeOK
  <2>3. Unmoved(w)
    BY <1>2, <2>1, <2>2 DEF Unmoved
  <2> QED
    BY <1>2, <1>4, <2>3, UnmovedExcess, QuietSettled DEF ReceiptSettled
<1>6. CASE LockOrder(w) \/ FindRows(w) \/ DeleteRow(w)
  <2>1. op'[w] # "receive"
    BY <1>1, <1>2, <1>6 DEF LockOrder, FindRows, DeleteRow, DeskInv
  <2> QED
    BY <1>2, <1>4, <2>1, QuietSettled DEF ReceiptSettled
<1> QED
  BY <1>5, <1>6

(* The quantity counted on a line waits for the level.                       *)
LEMMA CountSettled ==
    ASSUME TypedInv, RowInv, NEW w \in Workers, CountLine(w)
    PROVE  Settled
<1> USE WorkerAssumption
<1>1. WorkTypeOK /\ RowTypeOK /\ DeskInv
  BY TypeParts DEF TypedInv
<1>2. PICK i \in Items, q \in Nat : i = Line(w).item /\ q = Line(w).qty
  BY <1>1, HeadLine DEF CountLine, DeskInv
<1>3. /\ pc[w] = "count" /\ op[w] = "receive" /\ HomeOf(i) = ref[w]
      /\ pc'[w] = "find" /\ itemLock[i] \in {NoWorker, w}
      /\ UNCHANGED <<got, booked, op, ref, todo, moved>>
      /\ \A v \in Workers \ {w} : pc'[v] = pc[v]
  BY <1>1, <1>2 DEF CountLine, deskVars, WorkTypeOK, DeskInv, RowInv
<1>4. /\ \A j \in Items \ {i} : itemLock'[j] = itemLock[j] /\ gotNew'[j] = gotNew[j]
      /\ row[i] = "live" => itemLock'[i] = w /\ gotNew'[i] = gotNew[i] + q
      /\ row[i] # "live" => itemLock'[i] = itemLock[i] /\ gotNew'[i] = gotNew[i]
  BY <1>1, <1>2 DEF CountLine, RowTypeOK
<1>5. \A v \in Workers \ {w} : Unmoved(v)
  <2>1. \A v \in Workers \ {w} : \A j \in Items :
          /\ itemLock'[j] = v <=> itemLock[j] = v
          /\ itemLock[j] = v => gotNew'[j] = gotNew[j]
    BY <1>3, <1>4
  <2> QED
    BY <1>3, <2>1 DEF Unmoved, Pending, Line
<1>6. /\ Pending(w) = 0 /\ Pending(w)' = q /\ moved[w] \in Nat
      /\ Rows(ref[w])' = Rows(ref[w])
  BY <1>1, <1>2, <1>3 DEF Pending, Line, WorkTypeOK, Rows, HomeOf
<1>7. PICK o : o = ref[w]
  OBVIOUS
<1>8. SumOver(Fresh(w), Rows(o)) \in Int
  BY SumsTyped
<1>9. CASE row[i] = "live"
  <2>1. /\ Fresh(w)[i] = gotNew[i] - got[i]
        /\ Fresh(w)'[i] = gotNew[i] + q - got[i]
        /\ \A j \in Items \ {i} : Fresh(w)'[j] = Fresh(w)[j]
        /\ \A j \in Items : Fresh(w)[j] \in Int
        /\ gotNew[i] \in Nat /\ got[i] \in Nat
    <3>1. gotNew[i] \in Nat /\ got[i] \in Nat
      BY <1>1 DEF RowTypeOK
    <3>2. itemLock[i] = NoWorker => gotNew[i] = got[i]
      BY DEF RowInv
    <3> QED
      BY <1>3, <1>4, <1>9, <3>1, <3>2, SumsTyped DEF Fresh
  <2>2. \A j \in Items : Fresh(w)'[j] \in Int
    BY <2>1
  <2>3. SumOver(Fresh(w)', Rows(o)) = SumOver(Fresh(w), Rows(o)) - Fresh(w)[i] + Fresh(w)'[i]
    <3>1. i \in Rows(o) /\ IsFiniteSet(Rows(o)) /\ \A j \in Rows(o) : j \in Items
      BY <1>3, <1>7, SumsTyped DEF Rows
    <3> HIDE DEF Fresh, Rows
    <3> QED
      BY <2>1, <2>2, <3>1, SumUpdates
  <2>4. Excess(w)' = Excess(w)
    <3>1. SumOver(Fresh(w)', Rows(o)) = SumOver(Fresh(w), Rows(o)) + q
      BY <1>8, <2>1, <2>3
    <3> QED
      BY <1>3, <1>6, <1>7, <1>8, <3>1 DEF Excess
  <2> QED
    BY <1>3, <1>5, <2>4, QuietSettled DEF ReceiptSettled
<1>10. CASE row[i] # "live"
  <2>1. Fresh(w)' = Fresh(w)
    BY <1>3, <1>4, <1>10 DEF Fresh
  <2>2. Excess(w)' = Excess(w) + q
    BY <1>3, <1>6, <1>7, <1>8, <2>1 DEF Excess
  <2> QED
    BY <1>2, <1>3, <1>5, <1>10, <2>2, QuietSettled DEF ReceiptSettled
<1> QED
  BY <1>9, <1>10

(* The level has what was counted.                                           *)
LEMMA MoveSettled ==
    ASSUME TypedInv, RowInv, NEW w \in Workers, ReceiveLine(w)
    PROVE  Settled
<1>1. WorkTypeOK /\ RowTypeOK /\ DeskInv
  BY TypeParts DEF TypedInv
<1>2. /\ UNCHANGED <<got, gotNew, itemLock, booked, op, ref>>
      /\ \A v \in Workers \ {w} : pc'[v] = pc[v] /\ todo'[v] = todo[v] /\ moved'[v] = moved[v]
      /\ pc[w] \in {"update", "insert"} /\ pc'[w] = "line" /\ op[w] = "receive"
      /\ moved'[w] = moved[w] + Line(w).qty
  BY <1>1 DEF ReceiveLine, UpdateLevel, InsertLevel, Goto, lineVars, WorkTypeOK, DeskInv
<1>3. \A v \in Workers \ {w} : Unmoved(v)
  BY <1>2 DEF Unmoved, Pending, Line
<1>4. Pending(w) = Line(w).qty /\ Pending(w)' = 0 /\ Line(w).qty \in Nat /\ moved[w] \in Nat
  BY <1>1, <1>2, HeadLine DEF Pending, DeskInv, WorkTypeOK
<1>5. Fresh(w)' = Fresh(w) /\ Rows(ref[w])' = Rows(ref[w])
  BY <1>2 DEF Fresh, Rows, HomeOf
<1>6. Excess(w)' = Excess(w)
  <2>1. PICK s \in Int : s = SumOver(Fresh(w), Rows(ref[w]))
    BY SumsTyped
  <2>2. SumOver(Fresh(w), Rows(ref[w]))' = s
    BY <1>5, <2>1
  <2> QED
    BY <1>2, <1>4, <2>1, <2>2 DEF Excess
<1> QED
  BY <1>2, <1>3, <1>6, QuietSettled DEF ReceiptSettled

(* The end of a transaction leaves the others where they are.                *)
LEMMA EndUnmoved ==
    ASSUME TypedInv, RowInv, NEW w \in Workers, Rollback(w) \/ Commit(w)
    PROVE  op'[w] = "none" /\ \A v \in Workers \ {w} : Unmoved(v)
<1> USE WorkerAssumption
<1>1. WorkTypeOK /\ RowTypeOK
  BY TypeParts DEF TypedInv
<1>2. EndJob(w) /\ LeaveDesk(w) /\ UnlockRows(w)
  BY DEF Rollback, Commit
<1>3. /\ op'[w] = "none"
      /\ \A v \in Workers \ {w} :
           /\ pc'[v] = pc[v] /\ op'[v] = op[v] /\ ref'[v] = ref[v]
           /\ todo'[v] = todo[v] /\ moved'[v] = moved[v]
  BY <1>1, <1>2 DEF EndJob, LeaveDesk, WorkTypeOK
<1>4. \A i \in Items :
        /\ itemLock[i] # w => /\ itemLock'[i] = itemLock[i]
                              /\ gotNew'[i] = gotNew[i] /\ got'[i] = got[i]
        /\ itemLock[i] = w => itemLock'[i] = NoWorker
  BY <1>1, <1>2 DEF UnlockRows, Rollback, Commit, RowTypeOK
<1> QED
  BY <1>3, <1>4 DEF Unmoved, Pending, Line

(* A transaction that is undone claims and books nothing, and neither does   *)
(* the last statement of an edit or of a deletion.                           *)
LEMMA UnbookedSettled ==
    ASSUME TypedInv, RowInv, NEW w \in Workers,
           Rollback(w) \/ Rewrite(w) \/ FinishRemove(w)
    PROVE  Settled
<1>1. WorkTypeOK /\ RowTypeOK
  BY TypeParts DEF TypedInv
<1>2. Rollback(w) \/ Commit(w)
  BY DEF Rewrite, FinishRemove
<1>3. booked' = booked
  BY DEF Rollback, Rewrite, FinishRemove
<1>4. got' = got
  <2>1. CASE Rollback(w)
    BY <2>1 DEF Rollback
  <2>2. CASE Rewrite(w) \/ FinishRemove(w)
    <3>1. \A i \in Items : itemLock[i] = w => gotNew[i] = got[i]
      BY <2>2 DEF RowInv, Rewrite, FinishRemove
    <3>2. got' = [i \in Items |-> IF itemLock[i] = w THEN gotNew[i] ELSE got[i]]
      BY <2>2 DEF Rewrite, FinishRemove, Commit
    <3> QED
      BY <1>1, <3>1, <3>2 DEF RowTypeOK
  <2> QED
    BY <2>1, <2>2
<1> QED
  BY <1>2, <1>3, <1>4, EndUnmoved, QuietSettled DEF ReceiptSettled

(* The commit of a receipt, or of a new status.                              *)
LEMMA StatusSettled ==
    ASSUME TypedInv, RowInv, NEW w \in Workers, WriteStatus(w)
    PROVE  Settled
<1>1. WorkTypeOK /\ RowTypeOK /\ DeskInv
  BY TypeParts DEF TypedInv
<1>2. PICK o \in Orders : o = ref[w]
  BY <1>1 DEF WriteStatus, DeskInv, NewStatuses
<1>3. /\ Commit(w) /\ op[w] \in {"status", "receive"}
      /\ booked'[o] = booked[o] + moved[w]
      /\ \A p \in Orders \ {o} : booked'[p] = booked[p]
      /\ Pending(w) = 0 /\ moved[w] \in Nat /\ booked[o] \in Nat
  BY <1>1, <1>2 DEF WriteStatus, NewStatuses, DeskInv, Pending, RowTypeOK, WorkTypeOK
<1>4. op'[w] = "none" /\ \A v \in Workers \ {w} : Unmoved(v)
  BY <1>3, EndUnmoved
<1>5. /\ \A i \in Items : got[i] \in Int /\ Fresh(w)[i] \in Int
                          /\ got'[i] = got[i] + Fresh(w)[i]
      /\ \A i \in Items : HomeOf(i) # o => got'[i] = got[i]
  <2>1. \A i \in Items : got[i] \in Nat /\ gotNew[i] \in Nat
                        /\ got'[i] = IF itemLock[i] = w THEN gotNew[i] ELSE got[i]
    BY <1>1, <1>3 DEF Commit, RowTypeOK
  <2>2. \A i \in Items : HomeOf(i) # o => itemLock[i] # w
    BY <1>2 DEF RowInv
  <2> QED
    BY <2>1, <2>2 DEF Fresh
<1>6. ASSUME NEW p \in Orders \ {o}
      PROVE  Surplus(p)' = Surplus(p)
  <2>1. /\ IsFiniteSet(Rows(p))
        /\ \A i \in Rows(p) : got[i] \in Int /\ got'[i] = got[i]
    BY <1>5, SumsTyped DEF Rows
  <2>2. SumOver(got', Rows(p)) = SumOver(got, Rows(p))
    <3> HIDE DEF Rows
    <3> QED
      BY <2>1, SumSame
  <2> QED
    BY <1>3, <2>2 DEF Surplus, Rows, HomeOf
<1>7. SumOver(got', Rows(o)) = SumOver(got, Rows(o)) + SumOver(Fresh(w), Rows(o))
  <2>1. /\ IsFiniteSet(Rows(o))
        /\ \A i \in Rows(o) : got[i] \in Int /\ Fresh(w)[i] \in Int
                              /\ got'[i] = got[i] + Fresh(w)[i]
    BY <1>5, SumsTyped DEF Rows
  <2> HIDE DEF Rows, Fresh
  <2> QED
    BY <2>1, SumAdds
<1>8. Surplus(o)' = Surplus(o) + Excess(w)
  <2>1. SumOver(got, Rows(o)) \in Int /\ SumOver(Fresh(w), Rows(o)) \in Int
    BY SumsTyped
  <2>2. Surplus(o)' = booked'[o] - SumOver(got', Rows(o))
    BY DEF Surplus, Rows, HomeOf
  <2> HIDE DEF Pending, Fresh, Rows
  <2> QED
    BY <1>2, <1>3, <1>7, <2>1, <2>2 DEF Surplus, Excess
<1>9. OrderSettled(o)
  <2>1. CASE op[w] = "receive"
    BY <1>2, <1>8, <2>1 DEF OrderSettled
  <2>2. CASE op[w] = "status"
    <3>1. moved[w] = 0 /\ \A i \in Items : Fresh(w)[i] = 0
      BY <1>1, <2>2 DEF DeskInv, RowInv, Fresh, RowTypeOK
    <3>2. SumOver(Fresh(w), Rows(o)) = 0
      <4>1. IsFiniteSet(Rows(o)) /\ \A i \in Rows(o) : Fresh(w)[i] = 0
        BY <3>1, SumsTyped DEF Rows
      <4> HIDE DEF Fresh, Rows
      <4> QED
        BY <4>1, SumOfZeros
    <3>3. Excess(w) = 0
      BY <1>2, <1>3, <3>1, <3>2 DEF Excess
    <3>4. Surplus(o) \in Int
      BY SumsTyped
    <3> QED
      BY <1>8, <3>3, <3>4 DEF OrderSettled
  <2> QED
    BY <1>3, <2>1, <2>2
<1>10. \A v \in Workers : ReceiptSettled(v)
  BY <1>4, UnmovedExcess DEF ReceiptSettled, Unmoved
<1> QED
  BY <1>6, <1>9, <1>10 DEF Settled, OrderSettled

(* So every step settles what it counts.                                     *)
LEMMA EveryStepSettles ==
    ASSUME TypedInv, RowInv, [Next]_vars
    PROVE  Settled
<1>1. CASE UNCHANGED vars
  <2>1. UNCHANGED <<got, booked>> /\ \A v \in Workers : Unmoved(v)
    BY <1>1 DEF vars, stockVars, jobVars, purchaseVars, orderVars, lineVars, deskVars,
       Unmoved, Pending, Line
  <2> QED
    BY <2>1, UnmovedExcess DEF Settled, OrderSettled, ReceiptSettled, Unmoved, Surplus, Rows, HomeOf
<1>2. ASSUME NEW f \in Forms, Create(f)
      PROVE  Settled
  <2>1. UNCHANGED <<got, booked>> /\ \A v \in Workers : Unmoved(v)
    BY <1>2 DEF Create, stockVars, jobVars, deskVars, Unmoved, Pending, Line
  <2> QED
    BY <2>1, UnmovedExcess DEF Settled, OrderSettled, ReceiptSettled, Unmoved, Surplus, Rows, HomeOf
<1>3. ASSUME NEW w \in Workers, Step(w)
      PROVE  Settled
  BY <1>3, LookSettled, CountSettled, MoveSettled, UnbookedSettled, StatusSettled
     DEF Step, LineNotFound, ReceiveDuplicate, RewriteOrphan
<1> QED
  BY <1>1, <1>2, <1>3, BeginSettled, UnbookedSettled DEF Next, DetectDeadlock, Fail

------------------------------------------------------------------------------
(* The lines never claim more than was booked. *)

(* No order claims more than it booked, and no receipt under way counts more *)
(* than it is going to book.                                                 *)
CountInv ==
    /\ \A o \in Orders : Surplus(o) >= 0
    /\ \A w \in Workers : op[w] = "receive" => Excess(w) >= 0

(* Nothing is counted and nothing is booked at the start.                    *)
LEMMA CountInit == Init => CountInv
<1> SUFFICES ASSUME Init, NEW o \in Orders PROVE Surplus(o) >= 0
  BY DEF CountInv, Init, StockInit
<1>1. booked[o] = 0 /\ IsFiniteSet(Rows(o)) /\ \A i \in Rows(o) : got[i] = 0
  BY RowsAssumption, FS_Subset DEF Init, Rows
<1>2. SumOver(got, Rows(o)) = 0
  BY <1>1, SumOfZeros
<1> QED
  BY <1>1, <1>2 DEF Surplus

(* Every step keeps the counts within what is booked.                        *)
LEMMA CountNext ==
    ASSUME TypedInv, RowInv, CountInv, [Next]_vars
    PROVE  CountInv'
<1>1. Settled /\ WorkTypeOK /\ DeskInv
  BY EveryStepSettles, TypeParts DEF TypedInv
<1>2. /\ \A o \in Orders : Surplus(o) \in Int
      /\ \A w \in Workers : Excess(w) \in Int
  BY SumsTyped
<1>3. \A w \in Workers : pc[w] = "count" => Line(w).qty \in Nat
  BY <1>1, HeadLine DEF DeskInv
<1>4. ASSUME NEW o \in Orders
      PROVE  Surplus(o)' >= 0
  BY <1>1, <1>2 DEF Settled, OrderSettled, CountInv
<1>5. ASSUME NEW w \in Workers, op'[w] = "receive"
      PROVE  Excess(w)' >= 0
  BY <1>1, <1>2, <1>3, <1>5 DEF Settled, ReceiptSettled, CountInv
<1> QED
  BY <1>4, <1>5 DEF CountInv

(* The lines of an order never claim more than its RECEIPT rows brought in,  *)
(* for any orders, forms, scans and workers, whatever overlaps and fails.    *)
THEOREM CountsAreAlwaysBooked == Spec => []CountsAreBooked
<1>1. TypedInv /\ CountInv => CountsAreBooked
  <2> SUFFICES ASSUME TypedInv, CountInv, NEW o \in Orders
               PROVE  SumOver(got, Rows(o)) <= booked[o]
    BY DEF CountsAreBooked, Rows
  <2>1. Surplus(o) >= 0 /\ SumOver(got, Rows(o)) \in Int /\ booked[o] \in Nat
    BY SumsTyped, TypeParts DEF CountInv, TypedInv, RowTypeOK
  <2> QED
    BY <2>1 DEF Surplus
<1>2. TypedInv /\ RowInv /\ CountInv /\ [Next]_vars => CountInv'
  BY CountNext
<1> QED
  BY <1>1, <1>2, CountInit, PurchaseRows, PTL DEF Spec

------------------------------------------------------------------------------
(* Where clients take turns, the lines say what was booked. *)

(* Nothing is deleted there that has received anything, and a line a receipt *)
(* has found stays.                                                          *)
LiveInv ==
    /\ \A i \in Items : HomeOf(i) \in Careful /\ row[i] # "live" => got[i] = 0 /\ gotNew[i] = 0
    /\ \A w \in Workers :
         pc[w] = "count" /\ ref[w] \in Careful => row[Line(w).item] = "live"

(* Orders and receipts of Careful claim exactly that.                        *)
SameInv ==
    /\ LiveInv
    /\ \A o \in Careful : Surplus(o) = 0
    /\ \A w \in Workers : op[w] = "receive" /\ ref[w] \in Careful => Excess(w) = 0

(* What LiveInv needs of a step: committed lines that go had received        *)
(* nothing and nobody is about to count on them.                             *)
LEMMA LiveKept ==
    ASSUME LiveInv,
           \A i \in Items : HomeOf(i) \in Careful /\ row'[i] # "live" =>
             \/ got'[i] = 0 /\ gotNew'[i] = 0
             \/ row[i] # "live" /\ got'[i] \in {got[i], gotNew[i]}
                                /\ gotNew'[i] \in {got[i], gotNew[i]},
           \A w \in Workers : pc'[w] = "count" /\ ref'[w] \in Careful =>
             \/ row'[Line(w).item] = "live" /\ todo'[w] = todo[w]
             \/ /\ pc[w] = "count" /\ todo'[w] = todo[w] /\ ref'[w] = ref[w]
                /\ row'[Line(w).item] = row[Line(w).item]
    PROVE  LiveInv'
<1>1. \A w \in Workers : todo'[w] = todo[w] => Line(w)' = Line(w)
  BY DEF Line
<1>2. ASSUME NEW w \in Workers, pc'[w] = "count", ref'[w] \in Careful
      PROVE  row'[Line(w)'.item] = "live"
  BY <1>1, <1>2 DEF LiveInv
<1>3. ASSUME NEW i \in Items, HomeOf(i) \in Careful, row'[i] # "live"
      PROVE  got'[i] = 0 /\ gotNew'[i] = 0
  BY <1>3 DEF LiveInv
<1> QED
  BY <1>2, <1>3 DEF LiveInv, HomeOf

(* Every step keeps the lines that matter.                                   *)
LEMMA LiveNext ==
    ASSUME TypedInv, RowInv, TurnInv, LiveInv, [Next]_vars
    PROVE  LiveInv'
<1>1. WorkTypeOK /\ RowTypeOK /\ DeskInv
  BY TypeParts DEF TypedInv
<1>2. CASE UNCHANGED vars
  BY <1>2 DEF vars, stockVars, jobVars, purchaseVars, orderVars, lineVars, deskVars, LiveInv, Line
<1>3. ASSUME NEW f \in Forms, Create(f)
      PROVE  LiveInv'
  <2>1. /\ UNCHANGED <<pc, ref, todo, got, gotNew>>
        /\ \A i \in Items : row[i] = "live" => row'[i] = "live"
    BY <1>1, <1>3 DEF Create, stockVars, jobVars, deskVars
  <2>2. \A w \in Workers : pc[w] = "count" => Line(w).item \in Items
    BY <1>1, HeadLine DEF DeskInv
  <2> QED
    BY <2>1, <2>2 DEF LiveInv, Line
<1>4. ASSUME NEW w \in Workers, BeginRequest(w)
      PROVE  LiveInv'
  <2>1. /\ UNCHANGED <<row, got, gotNew>>
        /\ pc'[w] # "count"
        /\ \A v \in Workers \ {w} : pc'[v] = pc[v] /\ ref'[v] = ref[v] /\ todo'[v] = todo[v]
    BY <1>1, <1>4 DEF BeginRequest, BeginReceive, BeginEdit, BeginStatus, BeginRemove, Begin,
       StartJob, lineVars, WorkTypeOK
  <2> QED
    BY <2>1, LiveKept
<1>5. ASSUME NEW w \in Workers, FindLine(w)
      PROVE  LiveInv'
  <2>1. /\ UNCHANGED <<row, got, gotNew, ref, todo>>
        /\ row[Line(w).item] = "live"
        /\ \A v \in Workers \ {w} : pc'[v] = pc[v]
    BY <1>1, <1>5 DEF FindLine, Goto, purchaseVars, lineVars, deskVars, WorkTypeOK, Live
  <2> QED
    BY <2>1, LiveKept
<1>6. ASSUME NEW w \in Workers,
             LookUp(w) \/ ReceiveLine(w) \/ Evaluate(w) \/ LockOrder(w) \/ FindRows(w) \/ DeleteRow(w)
      PROVE  LiveInv'
  <2>1. UNCHANGED <<row, got, gotNew, ref>>
    BY <1>6 DEF LookUp, ReceiveLine, Evaluate, LockOrder, FindRows, DeleteRow, purchaseVars,
       lineVars, deskVars
  <2>2. /\ pc'[w] # "count"
        /\ \A v \in Workers \ {w} : pc'[v] = pc[v] /\ todo'[v] = todo[v]
    BY <1>1, <1>6 DEF LookUp, FindLevel, ReceiveLine, UpdateLevel, InsertLevel, Evaluate, LockOrder,
       FindRows, DeleteRow, Goto, purchaseVars, deskVars, stockVars, jobVars, WorkTypeOK
  <2> QED
    BY <2>1, <2>2, LiveKept
<1>7. ASSUME NEW w \in Workers, CountLine(w)
      PROVE  LiveInv'
  <2>1. UNCHANGED <<row, got, ref, todo>>
    BY <1>7 DEF CountLine, deskVars
  <2>2. pc'[w] # "count" /\ \A v \in Workers \ {w} : pc'[v] = pc[v]
    BY <1>1, <1>7 DEF CountLine, WorkTypeOK
  <2>3. \A i \in Items : row[i] # "live" => gotNew'[i] = gotNew[i]
    BY <1>1, <1>7 DEF CountLine, RowTypeOK
  <2> QED
    BY <2>1, <2>2, <2>3, LiveKept
<1>8. ASSUME NEW w \in Workers, Rollback(w) \/ WriteStatus(w) \/ Rewrite(w) \/ FinishRemove(w)
      PROVE  LiveInv'
  <2>1. Rollback(w) \/ Commit(w)
    BY <1>8 DEF WriteStatus, Rewrite, FinishRemove
  <2>2. /\ pc'[w] # "count"
        /\ \A v \in Workers \ {w} : pc'[v] = pc[v] /\ ref'[v] = ref[v] /\ todo'[v] = todo[v]
    BY <1>1, <2>1 DEF Rollback, Commit, EndJob, LeaveDesk, WorkTypeOK
  <2>3. \A i \in Items : got'[i] \in {got[i], gotNew[i]} /\ gotNew'[i] \in {got[i], gotNew[i]}
    BY <1>1, <2>1 DEF Rollback, Commit, RowTypeOK
  <2>4. ASSUME NEW i \in Items, row[i] = "live", row'[i] # "live"
        PROVE  /\ itemLock[i] = w /\ pc[w] = "delete" /\ op[w] \in {"edit", "remove"}
               /\ ref[w] = HomeOf(i) /\ gotNew[i] = got[i]
    <3>1. /\ Rewrite(w) \/ FinishRemove(w)
          /\ itemLock[i] = w /\ pc[w] = "delete" /\ op[w] \in {"edit", "remove"}
      BY <1>8, <2>4 DEF Rollback, WriteStatus, Rewrite, FinishRemove, AfterDelete, RowsTaken
    <3> QED
      BY <3>1 DEF RowInv
  <2>5. ASSUME NEW i \in Items, HomeOf(i) \in Careful, row[i] = "live", row'[i] # "live"
        PROVE  got'[i] = 0 /\ gotNew'[i] = 0
    <3>1. status[HomeOf(i)] = "DRAFT"
      BY <2>4, <2>5 DEF TurnInv, WorkerInv
    <3>2. got[i] = 0
      BY <2>5, <3>1 DEF TurnInv, OrderInv
    <3> QED
      BY <2>3, <2>4, <2>5, <3>2
  <2>6. ASSUME NEW v \in Workers, pc'[v] = "count", ref'[v] \in Careful
        PROVE  /\ pc[v] = "count" /\ todo'[v] = todo[v] /\ ref'[v] = ref[v]
               /\ row'[Line(v).item] = "live"
    <3>1. v # w /\ pc[v] = "count" /\ todo'[v] = todo[v] /\ ref'[v] = ref[v]
      BY <2>2, <2>6
    <3>2. PICK i \in Items : i = Line(v).item
      BY <1>1, <3>1, HeadLine DEF DeskInv
    <3>3. HomeOf(i) = ref[v] /\ row[i] = "live"
      BY <2>6, <3>1, <3>2 DEF RowInv, LiveInv
    <3>4. ref[w] # HomeOf(i)
      BY <2>6, <3>1, <3>3 DEF TurnInv
    <3> QED
      BY <2>4, <3>1, <3>2, <3>3, <3>4
  <2> QED
    BY <2>3, <2>5, <2>6, LiveKept
<1> QED
  BY <1>2, <1>3, <1>4, <1>5, <1>6, <1>7, <1>8
     DEF Next, Step, LineNotFound, ReceiveDuplicate, RewriteOrphan, DetectDeadlock, Fail

(* Nothing is counted and nothing is booked at the start.                    *)
LEMMA SameInit == Init => SameInv
<1> SUFFICES ASSUME Init PROVE SameInv
  OBVIOUS
<1>1. ASSUME NEW o \in Careful
      PROVE  Surplus(o) = 0
  <2>1. booked[o] = 0 /\ IsFiniteSet(Rows(o)) /\ \A i \in Rows(o) : got[i] = 0
    BY CarefulAssumption, RowsAssumption, FS_Subset DEF Init, Rows
  <2>2. SumOver(got, Rows(o)) = 0
    BY <2>1, SumOfZeros
  <2> QED
    BY <2>1, <2>2 DEF Surplus
<1> QED
  BY <1>1 DEF SameInv, LiveInv, Init, StockInit

(* Every step keeps the lines equal to what is booked.                       *)
LEMMA SameNext ==
    ASSUME TypedInv, RowInv, TurnInv, SameInv, [Next]_vars
    PROVE  SameInv'
<1>1. Settled
  BY EveryStepSettles
<1>2. LiveInv'
  BY LiveNext DEF SameInv
<1>3. ASSUME NEW o \in Careful
      PROVE  Surplus(o)' = 0
  <2>1. o \in Orders /\ Surplus(o) = 0
    BY CarefulAssumption DEF SameInv
  <2> QED
    BY <1>1, <2>1 DEF Settled, OrderSettled, SameInv
<1>4. ASSUME NEW w \in Workers, op'[w] = "receive", ref'[w] \in Careful
      PROVE  Excess(w)' = 0
  BY <1>1, <1>4 DEF Settled, ReceiptSettled, SameInv, LiveInv
<1> QED
  BY <1>2, <1>3, <1>4 DEF SameInv

(* The lines of an order whose clients take turns say what its RECEIPT rows  *)
(* say: no count is lost to an edit or a rollback, for any orders, forms,    *)
(* scans and workers.                                                        *)
THEOREM LinesAlwaysMatch == Spec => []LinesMatchReceipts
<1>1. TypedInv /\ SameInv => LinesMatchReceipts
  <2> SUFFICES ASSUME TypedInv, SameInv, NEW o \in Careful
               PROVE  booked[o] = SumOver(got, Live(o))
    BY DEF LinesMatchReceipts
  <2>1. /\ o \in Orders /\ booked[o] \in Nat /\ SumOver(got, Rows(o)) \in Int
        /\ IsFiniteSet(Rows(o)) /\ \A i \in Items : got[i] \in Int
    BY CarefulAssumption, SumsTyped, TypeParts DEF TypedInv, RowTypeOK
  <2>2. booked[o] = SumOver(got, Rows(o))
    BY <2>1 DEF SameInv, Surplus
  <2>3. SumOver(got, Rows(o)) = SumOver(got, Live(o))
    <3>1. /\ Live(o) \in SUBSET Rows(o)
          /\ \A i \in Rows(o) : got[i] \in Int
          /\ \A i \in Rows(o) \ Live(o) : got[i] = 0
      BY <2>1 DEF SameInv, LiveInv, Live, Rows
    <3> HIDE DEF Rows, Live
    <3> QED
      BY <2>1, <3>1, SumDropsZeros
  <2> QED
    BY <2>2, <2>3
<1>2. TypedInv /\ RowInv /\ TurnInv /\ SameInv /\ [Next]_vars => SameInv'
  BY SameNext
<1> QED
  BY <1>1, <1>2, SameInit, PurchaseRows, PurchaseTurns, PTL DEF Spec
==============================================================================
