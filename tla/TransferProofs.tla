---------------------------- MODULE TransferProofs ----------------------------
(****************************************************************************)
(* Theorems about Transfer, for any number of workers, transfers, items and *)
(* levels and whatever lines the clients send.                              *)
(****************************************************************************)
EXTENDS Transfer, InventoryProofs

(* The operations that walk lines, and those that serve a transfer.          *)
Walking(w) == op[w] \in {"dispatch", "receive"}
Serving(w) == op[w] \in {"dispatch", "receive", "cancel", "reject"}

(* A worker inside the loop body has a current line, and a worker that       *)
(* serves a transfer knows which.                                            *)
WalkInv ==
    \A w \in Workers :
        /\ Serving(w) => ref[w] \in Transfers
        /\ pc[w] \in {"check", "find", "update", "insert"} /\ Walking(w)
               => todo[w] # <<>>
        /\ pc[w] \in {"line", "check"} => Walking(w)

(* The inductive type invariant.                                             *)
TypedInv == TransferTypeOK /\ StoreInv /\ WalkInv

(* The types of what this module adds to a worker and to the tables.         *)
WalkTypeOK ==
    /\ pc \in [Workers -> Labels]
    /\ op \in [Workers -> Operations]
    /\ key \in [Workers -> Keys \cup {NoKey}]
    /\ change \in [Workers -> Int]
    /\ requests \in Nat
    /\ ref \in [Workers -> Transfers \cup {NoTransfer}]
    /\ todo \in [Workers -> Seq(Lines)]
    /\ moved \in [Workers -> Nat]

(* The types of the manifest.                                                *)
ItemTypeOK ==
    /\ item \in [Items -> Counts]
    /\ itemNew \in [Items -> Counts]
    /\ itemLock \in [Items -> Workers \cup {NoWorker}]

(* The types of what became of a transfer.                                   *)
OutcomeTypeOK ==
    /\ status \in [Transfers -> Statuses]
    /\ dispatched_at \in [Transfers -> BOOLEAN]
    /\ shipped \in [Transfers -> Nat]
    /\ arrived \in [Transfers -> Nat]

(* The types of what the clients did.                                        *)
ClientTypeOK == overlapped \subseteq Transfers /\ repeated \subseteq Transfers

(* TransferTypeOK falls into parts that different actions disturb.           *)
LEMMA TypeParts ==
    TransferTypeOK /\ StoreInv
        <=> WalkTypeOK /\ ItemTypeOK /\ OutcomeTypeOK /\ ClientTypeOK /\ StoreInv
BY DEF TransferTypeOK, StockTypeOK, StoreInv, StoreTypeOK, WalkTypeOK, ItemTypeOK,
       OutcomeTypeOK, ClientTypeOK

------------------------------------------------------------------------------
(* The effect of the steps on the store. *)

(* Every step of TransferService, too, touches the store in one of the four  *)
(* ways of StoreEffect.                                                      *)
LEMMA TransferEffect ==
    ASSUME [Next]_vars
    PROVE  StoreEffect
<1> USE DEF StoreEffect
<1>1. CASE UNCHANGED vars
  BY <1>1 DEF vars, stockVars
<1>2. ASSUME NEW t \in Transfers, Create(t)
      PROVE  StoreEffect
  BY <1>2 DEF Create, stockVars
<1>3. ASSUME NEW w \in Workers, BeginRequest(w)
      PROVE  StoreEffect
  BY <1>3 DEF BeginRequest, BeginAdjust, BeginDispatch, BeginReceive, BeginCancel,
              BeginReject, Begin
<1>4. ASSUME NEW w \in Workers, Step(w)
      PROVE  StoreEffect
  <2>1. CASE AdjustStep(w)
    BY <2>1 DEF AdjustStep, StockStep, FindLevel, UpdateLevel, InsertLevel,
                DuplicateLevel, FinishAdjust
  <2>2. CASE LineNotFound(w) \/ InsufficientStock(w)
    BY <2>2 DEF LineNotFound, InsufficientStock, Rollback
  <2>3. CASE SkipLine(w) \/ TakeLine(w) \/ FindSource(w)
    BY <2>3 DEF SkipLine, TakeLine, FindSource, stockVars
  <2>4. CASE MoveLine(w) \/ ReceiveNewProduct(w)
    BY <2>4 DEF MoveLine, ReceiveNewProduct, UpdateLevel, InsertLevel
  <2>5. CASE ReceiveDuplicate(w)
    BY <2>5 DEF ReceiveDuplicate, DuplicateLevel
  <2>6. CASE FinishDispatch(w) \/ FinishReceive(w)
    BY <2>6 DEF FinishDispatch, FinishReceive, Commit
  <2>7. CASE FinishCancel(w) \/ FinishReject(w)
    BY <2>7 DEF FinishCancel, FinishReject, Flag
  <2> QED
    BY <1>4, <2>1, <2>2, <2>3, <2>4, <2>5, <2>6, <2>7 DEF Step
<1>5. ASSUME NEW w \in Workers, DetectDeadlock(w) \/ Fail(w)
      PROVE  StoreEffect
  BY <1>5 DEF DetectDeadlock, Fail, Rollback
<1> QED
  BY <1>1, <1>2, <1>3, <1>4, <1>5 DEF Next

------------------------------------------------------------------------------
(* Types. *)

(* The line a worker stands at, and what is left after it.                   *)
LEMMA HeadLine ==
    ASSUME WalkTypeOK, NEW w \in Workers, todo[w] # <<>>
    PROVE  /\ Line(w).item \in Items
           /\ Line(w).qty \in Nat
           /\ Tail(todo[w]) \in Seq(Lines)
<1>1. todo[w] \in Seq(Lines) /\ todo[w] # <<>>
  BY DEF WalkTypeOK
<1>2. Head(todo[w]) \in Lines /\ Tail(todo[w]) \in Seq(Lines)
  BY <1>1
<1> QED
  BY <1>2 DEF Line, Lines

(* A transaction that is undone leaves well-typed rows and workers.          *)
LEMMA RollbackTyped ==
    ASSUME WalkTypeOK, ItemTypeOK, OutcomeTypeOK, WalkInv, NEW w \in Workers,
           EndJob(w), EndWalk(w), RollbackItems(w) \/ CommitItems(w)
    PROVE  WalkTypeOK' /\ ItemTypeOK' /\ WalkInv'
<1>1. WalkTypeOK'
  BY DEF WalkTypeOK, EndJob, EndWalk, Labels, Operations
<1>2. ItemTypeOK'
  BY DEF ItemTypeOK, RollbackItems, CommitItems, UnlockItems
<1>3. WalkInv'
  BY <1>1 DEF WalkTypeOK, EndJob, EndWalk, WalkInv, Walking, Serving
<1> QED
  BY <1>1, <1>2, <1>3

(* The opening state is well typed.                                          *)
LEMMA TypedInit == Init => TypedInv
<1> SUFFICES ASSUME Init PROVE TypedInv
  OBVIOUS
<1>1. StoreInv
  BY StoreInit DEF Init
<1>2. WalkTypeOK /\ WalkInv
  BY DEF Init, StockInit, WalkTypeOK, WalkInv, Walking, Serving, Labels, Operations
<1>3. ItemTypeOK /\ OutcomeTypeOK /\ ClientTypeOK
  BY DEF Init, ItemTypeOK, OutcomeTypeOK, ClientTypeOK, Counts, Nothing, Statuses
<1> QED
  BY <1>1, <1>2, <1>3, TypeParts DEF TypedInv

(* Every step of a worker keeps the types, one operation after the other.    *)
LEMMA TypedStep ==
    ASSUME WalkTypeOK, ItemTypeOK, OutcomeTypeOK, WalkInv, NEW w \in Workers, Step(w)
    PROVE  WalkTypeOK' /\ ItemTypeOK' /\ OutcomeTypeOK' /\ WalkInv'
<1> DEFINE Typed == WalkTypeOK /\ ItemTypeOK /\ OutcomeTypeOK /\ WalkInv
<1>1. CASE AdjustStep(w)
  <2>1. ItemTypeOK' /\ OutcomeTypeOK'
    BY <1>1 DEF AdjustStep, transferVars, manifestVars, outcomeVars, ItemTypeOK, OutcomeTypeOK
  <2>2. UNCHANGED <<ref, todo, moved>>
    BY <1>1 DEF AdjustStep, transferVars, walkVars
  <2> SUFFICES WalkTypeOK' /\ WalkInv'
    BY <2>1
  <2>3. CASE op[w] = "adjust" /\ StockStep(w)
    <3>1. CASE EndJob(w)
      BY <2>2, <3>1 DEF EndJob, WalkTypeOK, WalkInv, Walking, Serving, Labels, Operations
    <3>2. CASE Goto(w, "commit")
      BY <2>2, <3>2 DEF Goto, WalkTypeOK, WalkInv, Walking, Serving, Labels
    <3>3. CASE FindLevel(w)
      BY <2>2, <2>3, <3>3 DEF FindLevel, Goto, WalkTypeOK, WalkInv, Walking, Serving, Labels
    <3> QED
      BY <2>3, <3>1, <3>2, <3>3
         DEF StockStep, UpdateLevel, InsertLevel, DuplicateLevel, FinishAdjust
  <2>4. CASE op[w] = "receive" /\ FindLevel(w)
    <3>1. WalkTypeOK'
      BY <2>2, <2>4 DEF FindLevel, Goto, WalkTypeOK, Labels
    <3>2. WalkInv'
      BY <2>2, <2>4 DEF FindLevel, Goto, WalkTypeOK, WalkInv, Walking, Serving
    <3> QED
      BY <3>1, <3>2
  <2> QED
    BY <1>1, <2>1, <2>3, <2>4 DEF AdjustStep
<1>2. CASE LineNotFound(w) \/ InsufficientStock(w) \/ ReceiveDuplicate(w)
  BY <1>2, RollbackTyped
     DEF LineNotFound, InsufficientStock, ReceiveDuplicate, DuplicateLevel, Rollback,
         outcomeVars, OutcomeTypeOK
<1>3. CASE SkipLine(w)
  <2>1. UNCHANGED <<pc, op, key, change, requests, ref, moved>>
    BY <1>3 DEF SkipLine, stockVars, jobVars
  <2>2. todo[w] # <<>> /\ pc[w] = "line" /\ todo' = [todo EXCEPT ![w] = Tail(@)]
    BY <1>3 DEF SkipLine, AtLine
  <2>3. WalkTypeOK' /\ WalkInv'
    BY <2>1, <2>2, HeadLine DEF WalkTypeOK, WalkInv, Walking, Serving
  <2> QED
    BY <1>3, <2>3 DEF SkipLine, manifestVars, outcomeVars, ItemTypeOK, OutcomeTypeOK
<1>4. CASE TakeLine(w)
  <2>1. todo[w] # <<>> /\ pc[w] = "line" /\ Walking(w) /\ ref[w] \in Transfers
    BY <1>4 DEF TakeLine, AtLine, WalkInv, Walking, Serving
  <2>2. Line(w).item \in Items /\ Line(w).qty \in Nat
    BY <2>1, HeadLine
  <2>3. ItemTypeOK'
    <3>1. \A row \in Counts : Counted(w, row) \in Counts
      BY <2>2 DEF Counted, Counts
    <3> QED
      BY <1>4, <2>2, <3>1 DEF TakeLine, ItemTypeOK
  <2>4. OutcomeTypeOK' /\ UNCHANGED <<op, requests, ref, todo, moved>>
    BY <1>4 DEF TakeLine, outcomeVars, walkVars, OutcomeTypeOK
  <2>5. /\ <<SourceOf[ref[w]], ProductOf[Line(w).item]>> \in Keys
        /\ <<DestOf[ref[w]], ProductOf[Line(w).item]>> \in Keys
    BY <2>1, <2>2, TransferAssumption DEF Keys
  <2>6. /\ pc' \in [Workers -> Labels]
        /\ key' \in [Workers -> Keys \cup {NoKey}]
        /\ change' \in [Workers -> Int]
    <3>1. -Line(w).qty \in Int /\ Line(w).qty \in Int
      BY <2>2
    <3>2. CASE op[w] = "dispatch"
      BY <1>4, <2>5, <3>1, <3>2 DEF TakeLine, WalkTypeOK, Labels
    <3>3. CASE op[w] # "dispatch"
      BY <1>4, <2>5, <3>1, <3>3 DEF TakeLine, WalkTypeOK, Labels
    <3> QED
      BY <3>2, <3>3
  <2>7. \A v \in Workers : pc'[v] = pc[v] \/ v = w
    BY <1>4 DEF TakeLine, WalkTypeOK
  <2>8. pc'[w] \in {"check", "find"}
    BY <1>4 DEF TakeLine, WalkTypeOK
  <2>9. WalkInv'
    BY <2>1, <2>4, <2>7, <2>8 DEF WalkInv, Walking, Serving
  <2> QED
    BY <2>3, <2>4, <2>6, <2>9 DEF WalkTypeOK
<1>5. CASE FindSource(w)
  BY <1>5 DEF FindSource, Goto, transferVars, manifestVars, outcomeVars, walkVars,
     WalkTypeOK, ItemTypeOK, OutcomeTypeOK, WalkInv, Walking, Serving, Labels
<1>6. CASE MoveLine(w) \/ ReceiveNewProduct(w)
  <2>1. Goto(w, "line") /\ NextLine(w) /\ pc[w] \in {"update", "insert"}
    BY <1>6 DEF MoveLine, ReceiveNewProduct, UpdateLevel, InsertLevel
  <2>2. todo[w] # <<>> /\ Walking(w)
    BY <2>1 DEF NextLine, WalkInv, Walking
  <2>3. Line(w).qty \in Nat /\ Tail(todo[w]) \in Seq(Lines)
    BY <2>2, HeadLine
  <2>4. moved' \in [Workers -> Nat]
    <3>1. moved[w] + Line(w).qty \in Nat
      BY <2>3 DEF WalkTypeOK
    <3> QED
      BY <2>1, <3>1 DEF NextLine, WalkTypeOK
  <2>5. WalkTypeOK'
    BY <2>1, <2>3, <2>4 DEF NextLine, Goto, WalkTypeOK, Labels
  <2>6. WalkInv'
    BY <2>1, <2>2 DEF NextLine, Goto, WalkTypeOK, WalkInv, Walking, Serving
  <2>7. ItemTypeOK' /\ OutcomeTypeOK'
    BY <2>1 DEF NextLine, manifestVars, outcomeVars, ItemTypeOK, OutcomeTypeOK
  <2> QED
    BY <2>5, <2>6, <2>7
<1>7. CASE FinishDispatch(w) \/ FinishReceive(w)
  <2>1. WalkTypeOK' /\ ItemTypeOK' /\ WalkInv'
    BY <1>7, RollbackTyped DEF FinishDispatch, FinishReceive, Commit
  <2>2. \A t \in Transfers : shipped[t] + moved[w] \in Nat /\ arrived[t] + moved[w] \in Nat
    BY DEF WalkTypeOK, OutcomeTypeOK
  <2>3. OutcomeTypeOK'
    <3>1. CASE FinishDispatch(w)
      BY <2>2, <3>1 DEF FinishDispatch, SetStatus, OutcomeTypeOK, Statuses
    <3>2. CASE FinishReceive(w)
      BY <2>2, <3>2 DEF FinishReceive, SetStatus, OutcomeTypeOK, Statuses
    <3> QED
      BY <1>7, <3>1, <3>2
  <2> QED
    BY <2>1, <2>3
<1>8. CASE FinishCancel(w) \/ FinishReject(w)
  <2>1. EndJob(w) /\ EndWalk(w) /\ UNCHANGED <<manifestVars, dispatched_at, shipped, arrived>>
    BY <1>8 DEF FinishCancel, FinishReject, Flag
  <2>2. WalkTypeOK' /\ WalkInv'
    BY <2>1 DEF WalkTypeOK, EndJob, EndWalk, WalkInv, Walking, Serving, Labels, Operations
  <2>3. ItemTypeOK' /\ OutcomeTypeOK'
    BY <1>8, <2>1 DEF FinishCancel, FinishReject, Flag, SetStatus, manifestVars,
       ItemTypeOK, OutcomeTypeOK, Statuses
  <2> QED
    BY <2>2, <2>3
<1> QED
  BY <1>1, <1>2, <1>3, <1>4, <1>5, <1>6, <1>7, <1>8 DEF Step

(* A request that enters service knows its transfer and starts its walk.      *)
LEMMA TypedBegin ==
    ASSUME WalkTypeOK, ItemTypeOK, OutcomeTypeOK, WalkInv, NEW w \in Workers, BeginRequest(w)
    PROVE  WalkTypeOK' /\ ItemTypeOK' /\ OutcomeTypeOK' /\ WalkInv'
<1>1. CASE BeginAdjust(w) /\ UNCHANGED transferVars
  <2>1. ItemTypeOK' /\ OutcomeTypeOK' /\ UNCHANGED <<ref, todo, moved>>
    BY <1>1 DEF transferVars, manifestVars, outcomeVars, walkVars, ItemTypeOK, OutcomeTypeOK
  <2>2. PICK k \in Keys, c \in Adjustments :
          /\ StartJob(w, "find", "adjust")
          /\ key' = [key EXCEPT ![w] = k]
          /\ change' = [change EXCEPT ![w] = c]
    BY <1>1 DEF BeginAdjust
  <2>3. c \in Int
    BY AdjustmentAssumption
  <2>4. WalkTypeOK'
    BY <2>1, <2>2, <2>3 DEF StartJob, WalkTypeOK, Labels, Operations
  <2>5. WalkInv'
    BY <2>1, <2>2 DEF StartJob, WalkTypeOK, WalkInv, Walking, Serving
  <2> QED
    BY <2>1, <2>4, <2>5
<1>2. ASSUME NEW t \in Transfers, NEW name, NEW from, NEW label, NEW scan \in Seq(Lines),
             Begin(w, t, name, from, label, scan),
             \/ name \in {"dispatch", "receive"} /\ label = "line"
             \/ name \in {"cancel", "reject"} /\ label = "flag"
      PROVE  WalkTypeOK' /\ ItemTypeOK' /\ OutcomeTypeOK' /\ WalkInv'
  <2>1. ItemTypeOK' /\ OutcomeTypeOK'
    BY <1>2 DEF Begin, manifestVars, outcomeVars, ItemTypeOK, OutcomeTypeOK
  <2>2. WalkTypeOK'
    BY <1>2 DEF Begin, StartJob, WalkTypeOK, Labels, Operations
  <2>3. WalkInv'
    BY <1>2 DEF Begin, StartJob, WalkTypeOK, WalkInv, Walking, Serving
  <2> QED
    BY <2>1, <2>2, <2>3
<1>3. <<>> \in Seq(Lines) /\ Scans \subseteq Seq(Lines)
  BY ScanAssumption
<1> QED
  BY <1>1, <1>2, <1>3
     DEF BeginRequest, BeginDispatch, BeginReceive, BeginCancel, BeginReject

(* Only a request that enters service adds to what the clients did.          *)
LEMMA OnlyBeginRemembers ==
    ASSUME [Next]_vars
    PROVE  \/ UNCHANGED clientVars
           \/ \E w \in Workers : BeginRequest(w)
<1>1. CASE UNCHANGED vars
  BY <1>1 DEF vars, transferVars
<1>2. ASSUME NEW t \in Transfers, Create(t)
      PROVE  UNCHANGED clientVars
  BY <1>2 DEF Create
<1>3. ASSUME NEW w \in Workers, Step(w) \/ DetectDeadlock(w) \/ Fail(w)
      PROVE  UNCHANGED clientVars
  BY <1>3 DEF Step, DetectDeadlock, Fail, Rollback, AdjustStep, LineNotFound, SkipLine, TakeLine,
     FindSource, InsufficientStock, MoveLine, ReceiveNewProduct, NextLine, ReceiveDuplicate,
     FinishDispatch, FinishReceive, FinishCancel, FinishReject, Flag, transferVars
<1> QED
  BY <1>1, <1>2, <1>3 DEF Next

(* It adds the transfer it is for, or nothing.                               *)
LEMMA BeginRemembers ==
    ASSUME NEW w \in Workers, BeginRequest(w)
    PROVE  \/ UNCHANGED clientVars
           \/ \E t \in Transfers, scan \in Scans \cup {<<>>} :
                /\ ref' = [ref EXCEPT ![w] = t]
                /\ todo' = [todo EXCEPT ![w] = scan]
                /\ Remember(t, scan)
<1>1. CASE BeginAdjust(w) /\ UNCHANGED transferVars
  BY <1>1 DEF transferVars
<1>2. ASSUME NEW t \in Transfers, BeginDispatch(w, t) \/ BeginReceive(w, t)
      PROVE  \E scan \in Scans \cup {<<>>} :
                /\ ref' = [ref EXCEPT ![w] = t]
                /\ todo' = [todo EXCEPT ![w] = scan]
                /\ Remember(t, scan)
  BY <1>2 DEF BeginDispatch, BeginReceive, Begin
<1>3. ASSUME NEW t \in Transfers, BeginCancel(w, t) \/ BeginReject(w, t)
      PROVE  \E scan \in Scans \cup {<<>>} :
                /\ ref' = [ref EXCEPT ![w] = t]
                /\ todo' = [todo EXCEPT ![w] = scan]
                /\ Remember(t, scan)
  BY <1>3 DEF BeginCancel, BeginReject, Begin
<1> QED
  BY <1>1, <1>2, <1>3 DEF BeginRequest

(* Both histories only grow.                                                 *)
LEMMA HistoryGrows ==
    ASSUME [Next]_vars
    PROVE  overlapped \subseteq overlapped' /\ repeated \subseteq repeated'
BY OnlyBeginRemembers, BeginRemembers DEF clientVars, Remember

(* Every step keeps the typed invariant.                                     *)
LEMMA TypedNext == TypedInv /\ [Next]_vars => TypedInv'
<1> SUFFICES ASSUME TypedInv, [Next]_vars PROVE TypedInv'
  OBVIOUS
<1>1. WalkTypeOK /\ ItemTypeOK /\ OutcomeTypeOK /\ WalkInv
  BY TypeParts DEF TypedInv
<1>2. StoreInv'
  BY TransferEffect, EffectKeepsStore DEF TypedInv, TransferTypeOK
<1>3. WalkTypeOK' /\ ItemTypeOK' /\ OutcomeTypeOK' /\ WalkInv'
  <2>1. CASE UNCHANGED vars
    BY <1>1, <2>1 DEF vars, stockVars, jobVars, transferVars, manifestVars, outcomeVars,
       walkVars, WalkTypeOK, ItemTypeOK, OutcomeTypeOK, WalkInv, Walking, Serving
  <2>2. ASSUME NEW t \in Transfers, Create(t)
        PROVE  WalkTypeOK' /\ ItemTypeOK' /\ OutcomeTypeOK' /\ WalkInv'
    BY <1>1, <2>2 DEF Create, stockVars, jobVars, manifestVars, walkVars, WalkTypeOK,
       ItemTypeOK, OutcomeTypeOK, WalkInv, Walking, Serving, Statuses
  <2>3. ASSUME NEW w \in Workers, DetectDeadlock(w) \/ Fail(w)
        PROVE  WalkTypeOK' /\ ItemTypeOK' /\ OutcomeTypeOK' /\ WalkInv'
    BY <1>1, <2>3, RollbackTyped DEF DetectDeadlock, Fail, Rollback, outcomeVars, OutcomeTypeOK
  <2> QED
    BY <1>1, <2>1, <2>2, <2>3, TypedBegin, TypedStep DEF Next
<1>4. ClientTypeOK'
  <2>1. ClientTypeOK
    BY TypeParts DEF TypedInv
  <2> QED
    BY <2>1, OnlyBeginRemembers, BeginRemembers DEF ClientTypeOK, clientVars, Remember
<1> QED
  BY <1>2, <1>3, <1>4 DEF TypedInv, TransferTypeOK, StockTypeOK, StoreInv, StoreTypeOK,
     WalkTypeOK, ItemTypeOK, OutcomeTypeOK, ClientTypeOK

(* Every variable stays in its type, the store is consistent and the workers *)
(* inside a loop have a line to work on.                                     *)
LEMMA TransferInv == Spec => []TypedInv
BY TypedInit, TypedNext, PTL DEF Spec

(* The types of all variables, for any sets of transfers and workers.        *)
THEOREM TransferTyped == Spec => []TransferTypeOK
<1>1. TypedInv => TransferTypeOK
  BY DEF TypedInv
<1> QED
  BY <1>1, TransferInv, PTL

(* Levels and ledger agree with transfers and adjustments running together.  *)
THEOREM TransferMatchesLedger == Spec => []StockMatchesLedger
<1>1. TypedInv => StockMatchesLedger
  BY DEF TypedInv, StoreInv, Balanced
<1> QED
  BY <1>1, TransferInv, PTL

(* Transfers and adjustments together implement the book.                    *)
THEOREM TransferKeepsBook == Spec => StockBookKept
<1>1. Init => Book!Init
  BY StoreInit DEF Init
<1>2. TypedInv /\ [Next]_vars => [Book!Post]_(Book!bookVars)
  BY TransferEffect, EffectKeepsStore DEF TypedInv, TransferTypeOK, BookStep
<1> QED
  BY <1>1, <1>2, TransferInv, PTL DEF Spec, StockBookKept, Book!Spec

------------------------------------------------------------------------------
(* What a transfer's status says of its past, whatever the clients overlap.  *)

(* An open transaction only writes items of the transfer it serves, and a    *)
(* worker that found the transfer IN_TRANSIT came after a dispatch.          *)
HistoryInv ==
    /\ \A w \in Workers : pc[w] = "idle" => op[w] = "none"
    /\ \A i \in Items, w \in Workers :
         itemLock[i] = w => Walking(w) /\ ref[w] = TransferOf[i]
    /\ \A w \in Workers : op[w] \in {"receive", "reject"} => dispatched_at[ref[w]]
    /\ PendingUntouched
    /\ ReceivedOnlyAfterDispatch

(* No transfer has a history at the start.                                   *)
LEMMA HistoryInit == Init => HistoryInv
<1> SUFFICES ASSUME Init PROVE HistoryInv
  OBVIOUS
<1>1. /\ \A w \in Workers : op[w] = "none" /\ w # NoWorker
      /\ \A i \in Items : itemLock[i] = NoWorker /\ item[i] = Nothing
      /\ \A t \in Transfers : status[t] = "ABSENT" /\ shipped[t] = 0 /\ arrived[t] = 0
  BY WorkerAssumption DEF Init, StockInit
<1> QED
  BY <1>1 DEF HistoryInv, PendingUntouched, ReceivedOnlyAfterDispatch

(* A statement between the first and the last of a request, or a request     *)
(* that ends without having touched an item.                                 *)
LEMMA QuietHistory ==
    ASSUME TypedInv, HistoryInv, NEW w \in Workers,
           UNCHANGED <<item, itemLock, outcomeVars, ref>>,
           \/ UNCHANGED op /\ \A v \in Workers : pc'[v] = "idle" => pc[v] = "idle"
           \/ ~Walking(w) /\ EndJob(w)
    PROVE  HistoryInv'
<1>1. PendingUntouched' /\ ReceivedOnlyAfterDispatch'
  BY DEF HistoryInv, PendingUntouched, ReceivedOnlyAfterDispatch, outcomeVars
<1>2. CASE UNCHANGED op /\ \A v \in Workers : pc'[v] = "idle" => pc[v] = "idle"
  BY <1>1, <1>2 DEF HistoryInv, Walking, outcomeVars
<1>3. CASE ~Walking(w) /\ EndJob(w)
  <2>1. /\ \A v \in Workers \ {w} : pc'[v] = pc[v] /\ op'[v] = op[v]
        /\ op'[w] = "none"
    BY <1>3 DEF EndJob, TypedInv, TransferTypeOK
  <2> QED
    BY <1>1, <1>3, <2>1 DEF HistoryInv, Walking, outcomeVars
<1> QED
  BY <1>2, <1>3

(* A transaction that is undone leaves no trace in the history of a transfer. *)
LEMMA RollbackHistory ==
    ASSUME TypedInv, HistoryInv, NEW w \in Workers,
           EndJob(w), EndWalk(w), RollbackItems(w), UNCHANGED outcomeVars
    PROVE  HistoryInv'
<1>1. /\ \A v \in Workers \ {w} : pc'[v] = pc[v] /\ op'[v] = op[v] /\ ref'[v] = ref[v]
      /\ op'[w] = "none"
  BY DEF EndJob, EndWalk, TypedInv, TransferTypeOK
<1>2. \A i \in Items, v \in Workers : itemLock'[i] = v => itemLock[i] = v /\ v # w
  BY WorkerAssumption DEF RollbackItems, UnlockItems
<1>3. PendingUntouched' /\ ReceivedOnlyAfterDispatch'
  BY DEF HistoryInv, PendingUntouched, ReceivedOnlyAfterDispatch, outcomeVars, RollbackItems
<1> QED
  BY <1>1, <1>2, <1>3 DEF HistoryInv, Walking, outcomeVars

(* The commits of dispatch and receive: the items written are those of the   *)
(* transfer whose status leaves PENDING.                                     *)
LEMMA CommitHistory ==
    ASSUME TypedInv, HistoryInv, NEW w \in Workers, FinishDispatch(w) \/ FinishReceive(w)
    PROVE  HistoryInv'
<1> DEFINE t == ref[w]
<1>1. t \in Transfers /\ Walking(w)
  BY DEF FinishDispatch, FinishReceive, AtEnd, Walking, Serving, TypedInv, WalkInv
<1>2. /\ \A v \in Workers \ {w} : pc'[v] = pc[v] /\ op'[v] = op[v] /\ ref'[v] = ref[v]
      /\ op'[w] = "none"
  BY DEF FinishDispatch, FinishReceive, Commit, EndJob, EndWalk, TypedInv, TransferTypeOK
<1>3. \A i \in Items, v \in Workers : itemLock'[i] = v => itemLock[i] = v /\ v # w
  BY WorkerAssumption
     DEF FinishDispatch, FinishReceive, Commit, CommitItems, UnlockItems
<1>4. \A i \in Items : TransferOf[i] # t => item'[i] = item[i]
  BY DEF FinishDispatch, FinishReceive, Commit, CommitItems, HistoryInv
<1>5. /\ status'[t] \in {"IN_TRANSIT", "COMPLETED"}
      /\ \A u \in Transfers \ {t} : /\ status'[u] = status[u]
                                   /\ shipped'[u] = shipped[u]
                                   /\ arrived'[u] = arrived[u]
  BY <1>1 DEF FinishDispatch, FinishReceive, SetStatus, TypedInv, TransferTypeOK
<1>6. /\ dispatched_at'[t]
      /\ \A u \in Transfers : dispatched_at[u] => dispatched_at'[u]
  <2>1. CASE FinishDispatch(w)
    BY <1>1, <2>1 DEF FinishDispatch, TypedInv, TransferTypeOK
  <2>2. CASE FinishReceive(w)
    BY <1>1, <2>2 DEF FinishReceive, AtEnd, HistoryInv
  <2> QED
    BY <2>1, <2>2
<1>7. PendingUntouched'
  BY <1>4, <1>5 DEF HistoryInv, PendingUntouched
<1>8. ReceivedOnlyAfterDispatch'
  BY <1>5, <1>6 DEF HistoryInv, ReceivedOnlyAfterDispatch
<1>9. \A v \in Workers : op'[v] \in {"receive", "reject"} => dispatched_at'[ref'[v]]
  BY <1>2, <1>6 DEF HistoryInv, TypedInv, WalkInv, Serving
<1> QED
  BY <1>2, <1>3, <1>7, <1>8, <1>9 DEF HistoryInv, Walking

(* Nor does cancel or reject change what was moved.                          *)
LEMMA FlagHistory ==
    ASSUME TypedInv, HistoryInv, NEW w \in Workers, FinishCancel(w) \/ FinishReject(w)
    PROVE  HistoryInv'
<1> DEFINE t == ref[w]
<1>1. t \in Transfers /\ ~Walking(w)
  BY DEF FinishCancel, FinishReject, Flag, Walking, Serving, TypedInv, WalkInv
<1>2. /\ \A v \in Workers \ {w} : pc'[v] = pc[v] /\ op'[v] = op[v] /\ ref'[v] = ref[v]
      /\ op'[w] = "none"
  BY DEF FinishCancel, FinishReject, Flag, EndJob, EndWalk, TypedInv, TransferTypeOK
<1>3. UNCHANGED <<item, itemLock, dispatched_at, shipped, arrived>>
  BY DEF FinishCancel, FinishReject, Flag, manifestVars
<1>4. /\ status'[t] = "CANCELLED" \/ (status'[t] = "REJECTED" /\ op[w] = "reject")
      /\ \A u \in Transfers \ {t} : status'[u] = status[u]
  BY <1>1 DEF FinishCancel, FinishReject, Flag, SetStatus, TypedInv, TransferTypeOK
<1>5. PendingUntouched'
  BY <1>3, <1>4 DEF HistoryInv, PendingUntouched
<1>6. ReceivedOnlyAfterDispatch'
  BY <1>3, <1>4 DEF HistoryInv, ReceivedOnlyAfterDispatch
<1> QED
  BY <1>1, <1>2, <1>3, <1>5, <1>6 DEF HistoryInv, Walking

(* The first UPDATE of an item in a transaction makes it the transaction's.  *)
LEMMA TakeHistory ==
    ASSUME TypedInv, HistoryInv, NEW w \in Workers, TakeLine(w)
    PROVE  HistoryInv'
<1>1. UNCHANGED <<item, op, ref, outcomeVars>>
  BY DEF TakeLine, walkVars
<1>2. Walking(w) /\ TransferOf[Line(w).item] = ref[w]
  BY DEF TakeLine, AtLine, OwnLine, TypedInv, WalkInv
<1>3. \A i \in Items, v \in Workers :
         itemLock'[i] = v => itemLock[i] = v \/ (i = Line(w).item /\ v = w)
  <2>1. itemLock \in [Items -> Workers \cup {NoWorker}]
    BY DEF TypedInv, TransferTypeOK
  <2>2. itemLock' = [itemLock EXCEPT ![Line(w).item] = w]
    BY DEF TakeLine
  <2> QED
    BY <2>1, <2>2
<1>4. \A v \in Workers : pc'[v] = "idle" => pc[v] = "idle"
  <2>1. \A v \in Workers : pc'[v] = pc[v] \/ v = w
    BY DEF TakeLine, TypedInv, TransferTypeOK
  <2>2. pc'[w] \in {"check", "find"}
    BY DEF TakeLine, TypedInv, TransferTypeOK
  <2> QED
    BY <2>1, <2>2
<1>5. PendingUntouched' /\ ReceivedOnlyAfterDispatch'
  BY <1>1 DEF HistoryInv, PendingUntouched, ReceivedOnlyAfterDispatch, outcomeVars
<1> QED
  BY <1>1, <1>2, <1>3, <1>4, <1>5 DEF HistoryInv, Walking, outcomeVars

(* A request that enters service adds nothing to the history.                *)
LEMMA BeginHistory ==
    ASSUME TypedInv, HistoryInv, NEW w \in Workers, BeginRequest(w)
    PROVE  HistoryInv'
<1>1. UNCHANGED <<item, itemLock, outcomeVars>> /\ op[w] = "none"
  BY DEF BeginRequest, BeginAdjust, BeginDispatch, BeginReceive, BeginCancel, BeginReject,
         Begin, StartJob, transferVars, manifestVars, HistoryInv
<1>2. PendingUntouched' /\ ReceivedOnlyAfterDispatch'
  BY <1>1 DEF HistoryInv, PendingUntouched, ReceivedOnlyAfterDispatch, outcomeVars
<1>3. \A i \in Items : itemLock[i] # w
  BY <1>1 DEF HistoryInv, Walking
<1>4. /\ \A v \in Workers \ {w} : pc'[v] = pc[v] /\ op'[v] = op[v] /\ ref'[v] = ref[v]
      /\ pc'[w] # "idle"
      /\ op'[w] \in {"receive", "reject"} => dispatched_at[ref'[w]]
  <2> USE DEF TypedInv, TransferTypeOK
  <2>1. CASE BeginAdjust(w) /\ UNCHANGED transferVars
    BY <2>1 DEF BeginAdjust, StartJob, transferVars, walkVars
  <2>2. ASSUME NEW t \in Transfers, NEW scan, Begin(w, t, "dispatch", "PENDING", "line", scan)
        PROVE  <1>4
    BY <2>2 DEF Begin, StartJob
  <2>3. ASSUME NEW t \in Transfers, NEW scan, Begin(w, t, "receive", "IN_TRANSIT", "line", scan)
        PROVE  <1>4
    BY <2>3 DEF Begin, StartJob, HistoryInv, ReceivedOnlyAfterDispatch
  <2>4. ASSUME NEW t \in Transfers, BeginCancel(w, t)
        PROVE  <1>4
    BY <2>4 DEF BeginCancel, Begin, StartJob
  <2>5. ASSUME NEW t \in Transfers, BeginReject(w, t)
        PROVE  <1>4
    BY <2>5 DEF BeginReject, Begin, StartJob, HistoryInv, ReceivedOnlyAfterDispatch
  <2> QED
    BY <2>1, <2>2, <2>3, <2>4, <2>5 DEF BeginRequest, BeginDispatch, BeginReceive
<1> QED
  BY <1>1, <1>2, <1>3, <1>4 DEF HistoryInv, Walking, outcomeVars

(* Every step keeps the history invariant.                                   *)
LEMMA HistoryNext == TypedInv /\ HistoryInv /\ [Next]_vars => HistoryInv'
<1> SUFFICES ASSUME TypedInv, HistoryInv, [Next]_vars PROVE HistoryInv'
  OBVIOUS
<1>1. CASE UNCHANGED vars
  BY <1>1 DEF vars, stockVars, jobVars, transferVars, manifestVars, outcomeVars, walkVars,
     HistoryInv, Walking, PendingUntouched, ReceivedOnlyAfterDispatch
<1>2. ASSUME NEW t \in Transfers, Create(t)
      PROVE  HistoryInv'
  <2>1. /\ UNCHANGED <<pc, op, ref, item, itemLock, dispatched_at, shipped, arrived>>
        /\ status[t] = "ABSENT"
        /\ status' = [status EXCEPT ![t] = "PENDING"]
    BY <1>2 DEF Create, stockVars, jobVars, manifestVars, walkVars
  <2>2. PendingUntouched' /\ ReceivedOnlyAfterDispatch'
    BY <2>1 DEF HistoryInv, PendingUntouched, ReceivedOnlyAfterDispatch, TypedInv, TransferTypeOK
  <2> QED
    BY <2>1, <2>2 DEF HistoryInv, Walking
<1>3. ASSUME NEW w \in Workers, Step(w)
      PROVE  HistoryInv'
  <2>1. CASE AdjustStep(w)
    <3>1. UNCHANGED <<item, itemLock, outcomeVars, ref>>
      BY <2>1 DEF AdjustStep, transferVars, manifestVars, walkVars
    <3>2. CASE Goto(w, IF Exists(w, key[w]) THEN "update" ELSE "insert") \/ Goto(w, "commit")
      BY <3>1, <3>2, QuietHistory DEF Goto, TypedInv, TransferTypeOK
    <3>3. CASE op[w] = "adjust" /\ EndJob(w)
      BY <3>1, <3>3, QuietHistory DEF Walking
    <3> QED
      BY <2>1, <3>2, <3>3 DEF AdjustStep, StockStep, FindLevel, UpdateLevel, InsertLevel,
                              DuplicateLevel, FinishAdjust
  <2>2. CASE LineNotFound(w) \/ InsufficientStock(w) \/ ReceiveDuplicate(w)
    BY <2>2, RollbackHistory
       DEF LineNotFound, InsufficientStock, ReceiveDuplicate, DuplicateLevel, Rollback
  <2>3. CASE SkipLine(w)
    BY <2>3, QuietHistory DEF SkipLine, stockVars, jobVars, manifestVars
  <2>4. CASE TakeLine(w)
    BY <2>4, TakeHistory
  <2>5. CASE FindSource(w)
    BY <2>5, QuietHistory DEF FindSource, Goto, transferVars, manifestVars, walkVars,
                              TypedInv, TransferTypeOK
  <2>6. CASE MoveLine(w) \/ ReceiveNewProduct(w)
    BY <2>6, QuietHistory DEF MoveLine, ReceiveNewProduct, UpdateLevel, InsertLevel, Goto,
                              NextLine, manifestVars, TypedInv, TransferTypeOK
  <2>7. CASE FinishDispatch(w) \/ FinishReceive(w)
    BY <2>7, CommitHistory
  <2>8. CASE FinishCancel(w) \/ FinishReject(w)
    BY <2>8, FlagHistory
  <2> QED
    BY <1>3, <2>1, <2>2, <2>3, <2>4, <2>5, <2>6, <2>7, <2>8 DEF Step
<1>4. ASSUME NEW w \in Workers, DetectDeadlock(w) \/ Fail(w)
      PROVE  HistoryInv'
  BY <1>4, RollbackHistory DEF DetectDeadlock, Fail, Rollback
<1> QED
  BY <1>1, <1>2, <1>3, <1>4, BeginHistory DEF Next

(* The history invariant holds in every reachable state.                     *)
LEMMA TransferHistory == Spec => []HistoryInv
BY HistoryInit, HistoryNext, TransferInv, PTL DEF Spec

(* No refused, aborted or overtaken request leaves a mark on a transfer that *)
(* is still PENDING.                                                         *)
THEOREM PendingIsUntouched == Spec => []PendingUntouched
<1>1. HistoryInv => PendingUntouched
  BY DEF HistoryInv
<1> QED
  BY <1>1, TransferHistory, PTL

(* Whatever overlaps, nothing arrives for a transfer that no dispatch of it  *)
(* was committed for.                                                        *)
THEOREM ArrivalsFollowDispatch == Spec => []ReceivedOnlyAfterDispatch
<1>1. HistoryInv => ReceivedOnlyAfterDispatch
  BY DEF HistoryInv
<1> QED
  BY <1>1, TransferHistory, PTL

------------------------------------------------------------------------------
(* The life cycle, until requests overlap.  The status a worker read when it *)
(* began is still the status when it overwrites it: nobody else serves the   *)
(* transfer meanwhile.                                                       *)

(* The status the operation of w started from.                               *)
Expected(w) == IF op[w] \in {"dispatch", "cancel"} THEN "PENDING" ELSE "IN_TRANSIT"

(* A transfer in service that was never overlapped has one worker and the    *)
(* status that worker read.                                                  *)
TurnInv ==
    /\ \A v, w \in Workers :
         ref[v] = ref[w] /\ ref[w] \in Transfers \ overlapped => v = w
    /\ \A w \in Workers :
         Serving(w) /\ ref[w] \notin overlapped => status[ref[w]] = Expected(w)

(* A step of the life cycle or a stutter.                                    *)
LifeStep == Life!Next \/ UNCHANGED Life!lifeVars

(* What the life cycle sees of a transfer: its own three values, unless it   *)
(* was overlapped.                                                           *)
LEMMA Seen ==
    ASSUME NEW t \in Transfers
    PROVE  /\ LifeState[t] = IF t \in overlapped THEN "OVERLAPPED" ELSE status[t]
           /\ LifeOut[t] = IF t \in overlapped THEN 0 ELSE shipped[t]
           /\ LifeIn[t] = IF t \in overlapped THEN 0 ELSE arrived[t]
BY DEF LifeState, LifeOut, LifeIn

(* A step that leaves the transfers alone.                                   *)
LEMMA Unseen ==
    ASSUME UNCHANGED <<outcomeVars, overlapped>>
    PROVE  LifeStep
BY DEF LifeStep, Life!lifeVars, LifeState, LifeOut, LifeIn, outcomeVars

(* A request that goes on, or ends and leaves the transfers alone.           *)
LEMMA QuietTurn ==
    ASSUME TypedInv, TurnInv, NEW w \in Workers, UNCHANGED <<outcomeVars, clientVars>>,
           \/ UNCHANGED <<op, ref>>
           \/ EndJob(w) /\ (EndWalk(w) \/ UNCHANGED ref)
    PROVE  TurnInv' /\ LifeStep
<1>1. LifeStep
  BY Unseen DEF clientVars
<1>2. CASE UNCHANGED <<op, ref>>
  BY <1>1, <1>2 DEF TurnInv, Serving, Expected, outcomeVars, clientVars
<1>3. CASE EndJob(w) /\ (EndWalk(w) \/ UNCHANGED ref)
  <2>1. /\ \A v \in Workers \ {w} : op'[v] = op[v] /\ ref'[v] = ref[v]
        /\ op'[w] = "none"
        /\ ref'[w] \in {ref[w], NoTransfer}
    BY <1>3 DEF EndJob, EndWalk, TypedInv, TransferTypeOK
  <2> QED
    BY <1>1, <2>1, TransferAssumption DEF TurnInv, Serving, Expected, outcomeVars, clientVars
<1> QED
  BY <1>2, <1>3

(* The last statement of a request: the one operation of the life cycle that *)
(* it stands for, if nothing overlapped it.                                  *)
LEMMA LastTurn ==
    ASSUME TypedInv, TypedInv', TurnInv, NEW w \in Workers,
           FinishDispatch(w) \/ FinishReceive(w) \/ FinishCancel(w) \/ FinishReject(w)
    PROVE  TurnInv' /\ LifeStep
<1> DEFINE t == ref[w]
<1> USE DEF FinishDispatch, FinishReceive, FinishCancel, FinishReject, AtEnd, Flag
<1>1. /\ Serving(w) /\ t \in Transfers /\ UNCHANGED overlapped
      /\ t \notin overlapped => status[t] = Expected(w)
  BY DEF Serving, TypedInv, WalkInv, TurnInv, clientVars
<1>2. EndJob(w) /\ EndWalk(w)
  BY DEF Commit
<1>3. /\ \A v \in Workers \ {w} : op'[v] = op[v] /\ ref'[v] = ref[v]
      /\ op'[w] = "none" /\ ref'[w] = NoTransfer
  BY <1>2 DEF EndJob, EndWalk, TypedInv, TransferTypeOK
<1>4. \A u \in Transfers \ {t} :
        status'[u] = status[u] /\ shipped'[u] = shipped[u] /\ arrived'[u] = arrived[u]
  BY DEF SetStatus, TypedInv, TransferTypeOK
<1>5. \A v \in Workers \ {w} : Serving(v) /\ ref[v] \notin overlapped => ref[v] \in Transfers \ {t}
  BY <1>1 DEF TurnInv, TypedInv, WalkInv
<1>6. TurnInv'
  BY <1>1, <1>3, <1>4, <1>5, TransferAssumption DEF TurnInv, Serving, Expected
<1>7. LifeStep
  <2>1. CASE t \in overlapped
    <3>1. UNCHANGED <<LifeState, LifeOut, LifeIn>>
      BY <1>1, <1>4, <2>1 DEF LifeState, LifeOut, LifeIn
    <3> QED
      BY <3>1 DEF LifeStep, Life!lifeVars
  <2>2. ASSUME t \notin overlapped
        PROVE  LifeStep
    <3> USE DEF TypedInv, TransferTypeOK, SetStatus, Expected
    <3>1. /\ status[t] = Expected(w) /\ LifeState[t] = status[t]
          /\ LifeState' = [LifeState EXCEPT ![t] = status'[t]]
          /\ LifeOut' = [LifeOut EXCEPT ![t] = shipped'[t]] /\ LifeOut'[t] = shipped'[t]
          /\ LifeIn' = [LifeIn EXCEPT ![t] = arrived'[t]] /\ LifeIn'[t] = arrived'[t]
      BY <1>1, <1>4, <2>2 DEF LifeState, LifeOut, LifeIn
    <3>2. /\ shipped' = shipped => LifeOut' = LifeOut
          /\ arrived' = arrived => LifeIn' = LifeIn
      BY <1>1 DEF LifeOut, LifeIn
    <3>3. shipped'[t] \in Nat /\ arrived'[t] \in Nat
      BY <1>1
    <3>4. CASE FinishDispatch(w)
      <4>1. Life!Become(t, "PENDING", "IN_TRANSIT") /\ UNCHANGED LifeIn
        BY <1>1, <3>1, <3>2, <3>4 DEF Life!Become
      <4> QED
        BY <1>1, <3>1, <3>3, <4>1 DEF LifeStep, Life!Next, Life!Ship
    <3>5. CASE FinishReceive(w)
      <4>1. Life!Become(t, "IN_TRANSIT", "COMPLETED") /\ UNCHANGED LifeOut
        BY <1>1, <3>1, <3>2, <3>5 DEF Life!Become
      <4> QED
        BY <1>1, <3>1, <3>3, <4>1 DEF LifeStep, Life!Next, Life!Deliver
    <3>6. CASE FinishCancel(w) \/ FinishReject(w)
      <4>1. /\ \/ Life!Become(t, "PENDING", "CANCELLED")
               \/ Life!Become(t, "IN_TRANSIT", "REJECTED")
            /\ UNCHANGED <<LifeOut, LifeIn>>
        BY <1>1, <3>1, <3>2, <3>6 DEF Life!Become
      <4> QED
        BY <1>1, <4>1 DEF LifeStep, Life!Next, Life!CallOff
    <3> QED
      BY <3>4, <3>5, <3>6
  <2> QED
    BY <2>1, <2>2
<1> QED
  BY <1>6, <1>7

(* A request for a transfer in service takes the transfer out of the life    *)
(* cycle; any other reads a status that stays what it was until the request  *)
(* ends.                                                                     *)
LEMMA BeginTurn ==
    ASSUME TypedInv, HistoryInv, TurnInv, NEW w \in Workers, BeginRequest(w)
    PROVE  TurnInv' /\ LifeStep
<1> USE DEF TypedInv, TransferTypeOK
<1>1. CASE BeginAdjust(w) /\ UNCHANGED transferVars
  <2>1. /\ UNCHANGED <<ref, outcomeVars, overlapped>>
        /\ \A v \in Workers \ {w} : op'[v] = op[v]
        /\ op'[w] = "adjust"
    BY <1>1 DEF BeginAdjust, StartJob, transferVars, walkVars, clientVars
  <2> QED
    BY <2>1, Unseen DEF TurnInv, Serving, Expected, outcomeVars
<1>2. ASSUME NEW t \in Transfers, NEW name, NEW from, NEW label, NEW scan,
             Begin(w, t, name, from, label, scan),
             \/ name \in {"dispatch", "cancel"} /\ from = "PENDING"
             \/ name \in {"receive", "reject"} /\ from = "IN_TRANSIT"
      PROVE  TurnInv' /\ LifeStep
  <2>1. /\ UNCHANGED outcomeVars /\ status[t] = from /\ from # "ABSENT"
        /\ \A v \in Workers \ {w} : op'[v] = op[v] /\ ref'[v] = ref[v]
        /\ op'[w] = name /\ ref'[w] = t
        /\ overlapped' = overlapped \cup {u \in {t} : InService(u)}
    BY <1>2 DEF Begin, StartJob, Remember
  <2>2. /\ UNCHANGED status /\ overlapped \subseteq overlapped'
        /\ t \notin overlapped' => \A v \in Workers : ref[v] # t
    BY <2>1 DEF outcomeVars, InService
  <2>3. \A u, v \in Workers : ref'[u] = ref'[v] /\ ref'[v] \in Transfers \ overlapped' => u = v
    BY <2>1, <2>2 DEF TurnInv
  <2>4. \A v \in Workers : Serving(v)' /\ ref'[v] \notin overlapped' => status'[ref'[v]] = Expected(v)'
    <3>1. ASSUME NEW v \in Workers \ {w}, Serving(v)', ref'[v] \notin overlapped'
          PROVE  status'[ref'[v]] = Expected(v)'
      BY <2>1, <2>2, <3>1 DEF TurnInv, Serving, Expected
    <3>2. from = Expected(w)'
      BY <1>2, <2>1 DEF Expected
    <3> QED
      BY <2>1, <2>2, <3>1, <3>2
  <2>5. LifeStep
    <3>1. CASE overlapped' = overlapped
      BY <2>1, <3>1, Unseen
    <3>2. CASE overlapped' = overlapped \cup {t} /\ t \notin overlapped
      <4>1. /\ LifeState' = [LifeState EXCEPT ![t] = "OVERLAPPED"]
            /\ LifeOut' = [LifeOut EXCEPT ![t] = 0]
            /\ LifeIn' = [LifeIn EXCEPT ![t] = 0]
        BY <2>1, <3>2 DEF LifeState, LifeOut, LifeIn, outcomeVars
      <4>2. LifeState[t] # "ABSENT"
        BY <2>1, <3>2, Seen
      <4> QED
        BY <4>1, <4>2 DEF LifeStep, Life!Next, Life!Overlap
    <3> QED
      BY <2>1, <3>1, <3>2
  <2> QED
    BY <2>3, <2>4, <2>5 DEF TurnInv
<1> QED
  BY <1>1, <1>2 DEF BeginRequest, BeginDispatch, BeginReceive, BeginCancel, BeginReject

(* So every step is one of the life cycle's, or none of its business.        *)
LEMMA TurnNext ==
    ASSUME TypedInv, TypedInv', HistoryInv, TurnInv, [Next]_vars
    PROVE  TurnInv' /\ LifeStep
<1>1. CASE UNCHANGED vars
  <2>1. UNCHANGED <<outcomeVars, clientVars, overlapped, op, ref>>
    BY <1>1 DEF vars, stockVars, jobVars, transferVars, walkVars, clientVars
  <2> QED
    BY <2>1, Unseen DEF TurnInv, Serving, Expected, outcomeVars
<1>2. ASSUME NEW t \in Transfers, Create(t)
      PROVE  TurnInv' /\ LifeStep
  <2>1. /\ UNCHANGED <<op, ref, shipped, arrived, overlapped>>
        /\ status[t] = "ABSENT"
        /\ status' = [status EXCEPT ![t] = "PENDING"]
    BY <1>2 DEF Create, stockVars, jobVars, walkVars, clientVars
  <2>2. TurnInv'
    BY <2>1 DEF TurnInv, Serving, Expected, TypedInv, TransferTypeOK, WalkInv
  <2>3. UNCHANGED <<LifeOut, LifeIn>>
    BY <2>1 DEF LifeOut, LifeIn
  <2>4. CASE t \in overlapped
    <3>1. UNCHANGED LifeState
      BY <2>1, <2>4 DEF LifeState, TypedInv, TransferTypeOK
    <3> QED
      BY <2>2, <2>3, <3>1 DEF LifeStep, Life!lifeVars
  <2>5. CASE t \notin overlapped
    <3>1. LifeState[t] = "ABSENT" /\ LifeState' = [LifeState EXCEPT ![t] = "PENDING"]
      BY <2>1, <2>5 DEF LifeState, TypedInv, TransferTypeOK
    <3> QED
      BY <2>2, <2>3, <3>1 DEF LifeStep, Life!Next, Life!Request, Life!Become
  <2> QED
    BY <2>4, <2>5
<1>3. ASSUME NEW w \in Workers, Step(w)
      PROVE  TurnInv' /\ LifeStep
  <2>1. CASE AdjustStep(w) \/ FindSource(w)
    BY <2>1, QuietTurn
       DEF AdjustStep, StockStep, FindLevel, UpdateLevel, InsertLevel, DuplicateLevel,
           FinishAdjust, FindSource, Goto, transferVars, walkVars
  <2>2. CASE LineNotFound(w) \/ InsufficientStock(w) \/ ReceiveDuplicate(w)
    BY <2>2, QuietTurn
       DEF LineNotFound, InsufficientStock, ReceiveDuplicate, DuplicateLevel, Rollback
  <2>3. CASE SkipLine(w) \/ TakeLine(w)
    BY <2>3, QuietTurn DEF SkipLine, TakeLine, stockVars, jobVars, walkVars
  <2>4. CASE MoveLine(w) \/ ReceiveNewProduct(w)
    BY <2>4, QuietTurn DEF MoveLine, ReceiveNewProduct, UpdateLevel, InsertLevel, Goto, NextLine
  <2>5. CASE FinishDispatch(w) \/ FinishReceive(w) \/ FinishCancel(w) \/ FinishReject(w)
    BY <2>5, LastTurn
  <2> QED
    BY <1>3, <2>1, <2>2, <2>3, <2>4, <2>5 DEF Step
<1>4. ASSUME NEW w \in Workers, DetectDeadlock(w) \/ Fail(w)
      PROVE  TurnInv' /\ LifeStep
  BY <1>4, QuietTurn DEF DetectDeadlock, Fail, Rollback
<1> QED
  BY <1>1, <1>2, <1>3, <1>4, BeginTurn DEF Next

(* In every behaviour, every transfer follows the life cycle of the README   *)
(* (shipped once, delivered once and after shipping, final states final) at  *)
(* least until two requests for it overlap: failures, adjustments and other  *)
(* transfers, overlapped or not, do not take it out of the diagram.          *)
THEOREM OverlapOnlyBreaksLifecycle == Spec => LifecycleKept
<1>1. Init => TurnInv /\ Life!Init
  BY TransferAssumption
     DEF Init, StockInit, TurnInv, Serving, Life!Init, LifeState, LifeOut, LifeIn
<1>2. TypedInv /\ TypedInv' /\ HistoryInv /\ TurnInv /\ [Next]_vars => TurnInv'
  BY TurnNext
<1>3. TypedInv /\ TypedInv' /\ HistoryInv /\ TurnInv /\ [Next]_vars
        => [Life!Next]_(Life!lifeVars)
  BY TurnNext DEF LifeStep
<1> QED
  BY <1>1, <1>2, <1>3, TransferInv, TransferHistory, PTL
     DEF Spec, LifecycleKept, Life!Spec

------------------------------------------------------------------------------
(* What the manifest of a transfer claims, and what its ledger rows moved.   *)

Sent == [i \in Items |-> item[i].dispatched]
Taken == [i \in Items |-> item[i].received]

(* The column an open transaction writes: what the items it has written say  *)
(* there, what they said before, and what it has written and not moved yet.  *)
Column(w, counts) == IF op[w] = "dispatch" THEN counts.dispatched ELSE counts.received
Written(w) == [i \in Items |-> IF itemLock[i] = w THEN Column(w, itemNew[i]) ELSE 0]
Replaced(w) == [i \in Items |-> IF itemLock[i] = w THEN Column(w, item[i]) ELSE 0]
Pending(w) ==
    IF Walking(w) /\ pc[w] \in {"check", "find", "update", "insert"} THEN Line(w).qty ELSE 0

(* What was moved and is not claimed: by a transfer, on its way out and in,  *)
(* and by an open transaction.                                               *)
OutSurplus(t) == shipped[t] - SumOver(Sent, ItemsOf(t))
InSurplus(t) == arrived[t] - SumOver(Taken, ItemsOf(t))
Excess(w) == moved[w] + Pending(w) - SumOver(Written(w), ItemsOf(ref[w]))

(* All of these are integers.                                                *)
LEMMA ManifestTyped ==
    ASSUME TypedInv
    PROVE  /\ \A t : IsFiniteSet(ItemsOf(t))
           /\ \A i \in Items : Sent[i] \in Nat /\ Taken[i] \in Nat
           /\ \A t : SumOver(Sent, ItemsOf(t)) \in Nat /\ SumOver(Taken, ItemsOf(t)) \in Nat
           /\ \A w : \A i \in Items : Written(w)[i] \in Nat /\ Replaced(w)[i] \in Nat
           /\ \A w, t : /\ SumOver(Written(w), ItemsOf(t)) \in Nat
                        /\ SumOver(Replaced(w), ItemsOf(t)) \in Nat
           /\ \A t \in Transfers : OutSurplus(t) \in Int /\ InSurplus(t) \in Int
           /\ \A w \in Workers : moved[w] \in Nat /\ Pending(w) \in Nat /\ Excess(w) \in Int
<1>1. WalkTypeOK /\ ItemTypeOK /\ OutcomeTypeOK /\ WalkInv
  BY TypeParts DEF TypedInv
<1>2. \A t : IsFiniteSet(ItemsOf(t))
  BY RowsAssumption, FS_Subset DEF ItemsOf
<1>3. \A i \in Items : Sent[i] \in Nat /\ Taken[i] \in Nat
  BY <1>1 DEF ItemTypeOK, Counts, Sent, Taken
<1>4. \A w : \A i \in Items : Written(w)[i] \in Nat /\ Replaced(w)[i] \in Nat
  BY <1>1 DEF ItemTypeOK, Counts, Written, Replaced, Column
<1>5. \A t : \A i \in ItemsOf(t) : i \in Items
  BY DEF ItemsOf
<1>6. \A t : SumOver(Sent, ItemsOf(t)) \in Nat /\ SumOver(Taken, ItemsOf(t)) \in Nat
  <2> HIDE DEF Sent, Taken, ItemsOf
  <2> QED
    BY <1>2, <1>3, <1>5, SumOfNaturals
<1>7. \A w, t : /\ SumOver(Written(w), ItemsOf(t)) \in Nat
                /\ SumOver(Replaced(w), ItemsOf(t)) \in Nat
  <2> SUFFICES ASSUME NEW w, NEW t
               PROVE  /\ SumOver(Written(w), ItemsOf(t)) \in Nat
                      /\ SumOver(Replaced(w), ItemsOf(t)) \in Nat
    OBVIOUS
  <2>1. /\ IsFiniteSet(ItemsOf(t))
        /\ \A i \in ItemsOf(t) : Written(w)[i] \in Nat /\ Replaced(w)[i] \in Nat
    BY <1>2, <1>4, <1>5
  <2> HIDE DEF Written, Replaced, ItemsOf
  <2> QED
    BY <2>1, SumOfNaturals
<1>8. \A t \in Transfers : OutSurplus(t) \in Int /\ InSurplus(t) \in Int
  BY <1>1, <1>6 DEF OutSurplus, InSurplus, OutcomeTypeOK
<1>9. \A w \in Workers : moved[w] \in Nat /\ Pending(w) \in Nat
  BY <1>1, HeadLine DEF Pending, WalkInv, WalkTypeOK
<1>10. ASSUME NEW w \in Workers
       PROVE  Excess(w) \in Int
  <2>1. SumOver(Written(w), ItemsOf(ref[w])) \in Nat
    BY <1>7
  <2> HIDE DEF Pending, Written, ItemsOf
  <2> QED
    BY <1>9, <2>1 DEF Excess
<1> QED
  BY <1>2, <1>3, <1>4, <1>6, <1>7, <1>8, <1>9, <1>10

(* A row nobody writes is as committed, and dispatch and receive leave each  *)
(* other's column alone.                                                     *)
ColumnInv ==
    /\ \A i \in Items : itemLock[i] = NoWorker => itemNew[i] = item[i]
    /\ \A i \in Items, w \in Workers : itemLock[i] = w =>
         IF op[w] = "dispatch" THEN itemNew[i].received = item[i].received
                               ELSE itemNew[i].dispatched = item[i].dispatched

(* Nobody has written a row at the start.                                    *)
LEMMA ColumnInit == Init => ColumnInv
BY WorkerAssumption DEF Init, ColumnInv

(* A statement that writes no item and ends no walk.                         *)
LEMMA ColumnKept ==
    ASSUME ColumnInv, HistoryInv, UNCHANGED manifestVars,
           \A v \in Workers : Walking(v) => op'[v] = op[v]
    PROVE  ColumnInv'
BY DEF ColumnInv, HistoryInv, manifestVars

(* The end of a transaction that may have written items.                     *)
LEMMA ColumnEnd ==
    ASSUME TypedInv, ColumnInv, NEW w \in Workers,
           EndJob(w), RollbackItems(w) \/ CommitItems(w)
    PROVE  ColumnInv'
<1> USE WorkerAssumption
<1>1. /\ op \in [Workers -> Operations]
      /\ item \in [Items -> Counts] /\ itemNew \in [Items -> Counts]
  BY DEF TypedInv, TransferTypeOK
<1>2. \A v \in Workers \ {w} : op'[v] = op[v]
  BY <1>1 DEF EndJob
<1>3. \A i \in Items :
        /\ itemLock[i] = w => itemLock'[i] = NoWorker /\ itemNew'[i] = item'[i]
        /\ itemLock[i] # w => /\ itemLock'[i] = itemLock[i]
                              /\ itemNew'[i] = itemNew[i] /\ item'[i] = item[i]
  BY <1>1 DEF RollbackItems, CommitItems, UnlockItems
<1> QED
  BY <1>2, <1>3 DEF ColumnInv

(* The UPDATE of an item's quantity.                                         *)
LEMMA ColumnTake ==
    ASSUME TypedInv, ColumnInv, NEW w \in Workers, TakeLine(w)
    PROVE  ColumnInv'
<1> USE WorkerAssumption
<1>1. /\ itemLock \in [Items -> Workers \cup {NoWorker}]
      /\ item \in [Items -> Counts] /\ itemNew \in [Items -> Counts]
  BY DEF TypedInv, TransferTypeOK
<1>2. PICK i \in Items : i = Line(w).item
  BY HeadLine, TypeParts DEF TakeLine, AtLine, TypedInv
<1>3. /\ UNCHANGED <<op, item>> /\ itemLock[i] \in {NoWorker, w}
      /\ itemLock'[i] = w /\ itemNew'[i] = Counted(w, itemNew[i])
      /\ \A j \in Items \ {i} : itemLock'[j] = itemLock[j] /\ itemNew'[j] = itemNew[j]
  BY <1>1, <1>2 DEF TakeLine
<1>4. IF op[w] = "dispatch" THEN itemNew'[i].received = itemNew[i].received
                            ELSE itemNew'[i].dispatched = itemNew[i].dispatched
  BY <1>1, <1>3 DEF Counted, Counts
<1>5. IF op[w] = "dispatch" THEN itemNew'[i].received = item[i].received
                            ELSE itemNew'[i].dispatched = item[i].dispatched
  BY <1>3, <1>4 DEF ColumnInv
<1> QED
  BY <1>3, <1>5 DEF ColumnInv

(* So every step keeps the columns apart.                                    *)
LEMMA ColumnNext ==
    ASSUME TypedInv, HistoryInv, ColumnInv, [Next]_vars
    PROVE  ColumnInv'
<1> USE DEF TypedInv, TransferTypeOK
<1>1. CASE UNCHANGED vars \/ \E t \in Transfers : Create(t)
  BY <1>1, ColumnKept DEF Create, vars, stockVars, jobVars, transferVars
<1>2. ASSUME NEW w \in Workers, BeginRequest(w)
      PROVE  ColumnInv'
  <2>1. UNCHANGED manifestVars /\ op[w] = "none"
    BY <1>2 DEF BeginRequest, BeginAdjust, BeginDispatch, BeginReceive, BeginCancel,
                BeginReject, Begin, StartJob, transferVars, HistoryInv
  <2>2. \A v \in Workers \ {w} : op'[v] = op[v]
    BY <1>2 DEF BeginRequest, BeginAdjust, BeginDispatch, BeginReceive, BeginCancel,
                BeginReject, Begin, StartJob
  <2> QED
    BY <2>1, <2>2, ColumnKept DEF Walking
<1>3. ASSUME NEW w \in Workers, Rollback(w)
      PROVE  ColumnInv'
  BY <1>3, ColumnEnd DEF Rollback
<1>4. ASSUME NEW w \in Workers, Step(w)
      PROVE  ColumnInv'
  <2>1. CASE LineNotFound(w) \/ InsufficientStock(w)
    BY <1>3, <2>1 DEF LineNotFound, InsufficientStock
  <2>2. CASE ReceiveDuplicate(w) \/ FinishDispatch(w) \/ FinishReceive(w)
    BY <2>2, ColumnEnd DEF ReceiveDuplicate, DuplicateLevel, FinishDispatch, FinishReceive, Commit
  <2>3. CASE TakeLine(w)
    BY <2>3, ColumnTake
  <2>4. CASE AdjustStep(w) \/ FinishCancel(w) \/ FinishReject(w)
    <3>1. UNCHANGED manifestVars /\ (UNCHANGED op \/ (~Walking(w) /\ EndJob(w)))
      <4>1. CASE AdjustStep(w)
        BY <4>1 DEF AdjustStep, StockStep, FindLevel, UpdateLevel, InsertLevel, DuplicateLevel,
           FinishAdjust, Goto, transferVars, Walking
      <4>2. CASE FinishCancel(w) \/ FinishReject(w)
        BY <4>2 DEF FinishCancel, FinishReject, Flag, Walking
      <4> QED
        BY <2>4, <4>1, <4>2
    <3> QED
      BY <3>1, ColumnKept DEF EndJob
  <2>5. CASE SkipLine(w) \/ FindSource(w) \/ MoveLine(w) \/ ReceiveNewProduct(w)
    BY <2>5, ColumnKept
       DEF SkipLine, FindSource, MoveLine, ReceiveNewProduct, UpdateLevel, InsertLevel,
           NextLine, Goto, stockVars, jobVars, transferVars
  <2> QED
    BY <1>4, <2>1, <2>2, <2>3, <2>4, <2>5 DEF Step
<1> QED
  BY <1>1, <1>2, <1>3, <1>4 DEF Next, DetectDeadlock, Fail

(* In every reachable state.                                                 *)
LEMMA TransferColumns == Spec => []ColumnInv
BY ColumnInit, ColumnNext, TransferInv, TransferHistory, PTL DEF Spec

(* Only a walk under way has moved anything.                                 *)
RestInv == \A w \in Workers : ~Walking(w) => moved[w] = 0

(* Nobody walks at the start.                                                *)
LEMMA RestInit == Init => RestInv
BY DEF Init, RestInv

(* A walk that begins has moved nothing, and one that ends forgets what it   *)
(* moved.                                                                    *)
LEMMA RestNext ==
    ASSUME TypedInv, HistoryInv, RestInv, [Next]_vars
    PROVE  RestInv'
<1> SUFFICES ASSUME NEW v \in Workers, ~Walking(v)'
             PROVE  moved'[v] = 0
  BY DEF RestInv
<1> USE DEF TypedInv, TransferTypeOK, RestInv, Walking
<1>1. CASE UNCHANGED vars \/ \E t \in Transfers : Create(t)
  BY <1>1 DEF Create, vars, stockVars, jobVars, transferVars, walkVars
<1>2. ASSUME NEW w \in Workers, BeginRequest(w)
      PROVE  moved'[v] = 0
  <2>1. UNCHANGED moved /\ op[w] = "none"
    BY <1>2 DEF BeginRequest, BeginAdjust, BeginDispatch, BeginReceive, BeginCancel,
                BeginReject, Begin, StartJob, transferVars, walkVars, HistoryInv
  <2>2. v # w => op'[v] = op[v]
    BY <1>2 DEF BeginRequest, BeginAdjust, BeginDispatch, BeginReceive, BeginCancel,
                BeginReject, Begin, StartJob
  <2> QED
    BY <2>1, <2>2
<1>3. ASSUME NEW w \in Workers, EndJob(w), EndWalk(w) \/ (op[w] = "adjust" /\ UNCHANGED moved)
      PROVE  moved'[v] = 0
  BY <1>3 DEF EndJob, EndWalk
<1>4. ASSUME NEW w \in Workers, Step(w)
      PROVE  moved'[v] = 0
  <2>1. CASE LineNotFound(w) \/ InsufficientStock(w) \/ ReceiveDuplicate(w)
              \/ FinishDispatch(w) \/ FinishReceive(w) \/ FinishCancel(w) \/ FinishReject(w)
    BY <1>3, <2>1 DEF LineNotFound, InsufficientStock, Rollback, ReceiveDuplicate,
       DuplicateLevel, FinishDispatch, FinishReceive, Commit, FinishCancel, FinishReject, Flag
  <2>2. CASE AdjustStep(w)
    <3>1. UNCHANGED moved /\ (UNCHANGED op \/ (op[w] = "adjust" /\ EndJob(w)))
      BY <2>2 DEF AdjustStep, StockStep, FindLevel, UpdateLevel, InsertLevel, DuplicateLevel,
         FinishAdjust, Goto, transferVars, walkVars
    <3> QED
      BY <1>3, <3>1
  <2>3. CASE TakeLine(w) \/ SkipLine(w) \/ FindSource(w)
    BY <2>3 DEF TakeLine, SkipLine, FindSource, Goto, stockVars, jobVars, transferVars, walkVars
  <2>4. CASE MoveLine(w) \/ ReceiveNewProduct(w)
    BY <2>4 DEF MoveLine, ReceiveNewProduct, UpdateLevel, InsertLevel, NextLine, Goto
  <2> QED
    BY <1>4, <2>1, <2>2, <2>3, <2>4 DEF Step
<1> QED
  BY <1>1, <1>2, <1>3, <1>4 DEF Next, DetectDeadlock, Fail, Rollback

(* In every reachable state.                                                 *)
LEMMA TransferRests == Spec => []RestInv
BY RestInit, RestNext, TransferInv, TransferHistory, PTL DEF Spec

------------------------------------------------------------------------------
(* What a step does to the surpluses. *)

(* The walk of a worker whose position and items a step leaves alone.        *)
Unmoved(v) ==
    /\ op'[v] = op[v] /\ ref'[v] = ref[v] /\ moved'[v] = moved[v]
    /\ Pending(v)' = Pending(v)
    /\ \A i \in Items : /\ itemLock'[i] = v <=> itemLock[i] = v
                        /\ itemLock[i] = v => itemNew'[i] = itemNew[i]

(* Such a worker has moved ahead of the manifest what it had.                *)
LEMMA UnmovedExcess ==
    ASSUME NEW v \in Workers, Unmoved(v)
    PROVE  Excess(v)' = Excess(v)
<1>1. Written(v)' = Written(v)
  BY DEF Unmoved, Written, Column
<1>2. ItemsOf(ref[v])' = ItemsOf(ref[v])
  BY DEF Unmoved, ItemsOf
<1> QED
  BY <1>1, <1>2 DEF Unmoved, Excess

(* Only a commit moves anything: the transfer gains what the transaction     *)
(* moved and did not claim, and what its items claimed before.               *)
TransferSettled(t) ==
    \/ OutSurplus(t)' = OutSurplus(t) /\ InSurplus(t)' = InSurplus(t)
    \/ \E w \in Workers :
         LET gain == Excess(w) + SumOver(Replaced(w), ItemsOf(t))
         IN  /\ ref[w] = t
             /\ \/ /\ op[w] = "dispatch"
                   /\ OutSurplus(t)' = OutSurplus(t) + gain
                   /\ InSurplus(t)' = InSurplus(t)
                \/ /\ op[w] = "receive"
                   /\ OutSurplus(t)' = OutSurplus(t)
                   /\ InSurplus(t)' = InSurplus(t) + gain

(* A walk starts even, and an item it writes twice claims only the last.     *)
WalkSettled(w) ==
    \/ ~Walking(w)'
    \/ Excess(w)' = 0
    \/ Walking(w) /\ Excess(w)' = Excess(w)
    \/ /\ Walking(w) /\ AtLine(w) /\ Line(w).item \in Items
       /\ Excess(w)' = Excess(w) + Written(w)[Line(w).item]

Settled == /\ \A t \in Transfers : TransferSettled(t)
           /\ \A w \in Workers : WalkSettled(w)

(* A step that commits nothing and touches one walk.                         *)
LEMMA QuietSettled ==
    ASSUME NEW w \in Workers, UNCHANGED <<item, shipped, arrived>>,
           \A v \in Workers \ {w} : Unmoved(v), WalkSettled(w)
    PROVE  Settled
<1>1. Sent' = Sent /\ Taken' = Taken
  BY DEF Sent, Taken
<1>2. \A t \in Transfers : OutSurplus(t)' = OutSurplus(t) /\ InSurplus(t)' = InSurplus(t)
  BY <1>1 DEF OutSurplus, InSurplus, ItemsOf
<1>3. \A v \in Workers \ {w} : WalkSettled(v)
  BY UnmovedExcess DEF WalkSettled, Unmoved, Walking
<1> QED
  BY <1>2, <1>3 DEF Settled, TransferSettled

(* A request that starts has written nothing.                                *)
LEMMA BeginSettled ==
    ASSUME TypedInv, HistoryInv, RestInv, NEW w \in Workers, BeginRequest(w)
    PROVE  Settled
<1>1. WalkTypeOK /\ ItemTypeOK
  BY TypeParts DEF TypedInv
<1>2. /\ op[w] = "none" /\ UNCHANGED <<item, itemNew, itemLock, shipped, arrived, moved>>
      /\ \A v \in Workers \ {w} :
           pc'[v] = pc[v] /\ op'[v] = op[v] /\ ref'[v] = ref[v] /\ todo'[v] = todo[v]
      /\ moved[w] = 0
      /\ Walking(w)' => pc'[w] = "line"
  <2> USE DEF WalkTypeOK, manifestVars, outcomeVars, Walking
  <2>1. op[w] = "none"
    BY DEF HistoryInv, BeginRequest, BeginAdjust, BeginDispatch, BeginReceive, BeginCancel,
           BeginReject, Begin, StartJob
  <2>2. moved[w] = 0
    BY <2>1 DEF RestInv
  <2>3. CASE BeginAdjust(w) /\ UNCHANGED transferVars
    BY <1>1, <2>1, <2>2, <2>3 DEF BeginAdjust, StartJob, transferVars, walkVars
  <2>4. CASE \E t \in Transfers : BeginDispatch(w, t) \/ BeginReceive(w, t)
    BY <1>1, <2>1, <2>2, <2>4 DEF BeginDispatch, BeginReceive, Begin, StartJob
  <2>5. CASE \E t \in Transfers : BeginCancel(w, t) \/ BeginReject(w, t)
    BY <1>1, <2>1, <2>2, <2>5 DEF BeginCancel, BeginReject, Begin, StartJob
  <2> QED
    BY <2>3, <2>4, <2>5 DEF BeginRequest
<1>3. \A v \in Workers \ {w} : Unmoved(v)
  BY <1>2 DEF Unmoved, Pending, Walking, Line
<1>4. \A i \in Items : Written(w)'[i] = 0
  BY <1>2 DEF HistoryInv, Walking, Written
<1>5. PICK t : t = ref'[w]
  OBVIOUS
<1>6. SumOver(Written(w)', ItemsOf(t)) = 0
  <2>1. IsFiniteSet(ItemsOf(t)) /\ \A i \in ItemsOf(t) : Written(w)'[i] = 0
    BY <1>4, ManifestTyped DEF ItemsOf
  <2> HIDE DEF Written, ItemsOf
  <2> QED
    BY <2>1, SumOfZeros
<1>7. Walking(w)' => Excess(w)' = 0
  <2>1. ItemsOf(ref[w])' = ItemsOf(t)
    BY <1>5 DEF ItemsOf
  <2>2. Walking(w)' => Pending(w)' = 0
    BY <1>2 DEF Pending
  <2> QED
    BY <1>2, <1>6, <2>1, <2>2 DEF Excess
<1> QED
  BY <1>2, <1>3, <1>7, QuietSettled DEF WalkSettled

(* The statements that write no item and move nothing.                       *)
LEMMA LookSettled ==
    ASSUME TypedInv, NEW w \in Workers,
           AdjustStep(w) \/ SkipLine(w) \/ FindSource(w) \/ FinishCancel(w) \/ FinishReject(w)
    PROVE  Settled
<1>1. WalkTypeOK
  BY TypeParts DEF TypedInv
<1>2. /\ UNCHANGED <<item, itemNew, itemLock, shipped, arrived>>
      /\ \A v \in Workers \ {w} :
           /\ pc'[v] = pc[v] /\ op'[v] = op[v] /\ ref'[v] = ref[v]
           /\ todo'[v] = todo[v] /\ moved'[v] = moved[v]
  <2> USE DEF WalkTypeOK, manifestVars, outcomeVars
  <2>1. CASE AdjustStep(w)
    BY <1>1, <2>1 DEF AdjustStep, StockStep, FindLevel, UpdateLevel, InsertLevel,
       DuplicateLevel, FinishAdjust, Goto, EndJob, transferVars, walkVars
  <2>2. CASE SkipLine(w)
    BY <1>1, <2>2 DEF SkipLine, stockVars, jobVars
  <2>3. CASE FindSource(w)
    BY <1>1, <2>3 DEF FindSource, Goto, transferVars, walkVars
  <2>4. CASE FinishCancel(w) \/ FinishReject(w)
    BY <1>1, <2>4 DEF FinishCancel, FinishReject, Flag, EndJob, EndWalk
  <2> QED
    BY <2>1, <2>2, <2>3, <2>4
<1>3. \A v \in Workers \ {w} : Unmoved(v)
  BY <1>2 DEF Unmoved, Pending, Walking, Line
<1>4. ~Walking(w)' \/ (Walking(w) /\ Unmoved(w))
  <2>1. CASE SkipLine(w) \/ FindSource(w) \/ (AdjustStep(w) /\ op[w] = "receive")
    <3>1. UNCHANGED <<op, ref, moved>>
      BY <2>1 DEF SkipLine, FindSource, AdjustStep, StockStep, FindLevel, Goto, stockVars,
         jobVars, transferVars, walkVars
    <3>2. Pending(w)' = Pending(w)
      <4>1. CASE SkipLine(w)
        BY <4>1 DEF SkipLine, AtLine, stockVars, jobVars, Pending, Walking
      <4>2. CASE FindSource(w) \/ (AdjustStep(w) /\ op[w] = "receive")
        BY <1>1, <4>2 DEF FindSource, AdjustStep, FindLevel, Goto, transferVars, walkVars,
           Pending, Walking, Line, WalkTypeOK
      <4> QED
        BY <2>1, <4>1, <4>2
    <3>3. Unmoved(w)
      BY <1>2, <3>1, <3>2 DEF Unmoved
    <3> QED
      BY <3>1, <3>3 DEF Walking
  <2>2. CASE AdjustStep(w) /\ op[w] = "adjust"
    BY <1>1, <2>2 DEF AdjustStep, StockStep, FindLevel, UpdateLevel, InsertLevel,
       DuplicateLevel, FinishAdjust, Goto, EndJob, Walking, WalkTypeOK
  <2>3. CASE FinishCancel(w) \/ FinishReject(w)
    BY <1>1, <2>3 DEF FinishCancel, FinishReject, Flag, EndJob, Walking, WalkTypeOK
  <2> QED
    BY <2>1, <2>2, <2>3 DEF AdjustStep
<1> QED
  BY <1>2, <1>3, <1>4, UnmovedExcess, QuietSettled DEF WalkSettled

(* The quantity written on an item waits for the level; what the same        *)
(* transaction wrote there before is forgotten.                              *)
LEMMA TakeSettled ==
    ASSUME TypedInv, NEW w \in Workers, TakeLine(w)
    PROVE  Settled
<1> USE WorkerAssumption
<1>1. WalkTypeOK /\ ItemTypeOK /\ WalkInv
  BY TypeParts DEF TypedInv
<1>2. PICK i \in Items, q \in Nat : i = Line(w).item /\ q = Line(w).qty
  BY <1>1, HeadLine DEF TakeLine, AtLine
<1>3. /\ AtLine(w) /\ Walking(w) /\ TransferOf[i] = ref[w] /\ itemLock[i] \in {NoWorker, w}
      /\ UNCHANGED <<item, shipped, arrived, op, ref, todo, moved>>
      /\ itemLock'[i] = w /\ itemNew'[i] = Counted(w, itemNew[i])
      /\ \A j \in Items \ {i} : itemLock'[j] = itemLock[j] /\ itemNew'[j] = itemNew[j]
  BY <1>1, <1>2 DEF TakeLine, AtLine, OwnLine, WalkInv, outcomeVars, walkVars, ItemTypeOK
<1>4. pc[w] = "line" /\ pc'[w] \in {"check", "find"} /\ \A v \in Workers \ {w} : pc'[v] = pc[v]
  BY <1>1 DEF TakeLine, AtLine, WalkTypeOK
<1>5. \A v \in Workers \ {w} : Unmoved(v)
  <2>1. \A v \in Workers \ {w} : \A j \in Items :
          /\ itemLock'[j] = v <=> itemLock[j] = v
          /\ itemLock[j] = v => itemNew'[j] = itemNew[j]
    BY <1>3
  <2> QED
    BY <1>3, <1>4, <2>1 DEF Unmoved, Pending, Walking, Line
<1>6. PICK t : t = ref[w]
  OBVIOUS
<1>7. Written(w)'[i] = q /\ \A j \in Items \ {i} : Written(w)'[j] = Written(w)[j]
  <2>1. Column(w, itemNew'[i]) = q
    BY <1>1, <1>2, <1>3 DEF Counted, Column, ItemTypeOK, Counts
  <2> QED
    BY <1>3, <2>1 DEF Written, Column
<1>8. SumOver(Written(w)', ItemsOf(t)) = SumOver(Written(w), ItemsOf(t)) - Written(w)[i] + q
  <2>1. i \in ItemsOf(t) /\ IsFiniteSet(ItemsOf(t)) /\ \A j \in ItemsOf(t) : j \in Items
    BY <1>3, <1>6, ManifestTyped DEF ItemsOf
  <2>2. \A j \in Items : Written(w)[j] \in Int /\ Written(w)'[j] \in Int
    <3>1. \A j \in Items : Written(w)[j] \in Nat
      BY ManifestTyped
    <3> HIDE DEF Written
    <3> QED
      BY <1>7, <3>1
  <2> HIDE DEF Written, ItemsOf
  <2> QED
    BY <1>7, <2>1, <2>2, SumUpdates
<1>9. Excess(w)' = Excess(w) + Written(w)[i]
  <2>1. Pending(w) = 0 /\ Pending(w)' = q
    BY <1>2, <1>3, <1>4 DEF Pending, Walking, Line
  <2>2. moved[w] \in Nat /\ Written(w)[i] \in Nat /\ SumOver(Written(w), ItemsOf(t)) \in Nat
    BY ManifestTyped
  <2>3. ItemsOf(ref[w])' = ItemsOf(t)
    BY <1>3, <1>6 DEF ItemsOf
  <2>4. Excess(w)' = moved[w] + q - SumOver(Written(w)', ItemsOf(t))
    BY <1>3, <2>1, <2>3 DEF Excess
  <2>5. Excess(w) = moved[w] + 0 - SumOver(Written(w), ItemsOf(t))
    BY <1>6, <2>1 DEF Excess
  <2> HIDE DEF Written, ItemsOf
  <2> QED
    BY <1>8, <2>2, <2>4, <2>5
<1> QED
  BY <1>2, <1>3, <1>5, <1>9, QuietSettled DEF WalkSettled

(* The level has what was written.                                           *)
LEMMA MoveSettled ==
    ASSUME TypedInv, NEW w \in Workers, MoveLine(w) \/ ReceiveNewProduct(w)
    PROVE  Settled
<1>1. WalkTypeOK /\ WalkInv
  BY TypeParts DEF TypedInv
<1>2. /\ UNCHANGED <<item, itemNew, itemLock, shipped, arrived, op, ref>>
      /\ \A v \in Workers \ {w} : pc'[v] = pc[v] /\ todo'[v] = todo[v] /\ moved'[v] = moved[v]
      /\ pc[w] \in {"update", "insert"} /\ pc'[w] = "line" /\ Walking(w)
      /\ moved'[w] = moved[w] + Line(w).qty
  BY <1>1 DEF MoveLine, ReceiveNewProduct, UpdateLevel, InsertLevel, Goto, NextLine, Walking,
     manifestVars, outcomeVars, WalkTypeOK
<1>3. \A v \in Workers \ {w} : Unmoved(v)
  BY <1>2 DEF Unmoved, Pending, Walking, Line
<1>4. Pending(w) = Line(w).qty /\ Pending(w)' = 0 /\ Line(w).qty \in Nat /\ moved[w] \in Nat
  BY <1>1, <1>2, HeadLine DEF Pending, WalkInv, WalkTypeOK
<1>5. Written(w)' = Written(w) /\ ItemsOf(ref[w])' = ItemsOf(ref[w])
  BY <1>2 DEF Written, Column, ItemsOf
<1>6. Excess(w)' = Excess(w)
  <2>1. PICK s \in Nat : s = SumOver(Written(w), ItemsOf(ref[w]))
    BY ManifestTyped
  <2>2. SumOver(Written(w), ItemsOf(ref[w]))' = s
    BY <1>5, <2>1
  <2> QED
    BY <1>2, <1>4, <2>1, <2>2 DEF Excess
<1> QED
  BY <1>2, <1>3, <1>6, QuietSettled DEF WalkSettled

(* The end of a transaction leaves the others where they are.                *)
LEMMA EndUnmoved ==
    ASSUME TypedInv, NEW w \in Workers, EndJob(w), EndWalk(w), RollbackItems(w) \/ CommitItems(w)
    PROVE  ~Walking(w)' /\ \A v \in Workers \ {w} : Unmoved(v)
<1> USE WorkerAssumption
<1>1. WalkTypeOK /\ ItemTypeOK
  BY TypeParts DEF TypedInv
<1>2. /\ ~Walking(w)'
      /\ \A v \in Workers \ {w} :
           /\ pc'[v] = pc[v] /\ op'[v] = op[v] /\ ref'[v] = ref[v]
           /\ todo'[v] = todo[v] /\ moved'[v] = moved[v]
  BY <1>1 DEF EndJob, EndWalk, WalkTypeOK, Walking
<1>3. \A i \in Items :
        /\ itemLock[i] # w => itemLock'[i] = itemLock[i] /\ itemNew'[i] = itemNew[i]
        /\ itemLock[i] = w => itemLock'[i] = NoWorker
  BY <1>1 DEF RollbackItems, CommitItems, UnlockItems, ItemTypeOK
<1> QED
  BY <1>2, <1>3 DEF Unmoved, Pending, Walking, Line

(* A transaction that is undone claims and moves nothing.                    *)
LEMMA UndoneSettled ==
    ASSUME TypedInv, NEW w \in Workers, Rollback(w) \/ ReceiveDuplicate(w)
    PROVE  Settled
<1>1. /\ EndJob(w) /\ EndWalk(w) /\ RollbackItems(w)
      /\ UNCHANGED <<item, shipped, arrived>>
  BY DEF Rollback, ReceiveDuplicate, DuplicateLevel, RollbackItems, outcomeVars
<1> QED
  BY <1>1, EndUnmoved, QuietSettled DEF WalkSettled

(* The commit of dispatch or of receive: the items of the transfer take over *)
(* the column written, and its ledger sum what was moved.                    *)
LEMMA FinishSettled ==
    ASSUME TypedInv, HistoryInv, ColumnInv, NEW w \in Workers,
           FinishDispatch(w) \/ FinishReceive(w)
    PROVE  Settled
<1>1. WalkTypeOK /\ ItemTypeOK /\ OutcomeTypeOK /\ WalkInv
  BY TypeParts DEF TypedInv
<1>2. PICK t \in Transfers : t = ref[w]
  BY <1>1 DEF FinishDispatch, FinishReceive, AtEnd, WalkInv, Serving
<1>3. /\ op[w] \in {"dispatch", "receive"} /\ pc[w] = "line"
      /\ EndJob(w) /\ EndWalk(w) /\ CommitItems(w)
  BY DEF FinishDispatch, FinishReceive, AtEnd, Commit
<1>4. \A v \in Workers : WalkSettled(v)
  BY <1>3, EndUnmoved, UnmovedExcess DEF WalkSettled, Unmoved, Walking
<1>5. /\ \A u \in Transfers \ {t} : shipped'[u] = shipped[u] /\ arrived'[u] = arrived[u]
      /\ op[w] = "dispatch" => shipped'[t] = shipped[t] + moved[w] /\ arrived'[t] = arrived[t]
      /\ op[w] = "receive" => shipped'[t] = shipped[t] /\ arrived'[t] = arrived[t] + moved[w]
  BY <1>1, <1>2 DEF FinishDispatch, FinishReceive, AtEnd, OutcomeTypeOK
<1>6. /\ \A i \in Items : TransferOf[i] # t => itemLock[i] # w
      /\ \A i \in Items : item'[i] = IF itemLock[i] = w THEN itemNew[i] ELSE item[i]
  BY <1>2, <1>3 DEF CommitItems, HistoryInv
<1>7. ASSUME NEW u \in Transfers \ {t}
      PROVE  OutSurplus(u)' = OutSurplus(u) /\ InSurplus(u)' = InSurplus(u)
  <2>1. \A i \in ItemsOf(u) : /\ Sent[i] \in Int /\ Sent'[i] = Sent[i]
                              /\ Taken[i] \in Int /\ Taken'[i] = Taken[i]
    BY <1>6, ManifestTyped DEF ItemsOf, Sent, Taken
  <2>2. /\ SumOver(Sent', ItemsOf(u)) = SumOver(Sent, ItemsOf(u))
        /\ SumOver(Taken', ItemsOf(u)) = SumOver(Taken, ItemsOf(u))
    <3>1. IsFiniteSet(ItemsOf(u))
      BY ManifestTyped
    <3> HIDE DEF Sent, Taken, ItemsOf
    <3> QED
      BY <2>1, <3>1, SumSame
  <2> QED
    BY <1>5, <2>2 DEF OutSurplus, InSurplus, ItemsOf
<1> DEFINE gain == Excess(w) + SumOver(Replaced(w), ItemsOf(t))
<1>8. /\ IsFiniteSet(ItemsOf(t)) /\ \A i \in ItemsOf(t) : i \in Items
      /\ SumOver(Written(w), ItemsOf(t)) \in Nat /\ SumOver(Replaced(w), ItemsOf(t)) \in Nat
      /\ SumOver(Sent, ItemsOf(t)) \in Nat /\ SumOver(Taken, ItemsOf(t)) \in Nat
      /\ moved[w] \in Nat /\ shipped[t] \in Nat /\ arrived[t] \in Nat
  BY <1>1, ManifestTyped DEF ItemsOf, OutcomeTypeOK
<1>9. gain = moved[w] - SumOver(Written(w), ItemsOf(t)) + SumOver(Replaced(w), ItemsOf(t))
  <2>1. Pending(w) = 0
    BY <1>3 DEF Pending
  <2> HIDE DEF Pending, Written, Replaced, ItemsOf
  <2> QED
    BY <1>2, <1>8, <2>1 DEF Excess
(* A column that takes over what was written.                                *)
<1>10. ASSUME NEW f, NEW g,
              \A i \in Items : /\ f[i] \in Nat /\ g[i] \in Nat
                               /\ g[i] + Replaced(w)[i] = f[i] + Written(w)[i]
       PROVE  SumOver(g, ItemsOf(t)) + SumOver(Replaced(w), ItemsOf(t))
                = SumOver(f, ItemsOf(t)) + SumOver(Written(w), ItemsOf(t))
  <2> DEFINE h == [i \in Items |-> f[i] + Written(w)[i]]
  <2>1. \A i \in ItemsOf(t) :
          /\ f[i] \in Int /\ g[i] \in Int /\ Written(w)[i] \in Int /\ Replaced(w)[i] \in Int
          /\ h[i] = f[i] + Written(w)[i] /\ h[i] = g[i] + Replaced(w)[i]
    <3>1. \A i \in Items : Written(w)[i] \in Nat /\ Replaced(w)[i] \in Nat
      BY ManifestTyped
    <3> HIDE DEF Written, Replaced
    <3> QED
      BY <1>8, <1>10, <3>1
  <2> HIDE DEF h, Written, Replaced, ItemsOf
  <2>2. SumOver(h, ItemsOf(t)) = SumOver(f, ItemsOf(t)) + SumOver(Written(w), ItemsOf(t))
    BY <1>8, <2>1, SumAdds
  <2>3. SumOver(h, ItemsOf(t)) = SumOver(g, ItemsOf(t)) + SumOver(Replaced(w), ItemsOf(t))
    BY <1>8, <2>1, SumAdds
  <2> QED
    BY <2>2, <2>3
(* A column the operation does not write.                                    *)
<1>11. ASSUME NEW f, NEW g, \A i \in Items : f[i] \in Nat /\ g[i] = f[i]
       PROVE  SumOver(g, ItemsOf(t)) = SumOver(f, ItemsOf(t))
  <2>1. \A i \in ItemsOf(t) : f[i] \in Int /\ g[i] = f[i]
    BY <1>8, <1>11
  <2> HIDE DEF ItemsOf
  <2> QED
    BY <1>8, <2>1, SumSame
<1>12. \A i \in Items : item[i] \in Counts /\ itemNew[i] \in Counts /\ item'[i] \in Counts
  BY <1>1, <1>6 DEF ItemTypeOK
<1>13. CASE op[w] = "dispatch"
  <2>1. \A i \in Items : /\ Sent[i] \in Nat /\ Sent'[i] \in Nat
                         /\ Sent'[i] + Replaced(w)[i] = Sent[i] + Written(w)[i]
    BY <1>6, <1>12, <1>13 DEF Sent, Written, Replaced, Column, Counts
  <2>2. \A i \in Items : Taken[i] \in Nat /\ Taken'[i] = Taken[i]
    BY <1>3, <1>6, <1>12, <1>13 DEF Taken, ColumnInv, Counts
  <2>3. SumOver(Sent', ItemsOf(t)) + SumOver(Replaced(w), ItemsOf(t))
          = SumOver(Sent, ItemsOf(t)) + SumOver(Written(w), ItemsOf(t))
    <3> HIDE DEF Sent, Written, Replaced, ItemsOf
    <3> QED BY <1>10, <2>1
  <2>4. SumOver(Taken', ItemsOf(t)) = SumOver(Taken, ItemsOf(t))
    <3> HIDE DEF Taken, ItemsOf
    <3> QED BY <1>11, <2>2
  <2>5. /\ OutSurplus(t)' = shipped'[t] - SumOver(Sent', ItemsOf(t))
        /\ InSurplus(t)' = arrived'[t] - SumOver(Taken', ItemsOf(t))
    BY DEF OutSurplus, InSurplus, ItemsOf
  <2>6. OutSurplus(t)' = OutSurplus(t) + gain /\ InSurplus(t)' = InSurplus(t)
    <3>1. PICK x \in Int : x = SumOver(Sent', ItemsOf(t))
      <4>1. \A i \in ItemsOf(t) : Sent'[i] \in Int
        BY <1>8, <2>1
      <4> HIDE DEF Sent, ItemsOf
      <4> QED BY <1>8, <4>1, SumOfIntegers
    <3>2. PICK y \in Nat, z \in Nat : /\ y = SumOver(Written(w), ItemsOf(t))
                                      /\ z = SumOver(Replaced(w), ItemsOf(t))
      BY <1>8
    <3> HIDE DEF gain, Sent, Taken, Written, Replaced, ItemsOf
    <3>3. x = SumOver(Sent, ItemsOf(t)) + y - z /\ gain = moved[w] - y + z
      BY <1>8, <1>9, <2>3, <3>1, <3>2
    <3> QED
      BY <1>5, <1>8, <1>13, <2>4, <2>5, <3>1, <3>2, <3>3 DEF OutSurplus, InSurplus
  <2>7. TransferSettled(t)
    BY <1>2, <1>13, <2>6 DEF TransferSettled
  <2> QED
    BY <1>4, <1>7, <2>7 DEF Settled, TransferSettled
<1>14. CASE op[w] = "receive"
  <2>1. \A i \in Items : /\ Taken[i] \in Nat /\ Taken'[i] \in Nat
                         /\ Taken'[i] + Replaced(w)[i] = Taken[i] + Written(w)[i]
    BY <1>6, <1>12, <1>14 DEF Taken, Written, Replaced, Column, Counts
  <2>2. \A i \in Items : Sent[i] \in Nat /\ Sent'[i] = Sent[i]
    BY <1>3, <1>6, <1>12, <1>14 DEF Sent, ColumnInv, Counts
  <2>3. SumOver(Taken', ItemsOf(t)) + SumOver(Replaced(w), ItemsOf(t))
          = SumOver(Taken, ItemsOf(t)) + SumOver(Written(w), ItemsOf(t))
    <3> HIDE DEF Taken, Written, Replaced, ItemsOf
    <3> QED BY <1>10, <2>1
  <2>4. SumOver(Sent', ItemsOf(t)) = SumOver(Sent, ItemsOf(t))
    <3> HIDE DEF Sent, ItemsOf
    <3> QED BY <1>11, <2>2
  <2>5. /\ OutSurplus(t)' = shipped'[t] - SumOver(Sent', ItemsOf(t))
        /\ InSurplus(t)' = arrived'[t] - SumOver(Taken', ItemsOf(t))
    BY DEF OutSurplus, InSurplus, ItemsOf
  <2>6. OutSurplus(t)' = OutSurplus(t) /\ InSurplus(t)' = InSurplus(t) + gain
    <3>1. PICK x \in Int : x = SumOver(Taken', ItemsOf(t))
      <4>1. \A i \in ItemsOf(t) : Taken'[i] \in Int
        BY <1>8, <2>1
      <4> HIDE DEF Taken, ItemsOf
      <4> QED BY <1>8, <4>1, SumOfIntegers
    <3>2. PICK y \in Nat, z \in Nat : /\ y = SumOver(Written(w), ItemsOf(t))
                                      /\ z = SumOver(Replaced(w), ItemsOf(t))
      BY <1>8
    <3> HIDE DEF gain, Sent, Taken, Written, Replaced, ItemsOf
    <3>3. x = SumOver(Taken, ItemsOf(t)) + y - z /\ gain = moved[w] - y + z
      BY <1>8, <1>9, <2>3, <3>1, <3>2
    <3> QED
      BY <1>5, <1>8, <1>14, <2>4, <2>5, <3>1, <3>2, <3>3 DEF OutSurplus, InSurplus
  <2>7. TransferSettled(t)
    BY <1>2, <1>14, <2>6 DEF TransferSettled
  <2> QED
    BY <1>4, <1>7, <2>7 DEF Settled, TransferSettled
<1> QED
  BY <1>3, <1>13, <1>14

(* So every step settles what it moves.                                      *)
LEMMA EveryStepSettles ==
    ASSUME TypedInv, HistoryInv, ColumnInv, RestInv, [Next]_vars
    PROVE  Settled
<1>1. CASE UNCHANGED vars \/ \E t \in Transfers : Create(t)
  <2>1. UNCHANGED <<item, shipped, arrived>> /\ \A v \in Workers : Unmoved(v)
    BY <1>1 DEF Create, vars, stockVars, jobVars, transferVars, manifestVars, outcomeVars,
       walkVars, Unmoved, Pending, Walking, Line
  <2>2. Sent' = Sent /\ Taken' = Taken
    BY <2>1 DEF Sent, Taken
  <2> QED
    BY <2>1, <2>2, UnmovedExcess DEF Settled, TransferSettled, WalkSettled, Unmoved, Walking,
       OutSurplus, InSurplus, ItemsOf
<1>2. ASSUME NEW w \in Workers, Step(w)
      PROVE  Settled
  BY <1>2, LookSettled, TakeSettled, MoveSettled, UndoneSettled, FinishSettled
     DEF Step, LineNotFound, InsufficientStock
<1> QED
  BY <1>1, <1>2, BeginSettled, UndoneSettled DEF Next, DetectDeadlock, Fail

------------------------------------------------------------------------------
(* The manifest never claims more than was moved, whatever clients overlap.  *)

(* The quantities of the items of a transfer never add up to more than its   *)
(* ledger rows.                                                              *)
ManifestWithinLedger ==
    \A t \in Transfers : /\ SumOver(Sent, ItemsOf(t)) <= shipped[t]
                         /\ SumOver(Taken, ItemsOf(t)) <= arrived[t]

(* No transfer claims more than it moved, and no walk writes down more than  *)
(* it has moved.                                                             *)
SurplusInv ==
    /\ \A t \in Transfers : OutSurplus(t) >= 0 /\ InSurplus(t) >= 0
    /\ \A w \in Workers : Walking(w) => Excess(w) >= 0

(* Nothing is claimed and nothing was moved at the start.                    *)
LEMMA EvenInit ==
    ASSUME Init
    PROVE  /\ \A t \in Transfers : OutSurplus(t) = 0 /\ InSurplus(t) = 0
           /\ \A w \in Workers : ~Walking(w)
<1>1. ASSUME NEW t \in Transfers
      PROVE  OutSurplus(t) = 0 /\ InSurplus(t) = 0
  <2>1. /\ IsFiniteSet(ItemsOf(t)) /\ shipped[t] = 0 /\ arrived[t] = 0
        /\ \A i \in ItemsOf(t) : Sent[i] = 0 /\ Taken[i] = 0
    BY RowsAssumption, FS_Subset DEF Init, Nothing, ItemsOf, Sent, Taken
  <2>2. SumOver(Sent, ItemsOf(t)) = 0 /\ SumOver(Taken, ItemsOf(t)) = 0
    <3> HIDE DEF Sent, Taken, ItemsOf
    <3> QED
      BY <2>1, SumOfZeros
  <2> QED
    BY <2>1, <2>2 DEF OutSurplus, InSurplus
<1>2. \A w \in Workers : ~Walking(w)
  BY DEF Init, StockInit, Walking
<1> QED
  BY <1>1, <1>2

(* Every step keeps the manifest within the ledger.                          *)
LEMMA SurplusNext ==
    ASSUME TypedInv, HistoryInv, ColumnInv, RestInv, SurplusInv, [Next]_vars
    PROVE  SurplusInv'
<1>1. Settled /\ WalkTypeOK
  BY EveryStepSettles, TypeParts DEF TypedInv
<1>2. /\ \A t \in Transfers : OutSurplus(t) \in Int /\ InSurplus(t) \in Int
      /\ \A w \in Workers : Excess(w) \in Int
      /\ \A w, t : SumOver(Replaced(w), ItemsOf(t)) \in Nat
      /\ \A w : \A i \in Items : Written(w)[i] \in Nat
  BY ManifestTyped
<1>3. ASSUME NEW t \in Transfers
      PROVE  OutSurplus(t)' >= 0 /\ InSurplus(t)' >= 0
  <2>1. CASE OutSurplus(t)' = OutSurplus(t) /\ InSurplus(t)' = InSurplus(t)
    BY <2>1 DEF SurplusInv
  <2>2. ASSUME NEW w \in Workers, op[w] \in {"dispatch", "receive"}
        PROVE  LET gain == Excess(w) + SumOver(Replaced(w), ItemsOf(t))
               IN  /\ OutSurplus(t) + gain >= 0 /\ OutSurplus(t) >= 0
                   /\ InSurplus(t) + gain >= 0 /\ InSurplus(t) >= 0
    BY <1>2, <2>2 DEF SurplusInv, Walking
  <2> QED
    BY <1>1, <2>1, <2>2 DEF Settled, TransferSettled
<1>4. ASSUME NEW w \in Workers, Walking(w)'
      PROVE  Excess(w)' >= 0
  BY <1>1, <1>2, <1>4 DEF Settled, WalkSettled, SurplusInv
<1> QED
  BY <1>3, <1>4 DEF SurplusInv

(* What the items of a transfer say was dispatched or received never exceeds *)
(* what its ledger rows moved, for any lines, clients and failures: an item  *)
(* is overwritten where the ledger adds up.                                  *)
THEOREM ManifestStaysWithinLedger == Spec => []ManifestWithinLedger
<1>1. TypedInv /\ SurplusInv => ManifestWithinLedger
  <2> SUFFICES ASSUME TypedInv, SurplusInv, NEW t \in Transfers
               PROVE  /\ SumOver(Sent, ItemsOf(t)) <= shipped[t]
                      /\ SumOver(Taken, ItemsOf(t)) <= arrived[t]
    BY DEF ManifestWithinLedger
  <2>1. /\ SumOver(Sent, ItemsOf(t)) \in Nat /\ SumOver(Taken, ItemsOf(t)) \in Nat
        /\ shipped[t] \in Nat /\ arrived[t] \in Nat
    BY ManifestTyped, TypeParts DEF TypedInv, OutcomeTypeOK
  <2> HIDE DEF Sent, Taken
  <2> QED
    BY <2>1 DEF SurplusInv, OutSurplus, InSurplus
<1>2. Init => SurplusInv
  BY EvenInit DEF SurplusInv
<1>3. TypedInv /\ HistoryInv /\ ColumnInv /\ RestInv /\ SurplusInv /\ [Next]_vars => SurplusInv'
  BY SurplusNext
<1> QED
  BY <1>1, <1>2, <1>3, TransferInv, TransferHistory, TransferColumns, TransferRests, PTL DEF Spec

------------------------------------------------------------------------------
(* It says exactly what was moved, until requests overlap or a scan lists an *)
(* item twice.                                                               *)

(* The transfers the manifest promises nothing of.                           *)
Exempt == overlapped \cup repeated

(* The items of the lines a worker still has to write are not written yet.   *)
OnceWalk(w) ==
    /\ NamesOnce(todo[w])
    /\ \A n \in 1 .. Len(todo[w]) :
         pc[w] = "line" \/ n > 1 => itemLock[todo[w][n].item] # w

OnceInv == \A w \in Workers : ref[w] \notin repeated => OnceWalk(w)

(* A transfer that was not received has no quantities received.              *)
FreshInv ==
    \A t \in Transfers \ overlapped :
        status[t] \in {"ABSENT", "PENDING", "IN_TRANSIT"} =>
            /\ arrived[t] = 0
            /\ \A i \in ItemsOf(t) : item[i].received = 0

(* Transfers and walks claim exactly what was moved.                         *)
EvenInv ==
    /\ \A t \in Transfers \ Exempt : OutSurplus(t) = 0 /\ InSurplus(t) = 0
    /\ \A w \in Workers : Walking(w) /\ ref[w] \notin Exempt => Excess(w) = 0

(* The lines after the current one.                                          *)
LEMMA TailLines ==
    ASSUME WalkTypeOK, NEW w \in Workers, todo[w] # <<>>, todo'[w] = Tail(todo[w])
    PROVE  /\ Len(todo[w]) \in Nat \ {0} /\ Len(todo'[w]) = Len(todo[w]) - 1
           /\ \A n \in 1 .. Len(todo'[w]) : todo'[w][n] = todo[w][n + 1]
<1>1. todo[w] \in Seq(Lines)
  BY DEF WalkTypeOK
<1> QED
  BY <1>1

(* A step that writes no item for w and leaves the others where they are.    *)
LEMMA OnceKept ==
    ASSUME TypedInv, OnceInv, NEW w \in Workers,
           repeated \subseteq repeated',
           \A v \in Workers \ {w} : todo'[v] = todo[v] /\ pc'[v] = pc[v] /\ ref'[v] = ref[v],
           \A i \in Items, v \in Workers : itemLock'[i] = v => itemLock[i] = v,
           \/ todo'[w] = <<>>
           \/ /\ ref'[w] = ref[w] /\ todo'[w] = todo[w]
              /\ pc'[w] = "line" => pc[w] = "line"
           \/ ref'[w] = ref[w] /\ todo[w] # <<>> /\ todo'[w] = Tail(todo[w])
    PROVE  OnceInv'
<1>1. WalkTypeOK
  BY TypeParts DEF TypedInv
<1>2. \A v \in Workers : \A n \in 1 .. Len(todo[v]) : todo[v][n].item \in Items
  <2>1. \A v \in Workers : todo[v] \in Seq(Lines)
    BY <1>1 DEF WalkTypeOK
  <2>2. \A v \in Workers : \A n \in 1 .. Len(todo[v]) : todo[v][n] \in Lines
    BY <2>1
  <2> QED
    BY <2>2 DEF Lines
<1>3. \A v \in Workers \ {w} : OnceWalk(v) => OnceWalk(v)'
  BY <1>2 DEF OnceWalk, NamesOnce
<1>4. ref'[w] \notin repeated' => OnceWalk(w)'
  <2> SUFFICES ASSUME ref'[w] \notin repeated'
               PROVE  /\ NamesOnce(todo'[w])
                      /\ \A n \in 1 .. Len(todo'[w]) :
                           pc'[w] = "line" \/ n > 1 => itemLock'[todo'[w][n].item] # w
    BY DEF OnceWalk
  <2>1. CASE todo'[w] = <<>>
    BY <2>1 DEF NamesOnce
  <2>2. CASE ref'[w] = ref[w] /\ todo'[w] = todo[w] /\ (pc'[w] = "line" => pc[w] = "line")
    BY <1>2, <2>2 DEF OnceInv, OnceWalk, NamesOnce
  <2>3. CASE ref'[w] = ref[w] /\ todo[w] # <<>> /\ todo'[w] = Tail(todo[w])
    <3> OnceWalk(w)
      BY <2>3 DEF OnceInv
    <3>1. /\ Len(todo[w]) \in Nat \ {0} /\ Len(todo'[w]) = Len(todo[w]) - 1
          /\ \A n \in 1 .. Len(todo'[w]) : todo'[w][n] = todo[w][n + 1]
      BY <1>1, <2>3, TailLines
    <3>2. \A n \in 1 .. Len(todo'[w]) : n + 1 \in 1 .. Len(todo[w]) /\ n + 1 > 1
      BY <3>1
    <3>3. \A m, n \in 1 .. Len(todo'[w]) : m # n => m + 1 # n + 1
      OBVIOUS
    <3>4. ASSUME NEW m \in 1 .. Len(todo'[w]), NEW n \in 1 .. Len(todo'[w]), m # n
          PROVE  todo'[w][m].item # todo'[w][n].item
      <4>1. todo[w][m + 1].item # todo[w][n + 1].item
        BY <3>2, <3>3, <3>4 DEF OnceWalk, NamesOnce
      <4> QED
        BY <3>1, <4>1
    <3>5. ASSUME NEW n \in 1 .. Len(todo'[w])
          PROVE  itemLock'[todo'[w][n].item] # w
      <4>1. todo[w][n + 1].item \in Items /\ itemLock[todo[w][n + 1].item] # w
        BY <1>2, <3>2 DEF OnceWalk
      <4> QED
        BY <3>1, <4>1
    <3> QED
      BY <3>4, <3>5 DEF NamesOnce
  <2> QED
    BY <2>1, <2>2, <2>3
<1> QED
  BY <1>3, <1>4 DEF OnceInv

(* The UPDATE of an item writes that of the current line only.               *)
LEMMA OnceTake ==
    ASSUME TypedInv, OnceInv, NEW w \in Workers, TakeLine(w)
    PROVE  OnceInv'
<1> USE WorkerAssumption
<1>1. WalkTypeOK /\ ItemTypeOK
  BY TypeParts DEF TypedInv
<1>2. PICK i \in Items : i = Line(w).item
  BY <1>1, HeadLine DEF TakeLine, AtLine
<1>3. /\ UNCHANGED <<todo, ref, repeated>>
      /\ itemLock[i] \in {NoWorker, w} /\ itemLock'[i] = w
      /\ \A j \in Items \ {i} : itemLock'[j] = itemLock[j]
      /\ pc'[w] # "line" /\ \A v \in Workers \ {w} : pc'[v] = pc[v]
  BY <1>1, <1>2 DEF TakeLine, walkVars, clientVars, ItemTypeOK, WalkTypeOK
<1>4. \A v \in Workers : \A n \in 1 .. Len(todo[v]) : todo[v][n].item \in Items
  <2>1. \A v \in Workers : todo[v] \in Seq(Lines)
    BY <1>1 DEF WalkTypeOK
  <2>2. \A v \in Workers : \A n \in 1 .. Len(todo[v]) : todo[v][n] \in Lines
    BY <2>1
  <2> QED
    BY <2>2 DEF Lines
<1>5. ASSUME NEW v \in Workers, OnceWalk(v), NEW n \in 1 .. Len(todo[v]),
             pc'[v] = "line" \/ n > 1
      PROVE  itemLock'[todo[v][n].item] # v
  <2>1. CASE v # w
    BY <1>3, <1>4, <1>5, <2>1 DEF OnceWalk
  <2>2. CASE v = w
    <3>1. n > 1 /\ todo[w] \in Seq(Lines) /\ todo[w] # <<>>
      BY <1>1, <1>3, <1>5, <2>2 DEF WalkTypeOK, TakeLine, AtLine
    <3>2. 1 \in 1 .. Len(todo[w]) /\ todo[w][1].item = i
      BY <1>2, <3>1 DEF Line
    <3>3. todo[w][n].item # i
      BY <1>5, <2>2, <3>1, <3>2 DEF OnceWalk, NamesOnce
    <3> QED
      BY <1>3, <1>4, <1>5, <2>2, <3>1, <3>3 DEF OnceWalk
  <2> QED
    BY <2>1, <2>2
<1> QED
  BY <1>3, <1>5 DEF OnceInv, OnceWalk, NamesOnce

(* Every step keeps the lines that are left apart from the items written.    *)
LEMMA OnceNext ==
    ASSUME TypedInv, HistoryInv, OnceInv, [Next]_vars
    PROVE  OnceInv'
<1> USE WorkerAssumption
<1>1. WalkTypeOK /\ ItemTypeOK
  BY TypeParts DEF TypedInv
<1>2. CASE UNCHANGED vars \/ \E t \in Transfers : Create(t)
  <2>1. UNCHANGED <<todo, pc, ref, itemLock, repeated>>
    BY <1>2 DEF Create, vars, stockVars, jobVars, transferVars, manifestVars, walkVars, clientVars
  <2> QED
    BY <2>1 DEF OnceInv, OnceWalk, NamesOnce
<1>3. ASSUME NEW w \in Workers, EndJob(w), EndWalk(w), RollbackItems(w) \/ CommitItems(w)
      PROVE  OnceInv'
  <2>1. /\ todo'[w] = <<>>
        /\ \A v \in Workers \ {w} : todo'[v] = todo[v] /\ pc'[v] = pc[v] /\ ref'[v] = ref[v]
    BY <1>1, <1>3 DEF EndJob, EndWalk, WalkTypeOK
  <2>2. \A i \in Items, v \in Workers : itemLock'[i] = v => itemLock[i] = v
    BY <1>3 DEF RollbackItems, CommitItems, UnlockItems
  <2> QED
    BY <2>1, <2>2, OnceKept, HistoryGrows
<1>4. ASSUME NEW w \in Workers, BeginRequest(w)
      PROVE  OnceInv'
  <2>1. op[w] = "none" /\ UNCHANGED itemLock
    BY <1>4 DEF HistoryInv, BeginRequest, BeginAdjust, BeginDispatch, BeginReceive, BeginCancel,
       BeginReject, Begin, StartJob, transferVars, manifestVars
  <2>2. \A i \in Items : itemLock'[i] # w
    BY <2>1 DEF HistoryInv, Walking
  <2>3. \A v \in Workers \ {w} : todo'[v] = todo[v] /\ pc'[v] = pc[v] /\ ref'[v] = ref[v]
    BY <1>1, <1>4 DEF BeginRequest, BeginAdjust, BeginDispatch, BeginReceive, BeginCancel,
       BeginReject, Begin, StartJob, transferVars, walkVars, WalkTypeOK
  <2>4. ref'[w] \notin repeated' => NamesOnce(todo'[w])
    <3>1. NamesOnce(<<>>)
      BY DEF NamesOnce
    <3>2. CASE BeginAdjust(w) /\ UNCHANGED transferVars
      BY <3>2 DEF OnceInv, OnceWalk, transferVars, walkVars, clientVars
    <3>3. ASSUME NEW t \in Transfers, NEW scan, Remember(t, scan),
                 ref' = [ref EXCEPT ![w] = t], todo' = [todo EXCEPT ![w] = scan]
          PROVE  ref'[w] \notin repeated' => NamesOnce(todo'[w])
      BY <1>1, <3>3 DEF Remember, WalkTypeOK
    <3>4. ASSUME NEW t \in Transfers, NEW name, NEW from, NEW label, NEW scan,
                 Begin(w, t, name, from, label, scan)
          PROVE  ref'[w] \notin repeated' => NamesOnce(todo'[w])
      BY <3>3, <3>4 DEF Begin
    <3> QED
      BY <1>4, <3>2, <3>4
         DEF BeginRequest, BeginDispatch, BeginReceive, BeginCancel, BeginReject
  <2>5. todo'[w] \in Seq(Lines)
    BY TypedNext DEF TypedInv, TransferTypeOK
  <2>6. \A n \in 1 .. Len(todo'[w]) : itemLock'[todo'[w][n].item] # w
    <3>1. \A n \in 1 .. Len(todo'[w]) : todo'[w][n] \in Lines
      BY <2>5
    <3> QED
      BY <2>2, <3>1 DEF Lines
  <2> QED
    BY <2>1, <2>3, <2>4, <2>6, HistoryGrows DEF OnceInv, OnceWalk, NamesOnce
<1>5. ASSUME NEW w \in Workers, Step(w)
      PROVE  OnceInv'
  <2>1. CASE LineNotFound(w) \/ InsufficientStock(w) \/ ReceiveDuplicate(w)
              \/ FinishDispatch(w) \/ FinishReceive(w)
    BY <1>3, <2>1 DEF LineNotFound, InsufficientStock, Rollback, ReceiveDuplicate,
       DuplicateLevel, FinishDispatch, FinishReceive, Commit
  <2>2. CASE TakeLine(w)
    BY <2>2, OnceTake
  <2>3. CASE AdjustStep(w) \/ FindSource(w)
    <3>1. UNCHANGED <<todo, ref, itemLock>>
      BY <2>3 DEF AdjustStep, FindSource, transferVars, manifestVars, walkVars
    <3>2. pc'[w] # "line" /\ \A v \in Workers \ {w} : pc'[v] = pc[v]
      BY <1>1, <2>3 DEF AdjustStep, StockStep, FindLevel, UpdateLevel, InsertLevel,
         DuplicateLevel, FinishAdjust, FindSource, Goto, EndJob, WalkTypeOK
    <3> QED
      BY <3>1, <3>2, OnceKept, HistoryGrows
  <2>4. CASE SkipLine(w) \/ MoveLine(w) \/ ReceiveNewProduct(w)
    <3>1. todo[w] # <<>>
      BY <2>4, TypeParts DEF SkipLine, AtLine, MoveLine, ReceiveNewProduct, UpdateLevel,
         InsertLevel, NextLine, TypedInv, WalkInv, Walking
    <3>2. /\ todo' = [todo EXCEPT ![w] = Tail(@)] /\ UNCHANGED <<itemLock, ref>>
          /\ \A v \in Workers \ {w} : pc'[v] = pc[v]
      BY <1>1, <2>4 DEF SkipLine, MoveLine, ReceiveNewProduct, UpdateLevel, InsertLevel,
         NextLine, Goto, stockVars, jobVars, manifestVars, WalkTypeOK
    <3> QED
      BY <1>1, <3>1, <3>2, OnceKept, HistoryGrows DEF WalkTypeOK
  <2>5. CASE FinishCancel(w) \/ FinishReject(w)
    <3>1. /\ UNCHANGED itemLock /\ todo'[w] = <<>>
          /\ \A v \in Workers \ {w} : todo'[v] = todo[v] /\ pc'[v] = pc[v] /\ ref'[v] = ref[v]
      BY <1>1, <2>5 DEF FinishCancel, FinishReject, Flag, EndJob, EndWalk, manifestVars, WalkTypeOK
    <3> QED
      BY <3>1, OnceKept, HistoryGrows
  <2> QED
    BY <1>5, <2>1, <2>2, <2>3, <2>4, <2>5 DEF Step
<1> QED
  BY <1>2, <1>3, <1>4, <1>5 DEF Next, DetectDeadlock, Fail, Rollback

(* Until the commit of receive nothing is received, and nobody leaves        *)
(* COMPLETED.                                                                *)
LEMMA FreshNext ==
    ASSUME TypedInv, HistoryInv, ColumnInv, TurnInv, FreshInv, [Next]_vars
    PROVE  FreshInv'
<1>1. ItemTypeOK /\ OutcomeTypeOK
  BY TypeParts DEF TypedInv
<1>2. ASSUME UNCHANGED <<item, arrived>>,
             \A t \in Transfers : status'[t] \in {"ABSENT", "PENDING", "IN_TRANSIT"} =>
                                    status[t] \in {"ABSENT", "PENDING", "IN_TRANSIT"}
      PROVE  FreshInv'
  BY <1>2, HistoryGrows DEF FreshInv, ItemsOf
<1>3. CASE UNCHANGED vars
  BY <1>2, <1>3 DEF vars, transferVars, manifestVars, outcomeVars
<1>4. ASSUME NEW t \in Transfers, Create(t)
      PROVE  FreshInv'
  BY <1>1, <1>2, <1>4 DEF Create, manifestVars, OutcomeTypeOK
<1>5. ASSUME NEW w \in Workers, BeginRequest(w) \/ Rollback(w)
      PROVE  FreshInv'
  BY <1>2, <1>5 DEF BeginRequest, BeginDispatch, BeginReceive, BeginCancel, BeginReject, Begin,
     Rollback, RollbackItems, transferVars, manifestVars, outcomeVars
<1>6. ASSUME NEW w \in Workers, Step(w)
      PROVE  FreshInv'
  <2>1. CASE FinishDispatch(w)
    <3>1. PICK t \in Transfers : t = ref[w]
      BY <2>1 DEF FinishDispatch, AtEnd, Serving, TypedInv, WalkInv
    <3>2. t \notin overlapped => status[t] = "PENDING"
      BY <2>1, <3>1 DEF FinishDispatch, AtEnd, TurnInv, Serving, Expected
    <3>3. UNCHANGED arrived /\ \A u \in Transfers \ {t} : status'[u] = status[u]
      BY <1>1, <2>1, <3>1 DEF FinishDispatch, SetStatus, OutcomeTypeOK
    <3>4. \A i \in Items : item'[i].received = item[i].received
      BY <2>1 DEF FinishDispatch, AtEnd, Commit, CommitItems, ColumnInv
    <3> QED
      BY <3>2, <3>3, <3>4, HistoryGrows DEF FreshInv, ItemsOf
  <2>2. CASE FinishReceive(w)
    <3>1. PICK t \in Transfers : t = ref[w]
      BY <2>2 DEF FinishReceive, AtEnd, Serving, TypedInv, WalkInv
    <3>2. /\ status'[t] = "COMPLETED"
          /\ \A u \in Transfers \ {t} : status'[u] = status[u] /\ arrived'[u] = arrived[u]
      BY <1>1, <2>2, <3>1 DEF FinishReceive, SetStatus, OutcomeTypeOK
    <3>3. \A i \in Items : TransferOf[i] # t => item'[i] = item[i]
      BY <2>2, <3>1 DEF FinishReceive, Commit, CommitItems, HistoryInv
    <3> QED
      BY <3>2, <3>3, HistoryGrows DEF FreshInv, ItemsOf
  <2>3. CASE FinishCancel(w) \/ FinishReject(w)
    <3>1. ref[w] \in Transfers
      BY <2>3 DEF FinishCancel, FinishReject, Flag, Serving, TypedInv, WalkInv
    <3> QED
      BY <1>1, <1>2, <2>3, <3>1 DEF FinishCancel, FinishReject, Flag, SetStatus, manifestVars,
         OutcomeTypeOK
  <2>4. CASE LineNotFound(w) \/ InsufficientStock(w)
    BY <1>5, <2>4 DEF LineNotFound, InsufficientStock
  <2>5. CASE AdjustStep(w) \/ SkipLine(w) \/ TakeLine(w) \/ FindSource(w) \/ MoveLine(w)
              \/ ReceiveNewProduct(w) \/ ReceiveDuplicate(w)
    BY <1>2, <2>5 DEF AdjustStep, SkipLine, TakeLine, FindSource, MoveLine, ReceiveNewProduct,
       NextLine, ReceiveDuplicate, RollbackItems, transferVars, manifestVars, outcomeVars
  <2> QED
    BY <1>6, <2>1, <2>2, <2>3, <2>4, <2>5 DEF Step
<1> QED
  BY <1>3, <1>4, <1>5, <1>6 DEF Next, DetectDeadlock, Fail

(* A walk is for one transfer from its first line to its last.               *)
LEMMA WalkKeepsTransfer ==
    ASSUME TypedInv, HistoryInv, [Next]_vars, NEW v \in Workers, Walking(v), Walking(v)'
    PROVE  ref'[v] = ref[v]
<1>1. WalkTypeOK /\ pc[v] # "idle"
  BY TypeParts DEF TypedInv, HistoryInv, Walking
<1>2. CASE UNCHANGED vars \/ \E t \in Transfers : Create(t)
  BY <1>2 DEF Create, vars, transferVars, walkVars
<1>3. ASSUME NEW w \in Workers, BeginRequest(w)
      PROVE  ref'[v] = ref[v]
  BY <1>1, <1>3 DEF BeginRequest, BeginAdjust, BeginDispatch, BeginReceive, BeginCancel,
     BeginReject, Begin, StartJob, transferVars, walkVars, WalkTypeOK
<1>4. ASSUME NEW w \in Workers, EndJob(w), EndWalk(w)
      PROVE  ref'[v] = ref[v]
  BY <1>1, <1>4 DEF EndJob, EndWalk, Walking, WalkTypeOK
<1>5. ASSUME NEW w \in Workers, Step(w)
      PROVE  ref'[v] = ref[v]
  <2>1. UNCHANGED ref \/ (EndJob(w) /\ EndWalk(w))
    BY <1>5 DEF Step, Rollback, AdjustStep, LineNotFound, SkipLine, TakeLine, FindSource,
       InsufficientStock, MoveLine, ReceiveNewProduct, NextLine, ReceiveDuplicate,
       DuplicateLevel, FinishDispatch, FinishReceive, Commit, FinishCancel, FinishReject, Flag,
       transferVars, walkVars
  <2> QED
    BY <1>4, <2>1
<1> QED
  BY <1>2, <1>3, <1>4, <1>5 DEF Next, DetectDeadlock, Fail, Rollback

(* An open transaction replaces only what was never counted, and writes no   *)
(* item twice.                                                               *)
LEMMA EvenNext ==
    ASSUME TypedInv, HistoryInv, ColumnInv, RestInv, TurnInv, OnceInv, FreshInv, EvenInv,
           [Next]_vars
    PROVE  EvenInv'
<1>1. Settled /\ WalkTypeOK /\ ItemTypeOK
  BY EveryStepSettles, TypeParts DEF TypedInv
<1>2. ASSUME NEW w \in Workers, Walking(w), ref[w] \notin Exempt
      PROVE  SumOver(Replaced(w), ItemsOf(ref[w])) = 0
  <2>1. ref[w] \in Transfers /\ status[ref[w]] = Expected(w)
    BY <1>2 DEF TypedInv, WalkInv, TurnInv, Serving, Walking, Exempt
  <2>2. ASSUME NEW i \in ItemsOf(ref[w])
        PROVE  Column(w, item[i]) = 0
    <3>1. CASE op[w] = "dispatch"
      BY <2>1, <2>2, <3>1 DEF Expected, HistoryInv, PendingUntouched, ItemsOf, Nothing, Column
    <3>2. CASE op[w] = "receive"
      BY <1>2, <2>1, <2>2, <3>2 DEF Expected, FreshInv, Column, Exempt
    <3> QED
      BY <1>2, <3>1, <3>2 DEF Walking
  <2>3. \A i \in ItemsOf(ref[w]) : Replaced(w)[i] = 0
    BY <2>2 DEF Replaced, ItemsOf
  <2>4. IsFiniteSet(ItemsOf(ref[w]))
    BY ManifestTyped
  <2> HIDE DEF Replaced, ItemsOf
  <2> QED
    BY <2>3, <2>4, SumOfZeros
<1> Exempt \subseteq Exempt'
  BY HistoryGrows DEF Exempt
<1>3. ASSUME NEW t \in Transfers \ Exempt'
      PROVE  OutSurplus(t)' = 0 /\ InSurplus(t)' = 0
  <2>1. CASE OutSurplus(t)' = OutSurplus(t) /\ InSurplus(t)' = InSurplus(t)
    BY <1>3, <2>1 DEF EvenInv
  <2>2. ASSUME NEW w \in Workers, op[w] \in {"dispatch", "receive"}, ref[w] = t
        PROVE  LET gain == Excess(w) + SumOver(Replaced(w), ItemsOf(t))
               IN  /\ OutSurplus(t) + gain = 0 /\ OutSurplus(t) = 0
                   /\ InSurplus(t) + gain = 0 /\ InSurplus(t) = 0
    BY <1>2, <1>3, <2>2 DEF EvenInv, Walking
  <2> QED
    BY <1>1, <2>1, <2>2 DEF Settled, TransferSettled
<1>4. ASSUME NEW w \in Workers, Walking(w)', ref'[w] \notin Exempt'
      PROVE  Excess(w)' = 0
  <2>1. ASSUME AtLine(w), ref[w] \notin Exempt, Line(w).item \in Items
        PROVE  Written(w)[Line(w).item] = 0
    <3>1. todo[w] \in Seq(Lines) /\ todo[w] # <<>>
      BY <1>1, <2>1 DEF AtLine, WalkTypeOK
    <3>2. 1 \in 1 .. Len(todo[w]) /\ Line(w) = todo[w][1]
      BY <3>1 DEF Line
    <3>3. itemLock[Line(w).item] # w
      BY <2>1, <3>2 DEF OnceInv, OnceWalk, AtLine, Exempt
    <3> QED
      BY <2>1, <3>3 DEF Written
  <2>2. Walking(w) => ref[w] \notin Exempt
    BY <1>4, WalkKeepsTransfer
  <2> QED
    BY <1>1, <1>4, <2>1, <2>2 DEF Settled, WalkSettled, EvenInv
<1> QED
  BY <1>3, <1>4 DEF EvenInv

(* In every behaviour, what left and what arrived is what the items of the   *)
(* transfer say, for any transfers, items, lines and workers, unless two     *)
(* requests for that transfer overlapped or a scan of it named an item twice.*)
THEOREM ManifestAlwaysMatches == Spec => []ManifestMatchesLedger
<1>1. TypedInv /\ EvenInv => ManifestMatchesLedger
  <2> SUFFICES ASSUME TypedInv, EvenInv, NEW t \in Transfers \ Exempt
               PROVE  /\ shipped[t] = SumOver(Sent, ItemsOf(t))
                      /\ arrived[t] = SumOver(Taken, ItemsOf(t))
    BY DEF ManifestMatchesLedger, Sent, Taken, Exempt
  <2>1. /\ SumOver(Sent, ItemsOf(t)) \in Nat /\ SumOver(Taken, ItemsOf(t)) \in Nat
        /\ shipped[t] \in Nat /\ arrived[t] \in Nat
    BY ManifestTyped, TypeParts DEF TypedInv, OutcomeTypeOK
  <2> HIDE DEF Sent, Taken
  <2> QED
    BY <2>1 DEF EvenInv, OutSurplus, InSurplus
<1>2. Init => EvenInv /\ FreshInv /\ TurnInv
  <2>1. Init => EvenInv
    BY EvenInit DEF EvenInv, Exempt
  <2>2. Init => FreshInv /\ TurnInv
    BY TransferAssumption DEF Init, StockInit, FreshInv, ItemsOf, Nothing, TurnInv, Serving
  <2> QED
    BY <2>1, <2>2
<1>3. Init => OnceInv
  <2>1. NamesOnce(<<>>) /\ 1 .. Len(<<>>) = {}
    BY DEF NamesOnce
  <2>2. Init => \A w \in Workers : todo[w] = <<>>
    BY DEF Init
  <2> QED
    BY <2>1, <2>2 DEF OnceInv, OnceWalk
<1>4. TypedInv /\ TypedInv' /\ HistoryInv /\ TurnInv /\ [Next]_vars => TurnInv'
  BY TurnNext
<1>5. TypedInv /\ HistoryInv /\ OnceInv /\ [Next]_vars => OnceInv'
  BY OnceNext
<1>6. TypedInv /\ HistoryInv /\ ColumnInv /\ TurnInv /\ FreshInv /\ [Next]_vars => FreshInv'
  BY FreshNext
<1>7. TypedInv /\ HistoryInv /\ ColumnInv /\ RestInv /\ TurnInv /\ OnceInv /\ FreshInv
        /\ EvenInv /\ [Next]_vars => EvenInv'
  BY EvenNext
<1> QED
  BY <1>1, <1>2, <1>3, <1>4, <1>5, <1>6, <1>7, TransferInv, TransferHistory, TransferColumns,
     TransferRests, PTL DEF Spec
==============================================================================
