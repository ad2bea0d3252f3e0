---------------------------- MODULE ReturnProofs ----------------------------
(****************************************************************************)
(* Theorems about Returns, for any returns, levels, quantities and workers. *)
(****************************************************************************)
EXTENDS Returns, InventoryProofs

(* A worker that writes or resolves a return knows which, and a level it is  *)
(* about to write is a level.                                                *)
DeskInv ==
    \A w \in Workers :
        /\ op[w] \in {"return", "restock", "discard"} => ret[w] \in Returns
        /\ pc[w] # "idle" => key[w] \in Keys
        /\ pc[w] = "take" => op[w] = "restock"
        /\ op[w] = "restock" => dest[w] \in Locations

(* A written RETURN row names a level.                                       *)
EventInv == \A r \in Returns : event[r] # Unwritten => event[r].at \in Keys

(* The types of the tables every service writes.                             *)
TableTypeOK ==
    /\ on_hand \in [Keys -> Int]
    /\ newest \in [Keys -> Int]
    /\ tracked \in SUBSET Keys
    /\ posted \in [Keys -> Int]
    /\ posting \in [Keys -> Int]
    /\ lock \in [Keys -> Workers \cup {NoWorker}]

(* The types of the workers.                                                 *)
DeskTypeOK ==
    /\ pc \in [Workers -> {"idle", "take", "find", "update", "insert", "commit"}]
    /\ op \in [Workers -> {"none", "adjust", "return", "restock", "discard"}]
    /\ key \in [Workers -> Keys \cup {NoKey}]
    /\ change \in [Workers -> Int]
    /\ requests \in Nat
    /\ ret \in [Workers -> Returns \cup {NoReturn}]
    /\ refers \in [Workers -> Returns \cup {NoReturn}]
    /\ dest \in [Workers -> Locations \cup {NoLocation}]

(* The types of the RETURN rows and of what refers to them.                  *)
EventTypeOK ==
    /\ event \in [Returns -> Events]
    /\ restocks \in [Returns -> Nat]
    /\ discards \in [Returns -> Nat]
    /\ noted \subseteq Returns
    /\ overlapped \subseteq Returns

(* The inductive type invariant; the three parts are ReturnTypeOK.           *)
TypedInv == TableTypeOK /\ DeskTypeOK /\ EventTypeOK /\ DeskInv /\ EventInv

(* The opening state is well typed.                                          *)
LEMMA TypedInit == Init => TypedInv
<1> SUFFICES ASSUME Init PROVE TypedInv
  OBVIOUS
<1>1. TableTypeOK
  BY OpeningAssumption DEF Init, StockInit, TableTypeOK
<1>2. DeskTypeOK /\ EventTypeOK
  BY DEF Init, StockInit, DeskTypeOK, EventTypeOK, Events, Unwritten
<1>3. DeskInv /\ EventInv
  BY DEF Init, StockInit, DeskInv, EventInv
<1> QED
  BY <1>1, <1>2, <1>3 DEF TypedInv

(* A worker that ends its request leaves a well-typed desk.                  *)
LEMMA EndTyped ==
    ASSUME DeskTypeOK, DeskInv, NEW w \in Workers, EndJob(w), LeaveDesk(w)
    PROVE  DeskTypeOK' /\ DeskInv'
BY DEF DeskTypeOK, DeskInv, EndJob, LeaveDesk

(* Adding to a level keeps its type.                                         *)
LEMMA SumTyped ==
    ASSUME NEW f \in [Keys -> Int], NEW k \in Keys, NEW c \in Int
    PROVE  [f EXCEPT ![k] = @ + c] \in [Keys -> Int]
<1>1. \A x \in Keys : f[x] + c \in Int
  OBVIOUS
<1> QED
  BY <1>1

(* Whoever writes, commits or rolls back a level keeps the types of the      *)
(* tables.                                                                   *)
LEMMA TableTyped ==
    ASSUME TypedInv, NEW w \in Workers,
           \/ pc[w] # "idle" /\ WriteLevel(w)
           \/ CommitStock(w)
           \/ RollbackStock(w)
           \/ UNCHANGED storeVars
    PROVE  TableTypeOK'
<1>1. TableTypeOK /\ change[w] \in Int
  BY DEF TypedInv, DeskTypeOK
<1>2. CASE pc[w] # "idle" /\ WriteLevel(w)
  <2>1. key[w] \in Keys
    BY <1>2 DEF TypedInv, DeskInv
  <2>2. newest' \in [Keys -> Int] /\ posting' \in [Keys -> Int]
    BY <1>1, <1>2, <2>1, SumTyped DEF TableTypeOK, WriteLevel
  <2> QED
    BY <1>1, <1>2, <2>2 DEF TableTypeOK, WriteLevel
<1>3. CASE CommitStock(w)
  BY <1>1, <1>3 DEF TableTypeOK, CommitStock, Visible, Held, Unlock
<1>4. CASE RollbackStock(w)
  BY <1>1, <1>4 DEF TableTypeOK, RollbackStock, Unlock
<1>5. CASE UNCHANGED storeVars
  BY <1>1, <1>5 DEF TableTypeOK, storeVars
<1> QED
  BY <1>2, <1>3, <1>4, <1>5

(* The ways a request ends: with its commit, or undone.                      *)
LEMMA EndingTyped ==
    ASSUME TypedInv, NEW w \in Workers,
           \/ Rollback(w)
           \/ Duplicate(w)
           \/ FinishReturn(w)
           \/ FinishAdjustment(w)
           \/ FinishRestock(w)
           \/ FinishDiscard(w)
    PROVE  TypedInv'
<1>1. CommitStock(w) \/ RollbackStock(w)
  BY DEF Rollback, Duplicate, DuplicateLevel, FinishReturn, FinishAdjustment, FinishRestock,
     FinishDiscard, Commit
<1>2. EndJob(w) /\ LeaveDesk(w) /\ UNCHANGED overlapped
  BY DEF Rollback, Duplicate, DuplicateLevel, FinishReturn, FinishAdjustment, FinishRestock,
     FinishDiscard, Commit
<1>3. TableTypeOK'
  BY <1>1, TableTyped
<1>4. DeskTypeOK' /\ DeskInv'
  BY <1>2, EndTyped DEF TypedInv
<1>5. EventTypeOK' /\ EventInv'
  <2>1. EventTypeOK /\ EventInv
    BY DEF TypedInv
  <2>2. CASE UNCHANGED eventVars
    BY <1>2, <2>1, <2>2 DEF EventTypeOK, EventInv, eventVars
  <2>3. CASE FinishReturn(w) \/ FinishAdjustment(w)
    <3>1. key[w] \in Keys /\ change[w] \in Int /\ refers[w] \in Returns \cup {NoReturn}
      BY <2>3 DEF FinishReturn, FinishAdjustment, AtEnd, TypedInv, DeskInv, DeskTypeOK
    <3>2. [at |-> key[w], qty |-> change[w]] \in Events
      BY <3>1 DEF Events
    <3>3. UNCHANGED event \/ WriteReturn(w)
      BY <2>3 DEF FinishReturn, FinishAdjustment
    <3>4. UNCHANGED <<restocks, discards>> /\ noted' \subseteq Returns
      BY <2>1, <2>3, <3>1 DEF FinishReturn, FinishAdjustment, EventTypeOK
    <3>5. event' \in [Returns -> Events] /\ EventInv'
      BY <2>1, <3>1, <3>2, <3>3 DEF WriteReturn, EventTypeOK, EventInv
    <3> QED
      BY <1>2, <2>1, <3>4, <3>5 DEF EventTypeOK
  <2>4. CASE FinishRestock(w) \/ FinishDiscard(w)
    <3>1. ret[w] \in Returns
      BY <2>4 DEF FinishRestock, FinishDiscard, AtEnd, TypedInv, DeskInv
    <3> QED
      BY <1>2, <2>1, <2>4, <3>1 DEF FinishRestock, FinishDiscard, EventTypeOK, EventInv
  <2> QED
    BY <2>2, <2>3, <2>4 DEF Rollback, Duplicate
<1> QED
  BY <1>3, <1>4, <1>5 DEF TypedInv

(* The ways a request begins.                                                *)
LEMMA BeginTyped ==
    ASSUME TypedInv, NEW w \in Workers, BeginRequest(w)
    PROVE  TypedInv'
<1>1. UNCHANGED <<storeVars, eventVars>> /\ overlapped' \in SUBSET (overlapped \cup Returns)
  BY DEF BeginRequest, BeginAdjustment, BeginAdjust, BeginReturn, BeginRestock, BeginDiscard,
     BeginResolve, Remember
<1>2. TableTypeOK'
  BY <1>1, TableTyped
<1>3. EventTypeOK' /\ EventInv'
  BY <1>1 DEF TypedInv, EventTypeOK, EventInv, eventVars
<1>4. DeskTypeOK /\ DeskInv /\ EventTypeOK /\ EventInv
  BY DEF TypedInv
<1> USE DEF StartJob, DeskTypeOK, DeskInv
<1>5. CASE BeginAdjustment(w)
  <2>1. DeskTypeOK' /\ DeskInv'
    BY <1>4, <1>5, AdjustmentAssumption DEF BeginAdjustment, BeginAdjust, Fresh, Written
  <2> QED
    BY <1>2, <1>3, <2>1 DEF TypedInv
<1>6. CASE BeginReturn(w)
  <2>1. DeskTypeOK' /\ DeskInv'
    BY <1>4, <1>6, QuantityAssumption DEF BeginReturn, Fresh
  <2> QED
    BY <1>2, <1>3, <2>1 DEF TypedInv
<1>7. ASSUME NEW r \in Returns, BeginRestock(w, r) \/ BeginDiscard(w, r)
      PROVE  TypedInv'
  <2>1. event[r].at \in Keys /\ -event[r].qty \in Int
    BY <1>4, <1>7 DEF BeginRestock, BeginDiscard, BeginResolve, Written, EventInv, EventTypeOK,
       Events
  <2>2. DeskTypeOK' /\ DeskInv'
    BY <1>4, <1>7, <2>1 DEF BeginRestock, BeginDiscard, BeginResolve
  <2> QED
    BY <1>2, <1>3, <2>2 DEF TypedInv
<1> QED
  BY <1>5, <1>6, <1>7 DEF BeginRequest

(* Every step keeps the typed invariant.                                     *)
LEMMA TypedNext == TypedInv /\ [Next]_vars => TypedInv'
<1> SUFFICES ASSUME TypedInv, [Next]_vars PROVE TypedInv'
  OBVIOUS
<1>1. CASE UNCHANGED vars
  BY <1>1 DEF vars, stockVars, storeVars, jobVars, returnVars, eventVars, deskVars,
     TypedInv, TableTypeOK, DeskTypeOK, EventTypeOK, DeskInv, EventInv
<1>2. ASSUME NEW w \in Workers, UpsertStep(w)
      PROVE  TypedInv'
  <2>1. UNCHANGED returnVars /\ DeskTypeOK /\ DeskInv
    BY <1>2 DEF UpsertStep, TypedInv
  <2>2. UNCHANGED storeVars \/ (pc[w] # "idle" /\ WriteLevel(w))
    BY <1>2 DEF UpsertStep, FindLevel, UpdateLevel, InsertLevel
  <2>3. TableTypeOK'
    BY <2>2, TableTyped
  <2>4. EventTypeOK' /\ EventInv'
    BY <2>1 DEF TypedInv, EventTypeOK, EventInv, returnVars, eventVars
  <2>5. DeskTypeOK' /\ DeskInv'
    BY <1>2, <2>1 DEF UpsertStep, FindLevel, UpdateLevel, InsertLevel, Goto, DeskTypeOK,
       DeskInv, returnVars, deskVars
  <2> QED
    BY <2>3, <2>4, <2>5 DEF TypedInv
<1>3. ASSUME NEW w \in Workers, TakeBack(w)
      PROVE  TypedInv'
  <2>1. TableTypeOK /\ DeskTypeOK /\ DeskInv /\ EventTypeOK /\ EventInv
    BY DEF TypedInv
  <2>2. key[w] \in Keys /\ change[w] \in Int /\ dest[w] \in Locations /\ op[w] = "restock"
    BY <1>3, <2>1 DEF TakeBack, DeskTypeOK, DeskInv
  <2>3. <<dest[w], key[w][2]>> \in Keys /\ -change[w] \in Int
    BY <2>2 DEF Keys
  <2>4. newest' \in [Keys -> Int]
    BY <1>3, <2>1, <2>2, SumTyped DEF TakeBack, TableTypeOK
  <2>5. TableTypeOK'
    BY <1>3, <2>1, <2>4 DEF TakeBack, TableTypeOK
  <2>6. EventTypeOK' /\ EventInv'
    BY <1>3, <2>1 DEF TakeBack, EventTypeOK, EventInv, returnVars, eventVars
  <2>7. DeskTypeOK' /\ DeskInv'
    BY <1>3, <2>1, <2>2, <2>3 DEF TakeBack, DeskTypeOK, DeskInv, returnVars, deskVars
  <2> QED
    BY <2>5, <2>6, <2>7 DEF TypedInv
<1>4. ASSUME NEW w \in Workers, Rollback(w) \/ Duplicate(w) \/ FinishReturn(w)
                          \/ FinishAdjustment(w) \/ FinishRestock(w) \/ FinishDiscard(w)
      PROVE  TypedInv'
  BY <1>4, EndingTyped
<1> QED
  BY <1>1, <1>2, <1>3, <1>4, BeginTyped DEF Next, Step, DetectDeadlock, Fail

(* The inductive invariant holds in every reachable state.                   *)
LEMMA ReturnsInv == Spec => []TypedInv
BY TypedInit, TypedNext, PTL DEF Spec

(* The types of all variables, for any sets of returns and workers.          *)
THEOREM ReturnsTyped == Spec => []ReturnTypeOK
<1>1. TypedInv => ReturnTypeOK
  BY DEF TypedInv, TableTypeOK, DeskTypeOK, EventTypeOK, ReturnTypeOK, StockTypeOK
<1> QED
  BY <1>1, ReturnsInv, PTL

------------------------------------------------------------------------------
(* Returns that no two requests resolved at a time. *)

(* Such a return, in service, has one worker, and no row of restock or       *)
(* discard while that worker resolves it.                                    *)
TurnInv ==
    /\ \A v, w \in Workers : ret[v] = ret[w] /\ ret[w] \in Returns \ overlapped => v = w
    /\ \A w \in Workers :
         op[w] \in {"restock", "discard"} /\ ret[w] \in Returns \ overlapped
           => restocks[ret[w]] + discards[ret[w]] = 0
    /\ TurnsResolveOnce

(* Every step keeps it.                                                      *)
LEMMA TurnNext ==
    ASSUME TypedInv, TurnInv, [Next]_vars
    PROVE  TurnInv'
<1> USE ReturnAssumption DEF TurnInv, TurnsResolveOnce
<1>1. CASE UNCHANGED vars
  BY <1>1 DEF vars, stockVars, jobVars, returnVars, eventVars, deskVars
<1>2. ASSUME NEW w \in Workers, EndJob(w), LeaveDesk(w),
             UNCHANGED <<restocks, discards, overlapped>>
      PROVE  TurnInv'
  BY <1>2 DEF EndJob, LeaveDesk, TypedInv, DeskTypeOK, EventTypeOK
<1>3. ASSUME NEW w \in Workers, FinishRestock(w) \/ FinishDiscard(w)
      PROVE  TurnInv'
  <2>1. /\ op[w] \in {"restock", "discard"}
        /\ ret[w] \in Returns
        /\ restocks[ret[w]] \in Nat /\ discards[ret[w]] \in Nat
    <3>1. op[w] \in {"restock", "discard"} /\ ret[w] \in Returns
      BY <1>3 DEF FinishRestock, FinishDiscard, AtEnd, TypedInv, DeskInv
    <3> QED
      BY <3>1 DEF TypedInv, EventTypeOK
  <2>2. /\ \A v \in Workers \ {w} : op'[v] = op[v] /\ ret'[v] = ret[v]
        /\ op'[w] = "none" /\ ret'[w] = NoReturn
        /\ UNCHANGED overlapped
    BY <1>3 DEF FinishRestock, FinishDiscard, Commit, EndJob, LeaveDesk, TypedInv,
       DeskTypeOK, EventTypeOK
  <2>3. /\ restocks'[ret[w]] + discards'[ret[w]] = restocks[ret[w]] + discards[ret[w]] + 1
        /\ \A r \in Returns \ {ret[w]} :
             restocks'[r] = restocks[r] /\ discards'[r] = discards[r]
    BY <1>3, <2>1 DEF FinishRestock, FinishDiscard, TypedInv, DeskTypeOK, EventTypeOK
  <2>4. ret[w] \notin overlapped => restocks[ret[w]] + discards[ret[w]] = 0
    BY <2>1
  <2>5. \A v \in Workers \ {w} :
          ret[v] \in Returns \ overlapped => ret[v] \in Returns \ {ret[w]}
    OBVIOUS
  <2>6. TurnsResolveOnce'
    BY <2>1, <2>2, <2>3, <2>4
  <2> QED
    BY <2>2, <2>3, <2>5, <2>6
<1>4. ASSUME NEW w \in Workers, UpsertStep(w) \/ TakeBack(w)
      PROVE  TurnInv'
  <2>1. UNCHANGED <<returnVars, op>>
    BY <1>4 DEF UpsertStep, TakeBack, FindLevel, UpdateLevel, InsertLevel, Goto
  <2> QED
    BY <2>1 DEF returnVars, eventVars, deskVars
<1>5. ASSUME NEW w \in Workers, BeginRequest(w)
      PROVE  TurnInv'
  <2>1. UNCHANGED <<restocks, discards>> /\ overlapped \subseteq overlapped'
    BY <1>5 DEF BeginRequest, BeginAdjustment, BeginAdjust, BeginReturn, BeginRestock,
       BeginDiscard, BeginResolve, Remember, eventVars
  <2>2. \A v \in Workers \ {w} : op'[v] = op[v] /\ ret'[v] = ret[v]
    BY <1>5 DEF BeginRequest, BeginAdjustment, BeginAdjust, BeginReturn, BeginRestock,
       BeginDiscard, BeginResolve, StartJob, TypedInv, DeskTypeOK
  <2>3. /\ \A v \in Workers \ {w} : ret'[w] \in Returns \ overlapped' => ret'[w] # ret[v]
        /\ op'[w] \in {"restock", "discard"} => restocks[ret'[w]] + discards[ret'[w]] = 0
    <3>1. CASE BeginAdjustment(w) \/ BeginReturn(w)
      BY <3>1 DEF BeginAdjustment, BeginAdjust, BeginReturn, StartJob, Fresh, TypedInv,
         DeskTypeOK
    <3>2. ASSUME NEW r \in Returns, BeginRestock(w, r) \/ BeginDiscard(w, r)
          PROVE  /\ \A v \in Workers \ {w} : ret'[w] \in Returns \ overlapped' => ret'[w] # ret[v]
                 /\ op'[w] \in {"restock", "discard"} => restocks[ret'[w]] + discards[ret'[w]] = 0
      <4>1. restocks[r] \in Nat /\ discards[r] \in Nat
        BY DEF TypedInv, EventTypeOK
      <4>2. ret'[w] = r /\ restocks[r] + discards[r] = 0 /\ Remember(r)
        BY <3>2, <4>1 DEF BeginRestock, BeginDiscard, BeginResolve, Resolved, TypedInv, DeskTypeOK
      <4> QED
        BY <4>2 DEF Remember
    <3> QED
      BY <1>5, <3>1, <3>2 DEF BeginRequest
  <2>4. \A u, v \in Workers : ret'[u] = ret'[v] /\ ret'[v] \in Returns \ overlapped' => u = v
    BY <2>1, <2>2, <2>3
  <2> QED
    BY <2>1, <2>2, <2>3, <2>4
<1>6. ASSUME NEW w \in Workers,
             Rollback(w) \/ Duplicate(w) \/ FinishReturn(w) \/ FinishAdjustment(w)
      PROVE  TurnInv'
  BY <1>2, <1>6 DEF Rollback, Duplicate, DuplicateLevel, FinishReturn, FinishAdjustment, Commit,
     eventVars
<1> QED
  BY <1>1, <1>3, <1>4, <1>5, <1>6 DEF Next, Step, DetectDeadlock, Fail

(* A return that no two requests resolved at a time is not restocked or      *)
(* discarded twice, whatever fails, whatever adjustments refer to it and     *)
(* whoever works on the same levels or other returns.                        *)
THEOREM ResolutionIsSingle == Spec => []TurnsResolveOnce
<1>1. Init => TurnInv
  BY ReturnAssumption DEF Init, StockInit, TurnInv, TurnsResolveOnce
<1>2. TypedInv /\ TurnInv /\ [Next]_vars => TurnInv'
  BY TurnNext
<1>3. TurnInv => TurnsResolveOnce
  BY DEF TurnInv
<1> QED
  BY <1>1, <1>2, <1>3, ReturnsInv, PTL DEF Spec

------------------------------------------------------------------------------
(* What restocks take from the levels. *)

(* A restock that has taken its stock out of the level of the return.        *)
Took(w) == op[w] = "restock" /\ pc[w] \in {"find", "update", "insert", "commit"}

(* A request in service whose ledger row will be a return.                   *)
Makes(w) == op[w] \in {"return", "adjust"} /\ ret[w] \in Returns

(* What the open transaction that wrote a level took from it unbooked.       *)
Unbooked(k) ==
    IF lock[k] \in Workers /\ Took(lock[k]) /\ event[ret[lock[k]]].at = k
      THEN event[ret[lock[k]]].qty ELSE 0

(* An open transaction differs from the committed rows by what it posts and  *)
(* what its restock took; a return is written by one request, and restocked  *)
(* after that.                                                               *)
DriftInv ==
    /\ RestocksExplainDrift
    /\ \A k \in Keys : newest[k] = on_hand[k] + posting[k] - Unbooked(k)
    /\ \A k \in Keys : lock[k] = NoWorker => posting[k] = 0
    /\ \A w \in Workers : pc[w] = "take" =>
         key[w] = event[ret[w]].at /\ change[w] = -event[ret[w]].qty
    /\ \A w \in Workers : op[w] = "restock" => event[ret[w]] # Unwritten
    /\ \A w \in Workers : Took(w) => lock[event[ret[w]].at] = w
    /\ \A v, w \in Workers : Makes(w) =>
         event[ret[w]] = Unwritten /\ (ret[v] = ret[w] => v = w)
    /\ \A r \in Returns : event[r] = Unwritten => restocks[r] = 0

(* The returns at a level, and what RESTOCK rows put back of them.           *)
At(k) == {r \in Returns : event[r].at = k}
PutBack(k) == SumOver(Restocked, At(k))

(* The sums are over finitely many integers.                                 *)
LEMMA RestockedTyped ==
    ASSUME EventTypeOK, NEW k \in Keys
    PROVE  /\ IsFiniteSet(At(k))
           /\ \A r \in Returns : Restocked[r] \in Int /\ Restocked[r] = restocks[r] * event[r].qty
           /\ PutBack(k) \in Int
<1>1. IsFiniteSet(At(k))
  BY RowsAssumption, FS_Subset DEF At
<1>2. \A r \in Returns : Restocked[r] \in Int /\ Restocked[r] = restocks[r] * event[r].qty
  BY DEF EventTypeOK, Events, Restocked
<1>3. PutBack(k) \in Int
  BY <1>1, <1>2, SumOfIntegers DEF PutBack, At
<1> QED
  BY <1>1, <1>2, <1>3

(* What an open restock took is a number, negative for a negative return.    *)
LEMMA UnbookedTyped ==
    ASSUME TypedInv
    PROVE  \A k \in Keys : Unbooked(k) \in Int
<1>1. \A w \in Workers : Took(w) => event[ret[w]].qty \in Int
  BY DEF TypedInv, DeskInv, EventTypeOK, Events, Took
<1> QED
  BY <1>1 DEF Unbooked

(* Nothing is restocked at the start.                                        *)
LEMMA DriftInit == Init => DriftInv
<1> SUFFICES ASSUME Init PROVE DriftInv
  OBVIOUS
<1>1. \A k \in Keys : on_hand[k] \in Int /\ Opening[k] = on_hand[k] /\ posted[k] = 0
  BY OpeningAssumption DEF Init, StockInit
<1>2. ASSUME NEW k \in Keys
      PROVE  PutBack(k) = 0
  <2>1. At(k) = {}
    BY KeyAssumption DEF Init, Unwritten, At
  <2> QED
    BY <2>1, SumOfNone DEF PutBack
<1>3. RestocksExplainDrift
  BY <1>1, <1>2 DEF RestocksExplainDrift, PutBack, At
<1> QED
  BY <1>1, <1>3, WorkerAssumption DEF Init, StockInit, DriftInv, Took, Makes, Unbooked

(* What only the worker of a step and the rows it writes can change, in a    *)
(* step that writes no event and commits nothing.                            *)
LEMMA DriftLocal ==
    ASSUME TypedInv, DriftInv, NEW w \in Workers,
           UNCHANGED <<on_hand, posted, eventVars>>,
           \A v \in Workers \ {w} :
             /\ pc'[v] = pc[v] /\ op'[v] = op[v] /\ ret'[v] = ret[v]
             /\ key'[v] = key[v] /\ change'[v] = change[v],
           \A k \in Keys : newest'[k] = on_hand[k] + posting'[k] - Unbooked(k)',
           \A k \in Keys : lock'[k] = NoWorker => posting'[k] = 0,
           \A k \in Keys : lock[k] \in Workers \ {w} => lock'[k] = lock[k],
           pc'[w] = "take" => key'[w] = event[ret'[w]].at /\ change'[w] = -event[ret'[w]].qty,
           op'[w] = "restock" => event[ret'[w]] # Unwritten,
           Took(w)' => lock'[event[ret'[w]].at] = w,
           Makes(w)' => event[ret'[w]] = Unwritten,
           \A v \in Workers \ {w} : Makes(w)' \/ Makes(v) => ret'[w] # ret[v]
    PROVE  DriftInv'
<1>1. RestocksExplainDrift'
  BY DEF DriftInv, RestocksExplainDrift, Restocked, eventVars
<1>2. \A v \in Workers \ {w} : Took(v)' => lock'[event[ret[v]].at] = v
  <2>1. \A v \in Workers \ {w} : Took(v)' => Took(v) /\ ret[v] \in Returns
    BY DEF Took, TypedInv, DeskInv
  <2>2. \A v \in Workers \ {w} : Took(v) => lock[event[ret[v]].at] = v /\ event[ret[v]] # Unwritten
    BY DEF DriftInv, Took
  <2>3. \A v \in Workers \ {w} : Took(v) /\ ret[v] \in Returns => event[ret[v]].at \in Keys
    BY <2>2 DEF TypedInv, EventInv
  <2> QED
    BY <2>1, <2>2, <2>3
<1>3. \A v \in Workers \ {w} : Makes(v)' = Makes(v) /\ event'[ret'[v]] = event[ret[v]]
  BY DEF Makes, eventVars
<1>4. \A u, v \in Workers : Makes(v)' =>
        event'[ret'[v]] = Unwritten /\ (ret'[u] = ret'[v] => u = v)
  BY <1>3 DEF DriftInv, eventVars
<1> QED
  BY <1>1, <1>2, <1>4 DEF DriftInv, Took, eventVars

(* The statements in the middle of an operation, an upsert or the taking     *)
(* back.                                                                     *)
LEMMA DriftStatement ==
    ASSUME TypedInv, DriftInv, NEW w \in Workers,
           \/ UNCHANGED returnVars /\ (FindLevel(w) \/ UpdateLevel(w, "commit")
                                                    \/ InsertLevel(w, "commit"))
           \/ TakeBack(w)
    PROVE  DriftInv'
<1> USE WorkerAssumption
<1>1. TableTypeOK /\ DeskTypeOK /\ EventTypeOK /\ DeskInv /\ EventInv
  BY DEF TypedInv
<1>2. /\ UNCHANGED <<on_hand, posted, eventVars, op, ret>>
      /\ pc'[w] \in {"find", "update", "insert", "commit"}
      /\ \A v \in Workers \ {w} : pc'[v] = pc[v] /\ key'[v] = key[v] /\ change'[v] = change[v]
  BY <1>1 DEF FindLevel, UpdateLevel, InsertLevel, WriteLevel, TakeBack, Goto, storeVars,
     returnVars, deskVars, DeskTypeOK
<1>3. \A k \in Keys : lock[k] \in Workers \ {w} => lock'[k] = lock[k] /\ Unbooked(k)' = Unbooked(k)
  <2>1. \A k \in Keys : lock[k] \in Workers \ {w} => lock'[k] = lock[k]
    BY <1>1 DEF FindLevel, UpdateLevel, InsertLevel, WriteLevel, TakeBack, CanLock, storeVars,
       TableTypeOK
  <2> QED
    BY <1>2, <2>1 DEF Unbooked, Took, eventVars
<1>7. /\ Makes(w)' => event[ret'[w]] = Unwritten
      /\ \A v \in Workers \ {w} : Makes(w)' \/ Makes(v) => ret'[w] # ret[v]
  <2>1. \A v \in Workers : Makes(v)' = Makes(v)
    BY <1>2 DEF Makes
  <2> QED
    BY <1>2, <2>1 DEF DriftInv
<1>4. CASE UNCHANGED returnVars /\ FindLevel(w)
  <2>1. pc[w] = "find" /\ UNCHANGED storeVars
    BY <1>4 DEF FindLevel
  <2>2. \A k \in Keys : Unbooked(k)' = Unbooked(k)
    BY <1>2, <2>1 DEF Unbooked, Took, storeVars, eventVars
  <2> QED
    BY <1>2, <1>7, <2>1, <2>2, DriftLocal DEF DriftInv, Took, storeVars
<1>5. CASE /\ UNCHANGED returnVars
           /\ UpdateLevel(w, "commit") \/ InsertLevel(w, "commit")
  <2>0. PICK k \in Keys : k = key[w]
    BY <1>1, <1>5 DEF UpdateLevel, InsertLevel, DeskInv
  <2>1. WriteLevel(w) /\ pc[w] \in {"update", "insert"} /\ change[w] \in Int
    BY <1>1, <1>5 DEF UpdateLevel, InsertLevel, DeskTypeOK
  <2>2. /\ \A l \in Keys \ {k} : /\ newest'[l] = newest[l] /\ posting'[l] = posting[l]
                                 /\ lock'[l] = lock[l]
        /\ lock[k] \in {NoWorker, w} /\ lock'[k] = w
        /\ newest'[k] = newest[k] + change[w]
        /\ posting'[k] = posting[k] + change[w]
    BY <1>1, <2>0, <2>1 DEF WriteLevel, CanLock, TableTypeOK
  <2>3. \A v \in Workers : Took(v)' = Took(v)
    BY <1>2, <2>1 DEF Took
  <2>4. Took(w) => lock[event[ret[w]].at] = w /\ event[ret[w]].at \in Keys
    BY <1>1 DEF Took, DriftInv, DeskInv, EventInv
  <2>5. \A l \in Keys : Unbooked(l)' = Unbooked(l)
    <3>1. \A l \in Keys : lock'[l] = lock[l] => Unbooked(l)' = Unbooked(l)
      BY <1>2, <2>3 DEF Unbooked, Took, eventVars
    <3>2. CASE lock[k] = NoWorker
      <4>1. Unbooked(k) = 0
        BY <3>2 DEF Unbooked
      <4>2. Unbooked(k)' = 0
        BY <1>2, <2>2, <2>3, <2>4, <3>2 DEF Unbooked, eventVars, Took
      <4> QED
        BY <2>2, <3>1, <4>1, <4>2
    <3>3. CASE lock[k] = w
      BY <2>2, <3>1, <3>3
    <3> QED
      BY <2>2, <3>2, <3>3
  <2>6. \A l \in Keys : newest'[l] = on_hand[l] + posting'[l] - Unbooked(l)'
    <3>1. \A l \in Keys : newest[l] = on_hand[l] + posting[l] - Unbooked(l)
      BY DEF DriftInv
    <3> QED
      BY <1>1, <2>0, <2>1, <2>2, <2>5, <3>1, UnbookedTyped DEF TableTypeOK
  <2>7. Took(w)' => lock'[event[ret[w]].at] = w
    BY <2>2, <2>3, <2>4
  <2>8. \A l \in Keys : lock'[l] = NoWorker => posting'[l] = 0
    BY <2>2 DEF DriftInv
  <2> QED
    BY <1>2, <1>3, <1>7, <2>6, <2>7, <2>8, DriftLocal DEF DriftInv
<1>6. CASE TakeBack(w)
  <2>0. PICK r \in Returns, k \in Keys : r = ret[w] /\ k = event[r].at
    BY <1>1, <1>6 DEF TakeBack, DeskInv, DriftInv, EventInv
  <2>1. /\ op[w] = "restock" /\ pc[w] = "take" /\ event[r].qty \in Int
        /\ key[w] = k /\ change[w] = -event[r].qty
    BY <1>1, <1>6, <2>0 DEF TakeBack, DeskInv, DriftInv, EventTypeOK, Events
  <2>2. /\ \A l \in Keys \ {k} : newest'[l] = newest[l] /\ lock'[l] = lock[l]
        /\ lock[k] \in {NoWorker, w} /\ lock'[k] = w
        /\ newest'[k] = newest[k] - event[r].qty
        /\ posting' = posting
    BY <1>1, <1>6, <2>0, <2>1 DEF TakeBack, CanLock, TableTypeOK
  <2>3. ~Took(w) /\ Took(w)' /\ \A v \in Workers \ {w} : Took(v)' = Took(v)
    BY <1>2, <2>1 DEF Took
  <2>4. Unbooked(k) = 0 /\ Unbooked(k)' = event[r].qty
    BY <1>2, <2>0, <2>2, <2>3 DEF Unbooked, eventVars
  <2>5. \A l \in Keys \ {k} : Unbooked(l)' = Unbooked(l)
    BY <1>2, <2>0, <2>2, <2>3 DEF Unbooked, Took, eventVars
  <2>6. \A l \in Keys : newest'[l] = on_hand[l] + posting'[l] - Unbooked(l)'
    <3>1. \A l \in Keys : newest[l] = on_hand[l] + posting[l] - Unbooked(l)
      BY DEF DriftInv
    <3> QED
      BY <1>1, <2>0, <2>1, <2>2, <2>4, <2>5, <3>1, UnbookedTyped DEF TableTypeOK
  <2>7. \A l \in Keys : lock'[l] = NoWorker => posting'[l] = 0
    BY <2>2 DEF DriftInv
  <2>8. lock'[event[ret[w]].at] = w
    BY <2>0, <2>2
  <2>10. event[ret[w]] # Unwritten /\ op'[w] = "restock" /\ ret' = ret
    BY <1>2, <2>1 DEF DriftInv
  <2> QED
    BY <1>2, <1>3, <1>7, <2>6, <2>7, <2>8, <2>10, DriftLocal
<1> QED
  BY <1>4, <1>5, <1>6

(* The start of a request: what it knows of its return.                      *)
LEMMA DriftBegin ==
    ASSUME TypedInv, DriftInv, NEW w \in Workers, BeginRequest(w)
    PROVE  DriftInv'
<1> USE WorkerAssumption
<1>1. TableTypeOK /\ DeskTypeOK /\ EventTypeOK /\ DeskInv /\ EventInv
  BY DEF TypedInv
<1>2. /\ UNCHANGED <<storeVars, eventVars>>
      /\ \A v \in Workers \ {w} :
           /\ pc'[v] = pc[v] /\ op'[v] = op[v] /\ ret'[v] = ret[v]
           /\ key'[v] = key[v] /\ change'[v] = change[v]
  BY <1>1 DEF BeginRequest, BeginAdjustment, BeginAdjust, BeginReturn, BeginRestock,
     BeginDiscard, BeginResolve, StartJob, deskVars, DeskTypeOK
<1>3. pc[w] = "idle" /\ ~Took(w) /\ ~Took(w)'
  <2>1. pc[w] = "idle"
    BY DEF BeginRequest, BeginAdjustment, BeginAdjust, BeginReturn, BeginRestock, BeginDiscard,
       BeginResolve, StartJob
  <2>2. op'[w] = "restock" => pc'[w] = "take"
    BY <1>1 DEF BeginRequest, BeginAdjustment, BeginAdjust, BeginReturn, BeginRestock,
       BeginDiscard, BeginResolve, StartJob, DeskTypeOK
  <2>3. ~Took(w)
    BY <1>1, <2>1 DEF Took, DeskInv
  <2> QED
    BY <2>1, <2>2, <2>3 DEF Took
<1>4. \A k \in Keys : Unbooked(k)' = Unbooked(k)
  <2>1. \A v \in Workers : Took(v)' = Took(v)
    BY <1>2, <1>3 DEF Took
  <2> QED
    BY <1>2, <1>3, <2>1 DEF Unbooked, Took, storeVars, eventVars
<1> DEFINE Knows ==
      /\ pc'[w] = "take" => key'[w] = event[ret'[w]].at /\ change'[w] = -event[ret'[w]].qty
      /\ op'[w] = "restock" => event[ret'[w]] # Unwritten
      /\ Makes(w)' => event[ret'[w]] = Unwritten
      /\ \A v \in Workers \ {w} : Makes(w)' \/ Makes(v) => ret'[w] # ret[v]
<1>5. Knows
  <2>1. CASE BeginAdjustment(w) \/ BeginReturn(w)
    <3>1. /\ pc'[w] = "find" /\ op'[w] # "restock"
          /\ ret'[w] \in Fresh \cup {NoReturn}
      BY <1>1, <2>1 DEF BeginAdjustment, BeginAdjust, BeginReturn, StartJob, DeskTypeOK
    <3>2. CASE ret'[w] \in Fresh
      BY <3>1, <3>2 DEF Fresh, Written, Makes
    <3>3. CASE ret'[w] = NoReturn
      BY <3>1, <3>3, ReturnAssumption DEF Makes
    <3> QED
      BY <3>1, <3>2, <3>3
  <2>2. ASSUME NEW r \in Returns, BeginRestock(w, r) \/ BeginDiscard(w, r)
        PROVE  Knows
    <3>1. /\ event[r] # Unwritten /\ ret'[w] = r /\ op'[w] \in {"restock", "discard"}
          /\ key'[w] = event[r].at /\ change'[w] = -event[r].qty
      BY <1>1, <2>2 DEF BeginRestock, BeginDiscard, BeginResolve, Written, StartJob, DeskTypeOK
    <3> QED
      BY <3>1 DEF DriftInv, Makes
  <2> QED
    BY <2>1, <2>2 DEF BeginRequest
<1> QED
  BY <1>2, <1>3, <1>4, <1>5, DriftLocal DEF DriftInv, storeVars

(* The end of a transaction, whatever it did to the rows of returns: the     *)
(* levels it does not write off the lock are explained as before.            *)
LEMMA DriftEnd ==
    ASSUME TypedInv, DriftInv, NEW w \in Workers,
           CommitStock(w) \/ RollbackStock(w), EndJob(w), LeaveDesk(w),
           RestocksExplainDrift',
           \A v \in Workers \ {w} : ret[v] \in Returns => event'[ret[v]] = event[ret[v]],
           \A r \in Returns : event'[r] = Unwritten => event[r] = Unwritten /\ restocks'[r] = restocks[r]
    PROVE  DriftInv'
<1> USE WorkerAssumption
<1>1. TableTypeOK /\ DeskTypeOK /\ EventTypeOK /\ DeskInv /\ EventInv
  BY DEF TypedInv
<1>2. /\ pc'[w] = "idle" /\ op'[w] = "none"
      /\ \A v \in Workers \ {w} :
           /\ pc'[v] = pc[v] /\ op'[v] = op[v] /\ ret'[v] = ret[v]
           /\ key'[v] = key[v] /\ change'[v] = change[v]
  BY <1>1 DEF EndJob, LeaveDesk, DeskTypeOK
<1>3. \A k \in Keys :
        /\ lock[k] = w => lock'[k] = NoWorker /\ posting'[k] = 0 /\ newest'[k] = on_hand'[k]
        /\ lock[k] # w => lock'[k] = lock[k] /\ posting'[k] = posting[k]
                          /\ newest'[k] = newest[k] /\ on_hand'[k] = on_hand[k]
  BY <1>1 DEF CommitStock, RollbackStock, Visible, Unlock, TableTypeOK
<1>4. \A k \in Keys : Unbooked(k)' = IF lock[k] = w THEN 0 ELSE Unbooked(k)
  <2>1. \A v \in Workers \ {w} : Took(v)' = Took(v)
    BY <1>2 DEF Took
  <2>2. \A k \in Keys : lock[k] = w => Unbooked(k)' = 0
    BY <1>3 DEF Unbooked
  <2>3. ASSUME NEW k \in Keys, lock[k] # w
        PROVE  Unbooked(k)' = Unbooked(k)
    <3>1. lock'[k] = lock[k]
      BY <1>3, <2>3
    <3> QED
      <4>1. \A v \in Workers \ {w} : Took(v) => event'[ret'[v]] = event[ret[v]]
        BY <1>1, <1>2 DEF Took, DeskInv
      <4>2. lock[k] \in Workers => lock[k] \in Workers \ {w} /\ (Took(lock[k])' <=> Took(lock[k]))
        BY <1>2, <2>3, <3>1 DEF Took
      <4> QED
        BY <3>1, <4>1, <4>2 DEF Unbooked, Took
  <2> QED
    BY <2>2, <2>3
<1>5. \A k \in Keys : newest'[k] = on_hand'[k] + posting'[k] - Unbooked(k)'
  <2>1. \A k \in Keys : newest[k] = on_hand[k] + posting[k] - Unbooked(k)
    BY DEF DriftInv
  <2>2. \A k \in Keys : on_hand'[k] \in Int
    BY <1>1 DEF CommitStock, RollbackStock, Visible, TableTypeOK
  <2> QED
    BY <1>3, <1>4, <2>1, <2>2
<1>6. \A v \in Workers : Took(v)' => lock'[event'[ret'[v]].at] = v
  <2>1. \A v \in Workers : Took(v)' => v # w
    BY <1>2 DEF Took
  <2>2. ASSUME NEW v \in Workers, Took(v)', v # w
        PROVE  lock'[event'[ret'[v]].at] = v
    <3>1. Took(v)
      BY <1>2, <2>2 DEF Took
    <3>2. ret[v] \in Returns /\ event[ret[v]] # Unwritten
      BY <1>1, <3>1 DEF Took, DeskInv, DriftInv
    <3>3. event[ret[v]].at \in Keys /\ lock[event[ret[v]].at] = v
      BY <1>1, <3>1, <3>2 DEF EventInv, DriftInv
    <3> QED
      BY <1>2, <1>3, <2>2, <3>2, <3>3
  <2> QED
    BY <2>1, <2>2
<1>7. \A k \in Keys : lock'[k] = NoWorker => posting'[k] = 0
  BY <1>3 DEF DriftInv
<1>8. \A v \in Workers : pc'[v] = "take" =>
        key'[v] = event'[ret'[v]].at /\ change'[v] = -event'[ret'[v]].qty
  BY <1>1, <1>2 DEF DeskInv, DriftInv
<1>9. /\ \A v \in Workers : op'[v] = "restock" => event'[ret'[v]] # Unwritten
      /\ \A u, v \in Workers : Makes(v)' =>
           event'[ret'[v]] = Unwritten /\ (ret'[u] = ret'[v] => u = v)
  <2>1. \A v \in Workers \ {w} : Makes(v) \/ op[v] = "restock" =>
          ret[v] \in Returns /\ event'[ret'[v]] = event[ret[v]] /\ ret'[v] # NoReturn
    BY <1>1, <1>2, ReturnAssumption DEF DeskInv, Makes
  <2>2. ret'[w] \in {ret[w], NoReturn}
    BY <1>1 DEF LeaveDesk, DeskTypeOK
  <2>3. \A v \in Workers : op'[v] = "restock" => event'[ret'[v]] # Unwritten
    BY <1>2, <2>1 DEF DriftInv
  <2>4. \A v \in Workers : Makes(v)' =>
          v # w /\ Makes(v) /\ event'[ret'[v]] = Unwritten
    <3>1. ~Makes(w)' /\ \A v \in Workers \ {w} : Makes(v)' = Makes(v)
      BY <1>2 DEF Makes
    <3> QED
      BY <2>1, <3>1 DEF DriftInv
  <2>5. ASSUME NEW u \in Workers, NEW v \in Workers, Makes(v)', ret'[u] = ret'[v]
        PROVE  u = v
    <3>1. v # w /\ Makes(v) /\ ret'[v] = ret[v] /\ ret[v] # NoReturn
      BY <1>2, <2>1, <2>4, <2>5
    <3>2. ret[u] = ret[v]
      BY <1>2, <2>2, <2>5, <3>1
    <3> QED
      BY <3>1, <3>2 DEF DriftInv
  <2> QED
    BY <2>3, <2>4, <2>5
<1>10. \A r \in Returns : event'[r] = Unwritten => restocks'[r] = 0
  BY DEF DriftInv
<1> QED
  BY <1>5, <1>6, <1>7, <1>8, <1>9, <1>10 DEF DriftInv

(* A commit is explained when the RESTOCK rows it adds put back what its     *)
(* transaction took.                                                         *)
LEMMA DriftCommit ==
    ASSUME TypedInv, DriftInv, NEW w \in Workers, CommitStock(w), EventTypeOK',
           \A k \in Keys : PutBack(k)' = PutBack(k) + (IF lock[k] = w THEN Unbooked(k) ELSE 0)
    PROVE  RestocksExplainDrift'
<1> SUFFICES ASSUME NEW k \in Keys
             PROVE  on_hand'[k] = Opening[k] + posted'[k] - PutBack(k)'
  BY DEF RestocksExplainDrift, PutBack, At
<1>1. TableTypeOK /\ EventTypeOK
  BY DEF TypedInv
<1>2. /\ on_hand'[k] = IF lock[k] = w THEN newest[k] ELSE on_hand[k]
      /\ posted'[k] = IF lock[k] = w THEN posted[k] + posting[k] ELSE posted[k]
  BY <1>1 DEF CommitStock, Visible
<1>3. /\ on_hand[k] = Opening[k] + posted[k] - PutBack(k)
      /\ newest[k] = on_hand[k] + posting[k] - Unbooked(k)
  BY DEF DriftInv, RestocksExplainDrift, PutBack, At
<1>4. /\ on_hand[k] \in Int /\ newest[k] \in Int /\ posted[k] \in Int /\ posting[k] \in Int
      /\ Opening[k] \in Int /\ Unbooked(k) \in Int /\ PutBack(k) \in Int
  BY <1>1, OpeningAssumption, UnbookedTyped, RestockedTyped DEF TableTypeOK
<1> HIDE DEF PutBack, Unbooked
<1> QED
  BY <1>2, <1>3, <1>4

(* A transaction that is undone, and one that commits without a RESTOCK row. *)
LEMMA DriftUndone ==
    ASSUME TypedInv, DriftInv, NEW w \in Workers, Rollback(w) \/ Duplicate(w)
    PROVE  DriftInv'
<1>1. RollbackStock(w) /\ EndJob(w) /\ LeaveDesk(w) /\ UNCHANGED eventVars
  BY DEF Rollback, Duplicate, DuplicateLevel
<1>2. RestocksExplainDrift'
  BY <1>1 DEF RollbackStock, DriftInv, RestocksExplainDrift, Restocked, eventVars
<1> QED
  BY <1>1, <1>2, DriftEnd DEF eventVars

(* The COMMIT of a discard or of an adjustment that writes no return, neither*)
(* of which took anything back.                                              *)
LEMMA DriftPlain ==
    ASSUME TypedInv, TypedInv', DriftInv, NEW w \in Workers,
           \/ FinishAdjustment(w) /\ ret[w] = NoReturn
           \/ FinishDiscard(w)
    PROVE  DriftInv'
<1>1. /\ CommitStock(w) /\ EndJob(w) /\ ~Took(w) /\ LeaveDesk(w)
      /\ UNCHANGED <<event, restocks>>
  BY DEF FinishAdjustment, FinishDiscard, AtEnd, Commit, Took
<1>2. \A k \in Keys : PutBack(k)' = PutBack(k)
  BY <1>1 DEF PutBack, At, Restocked
<1>3. \A k \in Keys : lock[k] = w => Unbooked(k) = 0
  BY <1>1 DEF Unbooked
<1>4. \A k \in Keys : PutBack(k) \in Int
  BY RestockedTyped DEF TypedInv
<1>5. RestocksExplainDrift'
  <2>1. \A k \in Keys : PutBack(k)' = PutBack(k) + (IF lock[k] = w THEN Unbooked(k) ELSE 0)
    BY <1>2, <1>3, <1>4
  <2> QED
    BY <1>1, <2>1, DriftCommit DEF TypedInv
<1> QED
  BY <1>1, <1>5, DriftEnd DEF DriftInv

(* A RETURN row, of a return or an adjustment, has no RESTOCK rows yet.      *)
LEMMA DriftReturn ==
    ASSUME TypedInv, TypedInv', DriftInv, NEW w \in Workers,
           FinishReturn(w) \/ (FinishAdjustment(w) /\ ret[w] # NoReturn)
    PROVE  DriftInv'
<1>1. /\ CommitStock(w) /\ EndJob(w) /\ LeaveDesk(w) /\ ~Took(w)
      /\ UNCHANGED restocks
      /\ WriteReturn(w) /\ pc[w] = "commit" /\ op[w] \in {"return", "adjust"}
  BY DEF FinishReturn, FinishAdjustment, AtEnd, Commit, Took
<1>2. PICK r \in Returns, k0 \in Keys : r = ret[w] /\ k0 = key[w]
  <2>1. ret[w] \in Returns
    BY DEF FinishReturn, FinishAdjustment, AtEnd, TypedInv, DeskInv, DeskTypeOK
  <2> QED
    BY <1>1, <2>1 DEF TypedInv, DeskInv
<1>3. /\ event[r] = Unwritten /\ restocks[r] = 0
      /\ \A v \in Workers \ {w} : ret[v] # r
      /\ event'[r] # Unwritten /\ event'[r].at = k0
      /\ \A s \in Returns \ {r} : event'[s] = event[s]
  <2>1. Makes(w)
    BY <1>1, <1>2 DEF Makes
  <2>2. event[r] = Unwritten /\ restocks[r] = 0 /\ \A v \in Workers \ {w} : ret[v] # r
    BY <1>2, <2>1 DEF DriftInv
  <2> QED
    BY <1>1, <1>2, <2>2, KeyAssumption DEF WriteReturn, TypedInv, EventTypeOK, Unwritten
<1>4. ASSUME NEW k \in Keys
      PROVE  PutBack(k)' = PutBack(k)
  <2>1. /\ IsFiniteSet(At(k)') /\ At(k) \in SUBSET At(k)'
        /\ \A s \in At(k)' \ At(k) : s = r
    <3>1. IsFiniteSet(At(k)')
      BY RowsAssumption, FS_Subset DEF At
    <3>2. event[r].at # k
      BY <1>3, KeyAssumption DEF Unwritten
    <3> QED
      BY <1>3, <3>1, <3>2 DEF At
  <2>2. \A s \in Returns : Restocked'[s] \in Int /\ Restocked'[s] = Restocked[s]
    <3>1. \A s \in Returns : event[s].qty \in Int /\ event'[s].qty \in Int /\ restocks[s] \in Int
      BY DEF TypedInv, EventTypeOK, Events
    <3>2. Restocked[r] = 0 /\ Restocked'[r] = 0
      BY <1>1, <1>3, <3>1 DEF Restocked
    <3> QED
      BY <1>1, <1>3, <3>1, <3>2 DEF Restocked
  <2>3. Restocked'[r] = 0
    <3>1. event'[r].qty \in Int
      BY DEF TypedInv, EventTypeOK, Events
    <3> QED
      BY <1>1, <1>3, <3>1 DEF Restocked
  <2>4. SumOver(Restocked', At(k)') = SumOver(Restocked', At(k))
    <3>1. \A s \in At(k)' : Restocked'[s] \in Int
      BY <2>2 DEF At
    <3>2. \A s \in At(k)' \ At(k) : Restocked'[s] = 0
      BY <2>1, <2>3
    <3> HIDE DEF Restocked, At
    <3> QED
      BY <2>1, <3>1, <3>2, SumDropsZeros
  <2>5. SumOver(Restocked', At(k)) = SumOver(Restocked, At(k))
    <3>1. IsFiniteSet(At(k)) /\ \A s \in At(k) : Restocked[s] \in Int /\ Restocked'[s] = Restocked[s]
      BY <2>2, RestockedTyped DEF At, TypedInv
    <3> HIDE DEF Restocked, At
    <3> QED
      BY <3>1, SumSame
  <2> QED
    BY <2>4, <2>5 DEF PutBack
<1>5. \A k \in Keys : (lock[k] = w => Unbooked(k) = 0) /\ PutBack(k) \in Int
  BY <1>1, RestockedTyped DEF Unbooked, TypedInv
<1>6. RestocksExplainDrift'
  <2>1. \A k \in Keys : PutBack(k)' = PutBack(k) + (IF lock[k] = w THEN Unbooked(k) ELSE 0)
    BY <1>4, <1>5
  <2> QED
    BY <1>1, <2>1, DriftCommit DEF TypedInv
<1> QED
  BY <1>1, <1>3, <1>6, DriftEnd

(* The RESTOCK row puts back what the transaction took.                      *)
LEMMA DriftRestock ==
    ASSUME TypedInv, TypedInv', DriftInv, NEW w \in Workers, FinishRestock(w)
    PROVE  DriftInv'
<1>1. CommitStock(w) /\ EndJob(w) /\ LeaveDesk(w) /\ Took(w) /\ UNCHANGED event
  BY DEF FinishRestock, AtEnd, Commit, Took
<1>2. PICK r \in Returns : r = ret[w]
  BY DEF FinishRestock, AtEnd, TypedInv, DeskInv
<1>3. PICK q \in Int : q = event[r].qty
  BY DEF TypedInv, EventTypeOK, Events
<1>4. /\ event[r] # Unwritten /\ lock[event[r].at] = w
      /\ restocks'[r] = restocks[r] + 1
      /\ \A s \in Returns \ {r} : restocks'[s] = restocks[s]
  BY <1>1, <1>2 DEF FinishRestock, AtEnd, DriftInv, TypedInv, EventTypeOK
<1>5. /\ \A s \in Returns : Restocked[s] \in Int /\ Restocked'[s] \in Int
      /\ \A s \in Returns \ {r} : Restocked'[s] = Restocked[s]
      /\ Restocked'[r] = Restocked[r] + q
  <2>1. \A s \in Returns : event[s].qty \in Int /\ restocks[s] \in Int /\ restocks'[s] \in Int
    BY DEF TypedInv, EventTypeOK, Events
  <2>2. (restocks[r] + 1) * q = restocks[r] * q + q
    BY <2>1
  <2> QED
    BY <1>1, <1>3, <1>4, <2>1, <2>2 DEF Restocked
<1>6. ASSUME NEW k \in Keys
      PROVE  PutBack(k)' = PutBack(k) + (IF lock[k] = w THEN Unbooked(k) ELSE 0)
  <2>1. At(k)' = At(k) /\ IsFiniteSet(At(k)) /\ PutBack(k) \in Int
    BY <1>1, RestockedTyped DEF At, TypedInv
  <2>2. At(k) \subseteq Returns /\ (r \in At(k) <=> event[r].at = k)
    BY DEF At
  <2>3. CASE event[r].at = k
    <3>1. Unbooked(k) = q /\ lock[k] = w
      BY <1>1, <1>2, <1>3, <1>4, <2>3 DEF Unbooked
    <3>2. SumOver(Restocked', At(k)) = SumOver(Restocked, At(k)) - Restocked[r] + Restocked'[r]
      <4>1. /\ r \in At(k)
            /\ \A s \in At(k) : Restocked[s] \in Int /\ Restocked'[s] \in Int
                                 /\ (s # r => Restocked'[s] = Restocked[s])
        BY <1>5, <2>2, <2>3
      <4> HIDE DEF Restocked, At
      <4> QED
        BY <2>1, <4>1, SumUpdates
    <3> QED
      BY <1>5, <2>1, <3>1, <3>2 DEF PutBack
  <2>4. CASE event[r].at # k
    <3>1. lock[k] = w => Unbooked(k) = 0
      BY <1>2, <2>4 DEF Unbooked
    <3>2. SumOver(Restocked', At(k)) = SumOver(Restocked, At(k))
      <4>1. \A s \in At(k) : Restocked[s] \in Int /\ Restocked'[s] = Restocked[s]
        BY <1>5, <2>2, <2>4
      <4> HIDE DEF Restocked, At
      <4> QED
        BY <2>1, <4>1, SumSame
    <3> QED
      BY <2>1, <3>1, <3>2 DEF PutBack
  <2> QED
    BY <2>3, <2>4
<1>7. RestocksExplainDrift'
  BY <1>1, <1>6, DriftCommit DEF TypedInv
<1>8. \A s \in Returns : event'[s] = Unwritten => restocks'[s] = restocks[s]
  BY <1>1, <1>4
<1> QED
  BY <1>1, <1>7, <1>8, DriftEnd

(* Every step keeps the invariant.                                           *)
LEMMA DriftNext == TypedInv /\ DriftInv /\ [Next]_vars => DriftInv'
<1> SUFFICES ASSUME TypedInv, DriftInv, [Next]_vars PROVE DriftInv'
  OBVIOUS
<1>1. TypedInv'
  BY TypedNext
<1>2. CASE UNCHANGED vars
  BY <1>2 DEF vars, stockVars, storeVars, jobVars, returnVars, eventVars, deskVars,
     DriftInv, RestocksExplainDrift, Restocked, Unbooked, Took, Makes
<1>3. ASSUME NEW w \in Workers, UpsertStep(w)
      PROVE  DriftInv'
  BY <1>3, DriftStatement DEF UpsertStep
<1>4. ASSUME NEW w \in Workers, Step(w)
      PROVE  DriftInv'
  BY <1>1, <1>3, <1>4, DriftUndone, DriftStatement, DriftReturn, DriftRestock, DriftPlain
     DEF Step
<1> QED
  BY <1>2, <1>4, DriftBegin, DriftUndone DEF Next, DetectDeadlock, Fail

(* The RESTOCK rows, followed back to the RETURN rows they refer to, explain *)
(* every level to the unit: for any returns, of ReturnService or written as  *)
(* adjustments, quantities of either sign and workers, however their         *)
(* transactions interleave and fail, returns that are resolved twice         *)
(* included.                                                                 *)
THEOREM RestocksAreExplained == Spec => []RestocksExplainDrift
<1>1. DriftInv => RestocksExplainDrift
  BY DEF DriftInv
<1> QED
  BY <1>1, DriftInit, DriftNext, ReturnsInv, PTL DEF Spec
==============================================================================
