---------------------------- MODULE StocktakeProofs ----------------------------
(****************************************************************************)
(* Theorems about Stocktake, for any sessions, rows, batches and workers.   *)
(****************************************************************************)
EXTENDS Stocktake, InventoryProofs

(* What a worker at each statement has, and which operation it belongs to.   *)
DeskOf(w) ==
    /\ pc[w] = "idle" => op[w] = "none"
    /\ pc[w] \in {"readBack", "thrown"} <=> op[w] = "create"
    /\ pc[w] \in {"line", "count", "found"} => op[w] = "count"
    /\ pc[w] = "correct" => op[w] = "correct"
    /\ pc[w] = "delete" => op[w] = "remove"
    /\ pc[w] \in {"items", "slip"} => op[w] \in {"complete", "remove"}
    /\ pc[w] \in {"find", "update", "insert"} => op[w] \in {"adjust", "complete"}
    /\ pc[w] = "commit" => op[w] = "adjust"
    /\ IF op[w] \in {"none", "adjust"} THEN take[w] = NoSession ELSE take[w] \in Sessions
    /\ pc[w] \in {"count", "found", "correct"} => todo[w] # <<>>
    /\ pc[w] \in {"count", "correct"} => slip[w] \in Slips /\ TakeOf[slip[w]] = take[w]
    /\ op[w] \notin {"complete", "remove"} => DOMAIN sheet[w] = {}
    /\ \A i \in DOMAIN sheet[w] : i \in Slips /\ TakeOf[i] = take[w]
    /\ op[w] = "complete" /\ pc[w] \in {"find", "update", "insert"}
         => slip[w] \in DOMAIN sheet[w]

DeskInv == \A w \in Workers : DeskOf(w)

(* The workers other than w stay where they are.                             *)
OthersStay(w) ==
    \A v \in Workers \ {w} :
        /\ pc'[v] = pc[v] /\ op'[v] = op[v] /\ key'[v] = key[v] /\ change'[v] = change[v]
        /\ take'[v] = take[v] /\ todo'[v] = todo[v] /\ slip'[v] = slip[v]
        /\ sheet'[v] = sheet[v] /\ left'[v] = left[v]

------------------------------------------------------------------------------
(* Types. *)

(* The types of the workers.                                                 *)
WorkTypeOK ==
    /\ pc \in [Workers -> Labels]
    /\ op \in [Workers -> Operations]
    /\ key \in [Workers -> Keys \cup {NoKey}]
    /\ change \in [Workers -> Int]
    /\ requests \in Nat
    /\ take \in [Workers -> Sessions \cup {NoSession}]
    /\ todo \in [Workers -> Seq(Lines)]
    /\ slip \in [Workers -> Slips \cup {NoSlip}]
    /\ left \in [Workers -> SUBSET Slips]
    /\ sheet = [w \in Workers |-> sheet[w]]
    /\ \A w \in Workers : left[w] \subseteq DOMAIN sheet[w] /\ sheet[w] \in [DOMAIN sheet[w] -> Nat]

(* The types of the sessions and their rows.                                 *)
RowTypeOK ==
    /\ status \in [Sessions -> Statuses]
    /\ takeLock \in [Sessions -> Workers \cup {NoWorker}]
    /\ row \in [Slips -> {"unwritten", "live", "deleted"}]
    /\ counted \in [Slips -> Nat]
    /\ countedNew \in [Slips -> Nat]
    /\ slipLock \in [Slips -> Workers \cup {NoWorker}]
    /\ booked \in [Slips -> Int]

(* The inductive type invariant, in the parts that different actions disturb. *)
TypedInv == WorkTypeOK /\ RowTypeOK /\ StoreTypeOK /\ DeskInv

(* A step of one worker is looked at from that worker's desk.                *)
LEMMA OneDesk ==
    ASSUME DeskInv, NEW w \in Workers, OthersStay(w), DeskOf(w)'
    PROVE  DeskInv'
BY DEF DeskInv, DeskOf, OthersStay

(* An empty sheet.                                                           *)
LEMMA EmptySheet == DOMAIN NoSheet = {} /\ NoSheet \in [DOMAIN NoSheet -> Nat]
BY DEF NoSheet

(* What is expected of a row is a number, and its level a key.               *)
LEMMA SlipTypes ==
    ASSUME NEW i \in Slips
    PROVE  KeyOf(i) \in Keys /\ Expected(i) \in Nat
BY SessionAssumption, CountableAssumption DEF KeyOf, Keys, Expected

(* The opening state is well typed.                                          *)
LEMMA TypedInit == Init => TypedInv
<1> SUFFICES ASSUME Init PROVE TypedInv
  OBVIOUS
<1>1. StoreTypeOK
  BY StoreInit DEF Init, StoreInv
<1>2. WorkTypeOK /\ RowTypeOK
  BY RequestAssumption, SessionAssumption
     DEF Init, StockInit, NoSheet, WorkTypeOK, RowTypeOK, Labels, Operations, Statuses
<1>3. DeskInv
  BY EmptySheet DEF Init, StockInit, DeskInv, DeskOf
<1> QED
  BY <1>1, <1>2, <1>3 DEF TypedInv

(* The four things a step of other services does to the tables, and setting  *)
(* a level, keep the types of the store.                                     *)
LEMMA StoreTyped ==
    ASSUME StoreTypeOK, WorkTypeOK, NEW w \in Workers,
           UNCHANGED storeVars \/ WriteLevel(w) \/ CommitStock(w) \/ RollbackStock(w)
    PROVE  StoreTypeOK'
<1>1. CASE UNCHANGED storeVars
  BY <1>1 DEF storeVars, StoreTypeOK
<1>2. CASE WriteLevel(w)
  <2>1. \A f \in [Keys -> Int] : \A k \in Keys : f[k] + change[w] \in Int
    BY DEF WorkTypeOK
  <2>2. \A f \in [Keys -> Int] : [f EXCEPT ![key[w]] = @ + change[w]] \in [Keys -> Int]
    BY <2>1
  <2> QED
    BY <1>2, <2>2 DEF WriteLevel, StoreTypeOK
<1>3. CASE CommitStock(w) \/ RollbackStock(w)
  BY <1>3 DEF CommitStock, RollbackStock, Visible, Held, Unlock, StoreTypeOK
<1> QED
  BY <1>1, <1>2, <1>3

(* A worker that is done has nothing; the others are as they were.           *)
LEMMA EndTyped ==
    ASSUME WorkTypeOK, DeskInv, NEW w \in Workers, EndJob(w), LeaveDesk(w)
    PROVE  WorkTypeOK' /\ DeskInv' /\ OthersStay(w)
<1>1. WorkTypeOK'
  <2>1. \A v \in Workers : left'[v] \subseteq DOMAIN sheet'[v]
                            /\ sheet'[v] \in [DOMAIN sheet'[v] -> Nat]
    BY EmptySheet DEF WorkTypeOK, LeaveDesk
  <2>2. sheet' = [v \in Workers |-> sheet'[v]]
    BY DEF WorkTypeOK, LeaveDesk
  <2> QED
    BY <2>1, <2>2 DEF WorkTypeOK, EndJob, LeaveDesk, Labels, Operations
<1>2. OthersStay(w)
  BY DEF WorkTypeOK, EndJob, LeaveDesk, OthersStay
<1>3. DeskOf(w)'
  BY EmptySheet DEF WorkTypeOK, EndJob, LeaveDesk, DeskOf
<1> QED
  BY <1>1, <1>2, <1>3, OneDesk

(* The locks a worker gives back.                                            *)
LEMMA UnlockTyped ==
    ASSUME RowTypeOK, NEW w, UnlockRows(w)
    PROVE  /\ slipLock' \in [Slips -> Workers \cup {NoWorker}]
           /\ takeLock' \in [Sessions -> Workers \cup {NoWorker}]
BY DEF RowTypeOK, UnlockRows

(* A transaction that is undone leaves well-typed rows and workers.          *)
LEMMA RollbackTyped ==
    ASSUME TypedInv, NEW w \in Workers, Rollback(w)
    PROVE  TypedInv' /\ OthersStay(w)
<1>1. RowTypeOK'
  BY UnlockTyped DEF TypedInv, Rollback, RowTypeOK
<1> QED
  BY <1>1, EndTyped, StoreTyped DEF TypedInv, Rollback

(* So does one that is committed.                                            *)
LEMMA CommitTyped ==
    ASSUME TypedInv, NEW w \in Workers, Commit(w)
    PROVE  /\ WorkTypeOK' /\ DeskInv' /\ StoreTypeOK' /\ OthersStay(w)
           /\ counted' \in [Slips -> Nat] /\ countedNew' \in [Slips -> Nat]
           /\ slipLock' \in [Slips -> Workers \cup {NoWorker}]
           /\ takeLock' \in [Sessions -> Workers \cup {NoWorker}]
<1>1. counted' \in [Slips -> Nat] /\ countedNew' \in [Slips -> Nat]
  BY DEF TypedInv, Commit, RowTypeOK
<1> QED
  BY <1>1, UnlockTyped, EndTyped, StoreTyped DEF TypedInv, Commit

(* The operations start with what their statements need.                     *)
LEMMA BeginTyped ==
    ASSUME TypedInv, NEW w \in Workers, BeginRequest(w)
    PROVE  TypedInv' /\ OthersStay(w)
<1> USE RequestAssumption DEF TypedInv
<1>1. RowTypeOK' /\ StoreTypeOK'
  BY DEF BeginRequest, BeginAdjust, BeginCreate, BeginCount, BeginCorrect, BeginComplete,
         BeginRemove, Begin, takeVars, slipVars, storeVars, RowTypeOK, StoreTypeOK
<1>2. OthersStay(w) /\ pc[w] = "idle"
  BY DEF BeginRequest, BeginAdjust, BeginCreate, BeginCount, BeginCorrect, BeginComplete,
         BeginRemove, Begin, StartJob, deskVars, WorkTypeOK, OthersStay
<1>3. DeskOf(w) /\ op[w] = "none" /\ DOMAIN sheet[w] = {}
  BY <1>2 DEF DeskInv, DeskOf
<1>4. CASE BeginAdjust(w) /\ UNCHANGED deskVars
  <2>1. WorkTypeOK'
    BY <1>4, AdjustmentAssumption DEF BeginAdjust, StartJob, deskVars, WorkTypeOK, Labels, Operations
  <2>2. DeskOf(w)'
    BY <1>3, <1>4 DEF BeginAdjust, StartJob, deskVars, WorkTypeOK, DeskOf
  <2> QED
    BY <1>1, <1>2, <2>1, <2>2, OneDesk
<1>5. ASSUME NEW s \in Sessions, BeginCreate(w, s)
      PROVE  WorkTypeOK' /\ DeskOf(w)'
  BY <1>3, <1>5 DEF BeginCreate, Begin, StartJob, WorkTypeOK, DeskOf, Labels, Operations
<1>6. ASSUME NEW s \in Sessions, BeginComplete(w, s)
      PROVE  WorkTypeOK' /\ DeskOf(w)'
  BY <1>3, <1>6 DEF BeginComplete, Begin, StartJob, WorkTypeOK, DeskOf, Labels, Operations
<1>7. ASSUME NEW s \in Sessions, BeginRemove(w, s)
      PROVE  WorkTypeOK' /\ DeskOf(w)'
  BY <1>3, <1>7 DEF BeginRemove, Begin, StartJob, WorkTypeOK, DeskOf, Labels, Operations
<1>8. ASSUME NEW s \in Sessions, BeginCount(w, s)
      PROVE  WorkTypeOK' /\ DeskOf(w)'
  BY <1>3, <1>8, CountAssumption
     DEF BeginCount, Begin, StartJob, WorkTypeOK, DeskOf, Labels, Operations
<1>9. ASSUME NEW i \in Slips, BeginCorrect(w, i)
      PROVE  WorkTypeOK' /\ DeskOf(w)'
  <2>1. PICK n \in Corrections :
          /\ Begin(w, TakeOf[i], "IN_PROGRESS", "correct", "correct")
          /\ slip' = [slip EXCEPT ![w] = i]
          /\ todo' = [todo EXCEPT ![w] = <<[product |-> ProductOf[i], qty |-> n]>>]
    BY <1>9 DEF BeginCorrect
  <2>2. TakeOf[i] \in Sessions /\ [product |-> ProductOf[i], qty |-> n] \in Lines
    BY SessionAssumption, CountAssumption DEF Lines
  <2>3. /\ <<[product |-> ProductOf[i], qty |-> n]>> \in Seq(Lines)
        /\ <<[product |-> ProductOf[i], qty |-> n]>> # <<>>
    BY <2>2
  <2>4. WorkTypeOK'
    BY <2>1, <2>2, <2>3 DEF Begin, StartJob, WorkTypeOK, Labels, Operations
  <2> QED
    BY <1>3, <2>1, <2>2, <2>3, <2>4 DEF Begin, StartJob, WorkTypeOK, DeskOf
<1> QED
  BY <1>1, <1>2, <1>4, <1>5, <1>6, <1>7, <1>8, <1>9, OneDesk DEF BeginRequest

(* The look-up of a create.                                                  *)
LEMMA ReadBackTyped ==
    ASSUME TypedInv, NEW w \in Workers, ReadBack(w)
    PROVE  TypedInv' /\ OthersStay(w)
<1> USE DEF TypedInv
<1>1. RowTypeOK' /\ StoreTypeOK'
  BY DEF ReadBack, takeVars, slipVars, storeVars, RowTypeOK, StoreTypeOK
<1>2. WorkTypeOK' /\ OthersStay(w)
  BY DEF ReadBack, Goto, deskVars, WorkTypeOK, OthersStay, Labels
<1>3. DeskOf(w)'
  BY <1>2 DEF ReadBack, Goto, deskVars, WorkTypeOK, DeskInv, DeskOf
<1> QED
  BY <1>1, <1>2, <1>3, OneDesk

(* The line a worker stands at, and what is left after it.                   *)
LEMMA HeadLine ==
    ASSUME WorkTypeOK, NEW w \in Workers, todo[w] # <<>>
    PROVE  /\ Line(w).product \in Products
           /\ Line(w).qty \in Nat
           /\ Tail(todo[w]) \in Seq(Lines)
<1>1. todo[w] \in Seq(Lines) /\ todo[w] # <<>>
  BY DEF WorkTypeOK
<1>2. Head(todo[w]) \in Lines /\ Tail(todo[w]) \in Seq(Lines)
  BY <1>1
<1> QED
  BY <1>2 DEF Line, Lines

(* The statements of submitCount before its commit, and correctCount.        *)
LEMMA CountTyped ==
    ASSUME TypedInv, NEW w \in Workers,
           FindSlip(w) \/ CountSlip(w) \/ InsertSlip(w) \/ Correct(w)
    PROVE  TypedInv' /\ OthersStay(w)
<1> USE DEF TypedInv
<1>1. StoreTypeOK'
  BY DEF FindSlip, CountSlip, InsertSlip, NextLine, Correct, storeVars, StoreTypeOK
<1>2. CASE FindSlip(w)
  <2>1. Candidates(w) \subseteq {i \in Slips : TakeOf[i] = take[w]}
    BY DEF Candidates
  <2>2. RowTypeOK'
    BY <1>2 DEF FindSlip, takeVars, slipVars, RowTypeOK
  <2>3. WorkTypeOK' /\ OthersStay(w)
    BY <1>2, <2>1 DEF FindSlip, Goto, WorkTypeOK, OthersStay, Labels
  <2>4. DeskOf(w)'
    BY <1>2, <2>1, <2>3 DEF FindSlip, AtLine, Goto, WorkTypeOK, DeskInv, DeskOf
  <2> QED
    BY <1>1, <2>2, <2>3, <2>4, OneDesk
<1>3. CASE CountSlip(w) \/ InsertSlip(w)
  <2>1. pc[w] \in {"count", "found"} /\ NextLine(w)
    BY <1>3 DEF CountSlip, InsertSlip
  <2>2. op[w] = "count" /\ Line(w).qty \in Nat /\ Tail(todo[w]) \in Seq(Lines)
    BY <2>1, HeadLine DEF DeskInv, DeskOf
  <2>3. WorkTypeOK' /\ OthersStay(w)
    BY <2>1, <2>2 DEF NextLine, Goto, WorkTypeOK, OthersStay, Labels
  <2>4. DeskOf(w)'
    BY <2>1, <2>2, <2>3 DEF NextLine, Goto, WorkTypeOK, DeskInv, DeskOf
  <2>5. slipLock' \in [Slips -> Workers \cup {NoWorker}]
    BY <1>3 DEF CountSlip, InsertSlip, RowTypeOK
  <2>6. countedNew' \in [Slips -> Nat]
    <3>1. CASE CountSlip(w)
      <4>1. \A i \in Slips : countedNew[i] + Line(w).qty \in Nat
        BY <2>2 DEF RowTypeOK
      <4>2. [countedNew EXCEPT ![slip[w]] = @ + Line(w).qty] \in [Slips -> Nat]
        BY <4>1 DEF RowTypeOK
      <4> QED
        BY <3>1, <4>2 DEF CountSlip, RowTypeOK
    <3>2. CASE InsertSlip(w)
      BY <3>2, <2>2 DEF InsertSlip, RowTypeOK
    <3> QED
      BY <1>3, <3>1, <3>2
  <2>7. RowTypeOK'
    BY <2>1, <2>5, <2>6 DEF NextLine, RowTypeOK
  <2> QED
    BY <1>1, <2>3, <2>4, <2>7, OneDesk
<1>4. CASE Correct(w)
  <2>1. Line(w).qty \in Nat
    BY <1>4, HeadLine DEF Correct, DeskInv, DeskOf
  <2>2. RowTypeOK'
    BY <1>4, <2>1 DEF Correct, RowTypeOK
  <2> QED
    BY <1>1, <1>4, <2>2, EndTyped DEF Correct
<1> QED
  BY <1>2, <1>3, <1>4

(* The statements of complete and remove on sessions and rows.               *)
LEMMA SheetTyped ==
    ASSUME TypedInv, NEW w \in Workers,
           LockTake(w) \/ ReadSlips(w) \/ SetVariance(w) \/ DropSlip(w)
    PROVE  TypedInv' /\ OthersStay(w)
<1> USE DEF TypedInv
<1>1. StoreTypeOK'
  BY DEF LockTake, ReadSlips, SetVariance, DropSlip, TakeSlip, storeVars, StoreTypeOK
<1>2. CASE LockTake(w)
  <2>1. RowTypeOK' /\ WorkTypeOK' /\ OthersStay(w)
    BY <1>2 DEF LockTake, Goto, slipVars, deskVars, RowTypeOK, WorkTypeOK, OthersStay, Labels
  <2>2. DeskOf(w)'
    BY <1>2, <2>1 DEF LockTake, Goto, deskVars, WorkTypeOK, DeskInv, DeskOf
  <2> QED
    BY <1>1, <2>1, <2>2, OneDesk
<1>3. CASE ReadSlips(w)
  <2>1. /\ Live(take[w]) \subseteq Slips
        /\ \A i \in Live(take[w]) : TakeOf[i] = take[w] /\ counted[i] \in Nat
    BY DEF Live, RowTypeOK
  <2>2. /\ DOMAIN sheet'[w] = Live(take[w]) /\ left'[w] = Live(take[w])
        /\ sheet'[w] \in [Live(take[w]) -> Nat]
        /\ \A v \in Workers \ {w} : sheet'[v] = sheet[v] /\ left'[v] = left[v]
        /\ sheet' = [v \in Workers |-> sheet'[v]]
    BY <1>3, <2>1 DEF ReadSlips, WorkTypeOK
  <2>3. RowTypeOK'
    BY <1>3 DEF ReadSlips, takeVars, slipVars, RowTypeOK
  <2>4. OthersStay(w)
    BY <1>3, <2>2 DEF ReadSlips, Goto, WorkTypeOK, OthersStay
  <2>5. WorkTypeOK'
    BY <1>3, <2>1, <2>2 DEF ReadSlips, Goto, WorkTypeOK, Labels
  <2>6. DeskOf(w)'
    BY <1>3, <2>1, <2>2, <2>5 DEF ReadSlips, Goto, WorkTypeOK, DeskInv, DeskOf
  <2> QED
    BY <1>1, <2>3, <2>4, <2>5, <2>6, OneDesk
<1>4. CASE SetVariance(w) \/ DropSlip(w)
  <2>1. TakeSlip(w) /\ left[w] # {} /\ pc[w] = "slip"
    BY <1>4 DEF SetVariance, DropSlip, AtSlip
  <2>2. NextSlip(w) \in left[w]
    BY <2>1 DEF NextSlip
  <2>3. NextSlip(w) \in Slips /\ NextSlip(w) \in DOMAIN sheet[w] /\ sheet[w][NextSlip(w)] \in Nat
    BY <2>2 DEF WorkTypeOK
  <2>4. KeyOf(NextSlip(w)) \in Keys /\ Variance(w, NextSlip(w)) \in Int
    BY <2>3, SlipTypes DEF Variance
  <2>5. RowTypeOK'
    BY <2>1 DEF TakeSlip, RowTypeOK
  <2>6. CASE SetVariance(w)
    <3>1. WorkTypeOK'
      <4>1. pc' \in [Workers -> Labels]
        BY <2>6 DEF SetVariance, WorkTypeOK, Labels
      <4>2. key' \in [Workers -> Keys \cup {NoKey}] /\ change' \in [Workers -> Int]
            /\ slip' \in [Workers -> Slips \cup {NoSlip}]
        BY <2>3, <2>4, <2>6 DEF SetVariance, WorkTypeOK
      <4> QED
        BY <2>1, <4>1, <4>2 DEF TakeSlip, WorkTypeOK
    <3>2. OthersStay(w)
      BY <2>1, <2>6 DEF SetVariance, TakeSlip, WorkTypeOK, OthersStay
    <3>3. /\ pc'[w] \in {"slip", "find"} /\ op'[w] = "complete" /\ op[w] = "complete"
          /\ slip'[w] = NextSlip(w) /\ take'[w] = take[w] /\ sheet'[w] = sheet[w]
      BY <2>1, <2>6 DEF SetVariance, AtSlip, TakeSlip, WorkTypeOK
    <3>4. DeskOf(w)'
      BY <2>1, <2>3, <3>3 DEF DeskInv, DeskOf
    <3> QED
      BY <1>1, <2>5, <3>1, <3>2, <3>4, OneDesk
  <2>7. CASE DropSlip(w)
    <3>1. WorkTypeOK' /\ OthersStay(w)
      BY <2>1, <2>7 DEF DropSlip, TakeSlip, WorkTypeOK, OthersStay
    <3>2. DeskOf(w)'
      BY <2>1, <2>7, <3>1 DEF DropSlip, TakeSlip, WorkTypeOK, DeskInv, DeskOf
    <3> QED
      BY <1>1, <2>5, <3>1, <3>2, OneDesk
  <2> QED
    BY <1>4, <2>6, <2>7
<1> QED
  BY <1>2, <1>3, <1>4

(* The statements on levels.                                                 *)
LEMMA LevelTyped ==
    ASSUME TypedInv, NEW w \in Workers, LookUp(w) \/ SettleLevel(w) \/ AdjustStep(w)
    PROVE  TypedInv' /\ OthersStay(w)
<1> USE DEF TypedInv
<1>1. RowTypeOK'
  BY DEF LookUp, SettleLevel, AdjustStep, takeVars, slipVars, RowTypeOK
<1>2. CASE LookUp(w) \/ SettleLevel(w)
  <2>1. PICK label \in {"slip", "update", "insert"} :
          /\ Goto(w, label)
          /\ label = "slip" => op[w] = "complete"
          /\ UNCHANGED deskVars
          /\ pc[w] \in {"find", "update", "insert"}
    BY <1>2 DEF LookUp, FindLevel, SettleLevel
  <2>2. WorkTypeOK' /\ OthersStay(w)
    BY <2>1 DEF Goto, deskVars, WorkTypeOK, OthersStay, Labels
  <2>3. DeskOf(w)'
    BY <2>1, <2>2 DEF Goto, deskVars, WorkTypeOK, DeskInv, DeskOf
  <2>4. StoreTypeOK'
    <3>1. CASE LookUp(w)
      BY <3>1, StoreTyped DEF LookUp, FindLevel
    <3>2. CASE SettleLevel(w)
      <4>1. sheet[w][slip[w]] \in Int
        BY <2>1, <3>2 DEF SettleLevel, DeskInv, DeskOf, WorkTypeOK
      <4>2. \A k \in Keys : posting[k] + change[w] \in Int
        BY DEF WorkTypeOK, StoreTypeOK
      <4>3. [posting EXCEPT ![key[w]] = @ + change[w]] \in [Keys -> Int]
        BY <4>2 DEF StoreTypeOK
      <4> QED
        BY <3>2, <4>1, <4>3 DEF SettleLevel, StoreTypeOK
    <3> QED
      BY <1>2, <3>1, <3>2
  <2> QED
    BY <1>1, <2>2, <2>3, <2>4, OneDesk
<1>3. CASE AdjustStep(w)
  <2>1. StoreTypeOK'
    BY <1>3, StoreTyped DEF AdjustStep, UpdateLevel, InsertLevel, FinishAdjust
  <2>2. op[w] = "adjust" /\ UNCHANGED deskVars
    BY <1>3 DEF AdjustStep
  <2>3. CASE Goto(w, "commit")
    <3>1. WorkTypeOK' /\ OthersStay(w)
      BY <2>2, <2>3 DEF Goto, deskVars, WorkTypeOK, OthersStay, Labels
    <3>2. DeskOf(w)'
      BY <2>2, <2>3, <3>1 DEF Goto, deskVars, WorkTypeOK, DeskInv, DeskOf
    <3> QED
      BY <1>1, <2>1, <3>1, <3>2, OneDesk
  <2>4. CASE EndJob(w)
    <3>1. WorkTypeOK' /\ OthersStay(w)
      BY <2>2, <2>4 DEF EndJob, deskVars, WorkTypeOK, OthersStay, Labels, Operations
    <3>2. DeskOf(w)'
      BY <2>2, <2>4, <3>1 DEF EndJob, deskVars, WorkTypeOK, DeskInv, DeskOf
    <3> QED
      BY <1>1, <2>1, <3>1, <3>2, OneDesk
  <2> QED
    BY <1>3, <2>3, <2>4 DEF AdjustStep, UpdateLevel, InsertLevel, FinishAdjust
<1> QED
  BY <1>2, <1>3

(* The last statements, with their commit.                                   *)
LEMMA FinishTyped ==
    ASSUME TypedInv, NEW w \in Workers, FinishCount(w) \/ FinishComplete(w) \/ FinishRemove(w)
    PROVE  TypedInv' /\ OthersStay(w)
<1> USE DEF TypedInv
<1>1. Commit(w)
  BY DEF FinishCount, FinishComplete, FinishRemove
<1>2. status' \in [Sessions -> Statuses]
  BY DEF FinishCount, FinishComplete, FinishRemove, RowTypeOK, Statuses
<1>3. row' \in [Slips -> {"unwritten", "live", "deleted"}]
  BY DEF FinishCount, FinishComplete, FinishRemove, RowTypeOK
<1>4. booked' \in [Slips -> Int]
  <2>1. CASE FinishComplete(w)
    <3>1. \A i \in DOMAIN sheet[w] \cap Slips : Variance(w, i) \in Int
      BY SlipTypes DEF Variance, WorkTypeOK
    <3>2. \A i \in Slips : booked[i] \in Int
      BY DEF RowTypeOK
    <3> QED
      BY <2>1, <3>1, <3>2 DEF FinishComplete
  <2>2. CASE FinishCount(w) \/ FinishRemove(w)
    BY <2>2 DEF FinishCount, FinishRemove, RowTypeOK
  <2> QED
    BY <2>1, <2>2
<1> QED
  BY <1>1, <1>2, <1>3, <1>4, CommitTyped DEF RowTypeOK

(* Every step of a request keeps the types, and moves one worker.            *)
LEMMA StepTyped ==
    ASSUME TypedInv, NEW w \in Workers, Step(w) \/ DetectDeadlock(w) \/ Fail(w)
    PROVE  TypedInv' /\ OthersStay(w)
<1>1. CASE Step(w)
  BY <1>1, ReadBackTyped, CountTyped, SheetTyped, LevelTyped, FinishTyped, RollbackTyped
     DEF Step, Throw, InsertOrphan, Duplicate
<1>2. CASE DetectDeadlock(w) \/ Fail(w)
  BY <1>2, RollbackTyped DEF DetectDeadlock, Fail
<1> QED
  BY <1>1, <1>2

(* Every step keeps the types.                                               *)
LEMMA TypedNext == TypedInv /\ [Next]_vars => TypedInv'
<1> SUFFICES ASSUME TypedInv, [Next]_vars PROVE TypedInv'
  OBVIOUS
<1>1. CASE UNCHANGED vars
  BY <1>1 DEF vars, stockVars, storeVars, jobVars, takeVars, slipVars, deskVars,
     TypedInv, WorkTypeOK, RowTypeOK, StoreTypeOK, DeskInv, DeskOf
<1> QED
  BY <1>1, BeginTyped, StepTyped DEF Next

(* The inductive type invariant in every reachable state.                    *)
LEMMA StocktakeInv == Spec => []TypedInv
BY TypedInit, TypedNext, PTL DEF Spec

(* The types of all variables, for any sets of sessions, rows and workers.   *)
THEOREM StocktakeTyped == Spec => []StocktakeTypeOK
<1>1. TypedInv => StocktakeTypeOK
  BY DEF TypedInv, WorkTypeOK, RowTypeOK, StoreTypeOK, StocktakeTypeOK, StockTypeOK
<1> QED
  BY <1>1, StocktakeInv, PTL

------------------------------------------------------------------------------
(* The ledger of a session in progress. *)

(* A completion posts for rows of its own session, and closes it: nothing is *)
(* booked for a session in progress.                                         *)
OpenBooksNothing ==
    \A i \in Slips : status[TakeOf[i]] = "IN_PROGRESS" => booked[i] = 0

(* Every step leaves it so.                                                  *)
LEMMA BooksNext == TypedInv /\ OpenBooksNothing /\ [Next]_vars => OpenBooksNothing'
<1> SUFFICES ASSUME TypedInv, OpenBooksNothing, [Next]_vars PROVE OpenBooksNothing'
  OBVIOUS
<1> USE SessionAssumption DEF OpenBooksNothing
<1>1. CASE UNCHANGED vars
  BY <1>1 DEF vars, takeVars
<1>2. ASSUME NEW w \in Workers, BeginRequest(w)
      PROVE  OpenBooksNothing'
  BY <1>2 DEF BeginRequest, BeginAdjust, BeginCreate, BeginCount, BeginCorrect, BeginComplete,
     BeginRemove, Begin, takeVars
<1>3. ASSUME NEW w \in Workers, Step(w) \/ DetectDeadlock(w) \/ Fail(w)
      PROVE  OpenBooksNothing'
  <2>1. CASE FinishComplete(w)
    <3>1. take[w] \in Sessions /\ \A i \in DOMAIN sheet[w] : TakeOf[i] = take[w]
      BY <2>1 DEF FinishComplete, AllTaken, TypedInv, DeskInv, DeskOf
    <3>2. status'[take[w]] # "IN_PROGRESS"
      BY <2>1, <3>1 DEF FinishComplete, TypedInv, RowTypeOK
    <3> QED
      BY <2>1, <3>1, <3>2 DEF FinishComplete, TypedInv, RowTypeOK
  <2>2. CASE FinishRemove(w)
    BY <2>2 DEF FinishRemove, TypedInv, RowTypeOK
  <2>3. CASE UNCHANGED <<status, booked>>
    BY <2>3
  <2> QED
    BY <1>3, <2>1, <2>2, <2>3 DEF Step, DetectDeadlock, Fail, ReadBack, Throw, InsertOrphan,
       Duplicate, Rollback, FindSlip, CountSlip, InsertSlip, NextLine, FinishCount, Correct,
       LockTake, ReadSlips, SetVariance, DropSlip, TakeSlip, LookUp, SettleLevel, AdjustStep,
       takeVars
<1> QED
  BY <1>1, <1>2, <1>3 DEF Next

------------------------------------------------------------------------------
(* What a worker touches. *)

(* An open transaction holds rows of the session it serves, and only a batch *)
(* of counts has counts to commit.  Rows that are not written have none, and *)
(* only a deleted session has deleted rows.                                  *)
RowInv ==
    /\ \A i \in Slips, w \in Workers : slipLock[i] = w =>
         /\ TakeOf[i] = take[w]
         /\ op[w] \in {"count", "complete", "remove"}
         /\ op[w] # "count" => countedNew[i] = counted[i]
    /\ \A i \in Slips : slipLock[i] = NoWorker => countedNew[i] = counted[i]
    /\ \A i \in Slips : row[i] = "unwritten" => counted[i] = 0 /\ i \notin Snapshot
    /\ \A i \in Slips : row[i] = "deleted" => status[TakeOf[i]] = "DELETED"

(* Nobody has touched anything at the start.                                 *)
LEMMA RowInit == Init => RowInv
BY WorkerAssumption DEF Init, RowInv

(* The rows and the sessions that w does not serve stay as they are.         *)
RowStays(i) ==
    /\ row'[i] = row[i] /\ counted'[i] = counted[i] /\ countedNew'[i] = countedNew[i]
    /\ slipLock'[i] = slipLock[i] /\ booked'[i] = booked[i]

Apart(w) ==
    /\ \A i \in Slips : TakeOf[i] # take[w] => RowStays(i)
    /\ \A s \in Sessions : s # take[w] => status'[s] = status[s]

(* What the end of a transaction does to the rows.                           *)
LEMMA EndRows ==
    ASSUME TypedInv, NEW w \in Workers, Rollback(w) \/ Commit(w), NEW i \in Slips
    PROVE  /\ slipLock[i] = w => slipLock'[i] = NoWorker /\ countedNew'[i] = counted'[i]
           /\ slipLock[i] # w => /\ slipLock'[i] = slipLock[i]
                                 /\ countedNew'[i] = countedNew[i] /\ counted'[i] = counted[i]
BY DEF Rollback, Commit, UnlockRows, TypedInv, RowTypeOK

(* A step touches the session its worker serves, and no other.               *)
LEMMA StepApart ==
    ASSUME TypedInv, RowInv, NEW w \in Workers, Step(w) \/ DetectDeadlock(w) \/ Fail(w)
    PROVE  Apart(w)
<1>1. \A i \in Slips : slipLock[i] = w => TakeOf[i] = take[w]
  BY DEF RowInv
<1> USE <1>1 DEF Apart, RowStays
<1>2. CASE Rollback(w)
  BY <1>2, EndRows DEF Rollback
<1>3. CASE FinishCount(w) \/ FinishRemove(w)
  <2>1. /\ Commit(w) /\ UNCHANGED booked
        /\ \A i \in Slips : slipLock[i] # w => row'[i] = row[i]
        /\ \A s \in Sessions : s # take[w] => status'[s] = status[s]
    BY <1>3 DEF FinishCount, FinishRemove, TypedInv, RowTypeOK
  <2> QED
    BY <2>1, EndRows
<1>4. CASE FinishComplete(w)
  <2>1. \A i \in DOMAIN sheet[w] : TakeOf[i] = take[w]
    BY DEF TypedInv, DeskInv, DeskOf
  <2>2. /\ Commit(w) /\ UNCHANGED row
        /\ \A i \in Slips : i \notin DOMAIN sheet[w] => booked'[i] = booked[i]
        /\ \A s \in Sessions : s # take[w] => status'[s] = status[s]
    BY <1>4 DEF FinishComplete, TypedInv, RowTypeOK
  <2> QED
    BY <2>1, <2>2, EndRows
<1>5. CASE CountSlip(w) \/ Correct(w)
  <2>1. slip[w] \in Slips /\ TakeOf[slip[w]] = take[w]
    BY <1>5 DEF CountSlip, Correct, TypedInv, DeskInv, DeskOf
  <2> QED
    BY <1>5, <2>1 DEF CountSlip, NextLine, Correct, TypedInv, RowTypeOK
<1>6. CASE InsertSlip(w)
  BY <1>6 DEF InsertSlip, NextLine, TypedInv, RowTypeOK
<1>7. CASE SetVariance(w) \/ DropSlip(w)
  <2>1. TakeSlip(w) /\ left[w] # {}
    BY <1>7 DEF SetVariance, DropSlip, AtSlip
  <2>2. NextSlip(w) \in left[w]
    BY <2>1 DEF NextSlip
  <2>3. TakeOf[NextSlip(w)] = take[w]
    BY <2>2 DEF TypedInv, WorkTypeOK, DeskInv, DeskOf
  <2> QED
    BY <2>1, <2>3 DEF TakeSlip, TypedInv, RowTypeOK
<1>8. CASE UNCHANGED <<status, slipVars, booked>>
  BY <1>8 DEF slipVars
<1>9. CASE Step(w)
  BY <1>9, <1>2, <1>3, <1>4, <1>5, <1>6, <1>7, <1>8
     DEF Step, ReadBack, Throw, InsertOrphan, Duplicate, FindSlip, LockTake, ReadSlips, LookUp,
         SettleLevel, AdjustStep, takeVars
<1> QED
  BY <1>2, <1>9 DEF DetectDeadlock, Fail

(* A request that begins touches no row, and its worker held none.           *)
LEMMA BeginApart ==
    ASSUME TypedInv, RowInv, NEW w \in Workers, BeginRequest(w)
    PROVE  /\ UNCHANGED <<storeVars, takeVars>>
           /\ take[w] = NoSession
           /\ \A i \in Slips : slipLock[i] # w
           /\ pc'[w] \notin {"found", "count"}
           /\ op'[w] = "complete" => pc'[w] = "items"
<1>1. take[w] = NoSession /\ UNCHANGED <<storeVars, takeVars>>
  BY DEF BeginRequest, BeginAdjust, BeginCreate, BeginCount, BeginCorrect, BeginComplete,
     BeginRemove, Begin, StartJob, TypedInv, DeskInv, DeskOf
<1>2. \A i \in Slips : slipLock[i] # w
  BY <1>1, SessionAssumption DEF RowInv
<1>3. pc'[w] \notin {"found", "count"} /\ (op'[w] = "complete" => pc'[w] = "items")
  BY DEF BeginRequest, BeginAdjust, BeginCreate, BeginCount, BeginCorrect, BeginComplete,
     BeginRemove, Begin, StartJob, TypedInv, WorkTypeOK
<1> QED
  BY <1>1, <1>2, <1>3

(* The statements before the last leave the rows of a session in order, ...  *)
LEMMA StatementRows ==
    ASSUME TypedInv, RowInv, NEW w \in Workers,
           CountSlip(w) \/ InsertSlip(w) \/ SetVariance(w) \/ DropSlip(w)
    PROVE  RowInv'
<1> USE WorkerAssumption
<1>1. OthersStay(w) /\ Apart(w)
  BY CountTyped, SheetTyped, StepApart DEF Step
<1>2. UNCHANGED <<status, row, counted>> /\ take'[w] = take[w] /\ op'[w] = op[w]
  BY DEF CountSlip, InsertSlip, NextLine, Goto, SetVariance, DropSlip, TakeSlip, TypedInv, WorkTypeOK
<1>3. \A i \in Slips :
        /\ slipLock[i] \notin {NoWorker, w}
             => slipLock'[i] = slipLock[i] /\ countedNew'[i] = countedNew[i]
        /\ slipLock'[i] = NoWorker => slipLock[i] = NoWorker /\ countedNew'[i] = countedNew[i]
        /\ slipLock'[i] = w /\ op[w] # "count" => countedNew'[i] = countedNew[i]
        /\ slipLock'[i] \in {slipLock[i], w}
  <2>1. CASE CountSlip(w) \/ InsertSlip(w)
    BY <2>1 DEF CountSlip, InsertSlip, NextLine, TypedInv, RowTypeOK, DeskInv, DeskOf
  <2>2. CASE SetVariance(w) \/ DropSlip(w)
    BY <2>2 DEF SetVariance, DropSlip, TakeSlip, TypedInv, RowTypeOK
  <2> QED
    BY <2>1, <2>2
<1>4. \A i \in Slips : slipLock'[i] = w => TakeOf[i] = take[w]
  BY <1>1 DEF Apart, RowStays, RowInv
<1>5. op[w] \in {"count", "complete", "remove"}
  BY DEF CountSlip, InsertSlip, SetVariance, DropSlip, AtSlip, TypedInv, DeskInv, DeskOf
<1> QED
  BY <1>1, <1>2, <1>3, <1>4, <1>5 DEF RowInv, OthersStay

(* ... and so do the last ones.                                              *)
LEMMA LastRows ==
    ASSUME TypedInv, RowInv, NEW w \in Workers,
           Rollback(w) \/ FinishCount(w) \/ FinishComplete(w) \/ FinishRemove(w)
    PROVE  RowInv'
<1> USE WorkerAssumption
<1>1. Rollback(w) \/ Commit(w)
  BY DEF FinishCount, FinishComplete, FinishRemove
<1>2. OthersStay(w)
  BY <1>1, RollbackTyped, CommitTyped
<1>3. \A i \in Slips : status[TakeOf[i]] = "DELETED" => status'[TakeOf[i]] = "DELETED"
  BY SessionAssumption
     DEF Rollback, FinishCount, FinishComplete, FinishRemove, TypedInv, RowTypeOK
<1>4. \A i \in Slips : /\ row'[i] = "unwritten" => row[i] = "unwritten" /\ counted'[i] = counted[i]
                       /\ row'[i] = "deleted" => row[i] = "deleted" \/ slipLock[i] = w
  <2>1. CASE Rollback(w)
    BY <2>1 DEF Rollback
  <2>2. CASE FinishCount(w)
    BY <2>2, EndRows, <1>1 DEF FinishCount, TypedInv, RowTypeOK
  <2>3. CASE FinishComplete(w)
    <3>1. op[w] = "complete" /\ UNCHANGED row /\ Commit(w)
      BY <2>3 DEF FinishComplete, AllTaken
    <3>2. \A i \in Slips : counted'[i] = counted[i]
      BY <3>1, EndRows DEF Commit, RowInv, TypedInv, RowTypeOK
    <3> QED
      BY <3>1, <3>2
  <2>4. CASE FinishRemove(w)
    BY <2>4, EndRows, <1>1 DEF FinishRemove, TypedInv, RowTypeOK
  <2> QED
    BY <2>1, <2>2, <2>3, <2>4
<1>5. \A i \in Slips : row'[i] = "deleted" => status'[TakeOf[i]] = "DELETED"
  <2>1. CASE FinishRemove(w)
    <3>1. take[w] \in Sessions /\ status'[take[w]] = "DELETED"
      BY <2>1 DEF FinishRemove, AllTaken, TypedInv, DeskInv, DeskOf, RowTypeOK
    <3> QED
      BY <1>3, <1>4, <3>1 DEF RowInv
  <2>2. CASE Rollback(w) \/ FinishCount(w) \/ FinishComplete(w)
    <3>1. \A i \in Slips : row'[i] = "deleted" => row[i] = "deleted"
      BY <2>2 DEF Rollback, FinishCount, FinishComplete, TypedInv, RowTypeOK
    <3> QED
      BY <1>3, <3>1 DEF RowInv
  <2> QED
    BY <2>1, <2>2
<1> QED
  BY <1>1, <1>2, <1>4, <1>5, EndRows DEF RowInv, OthersStay

(* Every step keeps the rows in order.                                       *)
LEMMA RowNext == TypedInv /\ RowInv /\ [Next]_vars => RowInv'
<1> SUFFICES ASSUME TypedInv, RowInv, [Next]_vars PROVE RowInv'
  OBVIOUS
<1>1. CASE UNCHANGED vars
  BY <1>1 DEF vars, stockVars, jobVars, takeVars, slipVars, deskVars, RowInv
<1>2. ASSUME NEW w \in Workers, BeginRequest(w)
      PROVE  RowInv'
  BY <1>2, BeginTyped, BeginApart DEF OthersStay, takeVars, slipVars, RowInv
<1>3. ASSUME NEW w \in Workers, Step(w) \/ DetectDeadlock(w) \/ Fail(w)
      PROVE  RowInv'
  <2>1. OthersStay(w)
    BY <1>3, StepTyped
  <2>2. CASE Correct(w)
    <3>1. \A i \in Slips : slipLock[i] # w
      BY <2>2 DEF Correct, TypedInv, DeskInv, DeskOf, RowInv
    <3>2. \A i \in Slips : /\ countedNew[i] = counted[i] => countedNew'[i] = counted'[i]
                           /\ slipLock[i] # NoWorker
                                => countedNew'[i] = countedNew[i] /\ counted'[i] = counted[i]
                           /\ row[i] = "unwritten" => counted'[i] = counted[i]
      BY <2>2 DEF Correct, TypedInv, RowTypeOK
    <3>3. UNCHANGED <<status, row, slipLock>>
      BY <2>2 DEF Correct
    <3> QED
      BY <2>1, <3>1, <3>2, <3>3 DEF RowInv, OthersStay
  <2>3. CASE UNCHANGED <<status, slipVars>> /\ take'[w] = take[w] /\ op'[w] = op[w]
    BY <2>1, <2>3 DEF slipVars, OthersStay, RowInv
  <2>4. CASE AdjustStep(w)
    <3>1. take[w] = NoSession
      BY <2>4 DEF AdjustStep, TypedInv, DeskInv, DeskOf
    <3>2. UNCHANGED takeVars /\ take' = take
      BY <2>4 DEF AdjustStep, deskVars
    <3> QED
      BY <2>1, <3>1, <3>2, SessionAssumption DEF OthersStay, takeVars, slipVars, RowInv
  <2> QED
    BY <1>3, <2>2, <2>3, <2>4, StatementRows, LastRows
       DEF Step, DetectDeadlock, Fail, ReadBack, Throw, InsertOrphan, Duplicate, FindSlip, Goto,
           LockTake, ReadSlips, LookUp, FindLevel, SettleLevel, takeVars, deskVars
<1> QED
  BY <1>1, <1>2, <1>3 DEF Next

------------------------------------------------------------------------------
(* Clients that take turns. *)

(* A session of Careful has one worker, and still the status that worker     *)
(* read.                                                                     *)
TurnInv ==
    \A w \in Workers : take[w] \in Careful =>
        /\ \A v \in Workers : take[v] = take[w] => v = w
        /\ status[take[w]] = IF op[w] = "create" THEN "ABSENT" ELSE "IN_PROGRESS"

(* No session has a worker at the start.                                     *)
LEMMA TurnInit == Init => TurnInv
BY SessionAssumption DEF Init, TurnInv

(* A step leaves the session with the same worker, or without one; only the  *)
(* last step changes its status.                                             *)
LEMMA StepTurn ==
    ASSUME TypedInv, NEW w \in Workers, Step(w) \/ DetectDeadlock(w) \/ Fail(w)
    PROVE  \/ take'[w] = NoSession
           \/ take'[w] = take[w] /\ op'[w] = op[w] /\ UNCHANGED status
<1> USE DEF TypedInv, WorkTypeOK
<1>1. CASE Rollback(w) \/ Commit(w)
  BY <1>1 DEF Rollback, Commit, LeaveDesk
<1>2. CASE Correct(w)
  BY <1>2 DEF Correct, LeaveDesk
<1>3. CASE AdjustStep(w)
  BY <1>3 DEF AdjustStep, deskVars, DeskInv, DeskOf
<1>4. CASE UNCHANGED <<take, op, status>>
  BY <1>4
<1> QED
  BY <1>1, <1>2, <1>3, <1>4 DEF Step, DetectDeadlock, Fail, ReadBack, Throw, InsertOrphan,
     Duplicate, FindSlip, CountSlip, InsertSlip, NextLine, Goto, FinishCount, FinishComplete,
     FinishRemove, LockTake, ReadSlips, SetVariance, DropSlip, TakeSlip, LookUp, FindLevel,
     SettleLevel, takeVars, deskVars

(* Every step keeps the turns.                                               *)
LEMMA TurnNext == TypedInv /\ RowInv /\ TurnInv /\ [Next]_vars => TurnInv'
<1> SUFFICES ASSUME TypedInv, RowInv, TurnInv, [Next]_vars PROVE TurnInv'
  OBVIOUS
<1>0. NoSession \notin Careful
  BY SessionAssumption
<1>1. CASE UNCHANGED vars
  BY <1>1 DEF vars, stockVars, jobVars, takeVars, deskVars, TurnInv
<1>2. ASSUME NEW w \in Workers, BeginRequest(w)
      PROVE  TurnInv'
  <2>1. OthersStay(w) /\ UNCHANGED status
    BY <1>2, BeginTyped, BeginApart DEF takeVars
  <2>2. take'[w] \in Careful =>
          /\ \A v \in Workers : take[v] # take'[w]
          /\ status[take'[w]] = IF op'[w] = "create" THEN "ABSENT" ELSE "IN_PROGRESS"
    <3>1. CASE BeginAdjust(w) /\ UNCHANGED deskVars
      BY <1>0, <1>2, <3>1, BeginApart DEF deskVars
    <3>2. ASSUME NEW s \in Sessions, NEW from, NEW name, NEW label,
                 Begin(w, s, from, name, label),
                 from = IF name = "create" THEN "ABSENT" ELSE "IN_PROGRESS"
          PROVE  take'[w] \in Careful =>
                   /\ \A v \in Workers : take[v] # take'[w]
                   /\ status[take'[w]] = IF op'[w] = "create" THEN "ABSENT" ELSE "IN_PROGRESS"
      BY <3>2 DEF Begin, StartJob, TypedInv, WorkTypeOK
    <3> QED
      BY <1>2, <3>1, <3>2, SessionAssumption
         DEF BeginRequest, BeginCreate, BeginCount, BeginCorrect, BeginComplete, BeginRemove
  <2> QED
    BY <2>1, <2>2 DEF OthersStay, TurnInv
<1>3. ASSUME NEW w \in Workers, Step(w) \/ DetectDeadlock(w) \/ Fail(w)
      PROVE  TurnInv'
  <2>1. OthersStay(w) /\ Apart(w)
    BY <1>3, StepTyped, StepApart
  <2>2. \A v \in Workers \ {w} : take[v] \in Careful =>
          take[v] \in Sessions /\ take[v] # take[w] /\ status'[take[v]] = status[take[v]]
    BY <2>1, SessionAssumption DEF TurnInv, Apart
  <2> QED
    BY <1>0, <1>3, <2>1, <2>2, StepTurn DEF OthersStay, TurnInv
<1> QED
  BY <1>1, <1>2, <1>3 DEF Next

(* The inductive invariant so far.                                           *)
DeepInv == TypedInv /\ RowInv /\ TurnInv /\ OpenBooksNothing

(* It holds in every reachable state.                                        *)
LEMMA DeepKept == Spec => []DeepInv
<1>1. Init => DeepInv
  BY TypedInit, RowInit, TurnInit DEF DeepInv, Init, OpenBooksNothing
<1>2. DeepInv /\ [Next]_vars => DeepInv'
  BY TypedNext, RowNext, TurnNext, BooksNext DEF DeepInv
<1> QED
  BY <1>1, <1>2, PTL DEF Spec

(* A worker on a session of Careful has it to itself.                        *)
LEMMA AloneAt ==
    ASSUME DeepInv, NEW w \in Workers, NEW v \in Workers, v # w, take[v] \in Careful
    PROVE  take[v] \in Sessions /\ take[v] # take[w]
BY SessionAssumption DEF DeepInv, TurnInv

------------------------------------------------------------------------------
(* One row for each product. *)

(* A row of a session somebody has written, be it committed or not.          *)
Present(i) == row[i] = "live" \/ (row[i] = "unwritten" /\ slipLock[i] # NoWorker)

(* A session of Careful has one row for each product, ...                    *)
OneRow ==
    \A i, j \in Slips :
        /\ TakeOf[i] = TakeOf[j] /\ TakeOf[i] \in Careful /\ ProductOf[i] = ProductOf[j]
        /\ Present(i) /\ Present(j)
        => i = j

(* ... since the worker that inserts one has seen that there is none.        *)
FoundOf(w) ==
    take[w] \in Careful =>
        /\ pc[w] = "found" =>
             \A i \in Slips : TakeOf[i] = take[w] /\ Present(i) => ProductOf[i] # Line(w).product
        /\ pc[w] = "count" => Present(slip[w])

FoundInv == OneRow /\ \A w \in Workers : FoundOf(w)

(* The snapshot has no two rows for one product.                             *)
LEMMA FoundInit == Init => FoundInv
BY SnapshotAssumption, SessionAssumption DEF Init, StockInit, FoundInv, OneRow, FoundOf, Present

(* Only an INSERT makes a row present that was not.                          *)
LEMMA NoRowAppears ==
    ASSUME DeepInv, FoundInv, NEW w \in Workers, Step(w) \/ DetectDeadlock(w) \/ Fail(w),
           take[w] \in Careful, ~InsertSlip(w), NEW i \in Slips, Present(i)'
    PROVE  Present(i)
<1> USE DEF Present, DeepInv
<1>1. CASE Rollback(w) \/ FinishComplete(w) \/ FinishRemove(w)
  <2>1. row'[i] = row[i] \/ row'[i] = "deleted"
    BY <1>1 DEF Rollback, FinishComplete, FinishRemove, TypedInv, RowTypeOK
  <2>2. slipLock'[i] \in {slipLock[i], NoWorker}
    BY <1>1, EndRows DEF FinishComplete, FinishRemove
  <2> QED
    BY <2>1, <2>2
<1>2. CASE FinishCount(w)
  <2>1. row'[i] = row[i] \/ (row[i] = "unwritten" /\ slipLock[i] = w)
    BY <1>2 DEF FinishCount, TypedInv, RowTypeOK
  <2>2. slipLock'[i] \in {slipLock[i], NoWorker}
    BY <1>2, EndRows DEF FinishCount
  <2> QED
    BY <2>1, <2>2, WorkerAssumption
<1>3. CASE CountSlip(w)
  BY <1>3 DEF CountSlip, NextLine, FoundInv, FoundOf, TypedInv, RowTypeOK
<1>4. CASE SetVariance(w) \/ DropSlip(w)
  BY <1>4 DEF SetVariance, DropSlip, TakeSlip, TypedInv, RowTypeOK
<1>5. CASE UNCHANGED <<row, slipLock>>
  BY <1>5
<1> QED
  BY <1>1, <1>2, <1>3, <1>4, <1>5
     DEF Step, DetectDeadlock, Fail, ReadBack, Throw, InsertOrphan, Duplicate, FindSlip, Correct,
         LockTake, ReadSlips, LookUp, SettleLevel, AdjustStep, takeVars, slipVars

(* The steps of the session's worker keep one row for each product.          *)
LEMMA FoundStep ==
    ASSUME DeepInv, FoundInv, NEW w \in Workers, Step(w) \/ DetectDeadlock(w) \/ Fail(w),
           take[w] \in Careful
    PROVE  OneRow' /\ FoundOf(w)'
<1> USE SessionAssumption, WorkerAssumption
<1>1. Apart(w) /\ TypedInv /\ RowInv /\ TurnInv
  BY StepApart DEF DeepInv
<1>2. \A i \in Slips : TakeOf[i] # take[w] => (Present(i)' <=> Present(i))
  BY <1>1 DEF Apart, RowStays, Present
<1>3. CASE InsertSlip(w)
  <2>1. PICK i \in Slips :
          /\ row[i] = "unwritten" /\ slipLock[i] = NoWorker
          /\ TakeOf[i] = take[w] /\ ProductOf[i] = Line(w).product
          /\ slipLock' = [slipLock EXCEPT ![i] = w]
    BY <1>3 DEF InsertSlip
  <2>2. \A j \in Slips : TakeOf[j] = take[w] /\ Present(j) => ProductOf[j] # Line(w).product
    BY <1>3 DEF InsertSlip, FoundInv, FoundOf
  <2>3. \A j \in Slips : Present(j)' => Present(j) \/ j = i
    BY <1>1, <1>3, <2>1 DEF InsertSlip, NextLine, Present, TypedInv, RowTypeOK
  <2>4. OneRow'
    BY <2>1, <2>2, <2>3 DEF FoundInv, OneRow
  <2>5. pc'[w] = "line"
    BY <1>1, <1>3 DEF InsertSlip, NextLine, Goto, TypedInv, WorkTypeOK
  <2> QED
    BY <2>4, <2>5 DEF FoundOf
<1>4. CASE FindSlip(w)
  <2>1. UNCHANGED <<row, slipLock, take, todo>>
    BY <1>4 DEF FindSlip, takeVars, slipVars
  <2>2. \A i \in Slips : Present(i)' <=> Present(i)
    BY <2>1 DEF Present
  <2>3. \A i \in Slips :
          TakeOf[i] = take[w] /\ Present(i) => row[i] = "live" \/ slipLock[i] = w
    <3>1. \A i \in Slips : TakeOf[i] = take[w] /\ slipLock[i] # NoWorker => slipLock[i] = w
      BY <1>1 DEF RowInv, TurnInv, TypedInv, RowTypeOK
    <3> QED
      BY <3>1 DEF Present
  <2>4. \A i \in Candidates(w) : Present(i) /\ i \in Slips
    BY DEF Candidates, Present
  <2>5. FoundOf(w)'
    <3>1. CASE Candidates(w) = {}
      <4>1. pc'[w] = "found"
        BY <1>1, <1>4, <3>1 DEF FindSlip, Goto, TypedInv, WorkTypeOK
      <4>2. \A i \in Slips : TakeOf[i] = take[w] /\ Present(i) => ProductOf[i] # Line(w).product
        BY <2>3, <3>1 DEF Candidates, Present
      <4> QED
        BY <2>1, <2>2, <4>1, <4>2 DEF FoundOf, Line
    <3>2. CASE Candidates(w) # {}
      <4>1. pc'[w] = "count" /\ slip'[w] \in Candidates(w)
        BY <1>1, <1>4, <3>2 DEF FindSlip, Goto, TypedInv, WorkTypeOK
      <4>2. Present(slip[w])'
        BY <2>1, <2>4, <4>1 DEF Present
      <4> QED
        BY <4>1, <4>2 DEF FoundOf
    <3> QED
      BY <3>1, <3>2
  <2> QED
    BY <2>2, <2>5 DEF FoundInv, OneRow
<1>5. CASE ~InsertSlip(w) /\ ~FindSlip(w)
  <2>1. OneRow'
    BY <1>5, NoRowAppears DEF FoundInv, OneRow
  <2>2. pc'[w] \notin {"found", "count"}
    BY <1>1, <1>5 DEF Step, DetectDeadlock, Fail, ReadBack, Throw, InsertOrphan, Duplicate,
       Rollback, EndJob, CountSlip, NextLine, Goto, FinishCount, Commit, Correct, LockTake,
       ReadSlips, SetVariance, DropSlip, AtSlip, LookUp, FindLevel, SettleLevel, FinishComplete,
       FinishRemove, AdjustStep, UpdateLevel, InsertLevel, FinishAdjust, TypedInv, WorkTypeOK
  <2> QED
    BY <2>1, <2>2 DEF FoundOf
<1> QED
  BY <1>3, <1>4, <1>5

(* Every step keeps one row for each product.                                *)
LEMMA FoundNext == DeepInv /\ FoundInv /\ [Next]_vars => FoundInv'
<1> SUFFICES ASSUME DeepInv, FoundInv, [Next]_vars PROVE FoundInv'
  OBVIOUS
<1>1. CASE UNCHANGED vars
  BY <1>1 DEF vars, stockVars, jobVars, takeVars, slipVars, deskVars, FoundInv, OneRow, FoundOf,
     Present, Line
<1>2. ASSUME NEW w \in Workers, BeginRequest(w)
      PROVE  FoundInv'
  <2>1. OthersStay(w) /\ UNCHANGED takeVars
    BY <1>2, BeginTyped, BeginApart DEF DeepInv
  <2>2. \A i \in Slips : Present(i)' <=> Present(i)
    BY <2>1 DEF takeVars, slipVars, Present
  <2>3. OneRow'
    BY <2>2 DEF FoundInv, OneRow
  <2>4. \A v \in Workers \ {w} : FoundOf(v)'
    BY <2>1 DEF OthersStay, FoundInv, FoundOf, Line, takeVars, slipVars, Present
  <2>5. pc'[w] \notin {"found", "count"}
    BY <1>2, BeginApart DEF DeepInv
  <2> QED
    BY <2>3, <2>4, <2>5 DEF FoundInv, FoundOf
<1>3. ASSUME NEW w \in Workers, Step(w) \/ DetectDeadlock(w) \/ Fail(w)
      PROVE  FoundInv'
  <2>1. OthersStay(w) /\ Apart(w)
    BY <1>3, StepTyped, StepApart DEF DeepInv
  <2>2. ASSUME NEW v \in Workers \ {w}
        PROVE  FoundOf(v)'
    <3>1. CASE take[v] \in Careful
      <4>1. take[v] # take[w]
        BY <3>1, AloneAt
      <4>2. \A i \in Slips : TakeOf[i] = take[v] => (Present(i)' <=> Present(i))
        BY <2>1, <4>1 DEF Apart, RowStays, Present
      <4>3. pc[v] = "count" => slip[v] \in Slips /\ TakeOf[slip[v]] = take[v]
        BY DEF DeepInv, TypedInv, DeskInv, DeskOf
      <4>4. /\ pc'[v] = pc[v] /\ take'[v] = take[v] /\ slip'[v] = slip[v]
            /\ Line(v)' = Line(v)
        BY <2>1 DEF OthersStay, Line
      <4>5. pc[v] = "count" => Present(slip[v])'
        BY <3>1, <2>1, <4>1, <4>3, <4>4 DEF Apart, RowStays, Present, FoundInv, FoundOf
      <4> QED
        BY <3>1, <4>2, <4>4, <4>5 DEF FoundInv, FoundOf
    <3>2. CASE take[v] \notin Careful
      BY <2>1, <3>2 DEF OthersStay, FoundOf
    <3> QED
      BY <3>1, <3>2
  <2>3. CASE take[w] \in Careful
    BY <1>3, <2>2, <2>3, FoundStep DEF FoundInv
  <2>4. CASE take[w] \notin Careful
    <3>1. \A i \in Slips : TakeOf[i] \in Careful => (Present(i)' <=> Present(i))
      BY <2>1, <2>4 DEF Apart, RowStays, Present
    <3>2. take'[w] \notin Careful
      BY <1>3, <2>4, StepTurn, SessionAssumption DEF DeepInv
    <3> QED
      BY <2>2, <3>1, <3>2 DEF FoundInv, OneRow, FoundOf
  <2> QED
    BY <2>3, <2>4
<1> QED
  BY <1>1, <1>2, <1>3 DEF Next

------------------------------------------------------------------------------
(* The counts a completion brings to the levels. *)

(* A worker that completes a session of Careful has on its sheet what the    *)
(* rows say, and holds every level it has corrected at what was counted.     *)
SheetOf(w) ==
    op[w] = "complete" /\ pc[w] # "items" /\ take[w] \in Careful =>
        /\ DOMAIN sheet[w] = Live(take[w])
        /\ \A i \in DOMAIN sheet[w] : sheet[w][i] = counted[i]
        /\ pc[w] # "slip" => slip[w] \notin left[w] /\ key[w] = KeyOf(slip[w])
        /\ \A i \in DOMAIN sheet[w] \ left[w] :
             \/ Variance(w, i) = 0
             \/ pc[w] # "slip" /\ i = slip[w]
             \/ lock[KeyOf(i)] = w /\ newest[KeyOf(i)] = sheet[w][i]

SheetInv == \A w \in Workers : SheetOf(w)

(* A level that somebody else holds is not touched.                          *)
LEMMA LevelApart ==
    ASSUME TypedInv, NEW w \in Workers, NEW v \in Workers, v # w,
           Step(w) \/ DetectDeadlock(w) \/ Fail(w), NEW k \in Keys, lock[k] = v
    PROVE  lock'[k] = v /\ newest'[k] = newest[k]
<1> USE WorkerAssumption DEF TypedInv, StoreTypeOK
<1>1. CASE WriteLevel(w)
  BY <1>1 DEF WriteLevel, CanLock
<1>2. CASE CommitStock(w) \/ RollbackStock(w)
  BY <1>2 DEF CommitStock, RollbackStock, Unlock
<1>3. CASE SettleLevel(w)
  BY <1>3 DEF SettleLevel, CanLock
<1>4. CASE UNCHANGED storeVars
  BY <1>4 DEF storeVars
<1> QED
  BY <1>1, <1>2, <1>3, <1>4
     DEF Step, DetectDeadlock, Fail, ReadBack, Throw, InsertOrphan, Duplicate, Rollback, Commit,
         FindSlip, CountSlip, InsertSlip, NextLine, FinishCount, Correct, LockTake, ReadSlips,
         SetVariance, DropSlip, TakeSlip, LookUp, FindLevel, AdjustStep, UpdateLevel,
         InsertLevel, FinishAdjust, FinishComplete, FinishRemove

(* The rows of the session and what the worker wrote down do not change      *)
(* while it goes through them.                                               *)
LEMMA SheetStep ==
    ASSUME DeepInv, FoundInv, SheetInv, NEW w \in Workers,
           Step(w) \/ DetectDeadlock(w) \/ Fail(w)
    PROVE  SheetOf(w)'
<1>1. TypedInv /\ RowInv /\ OneRow
  BY DEF DeepInv, FoundInv
<1>2. SUFFICES ASSUME op'[w] = "complete", pc'[w] # "items", take'[w] \in Careful
               PROVE  SheetOf(w)'
  BY DEF SheetOf
<1>3. op'[w] # "none"
  BY <1>2
<1>4. CASE ReadSlips(w)
  <2>1. /\ sheet'[w] = [i \in Live(take[w]) |-> counted[i]] /\ left'[w] = Live(take[w])
        /\ pc'[w] = "slip" /\ UNCHANGED <<row, counted, take>>
    BY <1>1, <1>4 DEF ReadSlips, Goto, takeVars, slipVars, TypedInv, WorkTypeOK
  <2> QED
    BY <2>1 DEF SheetOf, Live
<1>5. CASE SetVariance(w)
  <2>1. TakeSlip(w) /\ left[w] # {} /\ pc[w] = "slip" /\ op[w] = "complete"
    BY <1>5 DEF SetVariance, AtSlip
  <2>2. NextSlip(w) \in left[w] /\ NextSlip(w) \in Slips
    BY <1>1, <2>1 DEF NextSlip, TypedInv, WorkTypeOK
  <2>3. /\ UNCHANGED <<row, counted, take, sheet, op, storeVars>>
        /\ left'[w] = left[w] \ {NextSlip(w)} /\ slip'[w] = NextSlip(w)
        /\ key'[w] = KeyOf(NextSlip(w))
        /\ pc'[w] = IF Variance(w, NextSlip(w)) = 0 THEN "slip" ELSE "find"
    BY <1>1, <1>5, <2>1 DEF SetVariance, TakeSlip, TypedInv, WorkTypeOK
  <2>4. SheetOf(w) /\ take[w] \in Careful
    BY <1>2, <2>3 DEF SheetInv
  <2>5. \A i \in DOMAIN sheet[w] \ left[w] :
          Variance(w, i) = 0 \/ (lock[KeyOf(i)] = w /\ newest[KeyOf(i)] = sheet[w][i])
    BY <2>1, <2>4 DEF SheetOf
  <2>6. \A i \in DOMAIN sheet[w] : Variance(w, i)' = Variance(w, i)
    BY <2>3 DEF Variance
  <2>7. /\ DOMAIN sheet'[w] = Live(take[w])'
        /\ \A i \in DOMAIN sheet'[w] : sheet'[w][i] = counted'[i]
    BY <2>1, <2>3, <2>4 DEF SheetOf, Live
  <2>8. \A i \in DOMAIN sheet'[w] \ left'[w] :
          \/ Variance(w, i)' = 0
          \/ pc'[w] # "slip" /\ i = slip'[w]
          \/ lock'[KeyOf(i)] = w /\ newest'[KeyOf(i)] = sheet'[w][i]
    BY <2>3, <2>5, <2>6 DEF storeVars
  <2> QED
    BY <2>3, <2>7, <2>8 DEF SheetOf
<1>6. CASE LookUp(w)
  <2>1. /\ pc[w] # "slip" /\ pc[w] # "items" /\ pc'[w] # "slip"
        /\ UNCHANGED <<row, counted, take, sheet, left, slip, key, op, lock, newest>>
    BY <1>1, <1>6 DEF LookUp, FindLevel, Goto, takeVars, slipVars, deskVars, storeVars,
       TypedInv, WorkTypeOK
  <2> QED
    BY <1>2, <2>1 DEF SheetInv, SheetOf, Live, Variance
<1>7. CASE SettleLevel(w)
  <2>1. /\ pc[w] \in {"update", "insert"} /\ pc'[w] = "slip" /\ op[w] = "complete"
        /\ UNCHANGED <<row, counted, take, sheet, left, slip, key>>
        /\ lock' = [lock EXCEPT ![key[w]] = w]
        /\ newest' = [newest EXCEPT ![key[w]] = sheet[w][slip[w]]]
    BY <1>1, <1>7 DEF SettleLevel, Goto, takeVars, slipVars, deskVars, TypedInv, WorkTypeOK
  <2>2. SheetOf(w) /\ take[w] \in Careful
    BY <1>2, <2>1 DEF SheetInv
  <2>3. /\ DOMAIN sheet[w] = Live(take[w])
        /\ slip[w] \in DOMAIN sheet[w] /\ slip[w] \in Slips /\ key[w] = KeyOf(slip[w])
    BY <1>1, <2>1, <2>2 DEF SheetOf, TypedInv, DeskInv, DeskOf
  <2>4. KeyOf(slip[w]) \in Keys
    BY <2>3, SlipTypes
  <2>5. ASSUME NEW i \in DOMAIN sheet[w], i # slip[w]
        PROVE  KeyOf(i) # KeyOf(slip[w])
    <3>1. /\ i \in Slips /\ TakeOf[i] = take[w] /\ Present(i)
          /\ TakeOf[slip[w]] = take[w] /\ Present(slip[w])
      BY <2>3 DEF Live, Present
    <3>2. ProductOf[i] # ProductOf[slip[w]]
      BY <1>1, <2>2, <2>3, <2>5, <3>1 DEF OneRow
    <3> QED
      BY <3>2 DEF KeyOf
  <2>6. \A i \in DOMAIN sheet[w] : KeyOf(i) \in Keys
    BY <2>3, SlipTypes DEF Live
  <2>7. ASSUME NEW i \in DOMAIN sheet[w] \ left[w]
        PROVE  \/ Variance(w, i)' = 0
               \/ lock'[KeyOf(i)] = w /\ newest'[KeyOf(i)] = sheet'[w][i]
    <3>1. CASE i = slip[w]
      BY <1>1, <2>1, <2>3, <2>4, <3>1 DEF TypedInv, StoreTypeOK
    <3>2. CASE i # slip[w]
      <4>1. lock'[KeyOf(i)] = lock[KeyOf(i)] /\ newest'[KeyOf(i)] = newest[KeyOf(i)]
        BY <1>1, <2>1, <2>3, <2>5, <2>6, <3>2 DEF TypedInv, StoreTypeOK
      <4>2. Variance(w, i)' = Variance(w, i)
        BY <2>1 DEF Variance
      <4> QED
        BY <2>1, <2>2, <3>2, <4>1, <4>2 DEF SheetOf
    <3> QED
      BY <3>1, <3>2
  <2> QED
    BY <2>1, <2>2, <2>7 DEF SheetOf, Live
<1>8. CASE Rollback(w) \/ Commit(w) \/ Correct(w)
  BY <1>1, <1>2, <1>8 DEF Rollback, Commit, Correct, EndJob, TypedInv, WorkTypeOK
<1>9. CASE \/ ReadBack(w) \/ FindSlip(w) \/ CountSlip(w) \/ InsertSlip(w) \/ LockTake(w)
           \/ DropSlip(w)
  <2>1. op[w] # "complete"
    BY <1>1, <1>9 DEF ReadBack, FindSlip, AtLine, CountSlip, InsertSlip, LockTake, DropSlip,
       AtSlip, TypedInv, DeskInv, DeskOf
  <2>2. op' = op
    BY <1>9 DEF ReadBack, FindSlip, CountSlip, InsertSlip, NextLine, Goto, LockTake, DropSlip,
       TakeSlip
  <2> QED
    BY <1>2, <2>1, <2>2
<1>10. CASE AdjustStep(w)
  BY <1>1, <1>2, <1>10 DEF AdjustStep, UpdateLevel, InsertLevel, FinishAdjust, Goto, EndJob,
     TypedInv, WorkTypeOK
<1> QED
  BY <1>4, <1>5, <1>6, <1>7, <1>8, <1>9, <1>10 DEF Step, DetectDeadlock, Fail, ReadBack, Throw,
     InsertOrphan, Duplicate, FinishCount, FinishComplete, FinishRemove

(* Every step keeps the sheets, and the levels under them.                   *)
LEMMA SheetNext == DeepInv /\ FoundInv /\ SheetInv /\ [Next]_vars => SheetInv'
<1> SUFFICES ASSUME DeepInv, FoundInv, SheetInv, [Next]_vars PROVE SheetInv'
  OBVIOUS
<1>1. CASE UNCHANGED vars
  BY <1>1 DEF vars, stockVars, storeVars, jobVars, takeVars, slipVars, deskVars, SheetInv, SheetOf,
     Live, Variance
<1>2. ASSUME NEW w \in Workers, BeginRequest(w)
      PROVE  SheetInv'
  <2>1. /\ OthersStay(w) /\ UNCHANGED <<storeVars, takeVars>>
        /\ op'[w] = "complete" => pc'[w] = "items"
    BY <1>2, BeginTyped, BeginApart DEF DeepInv
  <2>2. ASSUME NEW v \in Workers \ {w}
        PROVE  SheetOf(v)'
    BY <2>1 DEF OthersStay, storeVars, takeVars, slipVars, SheetInv, SheetOf, Live, Variance
  <2> QED
    BY <2>1, <2>2 DEF SheetInv, SheetOf
<1>3. ASSUME NEW w \in Workers, Step(w) \/ DetectDeadlock(w) \/ Fail(w)
      PROVE  SheetInv'
  <2>1. OthersStay(w) /\ Apart(w)
    BY <1>3, StepTyped, StepApart DEF DeepInv
  <2>2. ASSUME NEW v \in Workers \ {w}, take[v] \in Careful
        PROVE  SheetOf(v)'
    <3>1. take[v] # take[w]
      BY <2>2, AloneAt
    <3>2. Live(take[v])' = Live(take[v]) /\ \A i \in Live(take[v]) : counted'[i] = counted[i]
      BY <2>1, <3>1 DEF Apart, RowStays, Live, OthersStay
    <3>3. /\ pc'[v] = pc[v] /\ op'[v] = op[v] /\ key'[v] = key[v] /\ take'[v] = take[v]
          /\ slip'[v] = slip[v] /\ sheet'[v] = sheet[v] /\ left'[v] = left[v]
          /\ \A i \in DOMAIN sheet[v] : Variance(v, i)' = Variance(v, i)
      BY <2>1 DEF OthersStay, Variance
    <3>4. \A i \in DOMAIN sheet[v] : KeyOf(i) \in Keys
      BY SlipTypes DEF DeepInv, TypedInv, DeskInv, DeskOf
    <3>5. \A i \in DOMAIN sheet[v] : lock[KeyOf(i)] = v =>
            lock'[KeyOf(i)] = v /\ newest'[KeyOf(i)] = newest[KeyOf(i)]
      BY <1>3, <2>2, <3>4, LevelApart DEF DeepInv
    <3>6. SUFFICES ASSUME op[v] = "complete", pc[v] # "items"
                   PROVE  SheetOf(v)'
      BY <3>3 DEF SheetOf
    <3>7. SheetOf(v) /\ DOMAIN sheet[v] = Live(take[v])
      BY <2>2, <3>6 DEF SheetInv, SheetOf
    <3>8. \A i \in DOMAIN sheet'[v] \ left'[v] :
            \/ Variance(v, i)' = 0
            \/ pc'[v] # "slip" /\ i = slip'[v]
            \/ lock'[KeyOf(i)] = v /\ newest'[KeyOf(i)] = sheet'[v][i]
      BY <2>2, <3>3, <3>5, <3>6, <3>7 DEF SheetOf
    <3> QED
      BY <2>2, <3>2, <3>3, <3>6, <3>7, <3>8 DEF SheetOf
  <2>3. ASSUME NEW v \in Workers \ {w}, take[v] \notin Careful
        PROVE  SheetOf(v)'
    BY <2>1, <2>3 DEF OthersStay, SheetOf
  <2> QED
    BY <1>3, <2>2, <2>3, SheetStep DEF SheetInv
<1> QED
  BY <1>1, <1>2, <1>3 DEF Next

(* The whole inductive invariant in every reachable state.                   *)
LEMMA SheetsKept == Spec => [](DeepInv /\ FoundInv /\ SheetInv)
<1>1. Init => FoundInv /\ SheetInv
  BY FoundInit DEF Init, StockInit, SheetInv, SheetOf
<1>2. DeepInv /\ FoundInv /\ SheetInv /\ [Next]_vars => (FoundInv /\ SheetInv)'
  BY FoundNext, SheetNext
<1> QED
  BY <1>1, <1>2, DeepKept, PTL DEF Spec

(* What a completion of a session of Careful finds when it commits: the      *)
(* session in progress, and all its rows on the sheet as they are.           *)
LEMMA AtTheEnd ==
    ASSUME DeepInv, FoundInv, SheetInv, NEW w \in Workers, FinishComplete(w),
           take[w] \in Careful
    PROVE  /\ take[w] \in Sessions /\ status[take[w]] = "IN_PROGRESS"
           /\ DOMAIN sheet[w] = Live(take[w])
           /\ \A i \in Live(take[w]) : sheet[w][i] = counted[i]
           /\ \A i \in Live(take[w]) : Variance(w, i) # 0 =>
                lock[KeyOf(i)] = w /\ newest[KeyOf(i)] = counted[i]
           /\ counted' = counted
<1>1. op[w] = "complete" /\ pc[w] = "slip" /\ left[w] = {}
  BY DEF FinishComplete, AllTaken
<1>2. take[w] \in Sessions /\ status[take[w]] = "IN_PROGRESS"
  BY <1>1, SessionAssumption DEF DeepInv, TurnInv
<1>3. \A i \in Slips : slipLock[i] = w => countedNew[i] = counted[i]
  BY <1>1 DEF DeepInv, RowInv
<1>4. counted' = counted
  BY <1>3 DEF FinishComplete, Commit, DeepInv, TypedInv, RowTypeOK
<1> QED
  BY <1>1, <1>2, <1>4 DEF SheetInv, SheetOf

(* A session goes from IN_PROGRESS to COMPLETED in FinishComplete alone.     *)
LEMMA OnlyFinishCompletes ==
    ASSUME TypedInv, RowInv, [Next]_vars, NEW s \in Sessions,
           status[s] = "IN_PROGRESS", status'[s] = "COMPLETED"
    PROVE  \E w \in Workers : FinishComplete(w) /\ take[w] = s
<1>1. CASE UNCHANGED vars
  BY <1>1 DEF vars, takeVars
<1>2. ASSUME NEW w \in Workers, BeginRequest(w)
      PROVE  FALSE
  BY <1>2, BeginApart DEF takeVars
<1>3. ASSUME NEW w \in Workers, Step(w) \/ DetectDeadlock(w) \/ Fail(w)
      PROVE  FinishComplete(w) /\ take[w] = s
  <2>1. take[w] = s
    BY <1>3, StepApart DEF Apart
  <2>2. ~FinishRemove(w)
    BY DEF FinishRemove, TypedInv, RowTypeOK
  <2> QED
    BY <1>3, <2>1, <2>2 DEF Step, DetectDeadlock, Fail, ReadBack, Throw, InsertOrphan, Duplicate,
       Rollback, FindSlip, CountSlip, InsertSlip, NextLine, FinishCount, Correct, LockTake,
       ReadSlips, SetVariance, DropSlip, TakeSlip, LookUp, SettleLevel, AdjustStep, takeVars
<1> QED
  BY <1>1, <1>2, <1>3 DEF Next

(* When a session whose clients take turns is completed, every level it      *)
(* corrects is what was counted, whatever else runs.                         *)
THEOREM CountsAlwaysLand == Spec => CountsLand
<1>1. DeepInv /\ FoundInv /\ SheetInv /\ [Next]_vars => \A i \in Slips : Lands(i)
  <2> SUFFICES ASSUME DeepInv, FoundInv, SheetInv, [Next]_vars,
                      NEW i \in Slips, TakeOf[i] \in Careful,
                      status[TakeOf[i]] = "IN_PROGRESS", status'[TakeOf[i]] = "COMPLETED",
                      row[i] = "live", counted[i] # Expected(i)
               PROVE  on_hand'[KeyOf(i)] = counted[i]
    BY DEF Lands
  <2>1. PICK w \in Workers : FinishComplete(w) /\ take[w] = TakeOf[i]
    BY OnlyFinishCompletes, SessionAssumption DEF DeepInv
  <2>2. i \in Live(take[w])
    BY <2>1 DEF Live
  <2>3. Variance(w, i) # 0
    <3>1. counted[i] \in Nat /\ Expected(i) \in Nat
      BY SlipTypes DEF DeepInv, TypedInv, RowTypeOK
    <3>2. sheet[w][i] = counted[i]
      BY <2>1, <2>2, AtTheEnd
    <3> QED
      BY <3>1, <3>2 DEF Variance
  <2>4. lock[KeyOf(i)] = w /\ newest[KeyOf(i)] = counted[i]
    BY <2>1, <2>2, <2>3, AtTheEnd
  <2> QED
    BY <2>1, <2>4, SlipTypes DEF FinishComplete, Commit, CommitStock, Visible
<1> QED
  BY <1>1, SheetsKept, PTL DEF Spec, CountsLand

------------------------------------------------------------------------------
(* The life cycle. *)

(* A step that leaves what the life cycle shows of its session.              *)
LEMMA LifeStutters ==
    ASSUME NEW w \in Workers, Apart(w),
           \/ take[w] \notin Careful
           \/ UNCHANGED <<status, counted, booked>>
    PROVE  UNCHANGED Life!lifeVars
<1>1. /\ \A s \in Careful : status'[s] = status[s]
      /\ \A i \in CarefulSlips : counted'[i] = counted[i] /\ booked'[i] = booked[i]
  BY SessionAssumption DEF Apart, RowStays, CarefulSlips
<1> QED
  BY <1>1 DEF Life!lifeVars

(* Where clients take turns, every step is one of the life cycle or none.    *)
LEMMA LifeStep ==
    ASSUME DeepInv, FoundInv, SheetInv, [Next]_vars
    PROVE  Life!Next \/ UNCHANGED Life!lifeVars
<1>1. TypedInv /\ RowInv
  BY DEF DeepInv
<1>2. CASE UNCHANGED vars
  BY <1>2 DEF vars, takeVars, slipVars, Life!lifeVars
<1>3. ASSUME NEW w \in Workers, BeginRequest(w)
      PROVE  UNCHANGED Life!lifeVars
  BY <1>1, <1>3, BeginApart DEF takeVars, slipVars, Life!lifeVars
<1>4. ASSUME NEW w \in Workers, Step(w) \/ DetectDeadlock(w) \/ Fail(w)
      PROVE  Life!Next \/ UNCHANGED Life!lifeVars
  <2>1. Apart(w)
    BY <1>1, <1>4, StepApart
  <2>2. CASE take[w] \notin Careful \/ UNCHANGED <<status, counted, booked>>
    BY <2>1, <2>2, LifeStutters
  <2>3. CASE take[w] \in Careful /\ (FinishCount(w) \/ Correct(w))
    <3>0. PICK s \in Careful : take[w] = s
      BY <2>3
    <3>1. UNCHANGED <<status, booked>> /\ op[w] # "create"
      BY <1>1, <2>3 DEF FinishCount, Correct, TypedInv, DeskInv, DeskOf
    <3>2. status[take[w]] = "IN_PROGRESS"
      BY <2>3, <3>1 DEF DeepInv, TurnInv
    <3>3. counted' \in [Slips -> Nat]
      BY <1>1, <1>4, StepTyped DEF TypedInv, RowTypeOK
    <3>4. Life!Count(s)
      BY <3>0, <2>1, <2>3, <3>1, <3>2, <3>3, SessionAssumption
         DEF Life!Count, Apart, RowStays, CarefulSlips
    <3> QED
      BY <3>4 DEF Life!Next
  <2>4. CASE take[w] \in Careful /\ FinishComplete(w)
    <3>0. PICK s \in Careful : take[w] = s
      BY <2>4
    <3>1. /\ take[w] \in Sessions /\ status[take[w]] = "IN_PROGRESS"
          /\ DOMAIN sheet[w] = Live(take[w])
          /\ \A i \in Live(take[w]) : sheet[w][i] = counted[i]
          /\ counted' = counted
      BY <2>4, AtTheEnd
    <3>2. status' = [status EXCEPT ![take[w]] = "COMPLETED"]
      BY <1>1, <2>4, <3>1 DEF FinishComplete, TypedInv, RowTypeOK
    <3>3. ASSUME NEW i \in CarefulSlips, TakeOf[i] = take[w]
          PROVE  booked'[i] = counted[i] - Expected(i)
      <4>1. i \in Slips /\ booked[i] = 0
        BY <3>1, <3>3 DEF CarefulSlips, DeepInv, OpenBooksNothing
      <4>2. counted[i] \in Nat /\ Expected(i) \in Nat
        BY <1>1, <4>1, SlipTypes DEF TypedInv, RowTypeOK
      <4>3. CASE i \in Live(take[w])
        BY <2>4, <3>1, <4>1, <4>2, <4>3 DEF FinishComplete, Variance
      <4>4. CASE i \notin Live(take[w])
        <5>1. row[i] = "unwritten"
          BY <1>1, <3>1, <3>3, <4>1, <4>4 DEF Live, RowInv, TypedInv, RowTypeOK
        <5>2. counted[i] = 0 /\ Expected(i) = 0
          BY <1>1, <4>1, <5>1 DEF RowInv, Expected
        <5> QED
          BY <2>4, <3>1, <4>1, <4>4, <5>2 DEF FinishComplete
      <4> QED
        BY <4>3, <4>4
    <3>4. \A i \in CarefulSlips : TakeOf[i] # take[w] => booked'[i] = booked[i]
      BY <2>1 DEF Apart, RowStays, CarefulSlips
    <3>5. Life!Close(s, "COMPLETED")
      BY <1>1, <3>0, <3>1, <3>2, SessionAssumption
         DEF Life!Close, CarefulSlips, TypedInv, RowTypeOK
    <3>6. \A i \in CarefulSlips :
            booked'[i] = IF TakeOf[i] = s THEN counted[i] - Expected(i) ELSE booked[i]
      BY <3>0, <3>3, <3>4
    <3>7. Life!Complete(s)
      BY <3>5, <3>6 DEF Life!Complete
    <3> QED
      BY <3>7 DEF Life!Next
  <2>5. CASE take[w] \in Careful /\ FinishRemove(w)
    <3>0. PICK s \in Careful : take[w] = s
      BY <2>5
    <3>1. op[w] = "remove" /\ UNCHANGED booked /\ Commit(w)
      BY <2>5 DEF FinishRemove, AllTaken
    <3>2. status[take[w]] = "IN_PROGRESS"
      BY <2>5, <3>1 DEF DeepInv, TurnInv
    <3>3. \A i \in Slips : slipLock[i] = w => countedNew[i] = counted[i]
      BY <1>1, <3>1 DEF RowInv
    <3>4. counted' = counted
      BY <1>1, <3>1, <3>3 DEF Commit, TypedInv, RowTypeOK
    <3>5. Life!Abort(s)
      BY <3>0, <1>1, <2>5, <3>1, <3>2, <3>4, SessionAssumption
         DEF FinishRemove, Life!Abort, Life!Close, TypedInv, RowTypeOK
    <3> QED
      BY <3>5 DEF Life!Next
  <2> QED
    BY <1>4, <2>2, <2>3, <2>4, <2>5 DEF Step, DetectDeadlock, Fail, ReadBack, Throw, InsertOrphan,
       Duplicate, Rollback, FindSlip, CountSlip, InsertSlip, NextLine, LockTake, ReadSlips,
       SetVariance, DropSlip, TakeSlip, LookUp, SettleLevel, AdjustStep, takeVars, slipVars
<1> QED
  BY <1>2, <1>3, <1>4 DEF Next

(* Where clients take turns, stocktakes follow StocktakeLifecycle: a         *)
(* completion books exactly the differences, once.                           *)
THEOREM StocktakesKeepLifecycle == Spec => LifecycleKept
<1>1. Init => Life!Init
  BY SessionAssumption DEF Init, Life!Init, CarefulSlips
<1>2. DeepInv /\ FoundInv /\ SheetInv /\ [Next]_vars => [Life!Next]_(Life!lifeVars)
  BY LifeStep
<1> QED
  BY <1>1, <1>2, SheetsKept, PTL DEF Spec, LifecycleKept, Life!Spec

------------------------------------------------------------------------------
(* What ledger and levels say of one another. *)

(* What a worker on its way to a level is going to add to the ledger, and    *)
(* where its sheet comes from.                                               *)
TaskOf(w) ==
    /\ op[w] = "complete" => take[w] \in Open
    /\ op[w] = "complete" /\ pc[w] \in {"find", "update", "insert"}
         => /\ change[w] = Variance(w, slip[w]) /\ key[w] = KeyOf(slip[w])
            /\ slip[w] \notin left[w]
    /\ \A i \in DOMAIN sheet[w] : row[i] # "unwritten"

(* Whoever holds a level has made one adjustment of it, or brought it the    *)
(* count of one row of its sheet.                                            *)
HeldFor(w, k) ==
    \/ /\ op[w] = "adjust" /\ pc[w] = "commit"
       /\ newest[k] = on_hand[k] + posting[k]
    \/ /\ op[w] = "complete" /\ pc[w] # "items"
       /\ CountedOnce(k) => \E i \in DOMAIN sheet[w] \ left[w] :
                              /\ KeyOf(i) = k
                              /\ newest[k] = sheet[w][i] /\ posting[k] = Variance(w, i)
                              /\ pc[w] = "slip" \/ i # slip[w]

LevelOf(k) ==
    /\ lock[k] = NoWorker => newest[k] = on_hand[k] /\ posting[k] = 0
    /\ \A w \in Workers : lock[k] = w => HeldFor(w, k)

LevelInv ==
    /\ \A s \in Sessions : status[s] = "IN_PROGRESS" => s \in Open
    /\ \A w \in Workers : TaskOf(w)
    /\ \A k \in Keys : LevelOf(k)

(* Nothing is held at the start.                                             *)
LEMMA LevelInit == Init => LevelInv
BY WorkerAssumption, EmptySheet DEF Init, StockInit, LevelInv, TaskOf, LevelOf

(* A session never comes into progress: create does not get that far.        *)
LEMMA NoneOpens ==
    ASSUME TypedInv, RowInv, [Next]_vars, NEW s \in Sessions, status'[s] = "IN_PROGRESS"
    PROVE  status[s] = "IN_PROGRESS"
<1>1. CASE UNCHANGED vars
  BY <1>1 DEF vars, takeVars
<1>2. ASSUME NEW w \in Workers, BeginRequest(w)
      PROVE  UNCHANGED status
  BY <1>2, BeginApart DEF takeVars
<1>3. ASSUME NEW w \in Workers, Step(w) \/ DetectDeadlock(w) \/ Fail(w)
      PROVE  status[s] = "IN_PROGRESS"
  <2>1. CASE FinishComplete(w) \/ FinishRemove(w)
    BY <2>1 DEF FinishComplete, FinishRemove, TypedInv, RowTypeOK
  <2>2. CASE UNCHANGED status
    BY <2>2
  <2> QED
    BY <1>3, <2>1, <2>2 DEF Step, DetectDeadlock, Fail, ReadBack, Throw, InsertOrphan, Duplicate,
       Rollback, FindSlip, CountSlip, InsertSlip, NextLine, FinishCount, Correct, LockTake,
       ReadSlips, SetVariance, DropSlip, TakeSlip, LookUp, SettleLevel, AdjustStep, takeVars
<1> QED
  BY <1>1, <1>2, <1>3 DEF Next

(* A row that was written stays written, so that a level that is not counted *)
(* once will never be again.                                                 *)
LEMMA RowsStay ==
    ASSUME TypedInv, RowInv, [Next]_vars
    PROVE  /\ \A i \in Slips : row[i] # "unwritten" => row'[i] # "unwritten"
           /\ \A k \in Keys : CountedOnce(k)' => CountedOnce(k)
<1>1. \A i \in Slips : row[i] # "unwritten" => row'[i] # "unwritten"
  <2>1. CASE UNCHANGED vars
    BY <2>1 DEF vars, takeVars, slipVars
  <2>2. ASSUME NEW w \in Workers, BeginRequest(w)
        PROVE  UNCHANGED row
    BY <2>2, BeginApart DEF takeVars, slipVars
  <2>3. ASSUME NEW w \in Workers, Step(w) \/ DetectDeadlock(w) \/ Fail(w)
        PROVE  \A i \in Slips : row[i] # "unwritten" => row'[i] # "unwritten"
    <3>1. CASE FinishCount(w) \/ FinishRemove(w)
      BY <3>1 DEF FinishCount, FinishRemove
    <3>2. CASE UNCHANGED row
      BY <3>2
    <3> QED
      BY <2>3, <3>1, <3>2 DEF Step, DetectDeadlock, Fail, ReadBack, Throw, InsertOrphan, Duplicate,
         Rollback, FindSlip, CountSlip, InsertSlip, NextLine, FinishComplete, Correct, LockTake,
         ReadSlips, SetVariance, DropSlip, TakeSlip, LookUp, SettleLevel, AdjustStep, takeVars,
         slipVars
  <2> QED
    BY <2>1, <2>2, <2>3 DEF Next
<1> QED
  BY <1>1 DEF CountedOnce

(* A worker keeps to what it is going to add.                                *)
LEMMA TaskStep ==
    ASSUME TypedInv, RowInv, [Next]_vars, NEW w \in Workers, TaskOf(w),
           Step(w) \/ DetectDeadlock(w) \/ Fail(w)
    PROVE  TaskOf(w)'
<1> USE DEF TypedInv, WorkTypeOK
<1>1. \A i \in DOMAIN sheet[w] : i \in Slips /\ row'[i] # "unwritten"
  BY RowsStay DEF TaskOf, DeskInv, DeskOf
<1>2. CASE Rollback(w) \/ Commit(w) \/ Correct(w)
  <2>1. op'[w] = "none" /\ DOMAIN sheet'[w] = {}
    BY <1>2, EmptySheet DEF Rollback, Commit, Correct, EndJob, LeaveDesk
  <2> QED
    BY <2>1 DEF TaskOf
<1>3. CASE SetVariance(w)
  <2>1. /\ slip'[w] = NextSlip(w) /\ change'[w] = Variance(w, NextSlip(w))
        /\ key'[w] = KeyOf(NextSlip(w)) /\ UNCHANGED <<op, take, sheet>> /\ op[w] = "complete"
        /\ left'[w] = left[w] \ {NextSlip(w)}
    BY <1>3 DEF SetVariance, TakeSlip, AtSlip
  <2> QED
    BY <1>1, <2>1 DEF TaskOf, Variance
<1>4. CASE LookUp(w)
  <2>1. UNCHANGED <<op, key, change, take, slip, sheet, left>> /\ pc[w] = "find"
    BY <1>4 DEF LookUp, FindLevel, Goto, deskVars
  <2> QED
    BY <1>1, <2>1 DEF TaskOf, Variance
<1>5. CASE SettleLevel(w)
  <2>1. pc'[w] = "slip" /\ UNCHANGED <<op, take, sheet>>
    BY <1>5 DEF SettleLevel, Goto, deskVars
  <2> QED
    BY <1>1, <2>1 DEF TaskOf
<1>6. CASE ReadSlips(w)
  <2>1. pc'[w] = "slip" /\ UNCHANGED <<op, take, row>> /\ DOMAIN sheet'[w] = Live(take[w])
    BY <1>6 DEF ReadSlips, Goto, takeVars, slipVars
  <2> QED
    BY <2>1 DEF TaskOf, Live
<1>7. CASE AdjustStep(w)
  <2>1. UNCHANGED sheet /\ op'[w] \in {"none", "adjust"}
    BY <1>7 DEF AdjustStep, UpdateLevel, InsertLevel, FinishAdjust, Goto, EndJob, deskVars
  <2> QED
    BY <1>1, <2>1 DEF TaskOf
<1>8. CASE ReadBack(w) \/ FindSlip(w) \/ CountSlip(w) \/ InsertSlip(w) \/ LockTake(w) \/ DropSlip(w)
  <2>1. op[w] \in {"create", "count", "remove"}
    BY <1>8 DEF ReadBack, FindSlip, AtLine, CountSlip, InsertSlip, LockTake, DropSlip, AtSlip,
       DeskInv, DeskOf
  <2>2. op' = op /\ sheet' = sheet
    BY <1>8 DEF ReadBack, FindSlip, CountSlip, InsertSlip, NextLine, Goto, LockTake, DropSlip,
       TakeSlip, deskVars
  <2> QED
    BY <1>1, <2>1, <2>2 DEF TaskOf
<1> QED
  BY <1>2, <1>3, <1>4, <1>5, <1>6, <1>7, <1>8 DEF Step, DetectDeadlock, Fail, Throw, InsertOrphan,
     Duplicate, FinishCount, FinishComplete, FinishRemove

(* What the others hold and are going to add stays as it is.                 *)
LEMMA OthersHold ==
    ASSUME TypedInv, RowInv, [Next]_vars, NEW w \in Workers, OthersStay(w),
           NEW v \in Workers, v # w
    PROVE  /\ TaskOf(v) => TaskOf(v)'
           /\ \A k \in Keys :
                /\ HeldFor(v, k)
                /\ on_hand'[k] = on_hand[k] /\ newest'[k] = newest[k] /\ posting'[k] = posting[k]
                => HeldFor(v, k)'
<1>1. /\ pc'[v] = pc[v] /\ op'[v] = op[v] /\ key'[v] = key[v] /\ change'[v] = change[v]
      /\ take'[v] = take[v] /\ slip'[v] = slip[v] /\ sheet'[v] = sheet[v] /\ left'[v] = left[v]
  BY DEF OthersStay
<1>2. \A i : Variance(v, i)' = Variance(v, i)
  BY <1>1 DEF Variance
<1>3. ASSUME NEW k \in Keys, HeldFor(v, k), on_hand'[k] = on_hand[k], newest'[k] = newest[k],
             posting'[k] = posting[k]
      PROVE  HeldFor(v, k)'
  BY <1>1, <1>2, <1>3, RowsStay DEF HeldFor
<1>4. \A i \in DOMAIN sheet[v] : i \in Slips
  BY DEF TypedInv, DeskInv, DeskOf
<1>5. TaskOf(v) => TaskOf(v)'
  BY <1>1, <1>2, <1>4, RowsStay DEF TaskOf
<1> QED
  BY <1>3, <1>5

(* What is left of the levels of a worker whose transaction ends, ...        *)
LEMMA LevelEnd ==
    ASSUME TypedInv, RowInv, [Next]_vars, LevelInv, NEW w \in Workers, OthersStay(w),
           CommitStock(w) \/ RollbackStock(w), NEW k \in Keys
    PROVE  LevelOf(k)'
<1> USE WorkerAssumption DEF TypedInv, StoreTypeOK
<1>1. LevelOf(k) /\ lock[k] \in Workers \cup {NoWorker}
  BY DEF LevelInv
<1>2. CASE lock[k] = w
  <2>1. lock'[k] = NoWorker /\ newest'[k] = on_hand'[k] /\ posting'[k] = 0
    BY <1>2 DEF CommitStock, RollbackStock, Visible, Unlock
  <2> QED
    BY <2>1 DEF LevelOf
<1>3. CASE lock[k] # w
  <2>1. /\ lock'[k] = lock[k] /\ newest'[k] = newest[k] /\ on_hand'[k] = on_hand[k]
        /\ posting'[k] = posting[k]
    BY <1>3 DEF CommitStock, RollbackStock, Visible, Unlock
  <2> QED
    BY <1>1, <1>3, <2>1, OthersHold DEF LevelOf
<1> QED
  BY <1>2, <1>3

(* ... of the one it adjusts, ...                                            *)
LEMMA LevelAdjusted ==
    ASSUME TypedInv, RowInv, [Next]_vars, LevelInv, NEW w \in Workers, OthersStay(w),
           AdjustStep(w), ~FinishAdjust(w), NEW k \in Keys
    PROVE  LevelOf(k)'
<1> USE WorkerAssumption DEF TypedInv, StoreTypeOK
<1>1. LevelOf(k) /\ lock[k] \in Workers \cup {NoWorker}
  BY DEF LevelInv
<1>2. /\ op[w] = "adjust" /\ pc[w] \in {"update", "insert"} /\ WriteLevel(w) /\ Goto(w, "commit")
  BY DEF AdjustStep, UpdateLevel, InsertLevel
<1>3. op'[w] = "adjust" /\ pc'[w] = "commit"
  BY <1>2 DEF Goto, WorkTypeOK
<1>4. lock[k] # w
  BY <1>1, <1>2 DEF LevelOf, HeldFor
<1>5. CASE k = key[w]
  <2>1. lock[k] = NoWorker /\ newest[k] = on_hand[k] /\ posting[k] = 0
    BY <1>1, <1>2, <1>4, <1>5 DEF WriteLevel, CanLock, LevelOf
  <2>2. /\ lock'[k] = w /\ newest'[k] = newest[k] + change[w]
        /\ posting'[k] = posting[k] + change[w] /\ on_hand'[k] = on_hand[k]
    BY <1>2, <1>5 DEF WriteLevel
  <2>3. change[w] \in Int /\ on_hand[k] \in Int
    BY DEF WorkTypeOK
  <2>4. newest'[k] = on_hand'[k] + posting'[k]
    BY <2>1, <2>2, <2>3
  <2>5. HeldFor(w, k)'
    BY <1>3, <2>4 DEF HeldFor
  <2> QED
    BY <2>2, <2>5 DEF LevelOf
<1>6. CASE k # key[w]
  <2>1. /\ lock'[k] = lock[k] /\ newest'[k] = newest[k] /\ on_hand'[k] = on_hand[k]
        /\ posting'[k] = posting[k]
    BY <1>2, <1>6 DEF WriteLevel
  <2> QED
    BY <1>1, <1>4, <2>1, OthersHold DEF LevelOf
<1> QED
  BY <1>5, <1>6

(* ... and of one it brings a count to: no row of the sheet did so before.   *)
LEMMA LevelSettled ==
    ASSUME TypedInv, RowInv, [Next]_vars, LevelInv, NEW w \in Workers, OthersStay(w),
           SettleLevel(w), NEW k \in Keys
    PROVE  LevelOf(k)'
<1> USE WorkerAssumption
<1>1. /\ LevelOf(k) /\ lock[k] \in Workers \cup {NoWorker} /\ TaskOf(w)
      /\ newest[k] \in Int /\ posting[k] \in Int
  BY DEF LevelInv, TypedInv, StoreTypeOK
<1>2. /\ op[w] = "complete" /\ pc[w] \in {"update", "insert"}
      /\ CanLock(w, key[w])
      /\ lock' = [lock EXCEPT ![key[w]] = w]
      /\ newest' = [newest EXCEPT ![key[w]] = sheet[w][slip[w]]]
      /\ posting' = [posting EXCEPT ![key[w]] = @ + change[w]]
      /\ UNCHANGED <<on_hand, op, sheet, left, slip, row>>
      /\ Goto(w, "slip")
  BY DEF SettleLevel, Goto, deskVars, takeVars, slipVars
<1>3. /\ pc'[w] = "slip" /\ change[w] = Variance(w, slip[w]) /\ key[w] = KeyOf(slip[w])
      /\ slip[w] \in DOMAIN sheet[w] \ left[w]
  BY <1>1, <1>2 DEF TypedInv, WorkTypeOK, Goto, DeskInv, DeskOf, TaskOf
<1>4. \A i \in DOMAIN sheet[w] : i \in Slips /\ TakeOf[i] = take[w] /\ row[i] # "unwritten"
  BY <1>1 DEF TypedInv, DeskInv, DeskOf, TaskOf
<1>5. \A i : Variance(w, i)' = Variance(w, i)
  BY <1>2 DEF Variance
<1>6. CountedOnce(k)' => CountedOnce(k)
  BY RowsStay
<1>7. CASE k # key[w]
  <2>1. /\ lock'[k] = lock[k] /\ newest'[k] = newest[k] /\ on_hand'[k] = on_hand[k]
        /\ posting'[k] = posting[k]
    BY <1>2, <1>7 DEF TypedInv, StoreTypeOK
  <2>2. lock[k] = w => HeldFor(w, k)'
    BY <1>1, <1>2, <1>3, <1>5, <1>6, <2>1 DEF LevelOf, HeldFor
  <2> QED
    BY <1>1, <2>1, <2>2, OthersHold DEF LevelOf
<1>8. CASE k = key[w]
  <2>1. lock'[k] = w /\ newest'[k] = sheet'[w][slip[w]] /\ posting'[k] = posting[k] + change[w]
    BY <1>2, <1>8 DEF TypedInv, StoreTypeOK
  <2>2. HeldFor(w, k)'
    <3>1. SUFFICES ASSUME CountedOnce(k)
                   PROVE  \E i \in DOMAIN sheet'[w] \ left'[w] :
                            /\ KeyOf(i) = k
                            /\ newest'[k] = sheet'[w][i] /\ posting'[k] = Variance(w, i)'
      BY <1>2, <1>3, <1>6 DEF HeldFor
    <3>2. lock[k] # w
      <4>1. SUFFICES ASSUME lock[k] = w PROVE FALSE
        OBVIOUS
      <4>2. PICK i \in DOMAIN sheet[w] : KeyOf(i) = k /\ i # slip[w]
        BY <1>1, <1>2, <3>1, <4>1 DEF LevelOf, HeldFor
      <4> QED
        BY <1>3, <1>4, <1>8, <3>1, <4>2 DEF CountedOnce
    <3>3. posting[k] = 0
      BY <1>1, <1>2, <1>8, <3>2 DEF CanLock, LevelOf
    <3>4. change[w] \in Int
      BY DEF TypedInv, WorkTypeOK
    <3>5. posting'[k] = Variance(w, slip[w])
      BY <1>3, <2>1, <3>3, <3>4
    <3> QED
      BY <1>2, <1>3, <1>5, <1>8, <2>1, <3>5
  <2> QED
    BY <2>1, <2>2 DEF LevelOf
<1> QED
  BY <1>7, <1>8

(* A step that leaves the levels and leaves its worker's levels explained.   *)
LEMMA LevelQuiet ==
    ASSUME TypedInv, RowInv, [Next]_vars, LevelInv, NEW w \in Workers, OthersStay(w),
           UNCHANGED storeVars, NEW k \in Keys, lock[k] = w => HeldFor(w, k)'
    PROVE  LevelOf(k)'
<1>1. LevelOf(k)
  BY DEF LevelInv
<1>2. /\ lock'[k] = lock[k] /\ newest'[k] = newest[k] /\ on_hand'[k] = on_hand[k]
      /\ posting'[k] = posting[k]
  BY DEF storeVars
<1> QED
  BY <1>1, <1>2, OthersHold DEF LevelOf

(* Going on through the sheet leaves what a level was brought.               *)
LEMMA LevelPassed ==
    ASSUME TypedInv, RowInv, [Next]_vars, NEW w \in Workers, NEW k \in Keys, HeldFor(w, k),
           \/ SetVariance(w) \/ LookUp(w) \/ ReadSlips(w) \/ FindSlip(w) \/ CountSlip(w)
           \/ InsertSlip(w) \/ Correct(w) \/ LockTake(w) \/ DropSlip(w) \/ ReadBack(w)
    PROVE  HeldFor(w, k)'
<1> USE DEF TypedInv, WorkTypeOK
<1>0. CountedOnce(k)' => CountedOnce(k)
  BY RowsStay
<1>1. CASE SetVariance(w)
  <2>1. /\ op[w] = "complete" /\ pc[w] = "slip" /\ left[w] # {} /\ TakeSlip(w)
        /\ slip'[w] = NextSlip(w) /\ pc'[w] \in {"slip", "find"}
    BY <1>1 DEF SetVariance, AtSlip
  <2>2. NextSlip(w) \in left[w]
    BY <2>1 DEF NextSlip
  <2>3. /\ UNCHANGED <<on_hand, newest, posting, op, sheet>>
        /\ left'[w] = left[w] \ {NextSlip(w)}
    BY <2>1 DEF TakeSlip, storeVars
  <2>4. \A i : Variance(w, i)' = Variance(w, i)
    BY <2>3 DEF Variance
  <2>5. ASSUME NEW i \in DOMAIN sheet[w] \ left[w]
        PROVE  i \in DOMAIN sheet'[w] \ left'[w] /\ i # slip'[w]
    BY <2>1, <2>2, <2>3
  <2> QED
    BY <1>0, <2>1, <2>3, <2>4, <2>5 DEF HeldFor
<1>2. CASE LookUp(w)
  <2>1. /\ pc[w] = "find" /\ pc'[w] \in {"update", "insert"}
        /\ UNCHANGED <<on_hand, newest, posting, op, sheet, left, slip>>
    BY <1>2 DEF LookUp, FindLevel, Goto, deskVars, storeVars
  <2>2. \A i : Variance(w, i)' = Variance(w, i)
    BY <2>1 DEF Variance
  <2> QED
    BY <1>0, <2>1, <2>2 DEF HeldFor
<1>3. CASE \/ ReadSlips(w) \/ FindSlip(w) \/ CountSlip(w) \/ InsertSlip(w) \/ Correct(w)
           \/ LockTake(w) \/ DropSlip(w) \/ ReadBack(w)
  BY <1>3 DEF ReadSlips, FindSlip, AtLine, CountSlip, InsertSlip, Correct, LockTake, DropSlip,
     ReadBack, AtSlip, DeskInv, DeskOf, HeldFor
<1> QED
  BY <1>1, <1>2, <1>3

(* A request begins with no level, and a completion with an open session.    *)
LEMMA TaskBegun ==
    ASSUME TypedInv, RowInv, LevelInv, NEW w \in Workers, BeginRequest(w)
    PROVE  op[w] = "none" /\ TaskOf(w)'
<1> USE DEF TypedInv, WorkTypeOK
<1>1. pc[w] = "idle" /\ op[w] = "none" /\ DOMAIN sheet[w] = {}
  BY DEF BeginRequest, BeginAdjust, BeginCreate, BeginCount, BeginCorrect, BeginComplete,
     BeginRemove, Begin, StartJob, DeskInv, DeskOf
<1>2. sheet'[w] = sheet[w]
  BY DEF BeginRequest, BeginAdjust, BeginCreate, BeginCount, BeginCorrect, BeginComplete,
     BeginRemove, Begin, deskVars
<1>3. op'[w] = "complete" => pc'[w] = "items"
  BY BeginApart
<1>4. op'[w] = "complete" => take'[w] \in Open
  <2>1. ASSUME NEW s \in Sessions, BeginComplete(w, s)
        PROVE  take'[w] \in Open
    BY <2>1 DEF BeginComplete, Begin, LevelInv
  <2>2. CASE \/ BeginAdjust(w)
             \/ \E s \in Sessions : BeginCreate(w, s) \/ BeginCount(w, s) \/ BeginRemove(w, s)
             \/ \E i \in Slips : BeginCorrect(w, i)
    BY <2>2 DEF BeginAdjust, BeginCreate, BeginCount, BeginCorrect, BeginRemove, Begin, StartJob
  <2> QED
    BY <2>1, <2>2 DEF BeginRequest
<1> QED
  BY <1>1, <1>2, <1>3, <1>4 DEF TaskOf

(* Every step keeps the levels explained.                                    *)
LEMMA LevelNext == TypedInv /\ RowInv /\ LevelInv /\ [Next]_vars => LevelInv'
<1> SUFFICES ASSUME TypedInv, RowInv, LevelInv, [Next]_vars PROVE LevelInv'
  OBVIOUS
<1>1. \A s \in Sessions : status'[s] = "IN_PROGRESS" => s \in Open
  BY NoneOpens DEF LevelInv
<1>2. CASE UNCHANGED vars
  <2>1. \A w \in Workers : TaskOf(w)'
    BY <1>2 DEF vars, stockVars, jobVars, takeVars, slipVars, deskVars, LevelInv, TaskOf, Variance
  <2>2. ASSUME NEW w \in Workers, NEW k \in Keys, HeldFor(w, k)
        PROVE  HeldFor(w, k)'
    BY <1>2, <2>2 DEF vars, stockVars, storeVars, jobVars, takeVars, slipVars, deskVars, HeldFor,
       CountedOnce, Variance
  <2>3. \A k \in Keys : LevelOf(k)'
    BY <1>2, <2>2 DEF vars, stockVars, storeVars, LevelInv, LevelOf
  <2> QED
    BY <1>1, <2>1, <2>3 DEF LevelInv
<1>3. ASSUME NEW w \in Workers, BeginRequest(w)
      PROVE  LevelInv'
  <2>1. OthersStay(w) /\ UNCHANGED storeVars /\ op[w] = "none" /\ TaskOf(w)'
    BY <1>3, BeginTyped, BeginApart, TaskBegun
  <2>2. \A k \in Keys : LevelOf(k)'
    BY <2>1, LevelQuiet DEF LevelInv, LevelOf, HeldFor
  <2> QED
    BY <1>1, <2>1, <2>2, OthersHold DEF LevelInv
<1>4. ASSUME NEW w \in Workers, Step(w) \/ DetectDeadlock(w) \/ Fail(w)
      PROVE  LevelInv'
  <2>1. OthersStay(w) /\ TaskOf(w)'
    BY <1>4, StepTyped, TaskStep DEF LevelInv
  <2>2. ASSUME NEW k \in Keys
        PROVE  LevelOf(k)'
    <3>1. CASE CommitStock(w) \/ RollbackStock(w)
      BY <2>1, <3>1, LevelEnd
    <3>2. CASE AdjustStep(w)
      BY <2>1, <3>1, <3>2, LevelAdjusted DEF FinishAdjust
    <3>3. CASE SettleLevel(w)
      BY <2>1, <3>3, LevelSettled
    <3>4. CASE \/ SetVariance(w) \/ LookUp(w) \/ ReadSlips(w) \/ FindSlip(w) \/ CountSlip(w)
               \/ InsertSlip(w) \/ Correct(w) \/ LockTake(w) \/ DropSlip(w) \/ ReadBack(w)
      <4>1. UNCHANGED storeVars
        BY <3>4 DEF SetVariance, TakeSlip, LookUp, FindLevel, ReadSlips, FindSlip, CountSlip,
           InsertSlip, NextLine, Correct, LockTake, DropSlip, ReadBack
      <4>2. lock[k] = w => HeldFor(w, k)'
        BY <3>4, LevelPassed DEF LevelInv, LevelOf
      <4> QED
        BY <2>1, <4>1, <4>2, LevelQuiet
    <3> QED
      BY <1>4, <3>1, <3>2, <3>3, <3>4 DEF Step, DetectDeadlock, Fail, Throw, InsertOrphan,
         Duplicate, Rollback, FinishCount, FinishComplete, FinishRemove, Commit
  <2> QED
    BY <1>1, <2>1, <2>2, OthersHold DEF LevelInv
<1> QED
  BY <1>2, <1>3, <1>4 DEF Next

(* What is expected of a row of a session in progress is what the level of   *)
(* the row had at the start.                                                 *)
LEMMA ExpectedIsOpening ==
    ASSUME NEW i \in Slips, TakeOf[i] \in Open
    PROVE  Expected(i) = Opening[KeyOf(i)]
BY SnapshotAssumption, OpeningAssumption, SlipTypes DEF Expected

(* What a step may do to a level and its ledger.                             *)
DriftMoves(k) ==
    CountedOnce(k) => \/ Drift(k)' = Drift(k)
                      \/ \E w \in Workers : Settles(w, k) /\ Drift(k)' = -posted[k]

(* A step that leaves both columns.                                          *)
LEMMA DriftStays ==
    ASSUME UNCHANGED <<on_hand, posted>>, NEW k
    PROVE  DriftMoves(k)
BY DEF DriftMoves, Drift

(* A commit of anything but a completion moves both columns alike.           *)
LEMMA DriftCommitted ==
    ASSUME TypedInv, LevelInv, NEW w \in Workers, CommitStock(w), op[w] # "complete",
           NEW k \in Keys
    PROVE  DriftMoves(k)
<1>1. /\ on_hand[k] \in Int /\ newest[k] \in Int /\ posted[k] \in Int /\ posting[k] \in Int
      /\ Opening[k] \in Int
  BY OpeningAssumption DEF TypedInv, StoreTypeOK
<1>2. CASE lock[k] = w
  <2>1. newest[k] = on_hand[k] + posting[k]
    BY <1>2 DEF LevelInv, LevelOf, HeldFor
  <2>2. on_hand'[k] = newest[k] /\ posted'[k] = posted[k] + posting[k]
    BY <1>2 DEF CommitStock, Visible
  <2> QED
    BY <1>1, <2>1, <2>2 DEF DriftMoves, Drift
<1>3. CASE lock[k] # w
  BY <1>3 DEF CommitStock, Visible, DriftMoves, Drift
<1> QED
  BY <1>2, <1>3

(* A completion brings a level the count of its row and books the variance.  *)
LEMMA DriftCompleted ==
    ASSUME TypedInv, LevelInv, NEW w \in Workers, FinishComplete(w), NEW k \in Keys
    PROVE  DriftMoves(k)
<1>1. /\ on_hand[k] \in Int /\ posted[k] \in Int /\ Opening[k] \in Int
  BY OpeningAssumption DEF TypedInv, StoreTypeOK
<1>2. op[w] = "complete" /\ pc[w] = "slip" /\ CommitStock(w) /\ op'[w] = "none"
  BY DEF FinishComplete, AllTaken, Commit, EndJob, TypedInv, WorkTypeOK
<1>3. CASE lock[k] = w
  <2>1. SUFFICES ASSUME CountedOnce(k) PROVE Settles(w, k) /\ Drift(k)' = -posted[k]
    BY DEF DriftMoves
  <2>2. PICK i \in DOMAIN sheet[w] :
          KeyOf(i) = k /\ newest[k] = sheet[w][i] /\ posting[k] = Variance(w, i)
    BY <1>2, <1>3, <2>1 DEF LevelInv, LevelOf, HeldFor
  <2>3. i \in Slips /\ TakeOf[i] \in Open /\ sheet[w][i] \in Int
    BY <1>2, <2>2 DEF LevelInv, TaskOf, TypedInv, DeskInv, DeskOf, WorkTypeOK
  <2>4. Expected(i) = Opening[k]
    BY <2>2, <2>3, ExpectedIsOpening
  <2>5. on_hand'[k] = sheet[w][i] /\ posted'[k] = posted[k] + (sheet[w][i] - Opening[k])
    BY <1>2, <1>3, <2>2, <2>4 DEF CommitStock, Visible, Variance
  <2>6. Drift(k)' = -posted[k]
    BY <1>1, <2>3, <2>5 DEF Drift
  <2> QED
    BY <1>2, <1>3, <2>6 DEF Settles
<1>4. CASE lock[k] # w
  BY <1>2, <1>4 DEF CommitStock, Visible, DriftMoves, Drift
<1> QED
  BY <1>3, <1>4

(* No other step parts a level from its ledger.                              *)
LEMMA DriftNext ==
    ASSUME TypedInv, RowInv, LevelInv, [Next]_vars, NEW k \in Keys
    PROVE  DriftMoves(k)
<1>1. CASE UNCHANGED vars
  BY <1>1, DriftStays DEF vars, stockVars, storeVars
<1>2. ASSUME NEW w \in Workers, BeginRequest(w)
      PROVE  DriftMoves(k)
  BY <1>2, BeginApart, DriftStays DEF storeVars
<1>3. ASSUME NEW w \in Workers, Step(w) \/ DetectDeadlock(w) \/ Fail(w)
      PROVE  DriftMoves(k)
  <2>1. CASE FinishComplete(w)
    BY <2>1, DriftCompleted
  <2>2. CASE FinishCount(w) \/ FinishRemove(w) \/ (AdjustStep(w) /\ FinishAdjust(w))
    <3>1. op[w] # "complete" /\ CommitStock(w)
      BY <2>2 DEF FinishCount, FinishRemove, AllTaken, AdjustStep, FinishAdjust, Commit,
         TypedInv, DeskInv, DeskOf
    <3> QED
      BY <3>1, DriftCommitted
  <2>3. CASE UNCHANGED <<on_hand, posted>>
    BY <2>3, DriftStays
  <2> QED
    BY <1>3, <2>1, <2>2, <2>3 DEF Step, DetectDeadlock, Fail, ReadBack, Throw, InsertOrphan,
       Duplicate, Rollback, RollbackStock, FindSlip, CountSlip, InsertSlip, NextLine, Correct,
       LockTake, ReadSlips, SetVariance, DropSlip, TakeSlip, LookUp, FindLevel, SettleLevel,
       AdjustStep, UpdateLevel, InsertLevel, WriteLevel, storeVars
<1> QED
  BY <1>1, <1>2, <1>3 DEF Next

(* For any sessions, rows and workers, and adjustments of either sign: a     *)
(* completion leaves a level that its session counts once at the snapshot    *)
(* plus what it books, and no other step parts a level from the ledger.      *)
THEOREM MovesAlwaysExplainDrift == Spec => MovesExplainDrift
<1>1. TypedInv /\ RowInv /\ LevelInv /\ [Next]_vars => \A k \in Keys : DriftMoves(k)
  BY DriftNext
<1>2. Spec => [](TypedInv /\ RowInv /\ LevelInv)
  <2>1. DeepInv => TypedInv /\ RowInv
    BY DEF DeepInv
  <2> QED
    BY <2>1, LevelInit, LevelNext, DeepKept, PTL DEF Spec
<1>3. (\A k \in Keys : DriftMoves(k)) <=>
        \A k \in Keys :
          CountedOnce(k) => \/ Drift(k)' = Drift(k)
                            \/ \E w \in Workers : Settles(w, k) /\ Drift(k)' = -posted[k]
  BY DEF DriftMoves
<1> QED
  BY <1>1, <1>2, <1>3, PTL DEF Spec, MovesExplainDrift
==============================================================================
