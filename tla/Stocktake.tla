------------------------------ MODULE Stocktake ------------------------------
(****************************************************************************)
(* Stocktakes (StocktakeService) next to adjustments of the levels they     *)
(* count.                                                                   *)
(*                                                                          *)
(* A session compares what was counted with a snapshot of the levels and,   *)
(* when it is completed, writes the counts over the levels and the          *)
(* variances into the ledger.  Every operation reads the status without     *)
(* locking the session and acts on it in later statements.  The last write  *)
(* of a transaction and its COMMIT are one action.                          *)
(*                                                                          *)
(* create leaves no session behind (ReadBack), and nothing else in the      *)
(* repository opens one.  The other operations are modelled for sessions    *)
(* that are in progress at the start, which is an assumption: somebody put  *)
(* the rows there that create would have written.                           *)
(****************************************************************************)
EXTENDS Inventory, Sequences

CONSTANTS
    Sessions,   \* ids of stocktakes, written or yet to be
    NoSession,  \* the session of a worker that serves none
    Open,       \* the sessions in progress at the start
    SiteOf,     \* location_id of a session
    Slips,      \* ids of stocktake_items, written or yet to be
    NoSlip,     \* the row of a worker that is at none
    TakeOf,     \* the session a row belongs to
    ProductOf,  \* and its product
    Snapshot,   \* the rows the open sessions began with
    Batches,    \* the `items` arrays clients send to count
    Corrections,\* the counted_quantity values clients correct a row to
    Careful     \* the sessions whose clients never overlap two requests

Lines == [product : Products, qty : Nat]

ASSUME SessionAssumption ==
    /\ NoSession \notin Sessions
    /\ NoSlip \notin Slips
    /\ Open \subseteq Sessions
    /\ SiteOf \in [Sessions -> Locations]
    /\ TakeOf \in [Slips -> Sessions]
    /\ ProductOf \in [Slips -> Products]
    /\ Snapshot \subseteq Slips
    /\ Careful \subseteq Sessions
ASSUME CountAssumption == Batches \subseteq Seq(Lines) /\ Corrections \subseteq Nat

KeyOf(i) == <<SiteOf[TakeOf[i]], ProductOf[i]>>

(* A snapshot has a row for every level there is, one each, and no quantity  *)
(* is expected of what it does not list.                                     *)
ASSUME SnapshotAssumption ==
    /\ \A i \in Slips : i \in Snapshot <=> TakeOf[i] \in Open /\ KeyOf(i) \in Stocked
    /\ \A i, j \in Snapshot : TakeOf[i] = TakeOf[j] /\ ProductOf[i] = ProductOf[j] => i = j
ASSUME CountableAssumption == \A i \in Slips : Opening[KeyOf(i)] \in Nat

VARIABLES
    status,      \* stocktakes.status ("ABSENT", "DELETED": no row)
    takeLock,    \* the worker whose open transaction deletes the row
    row,         \* "unwritten", "live" or "deleted": a stocktake_items row
    counted,     \* its counted_quantity, committed
    countedNew,  \* and in the newest version
    slipLock,    \* the worker whose open transaction wrote the row
    booked,      \* SUM(quantity_change) completions have booked for a row
    take,        \* the session a worker serves
    todo,        \* the lines it has not counted, the current one first
    slip,        \* the row it counts next
    sheet,       \* the counts it has read to complete the session
    left         \* the rows of these it has not dealt with

slipVars == <<row, counted, countedNew, slipLock>>
takeVars == <<status, takeLock, slipVars, booked>>
deskVars == <<take, todo, slip, sheet, left>>
vars == <<stockVars, takeVars, deskVars>>

Expected(i) == IF i \in Snapshot THEN Opening[KeyOf(i)] ELSE 0

NoSheet == [i \in {} |-> 0]

(* The session and its rows as create would have committed them.             *)
Init ==
    /\ StockInit
    /\ status = [s \in Sessions |-> IF s \in Open THEN "IN_PROGRESS" ELSE "ABSENT"]
    /\ takeLock = [s \in Sessions |-> NoWorker]
    /\ row = [i \in Slips |-> IF i \in Snapshot THEN "live" ELSE "unwritten"]
    /\ counted = [i \in Slips |-> 0]
    /\ countedNew = [i \in Slips |-> 0]
    /\ slipLock = [i \in Slips |-> NoWorker]
    /\ booked = [i \in Slips |-> 0]
    /\ take = [w \in Workers |-> NoSession]
    /\ todo = [w \in Workers |-> <<>>]
    /\ slip = [w \in Workers |-> NoSlip]
    /\ sheet = [w \in Workers |-> NoSheet]
    /\ left = [w \in Workers |-> {}]

Live(s) == {i \in Slips : row[i] = "live" /\ TakeOf[i] = s}

------------------------------------------------------------------------------
(* The end of a transaction. *)

LeaveDesk(w) ==
    /\ take' = [take EXCEPT ![w] = NoSession]
    /\ todo' = [todo EXCEPT ![w] = <<>>]
    /\ slip' = [slip EXCEPT ![w] = NoSlip]
    /\ sheet' = [sheet EXCEPT ![w] = NoSheet]
    /\ left' = [left EXCEPT ![w] = {}]

UnlockRows(w) ==
    /\ slipLock' = [i \in Slips |-> IF slipLock[i] = w THEN NoWorker ELSE slipLock[i]]
    /\ takeLock' = [s \in Sessions |-> IF takeLock[s] = w THEN NoWorker ELSE takeLock[s]]

(* An exception, a lost connection or a deadlock victim. *)
Rollback(w) ==
    /\ RollbackStock(w)
    /\ EndJob(w)
    /\ countedNew' = [i \in Slips |-> IF slipLock[i] = w THEN counted[i] ELSE countedNew[i]]
    /\ UnlockRows(w)
    /\ LeaveDesk(w)
    /\ UNCHANGED <<status, row, counted, booked>>

Commit(w) ==
    /\ CommitStock(w)
    /\ EndJob(w)
    /\ counted' = [i \in Slips |-> IF slipLock[i] = w THEN countedNew[i] ELSE counted[i]]
    /\ UnlockRows(w)
    /\ LeaveDesk(w)
    /\ UNCHANGED countedNew

------------------------------------------------------------------------------
(* Mutant: the status is not tested.                                         *)
Begin_Unchecked(w, s, from, name, label) ==
    /\ status[s] # "DELETED"
    /\ s \in Careful => \A v \in Workers : take[v] # s
    /\ StartJob(w, label, name)
    /\ take' = [take EXCEPT ![w] = s]
    /\ UNCHANGED <<storeVars, key, change, takeVars, sheet, left>>

(* The first SELECT of an operation.  Any other status is answered 409 (404  *)
(* where there is no row) and changes nothing: not a step.                   *)
Begin(w, s, from, name, label) ==
    /\ status[s] = from
    /\ s \in Careful => \A v \in Workers : take[v] # s
    /\ StartJob(w, label, name)
    /\ take' = [take EXCEPT ![w] = s]
    /\ UNCHANGED <<storeVars, key, change, takeVars, sheet, left>>

BeginCreate(w, s) ==
    /\ \A v \in Workers : take[v] # s
    /\ Begin(w, s, "ABSENT", "create", "readBack")
    /\ UNCHANGED <<todo, slip>>

BeginCount(w, s) ==
    \E batch \in Batches :
        /\ Begin(w, s, "IN_PROGRESS", "count", "line")
        /\ todo' = [todo EXCEPT ![w] = batch]
        /\ UNCHANGED slip

(* The row and the new count are in the request; the count travels as a line.*)
BeginCorrect(w, i) ==
    \E n \in Corrections :
        /\ row[i] = "live"
        /\ Begin(w, TakeOf[i], "IN_PROGRESS", "correct", "correct")
        /\ slip' = [slip EXCEPT ![w] = i]
        /\ todo' = [todo EXCEPT ![w] = <<[product |-> ProductOf[i], qty |-> n]>>]

BeginComplete(w, s) ==
    /\ Begin(w, s, "IN_PROGRESS", "complete", "items")
    /\ UNCHANGED <<todo, slip>>

BeginRemove(w, s) ==
    /\ Begin(w, s, "IN_PROGRESS", "remove", "delete")
    /\ UNCHANGED <<todo, slip>>

------------------------------------------------------------------------------
(* POST /stocktakes: the session and its snapshot are inserted, and then     *)
(* looked up on another connection, which sees committed rows only: there is *)
(* none, and executeTakeFirstOrThrow throws.                                 *)

ReadBack(w) ==
    /\ pc[w] = "readBack"
    /\ status[take[w]] = "ABSENT"
    /\ Goto(w, "thrown")
    /\ UNCHANGED <<storeVars, takeVars, deskVars>>

(* The exception leaves the callback of the transaction. *)
Throw(w) ==
    /\ pc[w] = "thrown"
    /\ Rollback(w)

------------------------------------------------------------------------------
(* POST /stocktakes/:id/count, one line of the batch. *)

Line(w) == Head(todo[w])

AtLine(w) == pc[w] = "line" /\ todo[w] # <<>>

(* The rows of the session a SELECT of w sees for the product of its line:   *)
(* committed ones, and those it has inserted itself.                         *)
Candidates(w) ==
    {i \in Slips : /\ TakeOf[i] = take[w]
                   /\ ProductOf[i] = Line(w).product
                   /\ row[i] = "live" \/ (row[i] = "unwritten" /\ slipLock[i] = w)}

(* executeTakeFirst: any of them, or none. *)
FindSlip(w) ==
    /\ AtLine(w)
    /\ IF Candidates(w) = {}
         THEN Goto(w, "found") /\ UNCHANGED slip
         ELSE /\ Goto(w, "count")
              /\ \E i \in Candidates(w) : slip' = [slip EXCEPT ![w] = i]
    /\ UNCHANGED <<storeVars, takeVars, take, todo, sheet, left>>

NextLine(w) ==
    /\ Goto(w, "line")
    /\ todo' = [todo EXCEPT ![w] = Tail(@)]
    /\ UNCHANGED <<storeVars, status, takeLock, row, counted, booked, take, slip, sheet, left>>

(* Mutant: counted pieces are taken off, as scans of a sale are.             *)
CountSlip_Signed(w) ==
    /\ pc[w] = "count"
    /\ slipLock[slip[w]] \in {NoWorker, w}
    /\ slipLock' = [slipLock EXCEPT ![slip[w]] = w]
    /\ countedNew' = [countedNew EXCEPT ![slip[w]] = @ - Line(w).qty]
    /\ NextLine(w)

(* counted_quantity is increased on the newest version of the row.  A row    *)
(* that was deleted meanwhile is not updated, which nothing notices.         *)
CountSlip(w) ==
    /\ pc[w] = "count"
    /\ slipLock[slip[w]] \in {NoWorker, w}
    /\ IF row[slip[w]] = "deleted"
         THEN UNCHANGED <<slipLock, countedNew>>
         ELSE /\ slipLock' = [slipLock EXCEPT ![slip[w]] = w]
              /\ countedNew' = [countedNew EXCEPT ![slip[w]] = @ + Line(w).qty]
    /\ NextLine(w)

(* A new row refers to the session, which a remove may have locked.          *)
MayRefer(w) == takeLock[take[w]] = NoWorker

(* "Found stock": no unique index keeps two requests from inserting a row    *)
(* for one product each.                                                     *)
InsertSlip(w) ==
    /\ pc[w] = "found"
    /\ MayRefer(w)
    /\ status[take[w]] # "DELETED"
    /\ \E i \in Slips :
         /\ row[i] = "unwritten" /\ slipLock[i] = NoWorker
         /\ TakeOf[i] = take[w] /\ ProductOf[i] = Line(w).product
         /\ slipLock' = [slipLock EXCEPT ![i] = w]
         /\ countedNew' = [countedNew EXCEPT ![i] = Line(w).qty]
    /\ NextLine(w)

(* The session was deleted: the foreign key refuses the row. *)
InsertOrphan(w) ==
    /\ pc[w] = "found"
    /\ MayRefer(w)
    /\ status[take[w]] = "DELETED"
    /\ Rollback(w)

(* Mutant: the connection goes back to the pool with its transaction open.   *)
FinishCount_StaysOpen(w) ==
    /\ pc[w] = "line"
    /\ todo[w] = <<>>
    /\ EndJob(w)
    /\ LeaveDesk(w)
    /\ UNCHANGED <<storeVars, takeVars>>

FinishCount(w) ==
    /\ pc[w] = "line"
    /\ todo[w] = <<>>
    /\ row' = [i \in Slips |-> IF row[i] = "unwritten" /\ slipLock[i] = w THEN "live" ELSE row[i]]
    /\ Commit(w)
    /\ UNCHANGED <<status, booked>>

(* PATCH /stocktakes/:id/count/:itemId: a statement of its own. *)
Correct(w) ==
    /\ pc[w] = "correct"
    /\ slipLock[slip[w]] = NoWorker
    /\ IF row[slip[w]] = "live"
         THEN /\ counted' = [counted EXCEPT ![slip[w]] = Line(w).qty]
              /\ countedNew' = [countedNew EXCEPT ![slip[w]] = Line(w).qty]
         ELSE UNCHANGED <<counted, countedNew>>
    /\ EndJob(w)
    /\ LeaveDesk(w)
    /\ UNCHANGED <<storeVars, status, takeLock, row, slipLock, booked>>

------------------------------------------------------------------------------
(* POST /stocktakes/:id/complete and DELETE /stocktakes/:id, both of which   *)
(* go through the rows their statement found at the start.                   *)

(* The DELETE takes the session first; a row that is just being inserted     *)
(* keeps it waiting.                                                         *)
Sharers(s) ==
    {slipLock[i] : i \in {j \in Slips : row[j] = "unwritten" /\ TakeOf[j] = s}} \ {NoWorker}

LockTake(w) ==
    /\ pc[w] = "delete"
    /\ takeLock[take[w]] = NoWorker
    /\ Sharers(take[w]) = {}
    /\ takeLock' = [takeLock EXCEPT ![take[w]] = IF status[take[w]] = "DELETED" THEN @ ELSE w]
    /\ Goto(w, "items")
    /\ UNCHANGED <<storeVars, status, slipVars, booked, deskVars>>

ReadSlips(w) ==
    /\ pc[w] = "items"
    /\ sheet' = [sheet EXCEPT ![w] = [i \in Live(take[w]) |-> counted[i]]]
    /\ left' = [left EXCEPT ![w] = Live(take[w])]
    /\ Goto(w, "slip")
    /\ UNCHANGED <<storeVars, takeVars, take, todo, slip>>

(* Rows come in their order in the table, whatever that is. *)
NextSlip(w) == CHOOSE i \in left[w] : TRUE

AtSlip(w, name) == op[w] = name /\ pc[w] = "slip" /\ left[w] # {}

AllTaken(w, name) == op[w] = name /\ pc[w] = "slip" /\ left[w] = {}

(* The UPDATE or DELETE of the next row waits for the row and passes over    *)
(* one that is gone.                                                         *)
TakeSlip(w) ==
    /\ slipLock[NextSlip(w)] = NoWorker
    /\ slipLock' = [slipLock EXCEPT ![NextSlip(w)] = IF row[NextSlip(w)] = "live" THEN w ELSE @]
    /\ left' = [left EXCEPT ![w] = @ \ {NextSlip(w)}]
    /\ UNCHANGED <<storeVars, op, requests, status, takeLock, row, counted, countedNew, booked,
                   take, todo, sheet>>

(* Mutant: what is missing counts as positive.                               *)
Variance_Reversed(w, i) == Expected(i) - sheet[w][i]

Variance(w, i) == sheet[w][i] - Expected(i)

(* The variance goes into the row; where there is one, the level follows.    *)
SetVariance(w) ==
    /\ AtSlip(w, "complete")
    /\ slip' = [slip EXCEPT ![w] = NextSlip(w)]
    /\ key' = [key EXCEPT ![w] = KeyOf(NextSlip(w))]
    /\ change' = [change EXCEPT ![w] = Variance(w, NextSlip(w))]
    /\ pc' = [pc EXCEPT ![w] = IF Variance(w, NextSlip(w)) = 0 THEN "slip" ELSE "find"]
    /\ TakeSlip(w)

DropSlip(w) ==
    /\ AtSlip(w, "remove")
    /\ TakeSlip(w)
    /\ UNCHANGED <<pc, key, change, slip>>

LookUp(w) == FindLevel(w) /\ UNCHANGED <<takeVars, deskVars>>

(* Mutant: the variance is added to the level.                               *)
SettleLevel_Adds(w) ==
    /\ op[w] = "complete"
    /\ UpdateLevel(w, "slip") \/ InsertLevel(w, "slip")
    /\ UNCHANGED <<takeVars, deskVars>>

(* quantity_on_hand becomes the count, and the ledger gets the variance.     *)
SettleLevel(w) ==
    /\ op[w] = "complete"
    /\ pc[w] = "update" \/ (pc[w] = "insert" /\ key[w] \notin tracked)
    /\ CanLock(w, key[w])
    /\ lock' = [lock EXCEPT ![key[w]] = w]
    /\ newest' = [newest EXCEPT ![key[w]] = sheet[w][slip[w]]]
    /\ posting' = [posting EXCEPT ![key[w]] = @ + change[w]]
    /\ Goto(w, "slip")
    /\ UNCHANGED <<on_hand, tracked, posted, takeVars, deskVars>>

(* The level appeared after the worker looked for it. *)
Duplicate(w) ==
    /\ pc[w] = "insert"
    /\ key[w] \in tracked
    /\ CanLock(w, key[w])
    /\ Rollback(w)

(* The UPDATE of the status is by id alone. *)
FinishComplete(w) ==
    /\ AllTaken(w, "complete")
    /\ takeLock[take[w]] = NoWorker
    /\ status' = [status EXCEPT ![take[w]] = IF @ = "DELETED" THEN @ ELSE "COMPLETED"]
    /\ booked' = [i \in Slips |-> IF i \in DOMAIN sheet[w] THEN booked[i] + Variance(w, i)
                                                           ELSE booked[i]]
    /\ Commit(w)
    /\ UNCHANGED row

FinishRemove(w) ==
    /\ AllTaken(w, "remove")
    /\ status' = [status EXCEPT ![take[w]] = "DELETED"]
    /\ row' = [i \in Slips |-> IF slipLock[i] = w THEN "deleted" ELSE row[i]]
    /\ Commit(w)
    /\ UNCHANGED booked

------------------------------------------------------------------------------
(* Rows are locked in the order of a batch or of the table, and levels in    *)
(* between.                                                                  *)

WaitsFor(w) ==
    LET holder ==
          CASE pc[w] \in {"count", "correct"} -> slipLock[slip[w]]
            [] pc[w] \in {"update", "insert"} -> lock[key[w]]
            [] pc[w] = "slip" /\ left[w] # {} -> slipLock[NextSlip(w)]
            [] pc[w] = "found" \/ AllTaken(w, "complete") -> takeLock[take[w]]
            [] pc[w] = "delete" /\ Sharers(take[w]) # {} -> CHOOSE v \in Sharers(take[w]) : TRUE
            [] pc[w] = "delete" -> takeLock[take[w]]
            [] OTHER -> NoWorker
    IN  IF holder = w THEN NoWorker ELSE holder

DetectDeadlock(w) ==
    /\ InCircleOf([v \in Workers |-> WaitsFor(v)], w)
    /\ Rollback(w)

Fail(w) == pc[w] # "idle" /\ Rollback(w)

(* The adjustments next to the stocktakes. *)
AdjustStep(w) ==
    /\ op[w] = "adjust"
    /\ UpdateLevel(w, "commit") \/ InsertLevel(w, "commit") \/ FinishAdjust(w)
    /\ UNCHANGED <<takeVars, deskVars>>

Step(w) ==
    \/ ReadBack(w) \/ Throw(w)
    \/ FindSlip(w) \/ CountSlip(w) \/ InsertSlip(w) \/ InsertOrphan(w) \/ FinishCount(w)
    \/ Correct(w)
    \/ LockTake(w) \/ ReadSlips(w) \/ SetVariance(w) \/ DropSlip(w)
    \/ LookUp(w) \/ SettleLevel(w) \/ Duplicate(w)
    \/ FinishComplete(w) \/ FinishRemove(w)
    \/ AdjustStep(w)

BeginRequest(w) ==
    \/ BeginAdjust(w) /\ UNCHANGED <<takeVars, deskVars>>
    \/ \E s \in Sessions : BeginCreate(w, s) \/ BeginCount(w, s) \/ BeginComplete(w, s)
                           \/ BeginRemove(w, s)
    \/ \E i \in Slips : BeginCorrect(w, i)

Next == \E w \in Workers : BeginRequest(w) \/ Step(w) \/ DetectDeadlock(w) \/ Fail(w)

(* A request in service keeps running and PostgreSQL breaks every circle.    *)
Fairness == \A w \in Workers : WF_vars(Step(w)) /\ WF_vars(DetectDeadlock(w))

Spec == Init /\ [][Next]_vars /\ Fairness

------------------------------------------------------------------------------
(* Properties *)

Statuses == {"ABSENT", "IN_PROGRESS", "COMPLETED", "DELETED"}
Labels ==
    {"idle", "readBack", "thrown", "line", "count", "found", "correct", "delete", "items",
     "slip", "find", "update", "insert", "commit"}
Operations == {"none", "adjust", "create", "count", "correct", "complete", "remove"}

(* The types of all variables.                                               *)
StocktakeTypeOK ==
    /\ StockTypeOK
    /\ pc \in [Workers -> Labels]
    /\ op \in [Workers -> Operations]
    /\ status \in [Sessions -> Statuses]
    /\ takeLock \in [Sessions -> Workers \cup {NoWorker}]
    /\ row \in [Slips -> {"unwritten", "live", "deleted"}]
    /\ counted \in [Slips -> Nat]
    /\ countedNew \in [Slips -> Nat]
    /\ slipLock \in [Slips -> Workers \cup {NoWorker}]
    /\ booked \in [Slips -> Int]
    /\ take \in [Workers -> Sessions \cup {NoSession}]
    /\ todo \in [Workers -> Seq(Lines)]
    /\ slip \in [Workers -> Slips \cup {NoSlip}]
    /\ left \in [Workers -> SUBSET Slips]
    /\ \A w \in Workers : left[w] \subseteq DOMAIN sheet[w] /\ sheet[w] \in [DOMAIN sheet[w] -> Nat]

(* POST /stocktakes starts a session and gives its snapshot back ("Start     *)
(* count session and snapshot"): no create is thrown out.                    *)
CreateStarts == \A w \in Workers : op[w] = "create" => pc[w] # "thrown"

(* What the ledger does not account for in a level. *)
Drift(k) == on_hand[k] - Opening[k] - posted[k]

(* No session has two rows for the level. *)
CountedOnce(k) ==
    \A i, j \in Slips :
        KeyOf(i) = k /\ KeyOf(j) = k /\ TakeOf[i] = TakeOf[j]
        /\ row[i] # "unwritten" /\ row[j] # "unwritten" => i = j

(* The commit of a completion that wrote the level. *)
Settles(w, k) == op[w] = "complete" /\ op'[w] = "none" /\ lock[k] = w

(* A completion sets a level to the snapshot plus what it books, and so      *)
(* loses exactly what other requests booked since the snapshot, whichever    *)
(* way that went; nothing else ever parts a level from the ledger, however   *)
(* sales, receipts, counts and completions, two of one session too, overlap. *)
MovesExplainDrift ==
    [][\A k \in Keys :
          CountedOnce(k) => \/ Drift(k)' = Drift(k)
                            \/ \E w \in Workers : Settles(w, k) /\ Drift(k)' = -posted[k]]_vars

(* When a session whose clients take turns closes, the levels it corrects    *)
(* are what was counted ("align inventory_levels"): nothing that runs        *)
(* meanwhile gets in between.                                                *)
Lands(i) ==
    LET s == TakeOf[i] IN
    /\ s \in Careful /\ status[s] = "IN_PROGRESS" /\ status'[s] = "COMPLETED"
    /\ row[i] = "live" /\ counted[i] # Expected(i)
    => on_hand'[KeyOf(i)] = counted[i]
CountsLand == [][\A i \in Slips : Lands(i)]_vars

(* Where clients take turns on a session, it follows the life cycle as if    *)
(* every operation were one step.                                            *)
CarefulSlips == {i \in Slips : TakeOf[i] \in Careful}
Life == INSTANCE StocktakeLifecycle
          WITH Sessions <- Careful,
               Slips <- CarefulSlips,
               Began <- Careful \cap Open,
               Foreseen <- [i \in CarefulSlips |-> Expected(i)],
               phase <- [s \in Careful |-> status[s]],
               tally <- [i \in CarefulSlips |-> counted[i]],
               ledger <- [i \in CarefulSlips |-> booked[i]]
LifecycleKept == Life!Spec
==============================================================================
