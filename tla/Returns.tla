------------------------------- MODULE Returns -------------------------------
(****************************************************************************)
(* Customer returns (ReturnService), next to one another and next to the    *)
(* adjustments of Inventory on the same levels.                             *)
(*                                                                          *)
(* A return is a RETURN row of the inventory ledger, whoever wrote it: an   *)
(* adjustment may be of type RETURN too, with a quantity of either sign.  A *)
(* client resolves a return by the id of that row.  restock and discard     *)
(* look for a RETURN_LEDGER row that refers to it, move the stock and insert*)
(* such a row last; an adjustment may insert one without moving anything    *)
(* back.  Those INSERTs wait for nobody and are seen by nobody before the   *)
(* COMMIT: they are part of the action that commits.                        *)
(****************************************************************************)
EXTENDS Inventory, Sums

CONSTANTS
    Returns,     \* ids of RETURN rows, written or yet to be
    NoReturn,    \* the return of a worker that serves none
    NoLocation,  \* the destination of a worker that restocks nothing
    Quantities   \* the quantities clients return (DTO: at least 1)

ASSUME RowsAssumption == IsFiniteSet(Returns)  \* ids are uuids
ASSUME ReturnAssumption == NoReturn \notin Returns /\ NoLocation \notin Locations
ASSUME QuantityAssumption == Quantities \subseteq Nat \ {0}

VARIABLES
    event,     \* the committed RETURN row: where and how many
    restocks,  \* how many committed RESTOCK rows refer to a return
    discards,  \* and how many DAMAGE rows
    noted,     \* the returns a committed adjustment refers to (RETURN_LEDGER)
    ret,       \* the return a worker writes or resolves
    refers,    \* the return its adjustment refers to
    dest,      \* the location it restocks to
    overlapped \* history: the returns that two requests resolved at a time

eventVars == <<event, restocks, discards, noted>>
deskVars == <<ret, refers, dest>>
returnVars == <<eventVars, deskVars, overlapped>>
vars == <<stockVars, returnVars>>

Unwritten == [at |-> NoKey, qty |-> 0]

Init ==
    /\ StockInit
    /\ event = [r \in Returns |-> Unwritten]
    /\ restocks = [r \in Returns |-> 0]
    /\ discards = [r \in Returns |-> 0]
    /\ noted = {}
    /\ ret = [w \in Workers |-> NoReturn]
    /\ refers = [w \in Workers |-> NoReturn]
    /\ dest = [w \in Workers |-> NoLocation]
    /\ overlapped = {}

Written == {r \in Returns : event[r] # Unwritten}

(* The ids the database may give the next RETURN row: nobody else has them.  *)
Fresh == {r \in Returns \ Written : \A v \in Workers : ret[v] # r}

------------------------------------------------------------------------------
(* The end of a transaction. *)

LeaveDesk(w) ==
    /\ ret' = [ret EXCEPT ![w] = NoReturn]
    /\ refers' = [refers EXCEPT ![w] = NoReturn]
    /\ dest' = [dest EXCEPT ![w] = NoLocation]

(* An exception, a lost connection or a deadlock victim. *)
Rollback(w) ==
    /\ RollbackStock(w)
    /\ EndJob(w)
    /\ LeaveDesk(w)
    /\ UNCHANGED <<eventVars, overlapped>>

AtEnd(w, name) == op[w] = name /\ pc[w] = "commit"

(* Mutant: the connection goes back to the pool with its transaction open.   *)
Commit_StaysOpen(w) ==
    /\ EndJob(w)
    /\ LeaveDesk(w)
    /\ UNCHANGED <<storeVars, overlapped>>

Commit(w) ==
    /\ CommitStock(w)
    /\ EndJob(w)
    /\ LeaveDesk(w)
    /\ UNCHANGED overlapped

------------------------------------------------------------------------------
(* POST /returns: the RETURN row and an upsert of the level, as in an        *)
(* adjustment.                                                               *)

BeginReturn(w) ==
    \E r \in Fresh, k \in Keys, q \in Quantities :
        /\ StartJob(w, "find", "return")
        /\ key' = [key EXCEPT ![w] = k]
        /\ change' = [change EXCEPT ![w] = q]
        /\ ret' = [ret EXCEPT ![w] = r]
        /\ UNCHANGED <<storeVars, eventVars, refers, dest, overlapped>>

WriteReturn(w) ==
    event' = [event EXCEPT ![ret[w]] = [at |-> key[w], qty |-> change[w]]]

FinishReturn(w) ==
    /\ AtEnd(w, "return")
    /\ WriteReturn(w)
    /\ Commit(w)
    /\ UNCHANGED <<restocks, discards, noted>>

------------------------------------------------------------------------------
(* POST /inventory/adjust: the row may be of type RETURN, and it may refer to*)
(* a return as a resolution does; neither excludes the other.                *)

BeginAdjustment(w) ==
    /\ BeginAdjust(w)
    /\ \E r \in Fresh \cup {NoReturn} : ret' = [ret EXCEPT ![w] = r]
    /\ \E r \in Written \cup {NoReturn} : refers' = [refers EXCEPT ![w] = r]
    /\ UNCHANGED <<eventVars, dest, overlapped>>

FinishAdjustment(w) ==
    /\ AtEnd(w, "adjust")
    /\ IF ret[w] = NoReturn THEN UNCHANGED event ELSE WriteReturn(w)
    /\ noted' = noted \cup ({refers[w]} \ {NoReturn})
    /\ Commit(w)
    /\ UNCHANGED <<restocks, discards>>

------------------------------------------------------------------------------
(* POST /returns/:id/restock and /discard *)

(* A row of type RETURN_LEDGER refers to the return, whoever wrote it.       *)
Resolved(r) == restocks[r] + discards[r] > 0 \/ r \in noted

(* What clients do: they may resolve a return that somebody is resolving.    *)
Remember(r) ==
    overlapped' = overlapped \cup {x \in {r} : \E v \in Workers : ret[v] = x}

(* Mutant: rows that refer to the return are not looked for.                 *)
BeginResolve_Unchecked(w, r, name, label) ==
    /\ r \in Written
    /\ StartJob(w, label, name)
    /\ key' = [key EXCEPT ![w] = event[r].at]
    /\ change' = [change EXCEPT ![w] = -event[r].qty]
    /\ ret' = [ret EXCEPT ![w] = r]
    /\ Remember(r)
    /\ UNCHANGED <<storeVars, eventVars, refers>>

(* The SELECTs of the RETURN row and of rows that refer to it; a missing one *)
(* (404) and a resolved return (409) end here.  The level of the return      *)
(* exists since the RETURN row does: levels are never deleted.               *)
BeginResolve(w, r, name, label) ==
    /\ r \in Written
    /\ ~Resolved(r)
    /\ StartJob(w, label, name)
    /\ key' = [key EXCEPT ![w] = event[r].at]
    /\ change' = [change EXCEPT ![w] = -event[r].qty]
    /\ ret' = [ret EXCEPT ![w] = r]
    /\ Remember(r)
    /\ UNCHANGED <<storeVars, eventVars, refers>>

BeginDiscard(w, r) ==
    /\ BeginResolve(w, r, "discard", "update")
    /\ UNCHANGED dest

(* Mutant: the destination may be left out of the request.                   *)
BeginRestock_Nowhere(w, r) ==
    /\ BeginResolve(w, r, "restock", "take")
    /\ UNCHANGED dest

BeginRestock(w, r) ==
    \E l \in Locations :
        /\ BeginResolve(w, r, "restock", "take")
        /\ dest' = [dest EXCEPT ![w] = l]

(* restock takes the stock out of the level of the return, without a ledger  *)
(* row, and goes on to the upsert of the destination, which has one.         *)
TakeBack(w) ==
    /\ pc[w] = "take"
    /\ CanLock(w, key[w])
    /\ lock' = [lock EXCEPT ![key[w]] = w]
    /\ newest' = [newest EXCEPT ![key[w]] = @ + change[w]]
    /\ pc' = [pc EXCEPT ![w] = "find"]
    /\ key' = [key EXCEPT ![w] = <<dest[w], @[2]>>]
    /\ change' = [change EXCEPT ![w] = -@]
    /\ UNCHANGED <<on_hand, tracked, posted, posting, op, requests, returnVars>>

(* Mutant: the RESTOCK row does not name the return.                         *)
FinishRestock_Unlinked(w) ==
    /\ AtEnd(w, "restock")
    /\ Commit(w)
    /\ UNCHANGED eventVars

FinishRestock(w) ==
    /\ AtEnd(w, "restock")
    /\ restocks' = [restocks EXCEPT ![ret[w]] = @ + 1]
    /\ Commit(w)
    /\ UNCHANGED <<event, discards, noted>>

FinishDiscard(w) ==
    /\ AtEnd(w, "discard")
    /\ discards' = [discards EXCEPT ![ret[w]] = @ + 1]
    /\ Commit(w)
    /\ UNCHANGED <<event, restocks, noted>>

------------------------------------------------------------------------------
(* restock locks two levels in an order the client chooses. *)

WaitsFor(w) ==
    IF pc[w] \in {"take", "update", "insert"} /\ lock[key[w]] # w
      THEN lock[key[w]] ELSE NoWorker

DetectDeadlock(w) ==
    /\ InCircleOf([v \in Workers |-> WaitsFor(v)], w)
    /\ Rollback(w)

Fail(w) == pc[w] # "idle" /\ Rollback(w)

(* The upsert of any of the operations. *)
UpsertStep(w) ==
    /\ UNCHANGED returnVars
    /\ FindLevel(w) \/ UpdateLevel(w, "commit") \/ InsertLevel(w, "commit")

(* The row appeared after the worker looked for it. *)
Duplicate(w) ==
    /\ DuplicateLevel(w)
    /\ LeaveDesk(w)
    /\ UNCHANGED <<eventVars, overlapped>>

Step(w) ==
    \/ UpsertStep(w)
    \/ Duplicate(w)
    \/ TakeBack(w)
    \/ FinishReturn(w)
    \/ FinishAdjustment(w)
    \/ FinishRestock(w)
    \/ FinishDiscard(w)

BeginRequest(w) ==
    \/ BeginReturn(w)
    \/ BeginAdjustment(w)
    \/ \E r \in Returns : BeginRestock(w, r) \/ BeginDiscard(w, r)

Next ==
    \E w \in Workers : BeginRequest(w) \/ Step(w) \/ DetectDeadlock(w) \/ Fail(w)

(* A request in service keeps running and PostgreSQL breaks every circle.    *)
Fairness == \A w \in Workers : WF_vars(Step(w)) /\ WF_vars(DetectDeadlock(w))

Spec == Init /\ [][Next]_vars /\ Fairness

------------------------------------------------------------------------------
(* Properties *)

Events == [at : Keys \cup {NoKey}, qty : Int]

(* The types of all variables.                                               *)
ReturnTypeOK ==
    /\ StockTypeOK
    /\ pc \in [Workers -> {"idle", "take", "find", "update", "insert", "commit"}]
    /\ op \in [Workers -> {"none", "adjust", "return", "restock", "discard"}]
    /\ event \in [Returns -> Events]
    /\ restocks \in [Returns -> Nat]
    /\ discards \in [Returns -> Nat]
    /\ noted \subseteq Returns
    /\ overlapped \subseteq Returns
    /\ refers \in [Workers -> Returns \cup {NoReturn}]
    /\ ret \in [Workers -> Returns \cup {NoReturn}]
    /\ dest \in [Workers -> Locations \cup {NoLocation}]

(* "Prevent Double Processing": a return that no two requests resolved at a   *)
(* time is restocked or discarded once.  Earlier resolutions are found       *)
(* however requests failed, and adjustments and requests for other returns   *)
(* and levels run meanwhile.  (Two resolutions at a time both find none.)    *)
TurnsResolveOnce ==
    \A r \in Returns \ overlapped : restocks[r] + discards[r] <= 1

(* What the RESTOCK rows of each return say was put back. *)
Restocked == [r \in Returns |-> restocks[r] * event[r].qty]

(* What the ledger does not say about a level is what restocks took from it, *)
(* because they book the destination only: the RESTOCK rows, followed back to*)
(* the RETURN rows they refer to, whoever wrote those and with which sign,   *)
(* explain every level to the unit, also when returns are resolved twice or  *)
(* fail half-way.                                                            *)
RestocksExplainDrift ==
    \A k \in Keys :
        on_hand[k] = Opening[k] + posted[k]
                     - SumOver(Restocked, {r \in Returns : event[r].at = k})
==============================================================================
