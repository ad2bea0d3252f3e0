# Verification of the inventory ledger

TLA+ models of the inventory and account ledger service in `apps/inv-ledger-pos`
(NestJS on PostgreSQL), the TLC runs that check them on small instances, and
TLAPS proofs for every size of instance.

## 1. The system

HTTP handlers run concurrently in one Node process (and in as many replicas as
are deployed). They share nothing in memory: they meet only in PostgreSQL,
through a pool of connections, at the default isolation level READ COMMITTED,
and, on one route, in Redis. Every `await` on a statement is a point where
other handlers run. A transaction callback that throws is rolled back; a lost
connection or a dead process rolls back whatever was not committed.

| Component | State it keeps | Operations that change it | Meets others through |
|---|---|---|---|
| Inventory (`branch/inventory`) | `inventory_levels`, `inventory_ledger` | `adjustInventory`, `setReorderThreshold` | the levels every other component writes |
| Transfers (`transfer`) | `transfers`, `transfer_items` | `create`, `dispatch`, `receive`, `cancel`, `reject` | levels and ledger |
| Returns (`return`) | ledger rows `RETURN`, and rows that refer to them | `processReturn`, `restock`, `discard` | levels and ledger |
| Purchase orders, receiving (`procurement`) | `purchase_orders`, `purchase_order_items` | `create`, `update`, `updateStatus`, `remove`, `receivePurchaseOrder` | levels and ledger |
| Stocktakes (`stocktake`) | `stocktakes`, `stocktake_items` | `create`, `remove`, `submitCount`, `correctCount`, `complete` | reads and overwrites levels, writes the ledger |
| Account ledger (`ledger`) | `account_snapshots`, `ledger_entries` (a hash chain per account) | `executeTransfer`, `createAccount` | its own tables only |
| Idempotency (`packages/interceptors`) | Redis keys with expiry | `intercept` | runs in front of `executeTransfer` |
| Reconciliation (`ledger/reconciliation.service`) | none; an advisory lock | a nightly comparison, not registered as a provider | reads the account tables |
| Pool (`packages/databases`) | 25 connections | connect, release | every transaction |
| Locations, suppliers, audit, guard, filter, loggers, health | master data or none | single statements | - |

What makes each component correct, and where it is hard:

* **Levels and ledger** must tell the same story: `quantity_on_hand` is the
  opening stock plus the ledger rows of the key. Hard because every operation
  looks for the row, then updates or inserts it in a later statement, and two
  first movements of a product race for the INSERT.
* **Transfers** must follow their state diagram, take stock only where there is
  some, and agree with their items. Hard because the status and the stock are
  read without locks and acted on later, and because row locks are taken in the
  order of the client's lines.
* **Account transfers** must not overdraw, must change both accounts or none
  and must not block one another for ever. Hard because the balance is read
  before the locks and the locks are two.
* **Returns** must be resolved once and by the quantity that came back. Hard
  because any ledger row of type `RETURN` is a return, those an adjustment writes
  included, because "resolved" is the existence of a ledger row that is looked for first
  and inserted last, and because a restock locks two levels in an order the
  client chooses.
* **Purchase orders** must follow their state diagram, receive what their lines
  say and be RECEIVED exactly when every line has come in; an edit must replace
  the lines. Hard because the status is tested in one statement and written in
  another, because lines are deleted and read back while others receive them,
  and because order, lines and levels are locked in different orders.
* **Stocktakes** must be closed once, book the variances once and leave the
  counted levels at what was counted. Hard because the counts are read once and
  written over levels that others sell from, because counts, corrections and
  removals still arrive while a completion runs, and because rows are locked in
  the order of a batch, of the table or of a cascade.
* **The hash chain** of an account must have one root and no entry that follows
  a rolled-back one. Hard because "the last entry" is the one with the latest
  time stamp, which is the time of the BEGIN, while entries appear in the order
  of the COMMITs.
* **Retries** with one key must pay once and must be told the truth. Hard
  because the key is read and marked in two commands, the mark expires by its
  own clock, and anything can fail between the mark, the COMMIT and the stored
  answer.
* **The pool** must give every request a connection or an error and get every
  connection back. Hard because some requests ask for a second connection while
  they hold the first.

`PROJECT.json` lists the hazards line by line, each with the properties that
watch it or the reason why none does.

## 2. Modules

| Module | What it is |
|---|---|
| `StockBook` | abstract: levels and ledger change in the same instant by the same amounts |
| `Inventory` | `InventoryService`, and the transaction machinery all stock operations use; the base of the next modules, without a specification of its own |
| `Sums` | `SUM(column)` over a set of rows, which properties of several modules use |
| `TransferLifecycle` | abstract: the state diagram of a transfer, each operation one step |
| `Transfer` | `TransferService` on top of `Inventory`; extends it, so transfers and adjustments share levels, locks and workers |
| `Returns` | `ReturnService` on top of `Inventory`, next to adjustments of the same levels, which may write `RETURN` and `RETURN_LEDGER` rows themselves |
| `OrderLifecycle` | abstract: the state diagram of a purchase order, each operation one step |
| `Purchasing` | `PurchaseOrderService` and `ReceivingService` on top of `Inventory` |
| `Bank` | abstract: money moves in one step between two accounts |
| `StocktakeLifecycle` | abstract: the state diagram of a stocktake, each operation one step |
| `Stocktake` | `StocktakeService` on top of `Inventory`, next to adjustments of the levels it counts |
| `AccountLedger` | `LedgerService`: accounts, locks, balances |
| `AccountChain` | the hash chains on top of `AccountLedger`: `LedgerRepository` inside `executeTransfer` |
| `Idempotency` | `IdempotencyInterceptor` and Redis in front of `AccountLedger` |
| `ConnectionPool` | the pool of `DatabaseModule`, its queue, timeout and shutdown |
| `MCTransfer`, `MCReturns`, `MCPurchasing`, `MCStocktake`, `MCAccountChain`, `MCIdempotency`, `MCConnectionPool` | values for the constants that a `.cfg` cannot write |
| `InventoryProofs` (lemmas on the store and on sums), `TransferProofs`, `ReturnProofs`, `PurchaseProofs`, `StocktakeProofs`, `AccountProofs`, `IdempotencyProofs`, `PoolProofs` | theorems |

### How state and actions correspond to the code

A *worker* is a request in service with its connection; `pc[w]` is the
statement it runs next, `op[w]` the handler. The tables appear in two versions:
the committed one (`on_hand`, `tracked`, `posted`, `item`) and, under a row lock
(`lock`, `itemLock`, `orderLock`, `slipLock`), the uncommitted one of the lock holder
(`newest`, `posting`, `itemNew`, `gotNew`, `countedNew`). A SELECT sees the committed row or its own
(`Visible`, `Exists`); an UPDATE waits for the holder and then works on the
newest version (`WriteLevel`); COMMIT and ROLLBACK move one version over the
other and release the locks. This is PostgreSQL as the code uses it and is
marked external in the map.

One statement is one action, except where no other worker can tell the
difference:

* the INSERT of a ledger row goes with the level write it belongs to (nobody
  sees it before the commit);
* the last UPDATE and the COMMIT are one action (the transaction waits for
  nothing in between);
* the SELECT of a transfer item goes with the UPDATE of its quantity (its other
  columns never change);
* in `executeTransfer`, the two UPDATEs, the two INSERTs and the COMMIT are one
  action, since both rows are locked by then (the reads of the last hashes are
  actions of `AccountChain`).

A request that is refused by its first SELECT (404, 409) changes nothing and is
not a step.

`Transfer` and `Returns` also keep a little history that no guard reads: which
transfers were asked for while a request for them was in service, which were sent
a scan that lists an item twice (`overlapped`, `repeated`), and which returns two
requests resolved at a time (`overlapped`). Clients are free to do all of that, and
the properties say what it costs.

| Code | Actions |
|---|---|
| `adjustInventory` | `BeginAdjust`, `FindLevel`, `UpdateLevel` or `InsertLevel` or `DuplicateLevel`, `FinishAdjust`; in `Returns`: `BeginAdjustment`, the same upsert, `FinishAdjustment` |
| `TransferService.create` | `Create` |
| `dispatch` | `BeginDispatch`, then per line `LineNotFound`, `SkipLine` or `TakeLine`, `FindSource` or `InsufficientStock`, `MoveLine`; `FinishDispatch` |
| `receive` | `BeginReceive`, then per line as above, `FindLevel`, `MoveLine`, `ReceiveNewProduct` or `ReceiveDuplicate`; `FinishReceive` |
| `cancel`, `reject` | `BeginCancel`, `FinishCancel`; `BeginReject`, `FinishReject` |
| `processReturn` | `BeginReturn`, `FindLevel`, `UpdateLevel` or `InsertLevel` or `Duplicate`, `FinishReturn` |
| `restock` | `BeginRestock`, `TakeBack`, the same upsert for the destination, `FinishRestock` |
| `discard` | `BeginDiscard`, `UpdateLevel`, `FinishDiscard` |
| `PurchaseOrderService.create` | `Create` |
| `update` | `BeginEdit`, `LockOrder` (if the header changes), `FindRows`, `DeleteRow` per row, `Rewrite` or `RewriteOrphan` |
| `updateStatus` | `BeginStatus`, `WriteStatus` |
| `remove` | `BeginRemove`, `LockOrder`, then the cascade: `FindRows`, `DeleteRow` per row; `FinishRemove` |
| `receivePurchaseOrder` | `BeginReceive`, then per line `FindLine` or `LineNotFound`, `CountLine`, `LookUp`, `ReceiveLine` or `ReceiveDuplicate`; `Evaluate`, `WriteStatus` |
| lost connection, failed statement, deadlock victim | `Fail`, `DetectDeadlock` |
| `executeTransfer` | `Begin`, `LockFirst`, `LockSecond`, `Check` or `Refuse`, `Post`; `Fail` |
| `createAccount` | `CreateAccount` |
| `getLastEntryHash`, `insertLedgerEntry` | `ReadHash` for the payer, then for the payee; `Insert` with the COMMIT |
| `StocktakeService.create` | `BeginCreate`, `ReadBack` (the `findOne` that finds nothing), `Throw` |
| `submitCount` | `BeginCount`, then per line `FindSlip`, `CountSlip` or `InsertSlip` or `InsertOrphan`; `FinishCount` |
| `correctCount` | `BeginCorrect`, `Correct` |
| `complete` | `BeginComplete`, `ReadSlips`, then per row `SetVariance` and, where there is a variance, `LookUp`, `SettleLevel` or `Duplicate`; `FinishComplete` |
| `remove` (stocktakes) | `BeginRemove`, `LockTake`, then the cascade: `ReadSlips`, `DropSlip` per row; `FinishRemove` |
| `intercept` | `Arrive`, `GetNothing` or `GetProcessing` or `Replay`, `SetProcessing`, `Handle`; `Pay`, `Store`, or `TurnAway`, `Deny`, `Throw`, `Drop`; Redis: `Expire` |
| `Pool` | `Enter`, `Reread`, `EndReread`, `Finish`, `Fail`, `TimeOut`; `Close`, `EndPool` |

`dispatch` and `receive` share the actions of a line; `op[w]` tells them apart,
as the two loops differ only in the column they write, the level they move and
the test before it.

The rows of `purchase_order_items` are constants with a state (`row`): a *form* is
the body of one POST or PATCH, and its rows are unwritten until that request
commits, live until a DELETE commits, and deleted after. A DELETE finds its rows
(`FindRows`), takes them one by one, waiting for the holder of each, and passes
over those that are gone by then. An INSERT of lines waits for a DELETE of their
order (`MayRefer`), and a line whose order is gone is refused (`RewriteOrphan`).

`stocktake_items` rows (*slips*) are handled the same way: a slip of the snapshot is
live from the start, one of found stock is unwritten until a count commits it,
and a removal deletes what its cascade finds. `create` inserts a stocktake and its
snapshot and then looks the stocktake up on another connection
(`stocktake.service.ts:74`), which cannot see it before the COMMIT; the exception
rolls everything back, always (run `create_fails`). Nothing else in the repository
leaves a session in progress (the one `db/seed.ts:241-249` writes is COMPLETED). That
some are in progress is therefore an **assumption**: `Init` has the rows that
`create` would have committed (`:46-72`), so that the other four operations can be
modelled and checked at all. `StocktakeLifecycle` has all three arrows of the diagram,
the first one too; the code takes only the other two.

A return is a ledger row of type `RETURN` (`return.service.ts:79`), and a
resolution any row of type `RETURN_LEDGER` that refers to it (`:84-94`). `POST
/inventory/adjust` may write the former (`inventory-adjustment.dto.ts:40`), with a
quantity of either sign, and the latter (`:43-49`), in one row too. So in `Returns` an
adjustment may take a fresh return id (`ret`), refer to a written return (`refers`),
both or neither, and what it wrote appears with its COMMIT: in `event`, like the row
of `processReturn`, and in `noted`, which `Resolved` reads next to the rows of restock
and discard.

A hash in `AccountChain` is the transaction it was made in: an account has one
entry per transaction, and SHA-256 is taken to be without collisions. A
transaction is named by the order of the BEGINs, which is the order of `NOW()`;
`created_at` gets its value by a default no file of the repository declares, and
`insertLedgerEntry` gives none, so that default is marked external. (Two BEGINs
in one microsecond, which `ORDER BY` could list either way, are left out.) Hashes are
read under the locks of both accounts, one after the other, and both entries
appear with the COMMIT.

In `Idempotency` a key stands for `idempotency:<user>:<header>` and what Redis holds
under it is the status and the expiry; a client sends the same body with each
attempt. Time is not counted: `Expire` may drop a key at any moment, while its
handler runs or after. `expired` counts how often that happened, so that the
properties can say what a forgotten key costs. `ConnectionPool` knows requests
by the connections they hold and by the queries they have yet to make on a second
one (`rereads`: two one after the other in `update`, one in `create` of stocktakes, which
throws); `min` and `idleTimeoutMillis` decide only whether an idle
connection is open already.

Abstracted: a product is a (product, variant) pair, as the unique index on
`COALESCE(variant_id, ...)` makes it one; ids, times, tracking numbers and DTO
fields that no operation reads are left out; ledger rows are kept as their sums
(`posted` by key, `shipped` and `arrived` by transfer, `entries` by account).
`quantity_requested` is left out because no operation compares anything with it.
The source and the destination of a transfer differ: the migration has a CHECK
constraint for it (`001_initial-schema.ts:178`).

## 3. Runs

All runs end their behaviours after `MaxRequests` requests, which is the bound
of the state space, and switch the deadlock check off for that reason alone:
clients may stop asking. That a *request* never hangs is a liveness property of
its own.

| Run | Instance | Properties |
|---|---|---|
| `transfers` | 2 workers, 2 transfers of shared products to a store that lacks one of them, three scans (both items of the first; the same in the other order, one of them twice; the items of the second, one with quantity 0), each sent to either transfer, deliveries of 1 to any level, 4 requests | `TransferTypeOK`, `StockMatchesLedger`, `PendingUntouched`, `ReceivedOnlyAfterDispatch`, `ManifestMatchesLedger`, `StockBookKept`, `LifecycleKept`, `EveryRequestFinishes` |
| `returns` | 2 workers, a bin with a level and a floor without one, 2 returns, of 2 pieces or written by an adjustment of -1, adjustments of -1 of any type that may refer to a return, 4 requests | `ReturnTypeOK`, `TurnsResolveOnce`, `RestocksExplainDrift`, `EveryRequestFinishes` |
| `orders` | 2 workers, an order with clients that take turns and one without, two forms for each, rows of 1 or 2 pieces, six scans, 4 requests besides the POSTs | `PurchaseTypeOK`, `CountsAreBooked`, `LinesMatchReceipts`, `EditsReplace`, `LifecycleKept`, `EveryRequestFinishes` |
| `stocktake` | 2 workers, a session with clients that take turns, one without, and one that a client asks for; snapshot rows and found stock, batches of one and two lines, adjustments of -1 and 1, corrections to 1, 3 requests | `StocktakeTypeOK`, `LifecycleKept`, `CountsLand`, `MovesExplainDrift`, `EveryRequestFinishes` |
| `accounts` | 3 workers, 2 accounts and one that may not exist yet, amount 2 on balances of 3 and 1, 3 transfers | `ChainTypeOK`, `NeverOverdrawn`, `ChainIsRooted`, `ForksComeFromOverlap`, `BankKept`, `EveryTransferAnswered` |
| `retries` | 2 workers, keys of two opposite transfers and of one to itself, one key with a client that waits for its answers, 4 attempts, marks that expire at any time | `RetriesPayOnce`, `AnswersArePaid`, `MarksGoAway`, `EveryAttemptAnswered` |
| `pool` | 2 connections, 4 requests, each with none, one or two queries on a second connection, a signal at any time | `NothingLeaks`, `OnlyNestingStalls`, `EveryRequestAnswered`, `ShutdownEnds` |

Why these bounds reach the interesting cases. In `transfers` two workers with two
lines in opposite orders make a circle of waits, and one that looks at a level while
the other holds it sees the old version. The scans hold a line with quantity 0,
a line of another transfer, an item listed twice, and quantities the source covers
only once. The store has never had one of the products, so receives and
deliveries race for the INSERT. Four requests are enough for dispatch, receive and two
rivals; they overlap on a transfer or not, and both cases are reached, so the
properties that exempt `overlapped` and `repeated` transfers are tested next to them.
In `returns` four requests are two returns and the
two resolutions of one of them, or a resolution of each, whose locks can cross;
the floor has no level, so that a return, a restock and an adjustment race for
its INSERT. A negative adjustment makes returns whose restock moves stock from the
floor to the bin; a positive one is, to the model, a `processReturn` that may also refer
to a return, so TLC leaves it out (the theorems have both signs). The `orders` run
lists the two lines of a form in both orders, so that receipts cross; one scan names a line of the other order after a good one, so
that a counted line must be rolled back; one receives part of a line and one all
of it, and the empty scan, which the DTO allows, receives nothing. Four requests
are an edit, a send and two receipts, or any pair of them next to a deletion.
An amount of 2 on balances of 3
and 1 gives transfers that are covered alone and not together, and one that is
covered only after another; three transfers are what a fork of the chain takes
(one that begins first and commits last, and two that follow it).

Three requests on a stocktake are a count, a completion and a sale, a delivery or a
removal next to them, or two completions with a sale; the batch of two lines names
found stock before a product of the snapshot, so that two counts both insert a row and counts and completions lock
rows crosswise. Four attempts under the keys of `retries` are a first attempt, two
retries and an opposite transfer whose locks cross theirs; a mark may expire
after each. In `pool` two nested requests stall the two connections with two
more requests behind them.

`LifecycleKept` in `transfers` compares the service with the state diagram, which knows
no two requests at a time: a transfer whose requests overlap leaves the diagram
for OVERLAPPED (`TransferLifecycle`) and is never promised anything again. All the
others follow it exactly, next to transfers that do overlap. `ManifestMatchesLedger` and
`TurnsResolveOnce` exempt the same way. `Careful` in `Stocktake` and `Purchasing` is a set of
sessions or orders whose clients never overlap two requests; the instance has one
inside and one outside of it, and requests for others always interleave. It is an
assumption on these clients, not on the code, and the list below says what happens
without it. `MovesExplainDrift` needs neither.

### Runs that show where the code and its documents part

Each of these checks one statement of the repository, and TLC finds a behaviour
of the code that breaks it.

| Run | Statement | What happens |
|---|---|---|
| `overdraft` (`DispatchNeverOverdraws`) | "Check if source inventory has enough stock on hand", `transfer.service.ts:153` | two dispatches pass the check on the same stock |
| `receipt_stuck` (`PartialIsPartial`) | "Evaluate completion status (Are we PARTIAL or fully RECEIVED?)", `receiving.service.ts:100` | two receipts of one line each read the other's line as open; everything is in and the order stays PARTIAL |
| `create_fails` (`CreateStarts`) | "Start count session and snapshot current `inventory_levels`", `README.md:345`, and `[*] --> IN_PROGRESS : Start & Snapshot`, `:211` | `create` looks its uncommitted stocktake up on another connection and throws: no session ever starts |
| `half_booked` (`StockMatchesLedger`) | "Transferred from the virtual bin back to the sales floor via `TRANSFER_OUT` (bin) and `TRANSFER_IN` (store)", `.lifecycle.md:35` | a restock takes stock from the bin and writes no ledger row for it, only one for the floor |
| `paid_twice` (`KeysPayOnce`) | "Set lock status with 120s TTL" and "A matching concurrent transaction is actively processing", `idempotency.interceptor.ts:53` and `:45` | a retry that overtakes the mark of the first attempt finds no key, and both pay |

More follows from the models and has no run of its own:

* a dispatch that read PENDING overwrites CANCELLED, a cancel that read PENDING
  overwrites IN_TRANSIT, and a receive overwrites REJECTED, although the state
  diagram in `README.md:193-204` makes these statuses final. `LifecycleKept` exempts
  such a transfer and no other;
* a send, a cancel or a deletion of a purchase order that read DRAFT overwrites or deletes whatever it is by then, and
  `LifecycleKept` of orders holds for clients that take turns;
* a restock and a discard of one return that overlap both find no row that
  refers to it and both take the stock, although `return.service.ts:83` says
  "Prevent Double Processing"; `TurnsResolveOnce` holds for all other returns;
* a row of type `RETURN` with a negative quantity, which an adjustment may write, is
  restocked the wrong way round: the bin gains and the destination loses;
* what `half_booked` shows adds up: `RestocksExplainDrift` says how much the ledger is off,
  to the unit;
* two dispatches of one transfer can both commit, and an item listed twice in
  one dispatch is counted once: the stock leaves twice, although
  `.lifecycle.md:19` says "While in transit, stock exists only inside
  `transfer_items`". `ManifestMatchesLedger` says that nothing else parts
  the items from the ledger;
* two edits of a draft that overlap leave the lines of both, although
  `purchase-order.service.ts:111` says "Replace items entirely"; `EditsReplace`
  holds for clients that take turns. `update` answers with the order as it was
  before (`:132` reads it on another connection before the COMMIT);
* `reject` writes nothing but the status, although `README.md:335` says "route
  stock to quarantine";
* a completion writes the count over sales and receipts made since the snapshot, while
  the ledger has both those and the variance to the snapshot; `MovesExplainDrift`
  says that this, and nothing else, is what the ledger does not explain of a level
  that no session has two rows for;
* two completions of one session that overlap both book the variances, and a
  count that commits after the completion has read the rows is in no level;
  `LifecycleKept` and `CountsLand` hold for clients that take turns.

## 4. Fairness

`WF` on the steps of every worker: an awaited statement is answered, a handler
continues when its promise settles, and a statement that waits for a row goes on
once the row is free. Weak fairness is enough here because a waiter can be
overtaken only by requests that are still to come, and the runs bound those; in
the real system it is PostgreSQL's queue of waiters, not modelled, that keeps
newcomers from overtaking for ever. For transfers, returns, orders and stocktakes
also `WF` on `DetectDeadlock`: PostgreSQL's detector runs after `deadlock_timeout`. The
account ledger has no such assumption: its locks are taken in one order and
`EveryTransferAnswered` holds without it. Neither have the
transfers behind the interceptor. In `Idempotency`, `WF` on `Expire` is Redis' promise
that a key set with EX goes away, and it is what `MarksGoAway` rests on when a
handler fails. In `ConnectionPool`, `WF` on `TimeOut` is the timer of
`connectionTimeoutMillis`; nothing is assumed of the queue, so `EveryRequestAnswered`
includes the answer 500. `EndPool` is fair because Nest calls its shutdown hooks
when the requests are over. No fairness on clients, on
`Create`/`CreateAccount` or on failures.

## 5. What is proved

For any finite or infinite sets of workers, locations, products, transfers,
orders, sessions and accounts, any finite sets of rows (transfer items, order
lines, returns, stocktake items), any scans and any number of requests:

| Theorem | Says |
|---|---|
| `TransferMatchesLedger` | level = opening stock + ledger rows, always |
| `TransferKeepsBook` | every transaction is one entry of `StockBook` or none |
| `TransferTyped` | types, and that a worker inside the loop body has a current line |
| `PendingIsUntouched` | a PENDING transfer has moved nothing |
| `ArrivalsFollowDispatch` | nothing arrives for a transfer that was never dispatched |
| `OverlapOnlyBreaksLifecycle` | `Transfer` implements `TransferLifecycle`: a transfer follows the diagram until two requests for it overlap |
| `ManifestStaysWithinLedger` | whatever overlaps, the items of a transfer never claim more than its ledger rows moved |
| `ManifestAlwaysMatches` | they claim exactly that, until two requests overlap or a scan lists an item of it twice |
| `ReturnsTyped` | types, and that a worker knows the return and the level it works on |
| `ResolutionIsSingle` | a return, whoever wrote it, is not restocked or discarded twice unless two requests resolve it at a time |
| `RestocksAreExplained` | what the ledger does not explain of a level is what restocks took from it, to the unit, for quantities of either sign |
| `PurchaseTyped` | types, and what a worker at each statement has |
| `PurchaseMatchesLedger`, `PurchaseKeepsBook` | the store theorems for receipts next to edits and deletions |
| `CountsAreAlwaysBooked` | the lines of an order, deleted ones included, never claim more than its RECEIPT rows |
| `LinesAlwaysMatch` | with clients that take turns, the lines of an order claim exactly what they say |
| `EditsAlwaysReplace` | with clients that take turns, the lines of an order come from one form |
| `OrdersKeepLifecycle` | with clients that take turns, `Purchasing` implements `OrderLifecycle` |
| `StocktakeTyped` | types, and what a worker at each statement has |
| `CountsAlwaysLand` | with clients that take turns, a completion leaves the levels it corrects at what was counted |
| `MovesAlwaysExplainDrift` | a level parts from its ledger only at the commit of a completion that wrote it, and then by exactly what was booked on it before, for adjustments of either sign and sessions without any coordination |
| `StocktakesKeepLifecycle` | with clients that take turns, `Stocktake` implements `StocktakeLifecycle` |
| `AccountsNeverOverdrawn`, `AccountsKeepBank` | no overdraft; `AccountLedger` implements `Bank` |
| `ChainTyped`, `ChainNeverOverdrawn`, `ChainKeepsBank` | the same for the ledger that writes its chains |
| `TransfersNeverDeadlock`, `ChainNeverDeadlocks` | no finite set of workers waits for accounts in a circle |
| `ChainsAreRooted` | one root per account; every other entry follows a committed one |
| `ForksNeedOverlap` | a second successor of an entry appears only where transfers overlapped |
| `ShopTypesKept`, `WaitingClientsPayOnce`, `AnswersAreTrue` | types; a client that waits pays once per forgotten key; nobody is told of a payment that was not made |
| `NoLeak`, `NoWaste`, `StallsAreNested` | no connection leaks, none is idle while somebody waits, and only nested requests bring the pool to a stand, for any number of connections and requests |

The argument in each case:

* **Store.** `StockMatchesLedger` is not inductive: a commit publishes `newest`
  and `posting`, about which it says nothing. `StoreInv` adds `Balanced`: the
  newest version equals the opening stock plus committed and uncommitted rows,
  and where nobody holds the lock both versions agree. `EffectKeepsStore` proves
  it once for the four things any operation can do to the store (nothing, write
  a level, commit, roll back); `AdjustEffect` and `TransferEffect` show that
  every step of an adjustment and of `Transfer` is one of the four. The next
  component that extends `Inventory` needs only its own such lemma, as `Purchasing`
  has in `PurchaseEffect`.
* **Sums.** Several properties add up a column over a set of rows. `SumOver` is a
  fold, and a fold is a recursive function on the subsets of the set; the section
  on sums in `InventoryProofs` proves from that what the services need: an integer
  comes out (`SumOfIntegers`), one row may be taken out first (`SumWithout`), an
  UPDATE of one row changes the sum by the difference (`SumUpdates`), columns add up
  (`SumAdds`), zeros count for nothing (`SumDropsZeros`). The library's induction over
  finite sets takes the proposition as an operator, which the provers cannot
  instantiate; these lemmas take a smallest counterexample instead (`SmallestSet`),
  which the well-foundedness of the strict subsets of a finite set provides. That
  is why rows are finitely many.
* **Transfers.** `WalkInv` says which workers have a current line and a
  transfer; types rest on it. `HistoryInv` says that only a dispatch can make
  `shipped` or an item non-zero and that it leaves `dispatched_at` behind, and
  what the status can be before and after.
* **Manifest.** The property compares two sums of committed columns, and both move at
  the COMMIT of a walk; in between, the ledger rows and the quantities of a walk
  are apart by the line it is at. `Excess` is what the open walk has moved, or is
  about to move, less what it has written on the items; `OutSurplus` and `InSurplus` say the
  same of what is committed. `SurplusInv` (none is negative) is inductive whatever
  clients do, with `ColumnInv`: a dispatch leaves the received column of the rows it holds
  alone and a receive the other. `EvenInv` (all are zero) needs two more facts: an
  item a line sets is not yet set in this walk (`OnceInv`, for transfers that
  are not `repeated`) and had nothing in its column before (`FreshInv` and `HistoryInv`, for
  those that are not `overlapped`). An item listed twice, or a second dispatch, moves the
  stock again and sets the quantity again; the property exempts that and no more.
* **Life cycle.** `TurnInv`: a transfer in service that was never overlapped has one
  worker and still the status that worker read. Under it every `Finish` finds the status its `Begin`
  tested, which is what the unconditional UPDATE needs.
* **Returns.** `DeskInv`: a worker that serves a return has one, a level and,
  in a restock, a destination; types rest on it. `TurnInv` in `ReturnProofs`: a
  return that no two requests resolved, in service, has one worker, and one in the hands of
  a restock or discard has no row of theirs yet, so the row that worker adds is the first.
  `DriftInv`: an open transaction differs from the committed level by what it posts,
  less what its restock took; a return is written once, by a `processReturn` or an adjustment (`Makes`: one worker per id),
  and restocked after that, so its level and its quantity are fixed when its first RESTOCK row appears.
* **Purchase orders.** `DeskInv`: which operation a statement belongs to, and
  that a worker inside the loop has a current line. `RowInv`: an open
  transaction holds rows of its own order only, and only a receipt holds counts
  that differ from the committed ones. `TurnInv` in `PurchaseProofs`: an order of
  `Careful` has one worker; what that worker read is still so (the status, the
  lines its DELETE found, whether all lines are in); the order has lines of one
  form as long as it exists and none of them has received anything before it was
  sent. Every step touches only the order its worker serves (`Apart`), so each
  needs a look at that order alone. `CountInv`: an order never claims more than it
  has booked, and a receipt under way never more than it has moved or is about to
  move; this is so whatever overlaps, since a count that lands on a line deleted
  meanwhile is lost while its stock is booked. `SameInv`: for an order of `Careful` both
  are equal, because no line goes that has received anything and a line a receipt
  has found is still there when it counts (`LiveInv`).
* **Stocktakes.** `SettleLevel` sets a level, so `StoreInv` does not hold here; the
  types of the store do. `RowInv`: an open transaction holds rows of its own session
  only, and only a batch of counts holds counts that differ from the committed ones.
  `TurnInv` in `StocktakeProofs`: a session of `Careful` has one worker, and the status
  that worker read. `FoundInv`: such a session has one row for each product, since
  the worker that inserts one has seen that there is none; so no later row of a
  completion writes over the level an earlier one has set. `SheetInv`: the sheet of
  a completion agrees with the committed rows, and every level it has passed is
  locked by it at what was counted. `Apart` and `LevelApart` show that other workers
  touch neither. `LevelInv`: whoever holds a level has made one adjustment of it, or, if no
  session has two rows for it (`CountedOnce`), has brought it the count of one row of
  its sheet, and has posted just that (`HeldFor`). So a completion leaves the level at the
  opening stock plus the variance, while the ledger gets the variance on top of
  what was posted before, and that is the drift (`MovesAlwaysExplainDrift`). Everybody
  else moves level and ledger by the same amount. Rows never become unwritten
  (`RowsStay`), so a level that is counted once now was so when its sheet was read.
* **Accounts.** `LockInv`: a worker past its locks holds every existing account
  it names, so the balance it checked is still there in `Post`. `HoldInv`: a worker that
  waits for its second account holds its first and nothing else. So one that waits
  for a waiting worker asks for a lower account than that one does (`WaitsUpwards`), and the
  worker of a finite set that asks for the highest waits for none of them.
* **Hash chain.** `ChainInv` adds to that: each entry names the newest of those
  committed before it (`HashInv`), transactions have one entry per account (`TxInv`),
  and the hashes a worker has read are still those of the newest entries
  (`ReadInv`), because it holds both locks until its COMMIT. A fork needs an entry
  that was not the newest when it was added, which gives `ForksNeedOverlap`.
* **Retries.** `MarksTaken`: every payment, and every attempt that may still pay,
  has taken a mark, and Redis holds the last one or has dropped it; a client
  that waits has one attempt at a time (`Alone`), so marks and payments can be
  counted against each other.
* **Pool.** `PoolInv`: what a request holds follows from its stage, the queue has
  no request twice and holds exactly those who wait, and it is empty while a
  connection is idle. If everyone waits, every connection is held by one of them,
  and one that waits and holds a connection is re-reading. `AgainInv`: who asks for a
  second connection has a query left to make, so `rereads` never falls below zero.

Assumptions are the named ASSUMEs of the modules: distinguished values are
distinct, the opening stock is zero where there is no row, scans are sequences of
lines with natural quantities (the DTO's `@Min(0)`), amounts are positive
(`@Min(1)`), `sort` is a strict order of the ids, a snapshot has one row for each
level of its location (the unique index on levels), and the rows with ids are
finitely many.

## 6. Only model-checked

* Liveness (`EveryRequestFinishes`, `EveryTransferAnswered`, `MarksGoAway`,
  `EveryAttemptAnswered`, `EveryRequestAnswered`, `ShutdownEnds`): outside what TLAPS
  proves.
* The five statements of section 3 that the code breaks: each is refuted by a run.

All safety properties of the passing runs, and the abstract specifications they
implement, are theorems. None of them assumes anything beyond the ASSUMEs of the
modules. Those that speak of `Careful` assume nothing of the other orders and sessions.

## 7. Not modelled

* `setReorderThreshold`: writes a column no operation reads. GET handlers.
* What `update` of a purchase order answers: it re-reads the order on a second
  connection before its commit (`purchase-order.service.ts:132`), which changes
  nothing; that it needs the connection is in `ConnectionPool`. `findOne` looks for
  lines whose own id is that of the order (`:39`), so it returns none; no operation
  reads what it returns.
* The text that is hashed and SHA-256. The ids of accounts are compared
  and sorted as the client spells them; the model sends them as stored, because
  the column type of `account_snapshots.id` is not in the repository.
* A key that a client uses for two different bodies: the interceptor never
  compares them (`idempotency.interceptor.ts:50`).
* Four-byte overflow as a value: PostgreSQL refuses it and the statement fails,
  which is one of the reasons for `Fail`.
* The composition of `ConnectionPool` with the services: connections and rows
  are two resources a request holds, but a row wait ends by itself (deadlock
  detector) and a wait for a connection by its timeout, so neither model hides a
  circle of the other that would not be broken.
* Components with status `not_modelled` in `PROJECT.json`, each with its reason.

## 8. Plan

What is left, in the order of its use: `DispatchNeverOverdraws` for clients that never
overlap, and the same for receives; the theorems of the abstract specifications on
their own (what `OrderLifecycle` and `StocktakeLifecycle` promise of every order and
session); the reconciliation job, once something runs it.
