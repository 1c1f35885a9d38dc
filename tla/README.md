# TLA+ models and proofs for the CCBIO ERP

The ERP is a NestJS server (`src/backend`) over PostgreSQL through TypeORM, with a
Next.js frontend (`src/frontend`). It buys feed by the container (trade contracts),
sells it from those containers (sales, deliveries, vehicle dispatch), bills the sale
(invoices) and collects the money (receivables). Paths below are relative to
`src/backend/src/modules/`.

The server is one Node process per Cloud Run instance: handlers interleave at every
`await`, several instances may run, and every handler reads rows, computes in memory
and writes rows back. There is no optimistic locking and almost no `SELECT ... FOR
UPDATE`, so what the models look at is what happens between a read and the write
that depends on it.

## 1. Inventory

| Part | State | Operations | Interacts with | Hard behaviour |
|---|---|---|---|---|
| Customer receivable (`receivables/`) | one `tb_accounts_receivable` row per customer: sales, collected, balance, status, warning, terms, due date; the collections | collect, collectByCustomer, updateCollection, deleteCollection, updatePaymentTerms, updateReceivableNotes, updateWarningStatuses, getCustomerLedger | invoices raise it, numbers are shared with invoices | most handlers have no transaction and save the row they read; a batch holds all rows in memory |
| Invoices (`sales/invoice.service.ts`) | `tb_invoice`, soft deleted | createInvoice, updateInvoice, deleteInvoice, updateIssuedAt, two flag updates | receivable, sales items, deliveries, container inventory | reads before the transaction that writes; a deleted row can be written again |
| Payment terms (`receivables/utils/payment-due-date-calculator.ts`) | none (pure) | calculatePaymentDueDate | invoices, receivable | JavaScript dates run over the end of a month |
| Transaction numbers (`receivables/utils/transaction-number-generator.ts`) | the numbers in two tables | generateTransactionNumber | invoices, collections | two queries and a later insert, no lock |
| Sales (`sales/sales.service.ts`, the sale form and drawer) | `tb_sales`, `tb_sales_item` | create, update (edit, cancel, back to a reservation), confirmSales, updateSalesItem, deleteSalesItem | containers, prepayments, deliveries, invoices | one transaction per request, run between the statements of other services; the form gives ids by index |
| Container inventory (three copies: `sales.service.ts` 458-597, `sales-delivery.service.ts` 3593-3757, `trade-contracts.service.ts` 12188-12313) | `inventoryStatus` of a container | recomputed after every change of its items; written back with the whole row by orders, cost recalculation and others | all of the sales side | computed from a read, written later; the copies differ in how they fill a missing amount and in tolerance |
| Prepayments (`prepayments/`) | `tb_customer_prepayment` | confirm, cancel, update; created and changed by SalesService | sales | state tested on a row read earlier |
| Deliveries (`sales-delivery/`) | `tb_sales_delivery` and its loading rows | createFromSales, dispatch, load, unload, edit an unloading, restore, remove | sales items, containers, billing of the sale | `update` is 1,800 lines of statements in no transaction; errors are swallowed half-way |
| Vehicle dispatch (`vehicle-dispatch/` and the small modules around it) | one row per dispatch | create, update, remove, restore | users, warehouses | transport numbers |
| Trade contracts (`trade-contracts/`) | contracts, orders, containers, inbound | document parsing, booking, ETA, inbound confirmation, inventory adjustment | containers, sales items | adjustment without a transaction |
| Sheet presence (`sheet-presence/`, its hook and page in the frontend) | cell locks in memory, 45 s to live | acquire, heartbeat, release, expiry | reservation and quotation sheets | expiry, heartbeat of a cell somebody else holds |
| Reservation sheet (`sales-reservation-sheet/`, and the grid and hook of the frontend) | one database row per sheet line; in each browser the grid, the query's data, an undo stack and a save queue | upsert, delete when empty, server-sent events; edit, clear, undo, debounced saves, merge of remote data | sheet presence | saves of one row overlap, events are lost, remote data meets unsaved text, a deleted row has no data to merge |
| Quotation sheet, sales reservations | rows | as the reservation sheet; single rows | sheet presence | last writer wins |
| Customers, consultations, suppliers, regions | rows | create, read, update, delete | sales (addresses) | none of interest |
| Users, roles, authentication | users, signed tokens | login, guards | all | none of interest |
| Master data (codes, warehouses, rates, ...) | rows | create, read, update, delete, imports | all | none of interest |
| Messaging, external services, scheduler, audit log | sessions and tokens in memory | calls | remote services | pure I/O |
| Frontend | none on the server | forms | REST API | bounds the inputs |

What makes each part correct:

* receivable: the totals are the sums of the invoices and of the collections; the
  balance is never understated; the status and the warning agree with the balance and
  the due date;
* invoices: each one is posted once and taken off once, a deleted one stays deleted;
* payment terms: no due date before the issue date, order kept, the receivable's due
  date covers every live invoice;
* numbers: on a day without overlapping requests no two rows of the two tables share one,
  and none is refused;
* the reservation sheet: what is saved is what the user sees, no row stays shut to the
  others, every browser ends up showing the database;
* cell locks: two users do not edit one cell, a cell being edited has a lock, a lock
  left behind comes free;
* inventory: the status is what the items say, and the lists hide exactly the
  containers with nothing left;
* sales and deliveries: the sale waits for its invoice exactly while it is unloaded,
  the loading rows cover the items that are live, the status of the sale is theirs,
  every container whose items change is recounted;
* prepayments: a paid row says how much and what differs, a sale has one, received
  money is not forgotten, a cancelled sale is settled.

`PROJECT.json` lists the hazards, each with the line where it bites and the properties
that would catch it.

## 2. Modules

| Module | Models | Runs |
|---|---|---|
| `ReceivableLedger` | the receivable, invoices and collections with every await of every handler | through `MCReceivableLedger` |
| `AccountBook` | the abstract specification: one posting moves one account | refined by `ReceivableLedger` |
| `ReceivableLedgerProofs` | type correctness and every safety and action property of its runs, the refinement of `AccountBook` | TLAPS |
| `PaymentSchedule` | the calculator on a calendar, and when the date is recomputed | through `MCPaymentSchedule` |
| `PaymentScheduleProofs` | type correctness, three safety theorems | TLAPS |
| `TransactionNumber` | number generation, the tables that hold the numbers | through `MCTransactionNumber` |
| `TransactionNumberProofs` | type correctness, uniqueness, no request refused | TLAPS |
| `SharedSheet` | one row of the reservation sheet, the browsers that edit it, the server and the events | itself |
| `SharedSheetProofs` | type correctness, what a save carries, what releases a row | TLAPS |
| `CellLocks` | the lock of one cell: the server's map, the tabs, the messages, time | itself |
| `CellLocksProofs` | type correctness, exclusion | TLAPS |
| `ContainerStock` | the items and the status of one container, every kind of request that writes them | through `MCContainerStock` |
| `ContainerStockProofs` | type correctness, when the status may be stale, which containers are hidden | TLAPS |
| `SaleDelivery` | one sale, its items, its delivery with the loading rows, which containers are recounted | through `MCSaleDelivery` |
| `SaleDeliveryProofs` | type correctness, billing, agreement of items, rows, status and recounts | TLAPS |
| `Prepayment` | the prepayment rows of one sale | itself |
| `PrepaymentProofs` | type correctness, amounts, one prepayment, receipts, cancellations | TLAPS |

`ContainerStock` and `SaleDelivery` share the recount: the first has its reads and writes
and one container, the second has many containers and takes each recount as a step. The
lock of `CellLocks` is the one `SharedSheet` leaves out.

### ReceivableLedger

A *worker* is a request in flight. `pc[w]` names the handler and the next statement,
`arg[w]` its arguments and local variables, `held[w]` the receivables and `heldInv[w]`
the invoice it has in memory. An action is what happens between two awaits. Inside
`dataSource.transaction` writes are invisible to others until the commit, so such a
handler is a read step and a commit step; a handler without a transaction writes row
by row (`CollectInsert`, then `CollectSave`). `Repository.save(entity)` selects the row
again, without a lock, and updates the columns in which the entity differs from it, so an
entity read long ago takes the other columns back: this is what `held` is for. `Look` is
that select, `looked[w]` what it saw, `SaveRow` the update (`Left`: the columns that
differed, over the row as it is by then; an amount assigned as text, "1" for "1.00", always
differs). `Look` is a step of its own when another request is about to write; otherwise
nothing can tell it from the update. A save that leaves a total, the balance or the status
other than the entity has it makes the row `torn`. `updateInvoice` writes its invoice first
and keeps the row locked to its commit (`LockedByOther`). The saves of an invoice by
`updateIssuedAt` and the flag updates have their `LookInvoice`.

Read in the code and kept in the model: `find`/`findOne` with `deletedAt: null` finds
deleted rows too (TypeORM ignores a null in `where`), the query builders do not;
`updateInvoice` relies on its closing detail query to roll back (`InDetail`);
`deleteCollection` clamps the collected total and not the balance; `collect` and
`collectByCustomer` reset the warning, `updateCollection` does not; `createInvoice` and
`collectByCustomer` roll back when another request created the row meanwhile (`cu_id`
is unique); `createInvoice` dates the receivable by deleted invoices as well.

Abstracted: amounts are integers (they are decimals with two places); a customer has
one receivable, named after it; payment terms are a number of days here and a calendar
in `PaymentSchedule`; the invoice's items, `previousBalance` and the sync of sales
items, deliveries and container inventory in `createInvoice` and `updateInvoice` are
left out; cancelling a sale is the environment action `CancelSale`, of which the
invoice queries see only the result.

### PaymentSchedule

Dates are day numbers and `MonthStart` a calendar whose months have 28 to 31 days;
a date built from a month and a day beyond its end runs over into the next months.
The handlers are atomic here: their interleavings are in `ReceivableLedger`. Days of
the month go from 1 to 31, as the form offers (`customer-ledger-drawer.tsx`);
`update-payment-terms.dto.ts` does not check them. Numbers of days are any integers.

### TransactionNumber

`numberOf` holds the number of every row of both tables, a cancelled invoice keeps its
own, a removed collection loses it. A request reads the two maxima in two steps and
inserts in a third; a requested number is checked against the invoices only. A number
whose second part is not an integer makes the query fail. `loose`
remembers the days on which two requests overlapped or a number was asked for.

### SharedSheet

One row and several browsers. Per browser: `cells` is the grid, `cache` the row in the
query's data, `latest` the row whose debounce timer runs, `queue` the row that waits for
a connection, `put[u][s]` the save on connection `s`, and `pending`, `inFlight`,
`suppressed` and `purge` the flags the grid and the hook keep for the row
(`pendingPersistRowsRef`, `persistInFlightRowsRef`, `remoteRowMergeSuppressUntilRef`,
`purgeRowIndex`). `Receive` is everything that sets the query's data and the merge
effect that follows; the callers say whether the merge is skipped. The server's
`upsertRow` is one action per await: find, write or delete, read back, broadcast.

Read in the code and kept in the model: a second save of a row may leave while the first
is in flight, and the end of either clears `inFlight`; an undo drops the saves that
wait, saves nothing, and does not suppress merges after an old save; the row is saved
whole; an upsert whose row is deleted before it is read back fails after writing; data
without the row merges nothing, so a deletion shows only through the purge, which lasts
one animation frame.

Abstracted: the other rows only hold connections, so a queued row waits for any time
(`Drain`); the suppression and the debounce are flags that end at any time; cell locks
are left out (any browser may edit any cell at any time, which they only restrict);
which cells a product or a grade empties is any set of cells. A request is lost on the
way to the server or on the way back, not in between.

### CellLocks

`lock` is the entry of the cell in `SheetPresenceService` with what is left of its life,
`editing`, `asking` and `timer` are the state of a tab, `foreign` what its last read of
the locks told its grid, `sent[t]` the messages on their way. `Deliver` runs the handler
of the service a message calls. One tick is 12 seconds: a lock lives 45 seconds
(`Ttl` 3 ticks, rounded down), a heartbeat goes out every 12 seconds (`Beat` 1). Every operation
of the service prunes first, so an expired entry is no entry.

Kept from the code: heartbeats and releases are not awaited and may overtake each other;
`heartbeat` takes the cell whoever holds it; `acquire` succeeds for a second tab of the
user; a click with shift inside the cell being edited closes the edit without a release; an answer that
arrives after the tab has closed still took the lock; the map is lost on a restart.
`calm`, chosen at the start, says that messages are prompt and in order, timers punctual
and the server up.

Abstracted: a tab has at most one message of each kind on its way, and cells share
nothing, so one stands for all.

### ContainerStock

`req[w]` is the request of worker w: what it writes, what its recount has read (`total`),
what it decided (`next`). A request of the sales or invoice service is one transaction:
its item and its status become visible at `Commit`, and its own queries see its item
(`Seen`). The delivery and the trade service commit the item first and recount after. An
order that is saved (`OrderLoads`, `OrderSaves`) writes the status it read with a new
quantity; other handlers of the trade service (`RowLoads`, `RowSaves`) write the whole row
back for the sake of another column: `recalculateContainerCost`, which follows the commit
of every sale edit (`sales.service.ts` 2190-2199, 889), `updateContainer`, the return
status, the inbound costs. `confirmSales` recounts the containers of the items the sale had
before (`sales.service.ts` 2239, 2468), so an item it adds is committed without a recount
(`ConfirmWrites`, `CommitUncounted`).

The three copies of the computation are two: an item that states only its bales or only its
weight takes the same share of the other in the sales and trade services
(`sales-item-cargo.helper.ts` 28-48) and the whole container's in the delivery service
(`sales-delivery.service.ts` 3656-3676), which has no tolerance either. `Taken`, `Sold` and
`StatusOf` have the copy as a parameter, and `counter` remembers which of them wrote the status.

`excused` is a history variable: set when a request begins beside another, when one dies
after committing its items and before its status, when an order is saved, and when a
confirmation adds an item; cleared by a recount that runs alone. `StaleOnlyIfExcused` says
nothing else leaves the status behind. `HiddenIffGone` then says what the status is worth,
with one exception it names: after a recount by the delivery service a container with an item
that states one amount only may be hidden with stock left.

Abstracted: a container states its bales and its weight, both positive; the constants are such
that the conversions come out even (in the code they are floating point, which the tolerance is
for); one item is written per request.

### SaleDelivery

`items`, `rows`, `delivery`, `deleted`, `sale`, `cancelled` and `billing` are the columns
named in the module. A request about the sale is two actions: `ReadSale`, which has the
row of the sale in memory (`sales.service.ts` 1596, 2219), and one that does what the
transaction does, with `createFromSales` in it, and commits (`Commit`), or `RollBack`. An
unloading and its undoing are a *job*: one action per statement or loop body of
`SalesDeliveryService.update`, what it has in memory in `job`. `Crash` and the errors the
handler swallows end a job where it is (`CutShort`). The actions of the sale may run between
any two steps of a job. Both save the sale as they read it but for the columns they set, and
a column that another has written since then may keep either value (`Saved`), depending on
when the save looked. `billing` is `PENDING_ISSUE`: the repository tests for `ISSUED`
(`sales-delivery.service.ts` 2783) but writes only `PENDING_ISSUE` (2786) and null (1684).

Kept from the code: which items the forms list and how they give ids (`Listed`,
`Reindexed`); that removing an item removes its row (cascade); that a loaded delivery keeps
rows with data for items cancelled beforehand; the unique index of container and sale,
which makes `Apply` fail half-way; the eviction of a cancelled item that is in the way;
that completion takes every item but those just removed; which containers are recounted.

History variables name the exceptions: `missed` the containers `confirmSales` does not
recount and those that were uncounted when a job began, `revived` the cancelled items an
unloading completes, `cut` a job that ended early, `mixed` a sale request that was under way
during a job, `overwritten` one that had the sale in memory while the job wrote the billing.
A container in `missed` leaves it with its next recount. That the second kind is there is a
statement about the code: an unloading cut short after it moved an item (2497-2563) and then
repeated recounts what the repetition touches (2548-2557, 2686), which is not the container
the item left; nothing recounts that one until a request about an item in it.

Restrictions: requests about the sale do not overlap each other, and only the row of the sale
is read early by them (the items are read in the transaction as well, but every request
replaces or rewrites them all); one order, every container in stock (so a new item is SOLD and confirmation
completes); no quantities; an edit either adds a container or drops some; the container a
form adds at the unloading is not that of an item whose row it keeps
(`applyAddedContainerAtUnloading`'s duplicate path, `sales-delivery.service.ts` 3542-3588);
the sale, dispatch and loading forms are fresh when sent and send every row, so the rows an
update omits (`sales-delivery.service.ts` 1375-1396) are dropped by unloadings only; only the
unloading form may be old.

### Prepayment

`rows` are the prepayments of one sale, `basis` what the sale asks for (an amount, a ratio
of the price of its items, or nothing), `req[w].want` the row a request will write.
`confirm`, `cancel` and `update` are a read and a save; a request about the sale
is a transaction: `FindAsked` (step 6 of `SalesService.update` finds a row, or none),
`WriteAsked` (it is written and step 7 finds a row again), `CommitSale`. Every save is a
`Look`, an unlocked select that decides the columns to write (`Differing`), and then the
write, which waits while another transaction has written the row (`Writable`) and puts these
columns over the row as it is by then (`Merged`). `torn` are the rows some save left other
than it held them. A removed row that is saved again is inserted again if the look finds it
gone. `findOne` may answer any row of the sale. A request may fail at any step (`Fail`); its
transaction has then written nothing.

Abstracted: the price of the items is any amount; items are only *live* or *cancelled*.
`orderly`, chosen at the start, says that requests come one at a time.

## 3. Runs

`sheet` and `locks` check for deadlock: their browsers go on for ever. The other modules
bound their requests (`MaxRequests`, `MaxErased`, `MaxSeq` or the ids), and stop when the
bound is reached.

| Run | Shows | Bounds |
|---|---|---|
| `ledger_one_request` | one request at a time, dying wherever nothing is half done: conservation of sales and collections, refinement of `AccountBook`, the due date covers live invoices, deleted invoices stay as they are, no stale warning after a batch | 2 customers, 2 invoices, 2 collections, 2 amounts, days 0 and 60, terms 7 and 30, 5 requests |
| `ledger_overlapping` | two requests interleaved in every way, dying anywhere, refunds and invoices of 0: balance never understated and status agrees unless two saves have each written some columns of the row; with fairness, every request ends | 1 customer, 2 invoices, 2 collections, 4 requests |
| `schedule` | type, no due date before issue, order, coverage | January to July of a common year, 6 issue dates at the edges of months, every type of terms, counts -8 and 60, days 1 and 30 |
| `number` | a day without overlapping requests and requested numbers: no two rows with one number, no request refused | 2 workers, 3 invoices, 1 collection, 2 days, sequences to 3, a requested number that is not numeric |
| `sheet` | a save that waits carries what the user sees; with fairness, a pending row is released and every browser converges to a row that exists for good | 2 browsers, 1 column, 1 text and the empty cell, 2 connections, 2 edits, clearings or undos |
| `locks` | in the calm two users never edit the cell at once; with fairness, an edit gets a lock again, a lock left behind comes free | 2 tabs, 2 users (or one in both tabs), locks of 3 ticks, heartbeats every tick |
| `stock` | the status is the one its copy gives to the items unless excused; the lists hide exactly the containers with nothing left, one exception apart | 2 workers, 2 items, containers of 3 bales and 3 of weight or 6 and 12, items of 2 bales, of 4 bales and 6 of weight, of neither, or 6 of weight given back, tolerance 1, 3 requests |
| `sale` | billing, loading rows, status and recounted containers agree with the items; a finished unloading leaves each row with one container | 3 containers, 3 items, 3 requests, a job cut short anywhere, a sale read before any step of it and saved after |
| `prepayment` | overlapping requests: amounts agree unless two saves have each written some columns; one at a time: one prepayment, money kept, cancelled sales settled | 2 workers, amounts 1 and 2 or a ratio, 3 requests |
| `ledger_detail_basis` | *violated*: the ledger's balance and the receivable's differ after a sale is cancelled | 3 requests |
| `schedule_month_end` | *violated*: the end of the next month of January 31st is in March | as `schedule` |
| `sale_revived` | *violated*: an item an unloading excluded is completed by a later one | as `sale` |

Why the bounds are enough: handlers touch one receivable at a time, so one customer
shows every interference; `ledger_one_request` has two, because a batch passes over all of
them and a posting must leave the others alone. Two requests are what an overlap needs, and two of each row
let one be present while another changes. Five requests reach create, collect, correct,
delete and one more. Days 0 and 60 put a due date past every warning level and a later
invoice before all of them. The safety properties of `ledger_overlapping` are proved
for any bound (section 4).

In `number` the second day shows that what happens on one leaves the other alone, and the
third invoice lets a number of a day be reused, or not,
after another was cancelled. In `stock` an item of 2 in the
container of 3 leaves the tolerance of one, where the copies part; 6 of weight is more than
that container, so it can be oversold, or filled by an item that stands for the whole; in the
other container 2 bales and 4 with 6 leave weight to one copy and nothing to the other, which
is the exception of `HiddenIffGone`; -6 is stock given back.
In `sale` three containers and items leave room for an item to be added, to be moved onto
another's container and for one in the way to be evicted; three requests are an unloading,
its repetition or undoing, and one more about the sale in between; longer sequences are
covered by the theorems about this module, and two of them are why its properties read as
they do (section 4). In `prepayment` two
requests overlap after, or while, another makes the row what it is (the sale may come with
one).

In `sheet` two edits are two saves of one browser that overlap, or one of each browser, or
an edit and its undo or its clearing; the row may exist at the start or not. A deleted
row is left out of `Converges` on purpose: without `row # Blank` TLC finds a browser that
shows for ever a row the database does not have: text whose save failed, or a deleted row
whose purge came while the browser was editing it, or never came.

`NothingHalfDone` (in `MCReceivableLedger`) lists the steps at which `ledger_one_request`
lets a request die; at the five others a collection without its receivable, or an issue
date without its due date, stays behind, as the code leaves it. They are included in
`ledger_overlapping`.

`orderly` and `calm` behaviours and the histories `loose`, `excused`, `torn`, `mixed`, `cut`,
`missed`, `revived` and `overwritten` mark where the code guarantees nothing, each at the code
it comes from; without them TLC finds the overlap or the crash. Two overlapping collections
get one number, two overlapping edits of a sale two prepayments, two deletions take an invoice
off twice. `BalanceNotUnderstated`, `StatusAgreesWithBalance` and `DifferenceAgrees` hold for
requests that overlap in every way but one: when a save looks at the row, another writes it
and the first then writes its columns over it (`torn`), the row has the sales of one request
and the balance or the status of the other (sales 2, collected 1, balance 0, COMPLETED), or
the amount of one and the difference of the other. `BilledIffUnloaded` holds for every overlap
but that of a request that has the sale in memory when a job writes its billing
(`overwritten`): the old billing is saved over the new. `RequestsEnd` has no condition.

`MayChangeCustomer`: `updateInvoice` may move an invoice to another customer, which
adjusts the new customer's receivable by the difference and leaves the old one as it is
(`invoice.service.ts` 1462-1475), so that conservation per customer and the cover of the due
date fail; no document says they should hold. The constant is FALSE in
`ledger_one_request` and `ledger_detail_basis`, and a hypothesis of the theorems that need
it; the theorems about balance, status, deleted invoices and the batch do without. Runs
without refunds: `deleteCollection` clamps the
collected total at 0, so with refunds the balance is only bounded from below
(`BalanceNotUnderstated`), which is what `ledger_overlapping` checks with refunds.

Fairness: `FairSpec` has weak fairness of `Proceed(w)` for each worker: Node's event
loop and PostgreSQL carry every request on, and a lock wait ends when the holder
commits. Clients, the calendar and failures have no fairness.
In `SharedSheet`, `Fairness` covers timers, the animation frame, the two-minute read of
the sheet, the server's steps and the end of each save, by an answer or an error; a
queued row gets a connection because the other saves end too. Users have none, and an
event may be delivered or lost.
In `CellLocks`, `FairSpec` has strong fairness of `Tick` (time goes on) and of the delivery
of a tab's messages (it sends again and again, and some arrive), weak fairness of the
browser's own steps: an answer starts the edit, the interval sends the heartbeat, the locks
are read again. Users have none: an edit may last for ever, which is why `EditIsLocked`
needs the heartbeats.

Every property of a passing run has a mutated definition in its module (marked
`Mutated:`), a plausible mistake in the code; with it TLC finds the property violated.

## 4. Proofs

Proved with TLAPS for every value of the constants, under the named assumptions
(`LedgerAssumption`, `CalendarAssumption`, `NumberAssumption`: ids and `None` are
distinct, amounts are integers, months have 28 to 31 days in order, `Beat < Ttl`, ...).
Every invariant and every action property of the passing runs is a theorem, and so is the
refinement of `AccountBook`; a theorem with a hypothesis of its own is given with it.

### However requests overlap and die

* `ReceivableLedgerProofs`: `TypeCorrect`, `BalanceNeverUnderstated`,
  `StatusAlwaysAgrees`. The database properties are not inductive by themselves,
  because any stale row may be written back. The invariant `IInv` says that every row
  *held by any request* satisfies them too, that a request past its checks holds the
  row its next step uses (`WorkersOK`), and that a collection about to be removed has
  the amount that was read. Then each write stores a good row: either a held one or
  one computed from it by `Collected`, `Corrected`, `Uncollected` or `Resold`, each of
  which has its lemma, or the row becomes `torn`: then it has a total, the balance or the
  status of the row it met (`SaveRow`), and the invariant speaks of its types only. A request
  that reads a torn row may compute from it, so the invariant about the rows held excepts
  those of torn customers too.
* `PrepaymentProofs`: `TypeCorrect`, `AmountsAgree`. As in the ledger, every row a request
  has in memory or has written in its transaction satisfies the property (`Agrees`), so
  a save that leaves it whole, however old it is, keeps it; a lemma for each way a row is
  computed. Rows that are `torn` are excepted from the start, in memory as in the table.
* `TransactionNumberProofs`: `TypeCorrect`.
* `PaymentScheduleProofs`: `TypeCorrect`, `NeverDueBeforeIssue`,
  `LaterIssueNeverDueEarlier`, `DueAlwaysCovers`. The lemmas bound each calendar
  operation (`AddMonth`, `MonthDay`, `MonthEnd`); monotonicity goes by the month two
  dates fall in, and covers the dates that run over a short month.
* `SharedSheetProofs`: `TypeCorrect`, `SavesShown`, `PendingCaused`. That a waiting save
  carries what the grid shows is not inductive: a merge could break it unless the row is
  pending, so `QueueInv` adds `WaitingIsPending`, and every `Receive` is shown to be
  skipped while a save waits (`ReceiveKeeps`). `PendingHasCause` is the safety half of
  `PendingEnds`: a pending row has a timer, a queued save or a connection left to
  release it.
* `CellLocksProofs`: `TypeCorrect`, `ExclusionInTheCalm`. The invariant says that a tab
  that edits holds the lock and that what is left of it and what has passed since its last
  heartbeat make up a whole life (`EditorHolds`), or a heartbeat is on its way; that a tab
  whose request was granted and not yet answered holds it too; and what a tab may have sent
  in each stage. `Beat < Ttl` and `Settled`, that a tick waits for the messages of the last,
  then keep the lock from expiring under an edit.
* `ContainerStockProofs`: `TypeCorrect`, `StatusCorrect`. The computation is opaque: what is
  proved is when it runs and on what. A recount during which nobody else ran has read the
  container and the items as they are (`LoneRecount`); without an excuse whoever is active is
  alone, and a row in memory is the row in the database (`RowAsRead`), so its writer changes
  nothing. `HiddenWhenGone` (for a finite set of items) then opens the computation: the
  bales and the weight sold are integers, a full status is given exactly when something is
  sold and no more than the tolerance is left (`GoneIffSoldOut`), the copies count alike where
  every item states both amounts or neither (`CopiesCountAlike`), and the two tolerances only
  differ in containers that are neither promised to be listed nor to be hidden.
* `SaleDeliveryProofs`: `Invariance` (types, every loading row has an item, what a job has in
  memory at each stage, where the delivery stands while one runs, and that a request about
  the sale has the billing as it is in memory unless it was `overwritten`), `TypeCorrect`,
  `BilledCorrectly`.

### With one request at a time

The code does not guard these against requests that overlap. `OneAtATime` (one worker) is a
hypothesis about the ledger; the state of the others says whether requests come one at a time
(`orderly` in `Prepayment`, `loose` in `TransactionNumber`, `mixed` in `SaleDelivery`).

* `ReceivableLedgerProofs`: `AloneInv` is that what a request has read is still what the
  database holds (`HeldIsCurrent`, `InvoiceIsCurrent`, `CollectionIsCurrent`) and that every
  invoice and collection belongs to a receivable that exists. From it:
  * `DeletedStaysFrozen`;
  * `BatchIsThorough`: the rows the batch no longer holds have their level (`BatchInv`);
  * `DueAlwaysCovers`, unless a request may die between a new issue date and the new due date
    (`HalfRedated`) or `MayChangeCustomer`: a receivable's date covers its invoices except
    while the request that is redating it is between these two writes;
  * `SalesAreConserved`, for finitely many invoices of amounts that are not negative, and
    without `MayChangeCustomer`, wherever requests die;
  * `CollectedIsConserved`, for finitely many collections, in addition without refunds and
    when no request dies between a collection and its receivable (`Saving`);
  * `LedgerImplementsBook`, under the same hypotheses: `Spec` implies the specification of
    `AccountBook` with `bill`, `paid` and `account` read off the state. There is a lemma for
    each handler that posts (`CreatePosts` and the like): its last write is the one posting,
    its other steps leave the book as it is.

  Each hypothesis is needed: a death in `Saving` leaves the collection without the receivable,
  a refund may meet the clamp of `deleteCollection` and a move leaves the amount with the old
  customer. That neither clamp ever cuts without them is a lemma (`NoClamp` for the
  collections), which needs the sums: the total is at least each of its terms.
* `TransactionNumberProofs`: `OrderlyNumbersUnique` and `OrderlyNeverRefused`. They are about
  a day, whatever overlaps on others: `DayInv` says that two requests of one day make it
  `loose`, and that on any other day what a request has read is at least every number that still
  exists, so one more than the higher of the two maxima is new to both tables, cancelled
  invoices included; and every number of the day was generated, so that the cast cannot fail.
* `PrepaymentProofs`: `OnePrepaymentEach`, `CancellationSettles`, `NoReceiptForgotten`, from
  `OrderlyInvariance`. Within a transaction the rows are those committed and those it has
  written (`Over`), and the invariant looks at what the rows *will be* when the request under
  way commits, from each of its stages (`OnItsOwn`): one row at most, every receipt kept, and
  once it has looked for a row to settle, none left open.
* `SaleDeliveryProofs`: `EveryItemHasItsRow`, `StatusIsOfItems`, `NothingLeftUncounted`,
  `UnloadingEndsAgreed`, from `Agreement`. Its invariant `AInv` says, for each stage of a job,
  how far rows, items and recounts agree already: `FormAgrees` while the form's containers are
  added and dropped, `AppliedAgree` for the rows that have been applied, `TouchedAgree` for
  the containers whose items changed and that were, or will be, touched, `SettledAgree` once
  items and rows have been matched, `UndoAgrees` and `RestoredAgrees` while an unloading is
  undone, `RowsAgree` and `IdleAgrees` between jobs.

The attempt to prove the last four found two sequences beyond the bounds of `sale` on which
the properties, as first stated, fail (TLC shows both with two items and six requests), and
which are now their exceptions:

* `StatusFollowsItems`: a sale is unloaded, cancelled, given a new item and put back to a
  reservation after its delivery was deleted; undoing the old unloading leaves the items SOLD
  and the delivery LOADED, and the sale RESERVED.
* `UnloadingAgrees`: an unloading that was cut short leaves a row with the container it was
  unloading; its item is cancelled and evicted by another, and then completed by the end of a
  later unloading, in a container that is not its row's.

### Sums

The totals, and the quantity sold of a container, are folds of the community modules
(`FoldFunctionOnSet`), whose definition is a recursive function chosen with CHOOSE. The
library's induction theorems have an operator as a parameter, which the provers here cannot
instantiate; the proofs use induction for a *set* of numbers instead (`NatSet`, from the
well-foundedness of `<`). With it, over the cardinality of finite sets, that such a function
exists (`SumExists`), that two of them agree, that a sum does not depend on the order in which
its terms are taken, that it is the sum of one term and the rest, and that changing one term
changes it by the difference. Both modules that need sums state the lemmas they use.

### Only model-checked

Liveness (`RequestsEnd`, `PendingEnds`, `Converges`, `EditIsLocked`, `LeftLockComesFree`),
which is out of the prover's reach.

## 5. Not modelled

* Transport numbers (`generateTransportNumber`) are the pattern of `TransactionNumber`
  without its constraint; vehicle dispatch and the other small services around deliveries
  create, read, update and delete single rows.
* Of sales and deliveries: quantities and weights and their sync between items, rows and
  invoices; containers still at sea; `updateSalesItem` and `deleteSalesItem`; deliveries
  without a sale; splitting a delivery; `updateInvoice`'s sync of items and deliveries.
* Of trade contracts: documents, bookings, orders and the arithmetic of costs, which read,
  compute and write one contract; ETA tracking and document parsing are calls to remote
  services.
* Of the reservation sheet: redo, paste, insertion and deletion of lines. The quotation
  sheet is a second copy of the same grid and server with other columns.
* Customers, users, master data, messaging, external services, scheduler, audit log: rows
  and calls with no state that several actors share.
* Rendering and forms of the frontend, except where a form decides what the server gets.

Most of the repository is of these last kinds (forms, tables, reports, spreadsheets, single
rows), which is why the map names a small part of its lines.

## 6. Plan

1. `SharedSheet` composed with `CellLocks`: `StartEdit` asks for the lock.
2. `SharedSheet`: redo, the insertion and deletion of lines (several rows at once).
3. `SaleDelivery`: containers still at sea and the quantities of a row and its item.
4. `ReceivableLedger` with `DueDate` of `PaymentSchedule` as its terms, and the sale
   confirmation of an invoice from `SaleDelivery`.
5. Proofs: of the liveness properties, more of the safety half (that a lock left behind
   only loses time once its messages have arrived, that a browser whose row differs from the database has an event, a
   read or a save to come); conservation with refunds, where the balance is only bounded.
