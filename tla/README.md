# Verification of the game market backend

TLA+ models of `src/backend`: a shop that sells game codes. An order is paid
through webhooks, a worker obtains a code for every unit from untrusted
suppliers, a unit nobody can supply is refunded, and a recovery sweep revives
whatever got stuck. All shared state is in Postgres; the processes are the HTTP
handlers, the worker's lanes, the sweep and the audit, possibly in several
instances of the application.

## 1. Inventory

| Part (`src/backend/src/...`) | State it keeps | Operations | What makes it correct |
| --- | --- | --- | --- |
| orders (`orders/`) | `orders.status`, `paid_at`, `not_before`; `order_items.status` | `create`, `get`, `retryDelivery`, the compare-and-set `transition` | a status moves only along the code's transitions; a final one is final |
| payments (`payments/`) | `payment_events` | `handle` / `apply`, one transaction per webhook | an order is paid at most once, by an event that names it with its amount |
| delivery worker (`delivery/delivery.worker.ts`) | the running drain, `wakeRequested`; a lane's claimed order | `wake`, `run`, `lane`, `claim` | earliest-paid first; no wake-up lost but over a locked row; every order in the queue is claimed |
| delivery pass (`delivery/delivery.service.ts`) | in memory: the copy of the items, the verdict so far; tables `deliveries`, `refunds` | `deliver`, `deliverItem`, `complete`, `refund`, `finish` | each unit settled once, by a code of its own or by its money |
| supplier chain (same file) | `delivery_attempts`, `supplier_discrepancies` | `supplierChain`, `trySupplier`, `issue`, `accept` | no fallback and no refund while a supplier may hold a code for the unit |
| supplier client, limiter (`delivery/supplier.client.ts`, `supplier-limiter.service.ts`) | `supplier_calls` | `issue`, `lookup`, `statement`; `tryAcquire` | calls that are made in time are never more than the limit in any window |
| audit (`delivery/supplier-audit.service.ts`) | `supplier_discrepancies` | `audit` | what is held against a supplier is true; every charge is in the end delivered or disputed |
| recovery (`delivery/recovery.service.ts`) | none | `sweep`, `requeue` | every stuck order is taken up again, no healthy one disturbed |
| ledger (`ledger/`) | `ledger_entries`, append-only | three postings, `balances` | balanced pairs; paid = delivered + refunded + owed |
| history (`history/`) | `order_events`, append-only | the INSERT of `transition`, `stateAt`, `moneyBetween` | no money without its event; the replay never gets a settlement wrong |
| catalog (`catalog/`) | `products`, `product_stock` | `storefront`, `decrementStock`, `setStock`, `generate` | the counter never goes below zero; paging neither repeats nor skips a product that is in stock |
| admin (`admin/`) | none | reconciliation and progress reports | no alarm without a cause, and no payment out of sight but past a full list, although every query sees another moment |
| stubs (`stubs/`) | the suppliers' books and keys, the provider's refunds | `issue`, `issued`, `restock`; `refund` | one request id, one code; one refund id, one refund |
| seed, health, bootstrap | none of interest | | |

How they interact: a webhook that applies wakes the worker; a lane claims the
earliest-paid order whose `not_before` has passed, calls suppliers and the
payment provider over HTTP between short transactions, and finally moves the
order by a compare-and-set. The sweep and the operator put orders back to
`paid`. The audit compares the suppliers' statements with our tables; customers and
operators read orders, reports and listings while all this goes on, with several
queries and no common snapshot. The tables are the only thing these processes share; what a lane holds
in memory (the items it read, the code it was given, the verdict) can be stale
when it is used, and is lost in a crash. `PROJECT.json` lists every hazard at
the line where it bites.

## 2. Modules

| Module | What it is |
| --- | --- |
| `OrderDelivery` | webhooks, lanes, the pass over an order's items, refunds, sweep, retry, over the tables they share |
| `Settlement` | the abstract promise: every unit of a paid order is settled once, for good, with a code nobody else gets or with its money |
| `OrderDeliveryProofs` | the theorems about `OrderDelivery` |
| `SupplierProtocol` | how one unit is bought: the supplier chain, rounds and retries, the supplier's book, `delivery_attempts` |
| `Procurement` | the abstract promise of buying: a unit is billed at most once while the trace is kept, only a billed code is given, nothing given or given up is taken back; `SupplierProtocol` implements it |
| `SupplierProtocolProofs` | the theorems about `SupplierProtocol` |
| `RateLimiter` | the sliding window of calls to one supplier, our table and the supplier's own count |
| `RateLimiterProofs` | the theorems about `RateLimiter` |
| `WorkerWake` | when a process looks at the queue: the drain, the wake-ups that fold into it, shutdown and restart |
| `WorkerWakeProofs` | the theorems about `WorkerWake` |
| `SupplierAudit` | audits of the suppliers' books, composed with the passes of `SupplierProtocol` |
| `SupplierAuditProofs` | the theorems about `SupplierAudit` |
| `History` | `order_events` as the actors of `OrderDelivery` write them, the replay, the money report |
| `HistoryProofs` | the theorems about `History` |
| `OrderView`, `Reconciliation`, `Storefront` | what a customer is shown of an order, an operator of the books, a client of the catalog, query by query beside `OrderDelivery` |
| `Readers` | the three composed over the same tables |
| `ReadersProofs` | the theorems about what they show, alone and composed |
| `MCOrderDelivery`, `MCSupplierProtocol`, `MCRateLimiter`, `MCWorkerWake`, `MCSupplierAudit`, `MCHistory`, `MCReaders` | small instances for TLC |

`OrderDelivery` is the centre. `SupplierProtocol` opens up what is one answer
there, `RateLimiter` what is one disturbance in `SupplierProtocol`, and
`WorkerWake` when a lane of `OrderDelivery` gets to its next `Claim`.
`SupplierAudit` EXTENDS `SupplierProtocol`, `History` and the readers EXTEND
`OrderDelivery`: each adds variables of its own and lets the steps of the extended
module happen unchanged, so what is proved there holds in the composition too.

### How OrderDelivery corresponds to the code

One action is one database statement or transaction, or one HTTP call, with the
in-memory steps up to the next one. A lane's program counter `lane[l].pc` is the
place in `DeliveryService` between two of them:

| `pc` | The lane is about to | Action |
| --- | --- | --- |
| `idle` | claim | `Claim`: select and compare-and-set in one transaction |
| `claimed` | read the items (`deliver`) | `ReadItems` |
| `items` | ask suppliers for the first item left, or pay back one already `refunding`, or read the verdict | `Issued`, `Refused`, `NoAnswer`, `PspRefunds`, `PspFails`, `ReadVerdict` |
| `complete` | make a delivery final | `Complete`: the transaction of `complete`, and the duplicate-code branch of `accept` |
| `refuse` | write the refund decision down | `DecideRefund` |
| `refund` | call the provider | `PspRefunds`, `PspFails` |
| `book` | book the refund | `BookRefund` |
| `verdict` | move the order (`finish`) | `Finish` |

`Abandon` is a failing statement or a dying process at any of these points:
the pass throws and the lane's memory is gone. `Complete`, `DecideRefund`,
`BookRefund` and `Finish` also have the branch in which the compare-and-set or a
unique key refuses and the pass throws (`Throw`). `SweepSelects` and
`SweepMoves` are the two halves of the one `requeue` statement: the subselect
reads a snapshot, and a row another transaction changed while the statement
waited for it is moved all the same, because the status is tested in the
subselect only.

What is abstracted:

* The supplier chain of one item, `SupplierProtocol` in full, is its answer here: a code (`Issued`, any code,
  also one that was delivered before), "no" (`Refused`), a spent rate limit or
  no definite answer (`NoAnswer`). Rounds are not counted: a rejected code leads
  back to the choice of any answer, which covers the exhausted rounds.
* Amounts are left out: an event carries the order's amount or another one, an
  item posts exactly its price, so a posting is its reason and reference.
* `order_events` are added by `History`; nothing here reads them.
* `paid_at` is the place in `paidLine`; ties, and `SKIP LOCKED` passing over a
  row that another transaction holds, are not distinguished. What that does to a
  lane with nothing else to claim is in `WorkerWake`.
* A redelivered event changes nothing (`duplicate`) and is no step.
* Orders are there from the start, as `create` leaves them.
* One sweep statement runs at a time.

`MaxTrouble` bounds what the outside world does to the passes: rate limits,
answers that never come, provider failures, crashes, duplicate codes, and
sweeps that take a live lane's order for a dead one's. Everything else is
unbounded, as in the code.

### How SupplierProtocol corresponds to the code

It opens up what `OrderDelivery` calls `Issued`, `Refused` and `NoAnswer`. A
request is a unit, a supplier and a round, which is what the `request_id` spells.
`open[i]` is what `supplierChain` reads out of `delivery_attempts`: the suppliers
whose last word is a timeout or an error. `rejected[i][s]` is the count of
`rejectedRounds`. `book`, `free` and `flight` are the suppliers' side: the
statement, the keys nobody has, and the requests a client gave up on that are
still being worked on. `pass[i]` is what one run of `deliverItem` holds in memory:

| `pass[i].pc` | The pass is about to | Actions |
| --- | --- | --- |
| `idle` | start | `Begin` (reads `delivery_attempts`) |
| `turn` | take the next supplier, or give up | `Turn`, `DecideRefund` |
| `ask` | call `POST /issue` | `Issues`, `OutOfStock`, `Fails`, `TooLate`, `LeftInFlight`, `Unreachable`, `AnswersForeign`, `AnswersBookedTwice`, `Limited` |
| `record` | write the attempt row | `RecordOk`, `RecordOutOfStock`, `RecordNoAnswer` |
| `lookup` | read the book after no definite answer (`issue`) | `LookupFinds`, `LookupEmpty`, `LookupFails`, `LookupLimited` |
| `verify` | read the book to check an `ok` (`accept`) | `VerifyFinds`, `VerifyEmpty`, `LookupFails`, `LookupLimited` |
| `complete` | make the delivery final | `Complete`, `RejectTaken` |

`Lands` is a supplier coming to an end with a request nobody waits for any more.
`Crash` is possible anywhere: the tables stay, the pass is gone. The supplier's
step and the attempt row are separate actions, because that is where a crash
bites; a book lookup and the row it leads to are one, because the lookup changes
nothing and what is booked stays booked.

What is abstracted:

* One pass at a time works on a unit (two lanes on one order are in
  `OrderDelivery`), and a request that was given up on has come to its end when
  the next pass begins, which the recovery cooldown is for; an operator's retry
  may be earlier: the disturbance `hasty`.
* Keys do not come back and none are added; the rate limiter is a disturbance
  (`limit`, `lookup_limit`), since it can refuse at any call.
* Rows that are evidence only (code mismatch, error but issued) are added by `SupplierAudit`;
  the two kinds that count as rejected rounds are `rejected`.
* A rejected round's code is lost to us: the book keeps it, and the supplier may
  bill it, but nobody gets it. `Holders` does not count it.

A disturbance is untraced when `delivery_attempts` cannot tell afterwards who may
hold a code (`Untraced`): a crash before the row is written; a lookup deferred
after an `ok` was written down, which closed the question (lines 379-382); a
request that times out on a retry pass, where an empty book is trusted (331); a
broken connection, which counts as a 5xx; a lie about a request given up on; a
supplier that refuses the SKU before it looks the `request_id` up; and the hasty
retry. `trouble` counts the disturbances and remembers whether one was untraced;
`Traced` says that none was so far.

### How RateLimiter corresponds to the code

`calls` is `supplier_calls` for one supplier (suppliers share nothing) and
`arrivals` is the supplier's own window, as the stub's `admit` keeps it. `Begin`
is `BEGIN`: `now()` is fixed here, and the transaction may then wait for the
advisory lock while others run. `Acquire` and `Refuse` are the rest of the
transaction, atomic because the lock serialises it: delete, count, insert or
name the next slot. `Call` and `Lookup` are the requests arriving, `Leave` a
call that is not made. An audit's statement is the kind that costs one slot.

Time is a counter, and one for both sides. Nothing bounds how long a transaction
waits for the lock, how long a call is under way, or how long after its call a
lookup comes: the clock ticks on in each of these. An arrival carries the stamp of
its slot, so that a property can tell the timely ones (`Timely`, within `SAFETY_MS` of the
stamp, and with a slot of its own) from the late ones. A request that is refused for other reasons counts all the same, as in `admit`. A limit of 0 takes
no slots and is left out, and so is `usage`, which only reads. A caller that was
refused may begin again at any time, though the order's `not_before` holds it
back until the moment it was told.

### How WorkerWake corresponds to the code

JavaScript runs to completion, so an action is what happens between two awaits.
`lane[l]` is what a lane awaits: its claim's transaction, or the delivery of the
order named. `current` and `wakeRequested` are the fields of those names. `phase`
is `stopping` while `onModuleDestroy` awaits the drain, and `stopped` once it has
returned. `bell` holds the orders whose commit has happened and whose `wake()` is
still to be called, `called` remembers which orders were in the queue at the last
`run()`, and `passed` those of them that a lane passed over since; the code has none
of the three. `locked` are the waiting orders whose row another transaction has: a
second payment event for the order takes it `FOR UPDATE` to see its status (`Locks`,
`Unlocks`), and `SKIP LOCKED` makes a claim look past it. `ClaimNone` is a claim that
gets nothing: nothing is waiting, or nothing whose row is free; the lane then ends.

A failed claim rejects `Promise.all`, `drain` and the promise that `wake()`
discards; an unhandled rejection ends a Node process, so it is the same as
`Crash`. `Stop` is what closing the application does; `main.ts` enables no
shutdown hooks, so a signal is a `Crash` too. `resting` is every order that left
a lane without being final: deferred, parked, or left in `delivering`. Other
instances only take orders away and are left out.

### How SupplierAudit corresponds to the code

`audit[a].pc` is the place in `audit()` between two awaits: `statement` (the call to
the supplier), `deliveries`, `requests`, `explained` (a query each), `record` (one INSERT
per finding). Each reading keeps what the code keeps: `book` is the statement, `rest`
the entries without a delivery, `todo` what is to be recorded. The order of the
queries is the code's, and all the properties hang on it.

`PassStep` is a step of `SupplierProtocol` with the rows it leaves to the audit:
`attempts` are the `request_id`s with a row in `delivery_attempts`, `discrepancies`
the pairs of `request_id` and kind, which a unique index keeps single. `RefundDone`
is the refund that `OrderDelivery` has step by step. `NoStatement` is a supplier that
does not answer or a spent rate limit; `AuditFails` a failing query or a crash.
`Forges` is a supplier that changes an entry after delivery, or makes one up; what
it may do before, `SupplierProtocol` has.

Left out: the statement's limit of entries, and the report's of rows; the amount of a charge; a forgery of
an entry that is still being looked up, which is an answer like any other.

### How History corresponds to the code

`transition()` writes the status and then the event on the manager it is given. In
`claim`, `complete`, the booking of a refund, the webhook and `requeue` that is a
transaction's: `Begins` fixes `now()`, which Postgres gives to every row of the
transaction, and `Commits` writes status, posting and event in one step. In
`deliverItem`, `finish` and `retryDelivery` it is the connection's: `LeavesEvent` is the
UPDATE, `WritesEvent` the INSERT with an id and a time of its own, and in between a
process may die (`LaneDies`, `LosesEvent`).

`log` is `order_events`; `Replayed` is what `stateAt` folds out of it, for one row. The
report of `moneyBetween` is its four queries: `ReadsMoved`, `ReadsEvents`,
`ReadsOpening`, `ReadsClosing`. A sum is the set of payments, deliveries and refunds
it adds up, so two sums that agree do so by what they count. `Closed` says that no
transaction still open began before a moment, which no code checks; it is what a
report on yesterday can rely on.

### How the readers correspond to the code

`OrderView` is `OrdersService.get`: the order is awaited first, then items, deliveries
and refunds are read in any order. `Reconciliation` is `report()`: five lists in any
order and `balances()`, where the ledger is read before the tables. A list is cut at
`ListCap` rows (`Capped`; which rows are left is open), and counted as it is. `Canonical` are the
payment events that spell their order's id as the database prints it: the webhook finds
an order whatever the case of the letters, `payment_events` keeps the text as it came, and
`DeliveredNotPaid` compares it with `id::text`.
`Storefront` is the listing by pages, with the cursor the code returns, and
`setStock`. The rows of a page are any sequence its query may return (`Selects`): in
order, the first of what is found, and one more than a page at most. `PageOf` cuts
the page, `Turned` takes the cursor from its last row if there was one more.
All three read and write nothing but the stock. In `Readers` one of
them is at work in a behaviour: as none changes what another reads, one request
shows as much as many. The sorting by anything but the SKU is left out.

## 3. Runs

| Run | Instance | Shows |
| --- | --- | --- |
| `lanes` | 2 lanes, an order of two lines and one of one, 2 codes for 3 units, 1 unit in stock, payments of every kind in any order, `MaxTrouble` 2 (1.2 million states up to symmetry) | the safety properties of `OrderDelivery`, the refinement, and that the inductive invariant `Inv`, types included, holds |
| `settled` | 2 lanes, 2 orders of one line, `MaxTrouble` 2, fair (0.13 million states) | every paid order ends final for good, no unit stays owed; an order that became final and was reopened never ends with another verdict (`VerdictStands`) |
| `chain` | 2 units, 2 suppliers, 3 keys, 2 rounds, 2 attempts, every disturbance, `MaxTrouble` 3, fair (0.3 million states) | `OneHolderWhileTraced`, `DeliveredAsBooked`, `OpenComesFirst`; the refinement of `Procurement`; no pass goes round in circles, every unit is decided |
| `rate` | 2 callers, limit 3, window 2, margin 2, 5 ticks, any wait and any delay (1.6 million states up to symmetry) | `TimelyWithinLimit`, `NotHeldUp` |
| `wake` | 3 orders, 2 lanes, rows that are locked for a while, `MaxTrouble` 2, fair (66,000 states) | `NoWakeLost`, `StopsCleanly`, `EveryOrderClaimed` |
| `audit` | 1 unit, 2 suppliers with a key each, 1 audit, every disturbance, `MaxTrouble` 2, `MaxMishaps` 1, fair (0.26 million states) | `AccusationsAreTrue`, `MismatchesAreForged`, `WrittenOffStaysOff`, `ChargesAccountedFor`, and that the inductive invariant holds |
| `history` | 2 lanes on an order of one line, a payment of an unknown order, `MaxTrouble` 1, 1 lost event (0.26 million states up to symmetry) | `MoneyIsRecorded`, `ReplayedSettlements` |
| `history_report` | 1 lane, an order of two lines, 1 report of every period, 3 moments | `ClosedReportsHold` |
| `readers` | 2 lanes, an order that is paid, fails, or is paid by an event that misspells it, in any order, lists of one row, 3 SKUs, pages of one, `MaxTrouble` 1 (1.3 million states up to symmetry) | `FinalViewIsComplete`, `ViewStaysTrue`, `HealthyWhenStill`, `MoneyInSight`, `ListedInOrder`, `NothingPassedOver`, and that the inductive invariants hold together (`ReadersInv`) |
| `final_reopened` | 1 lane, 1 order | a finding, see section 6 |
| `chain_crash` | 1 unit, 2 suppliers with a key each, 2 disturbances | a finding, see section 6 |
| `rate_lookup` | 2 callers, limit 2, window 3, margin 1, 8 ticks | a finding, see section 6 |

Further instances, run by hand (`tlc -config AuditBlind.cfg MCSupplierAudit`), reproduce
the other findings of section 6: `ChainBroken` (`MCSupplierProtocol`), `RateLate`, `RateOne`
(`MCRateLimiter`), `WakeIdle`, `WakeLocked` (`MCWorkerWake`), `AuditUnused`, `AuditUnknown`,
`AuditBlind` (`MCSupplierAudit`), `HistoryHole`, `HistoryOrder`, `HistoryRace` (`MCHistory`),
`ViewAddsUp`, `ReconSpelling`, `ReconCapped` (`MCReaders`). Each ends with
the counterexample to the one property it names. `ReadersEvents` (`MCReaders`) is a second
instance of `readers`, and passes: four events, of another amount too, lists of two rows, no
disturbance (0.4 million states).

Why the bounds are enough: a wrong settlement needs two lanes on one order (one
premature sweep) and one more disturbance to part them or to lose or repeat
an answer. Two lines let one order end
partly delivered and let a pass meet an item settled by another pass; the second
order competes for the same codes, of which there are fewer than units, and for
the place in the line. With a payment each instead of two and `MaxTrouble` 3 the same
instance was checked once (1.0 million states). `lanes` is symmetric in lanes and
codes, which no definition tells apart.

For the chain: a second code takes a supplier left in doubt, a second supplier
asked, and a late booking, each at the price of one disturbance, and a refund
one more; a code booked twice needs two units, and fewer keys than units want
lets every supplier run dry. Two rounds and two attempts are the first bounds
at which a round or an attempt is both repeated and exhausted. There is no symmetry,
because the run checks liveness.

For the limiter: one call too many takes a caller in the window, a second one let
in too early, and the first one's call arriving late. A limit of 3 has a window
that holds an issue and a statement, one that refuses an issue and admits a
statement, and one that is full. 5 ticks are a window of ours (4) and one more, at
which a row is deleted that an arrival in the supplier's window might still need;
late arrivals need less. For the worker: three orders keep
two lanes busy and one waiting; two troubles let a process be stopped and another
crash, an order rest twice, or a row be locked while a process is stopped.

For the audit: a wrong finding takes one audit and a unit that is settled between
two of its queries; an unexplained charge takes a pass that died and a second supplier.
One round keeps the run small; rounds are in `chain`, and the theorems hold for any.
For the history: an event out of place takes two lanes or the operator on one
order, at one moment; the order of events goes by id, so moments matter only to
the report, which has three: one before a period, one inside, one after. With two
moments the first instance was checked once too (2.0 million states). For the
readers: an answer that does not fit takes a step between two queries; two lanes
settle and reopen an order meanwhile, and three SKUs with pages of one have a
first, a middle and a last page to sell out on. Three events are one that pays, one
that fails the order, and one that comes too late or misspelled; lists of one row are
full with the first late payment and cut with the second. `history` has one period
only (`MaxTime` 1); the theorem is about all of them.

For `OrderDelivery` and all that extends it, for `SupplierProtocol`, and for `RateLimiter`,
whose clock is bounded, the system really may stop: when every order is final or
unpaid nothing is left to do, so deadlock is not checked. The worker's timer and the
audit's never stop.

### Properties

Each is stated with its comment at the end of its module.

| Module | Safety | Actions, refinement, liveness |
| --- | --- | --- |
| `OrderDelivery` | `NeverCodeAndMoney`, `FinalMeansSettled`, `BooksBalance`, `UnpaidUntouched` | `DecisionsStand`, `VerdictStands`, `KeepsPromise`; `PaidIsSettled`, `PromiseComesTrue` |
| `SupplierProtocol` | `OneHolderWhileTraced`, `DeliveredAsBooked`, `OpenComesFirst` | `EveryPassEnds`, `BuysAsPromised`; `EveryItemDecided` |
| `RateLimiter` | `TimelyWithinLimit`, `NotHeldUp` | |
| `WorkerWake` | `NoWakeLost`, `StopsCleanly` | `EveryOrderClaimed` |
| `SupplierAudit` | `AccusationsAreTrue`, `MismatchesAreForged` | `WrittenOffStaysOff`; `ChargesAccountedFor` |
| `History` | `MoneyIsRecorded`, `ReplayedSettlements`, `ClosedReportsHold` | |
| `OrderView` | `FinalViewIsComplete`, `ViewStaysTrue` | |
| `Reconciliation` | `HealthyWhenStill`, `MoneyInSight` | |
| `Storefront` | `ListedInOrder`, `NothingPassedOver` | |

`OneHolder` itself, the doc's statement, does not hold: `chain_crash`.

### Refinement

`Settlement` has two variables. Its `paid` is the set of orders whose status is
neither `created` nor `payment_failed`; an item's `outcome` is money once the
provider has sent it, a code once its `deliveries` row is there, and owed
otherwise. A `Webhook` that applies is `Pay`, the winning branch of `Complete`
is `GiveCode`, the first `PspRefunds` (or a `PspFails` that did pay) is
`GiveMoney`; everything else, reopened orders included, is a stuttering step.

`Procurement` has three. A unit's `outcome` is its code once it is delivered,
given up once it is `refunding`, and undecided otherwise. Its `bills` are the codes
that the suppliers' books show in the round they are in (`Holders`; what a rejected round booked is
written off). `traced` is `Traced`. A step by which a supplier books a code
(`Issues`, a request that `Lands`, an answer that is late or lost) is `Charge`, a rejected round is
`WriteOff`, `Complete` is `GiveCode`, `DecideRefund` is `GiveUp`; everything else
stutters, or loses the trace and leaves the rest alone.

### Fairness

`FairSpec` assumes weak fairness of what a lane does next (the worker polls
every 2 s, and every HTTP call has a timeout), of the clock passing
`not_before`, of the sweep reaching each row that is old enough (every 30 s;
both statuses), and of the sweep's statement ending. Nothing is assumed of
webhooks, of the operator's retry, or of disturbances, which are finitely many.
Crashes are disturbances: a process that dies for ever settles nothing.

In `SupplierProtocol`, `FairSpec` assumes weak fairness of each unit's pass as long
as it can go on undisturbed (every call has a timeout, the worker and the sweep
start passes until the unit is decided) and of each request left in flight (a
supplier is done with it some time, even if with nothing).

In `SupplierAudit`, `FairAuditSpec` assumes the same of the passes, and weak fairness of
each audit (the timer starts one every `SUPPLIER_AUDIT_INTERVAL_MS`, its call has a timeout) and
of carrying out a decided refund (`OrderDelivery` shows under its own fairness that
this comes). Nothing is assumed of forgeries and failing audits, which `MaxMishaps` bounds.

In `WorkerWake`, weak fairness of the timer, of each lane (queries answer, and a
delivery ends because every call has a timeout), of the drain's own turns, of
starting a process that was stopped, and of the end of a transaction that holds a row.
Rows are locked finitely often (`MaxTrouble`): a payment provider that repeats its events for
ever, each at the moment a lane looks, is not assumed.

## 4. Proofs

### OrderDelivery

`OrderDeliveryProofs` proves for any orders, items, codes, events, lanes and any
`MaxTrouble`, from `ConstantsAssumption` (the constants are functions of the
right types) and `OrdersHaveItems` (an order has lines, and they are numbered,
as `create` and the unique index on position make them):

* `TypeCorrect`: `Spec => []TypeOK`;
* `InvCorrect`: `Spec => []Inv`, and from it `NoCodeAndMoney`, `FinalIsTrue`,
  `BooksAlwaysBalance`, `NothingForUnpaid`;
* `DecisionsNeverRevised`: `Spec => DecisionsStand`;
* `PromiseKept`: `Spec => KeepsPromise`, the refinement of `Settlement`;
* `VerdictsStand`: `Spec => VerdictStands`: once an order has been final, it is never
  final again with another verdict, however often it is put back (see `final_reopened`).

The four safety properties are not inductive: that a refund is only paid for an
item that cannot be delivered any more depends on what a lane remembers. `Inv`
adds `RowsInv` (unique codes; a payment posting has an applied event; only paid
orders are in the line) and `LanesInv`, which says how stale a lane's memory can
be: an item it holds as `refunding`, or is about to refund, is `refunding` or
`refunded` in the table; an item it is about to book has been paid back; and a
final verdict it carries is still true, because settled items never change.

The argument has four layers. `ItemEffects` reduces every step to one of five
effects on the items (none, `Gives`, `Decides`, `PaysBack`, `BooksIt`), and
`OrderEffects`, `OnlyWebhooksPay` and `HeldOrders` do the same for orders,
payments and what lanes hold. `DecisionsStep` and `SettledStays` then give
stability: what was decided stays. With these, each conjunct of `Inv` has a
lemma of its own (`MoneyStep`, `FinalStep`, `BooksStep`, `RowsStep`,
`UnpaidStep`, `LanesStep`). In `LanesStep`, `OtherLane` covers every lane that
does not act, by stability alone, and only the acting lane is looked at action by
action. The refinement reuses the effects: `Gives` is `GiveCode`, `PaysBack` is
`GiveMoney` or a stutter. `VerdictsStand` speaks of two moments any number of steps
apart. `Concluded(o, v)` says that all units of `o` are settled and their statuses add up to
the verdict `v`; `FinalMeansSettled` makes it true when the order is first final, `SettledStays` keeps it
for ever (`ConcludedStays`), and units that add up to one verdict add up to no other.

### SupplierProtocol

`SupplierProtocolProofs` proves for any units, suppliers, keys, limits, faults and
any `MaxTrouble`, from `SupplierAssumption` (types; at least one round and one
attempt):

* `ChainCorrect`: `Spec => []ChainInv`, and from it `ChainTypes` (`TypeOK`),
  `BookedIsDelivered` (`DeliveredAsBooked`) and `OpenFirst` (`OpenComesFirst`),
  whatever goes wrong;
* `NeverTwoCodes`: `Spec => []OneHolderWhileTraced`: as long as no untraced
  disturbance has happened, never two suppliers hold a code for one unit;
* `PromiseToBuyKept`: `Spec => BuysAsPromised`, the refinement of `Procurement`;
* `PassesEnd`: `Spec => EveryPassEnds`, every step of a pass decreases what is left of it.

`OpenComesFirst` is not inductive because it does not say why a pass asks the
right supplier: `QuestionOK` adds that at a turn the supplier in doubt is still
among those left, and that a pass that is asking a supplier with an open question
knows it (`unknown`), so it ends at the book and not at "failed". `PassOK` and
`DeliveryOK` carry a code from the book to the customer.

`OneHolderWhileTraced` needs `HoldInv` on top. `MayHold` is the set of suppliers that hold a
code for a unit or may still book one; between passes it is within `open`, during
a pass it is within the supplier being asked, and it is empty once that supplier
said no. `FlightOK` says that in a pass a request can only be in flight after a
timeout of this very pass, with a supplier that was not in doubt when it began,
which is exactly when `EmptyIsFinal` refuses to trust an empty book. `RoundsOK` says
that no later round has been sent, so a rejected round opens a fresh request.
Once untraced is untraced for good (`TracedBefore`), so `HoldInv` is kept by the steps
that leave the state traced: under `ChainInv` and `Traced'`, `UnitHolds` keeps these for the unit that acts,
and `KeptHold` for all others, as no step adds to what their suppliers may hold
(`NoMore`).

For the refinement, `StepShapes` reduces every action to one of five: no change to what the
mapping sees (`QuietStep`), one request booked (`SupplierStep`), `Reject`, `Complete`,
`DecideRefund`. That a booking is a bill the unit does not have yet needs `RoundsOK` even when
the trace is lost, so `RoundsStep` shows it inductive on its own, and `BoughtInv` is it with
`HoldInv` while traced (`TracedInv`). That a traced booking finds the unit undecided and without bills is
`OneHolderWhileTraced` used in the state after the step.

`EveryPassEnds` is the part of termination that needs no fairness: a lexicographic
measure (suppliers left, rounds rejected, attempts, the stage of an attempt), of which every
component is bounded by `TypeOK`. There is a lemma for each kind of step (`AnswerAdvances`,
`VerdictAdvances`, `TurnAdvances`, `NoAnswerAdvances`, `RejectAdvances`). With fairness it is what
makes `EveryItemDecided` true, which only TLC checks.

### RateLimiter

`RateLimiterProofs` proves for any callers, limit, window and margin, from
`LimiterAssumption` (naturals, a limit above 0), and without a word on how long anybody waits:

* `LimiterTypes`: `Spec => []TypeOK`, with the table never above the limit;
* `NeverHeldUp`: `Spec => []NotHeldUp`;
* `TimelyNeverExceed`: `Spec => []TimelyWithinLimit`: the requests that arrive within the
  margin of their stamps never exceed the limit in the supplier's window, whatever else
  arrives there late. With a limit of one it speaks of issues and statements only.

`NotHeldUp` rests on `WaitInv`: the rows that were too many when a caller was sent
away are all young enough to be there until the moment it was told. `OldRowsGo`
says that a transaction deletes nothing younger, because its stamp is not ahead of
the clock. `TimelyWithinLimit` needs two more invariants. `HeldInv`: a slot that is paid
for, not used and not yet late is in the table with its stamp, and nobody else's. `PaidInv`: a timely
arrival that is still in the supplier's window has its row, alone. The timely
arrivals in the window map one to one into the table (`Counted`, by the pigeonhole theorem). The
margin is what keeps a row longer than the arrival it pays for (`PaidRows`). A late caller's row may be gone
before its call arrives; that call is then one the table does not count, and so is everything
that `rate_lookup`, `RateLate` and `RateOne` find.

### WorkerWake

`WorkerWakeProofs` proves `WorkerTypes` (`TypeOK`), `WakesAnswered` (`NoWakeLost`)
and `CleanStop` (`StopsCleanly`) for any orders, lanes and `MaxTrouble`, from
`WorkerAssumption`. The three are inductive together with one more conjunct: lanes
run only inside a drain (`DrainInv`). `NoWakeLost` says what is left of a promise once rows
may be locked: taking or freeing a row is nothing to the drain (`RowsLocked`), a claim that gets
nothing passes over every order called for, and no other step lets the last lane end with such
an order waiting unless another drain follows.

### SupplierAudit

`SupplierAuditProofs` proves for any number of overlapping audits, from
`SupplierAssumption` and `AuditAssumption` (no unit is called `NoItem`):

* `AuditOnlyWatches`: `AuditSpec => Spec`, so every theorem about `SupplierProtocol` holds
  with audits;
* `AuditCorrect`: `AuditSpec => []AuditInv`, and from it `AccusationsHold`
  (`AccusationsAreTrue`); `WrittenOffForGood`: `AuditSpec => WrittenOffStaysOff`;
* `MismatchListIsExact`: `AuditSpec => []MismatchesAreForged`: the report's query for code
  mismatches finds the requests whose entry the supplier changed after the delivery, and no other.

What is written down is not enough: a finding is decided in one step and written in a
later one. `AuditInv` adds `MemoryOK`: what an audit holds in memory (the statement,
the findings to be recorded) is justified, and stays so. `Frame` says what any step
keeps: `ChainKept`, that a booked code stays booked, a settled unit settled and a rejected
round rejected. With that, `StillJustified` carries every finding over every step, and
the actions of the audit are looked at one by one. The list of mismatches needs
`DeliveredAsBooked` in one direction, and in the other `ForgedInv`: a forged entry differs from
what was delivered for it, which nothing changes afterwards.

### History

`HistoryProofs` proves for any orders, items, lanes and bounds, from the assumptions of
`OrderDelivery` and `HistoryAssumption` (orders and items have different ids):

* `HistoryOnlyWatches`: `HistorySpec => Spec`;
* `HistoryCorrect`: `HistorySpec => []HistoryInv`, and from it, with `Inv`,
  `MoneyAlwaysRecorded`, `ReplayKnowsSettlements`, `ClosedReportsAlwaysHold`.

`MoneyIsRecorded` is about every period, so the invariant is about every posting:
each has an event of its own with the same stamp, and the other way round
(`PostingsInv`). `RecordsInv` says of what is written late, or never, that it concerns
no money: of items it is only the decision to refund. `TogetherEffect` and
`ApartEffect` reduce the actors' steps to the row they move. `ReportInv` keeps what a
report on a closed period has read equal to what it would read now, which holds
because nothing can be stamped before a closed moment any more (`PeriodFrozen`). The last event of
an item exists because ids are bounded (the well-founded induction of the library is
used for the greatest one).

### Readers

`ReadersProofs` proves, from the assumptions of `OrderDelivery` and, for the storefront,
`StorefrontAssumption` (SKUs have different ranks, a page has room for one):

* of each reader alone: `ViewOnlyWatches` and `ReconOnlyWatches` (they change nothing),
  `ViewCorrect` and `ReconCorrect` (the invariants `ViewInv` and `ReconInv`), and from them
  `ViewsStayTrue`, `FinalViewComplete`, `HealthyReports` and `MoneyStaysInSight`;
* of the three composed: `ReadersCorrect`, `ReadersSpec => []ReadersInv`, where `ReadersInv` is
  `Inv`, `ViewInv`, `ReconInv` and `ListingInv` together, and from it `ListingsInOrder` (`ListedInOrder`), `NoProductPassedOver`
  (`NothingPassedOver`) and `ReadersRely`, the four promises to customer and operator, which hold
  beside an operator who sets stock as well.

The argument for a view: a settled unit keeps its code or its refund
(`DecisionsStep`), so what was read stays true (`ViewOutlivesStep`); an order read as
final has no open unit then or later, so everything read after it is complete. For a report:
a recorded event keeps its outcome (`OutcomeStands`), an order keeps being paid for or failed,
a unit settled; so a list that left an event out, because there was nothing to say of it or
no room, rightly left it out for good (`ListsOutlive`, `CappedShows`). What was delivered was paid for by
an applied event, so `DeliveredNotPaid` finds only units whose event was misspelled
(`NothingDeliveredUnpaid`), and they stay that (`MisspelledStays`). The ledger only grows, so if it is at the end what it was
when it was read, nothing was posted in between, and the tables agreed with it
(`TablesAgree`, `BalancesInv`).

For the storefront: what has been in stock ever since the listing began has been shown up to the
cursor, and nothing beyond the cursor has been shown (`ShownUpToCursor`). A page found after
the cursor is beyond all that was shown, so it can be joined to it in order
(`PageJoined`); what it leaves out is beyond its last row, which is the new cursor, and if there is no
more it leaves out nothing (`NextPageStep`, `PageTurned`). How the rows are sorted does
not matter, only that `Selects` holds of them. In the composition `setStock` writes a
table that `OrderDelivery` reads; it changes only `stock`, of which the other invariants say no
more than its type (`SetStockInv`, `SetStockReaders`).

### Only model-checked

The liveness properties `PaidIsSettled`, `PromiseComesTrue`, `EveryItemDecided`,
`EveryOrderClaimed` and `ChargesAccountedFor`: they need fairness, and fairness is ENABLED,
which the proof system does not reach. Their safety parts are proved: a
unit settled stays settled, a verdict stands, a pass cannot go on for ever.
`WithinLimit`, which counts the late requests too, does not hold, see `rate_lookup`. No module declares a RECURSIVE operator. `OneHolder` without
`Traced` does not hold: see section 6.

## 5. Plan

All parts of the plan are done, in this order: `OrderDelivery` and `Settlement`,
`SupplierProtocol`, `RateLimiter`, `WorkerWake`, `SupplierAudit`, `History`, `OrderView`,
`Reconciliation`, `Storefront` and their composition `Readers`, `Procurement`; each with its
runs and proofs. What could follow: the rate limiter and the audit in one module,
so that the audit's statement competes with deliveries for slots; `create` beside
`setStock`; the composition of `Procurement` with `OrderDelivery`, so that the bills of a unit
appear beside its ledger entries.

## 6. Findings

`final_reopened` (`recovery.service.ts:68`): the tests say that a final order
stays final and is left alone by recovery. The `requeue` statement joins `orders`
to a subselect of itself and tests `status` and `updated_at` in the subselect
only. Under READ COMMITTED a row that another transaction changed while the
statement waited for its lock is re-evaluated in the outer table only, so an order
that its lane moves to `delivered` at that moment is set back to `paid`. The next
pass finds nothing open and makes it final again: `settled` shows that the order
still ends final for good, and `DecisionsStand` that no unit is settled twice,
so the effect is a `paid` status in between and a second run of history rows. It is also
the same verdict every time: `VerdictStands`, proved as `VerdictsStand`.

`chain_crash` (`delivery.service.ts:278`): the recovery service calls re-delivery
safe at any time, and `DECISIONS.md` section 4 says that the rule "a supplier
without a definite answer holds the item" survives restarts. It rests on
`delivery_attempts`, and a row is written only after the answer. If the process
dies in between, the next pass finds no open question. That is harmless if the
same supplier is asked again and answers, since the `request_id` is the same;
but if it cannot be reached just then, the pass counts that as "nothing was ever
sent" and buys a second code elsewhere, or refunds. A lookup that is deferred
after an `ok` (379-382) leads to the same: the row `ok` has closed the question.

`rate_lookup` (`supplier.client.ts:115`): an issue pays for two slots, both stamped
when the transaction began, and the lookup uses the second one after the issue's
answer, up to `SUPPLIER_TIMEOUT_MS` later. Its row leaves our window that much
before its arrival leaves the supplier's; the margin of 100 ms covers jitter, not
this. Others are let in meanwhile and the supplier counts one call more than the
limit, although every issue came in time (`PromptCallsWithinLimit`). It answers 429, which the client
treats as a deferral, so nothing is lost but the promise that the limit is not exceeded. There are two more ways
to exceed it. A limit of one (`RateOne`): the cost of two is cut to one
(`supplier-limiter.service.ts:44`), and two calls are made. And any wait longer than the margin
between stamp and arrival (`RateLate`, `WithinLimit`): `now()` is the beginning of the transaction, which
then waits for the advisory lock without a bound (line 47), and the call comes after that.
What is left of the promise, and proved, is that the late requests are all that is too
much (`TimelyWithinLimit`).

The other findings are reproduced by instances run by hand (section 3):

* `ChainBroken`, `OneHolder` (`delivery.service.ts:331`): an empty book is trusted after an
  error, because "after a 5xx the supplier has finished with the request".
  `classify` in `supplier.client.ts` gives the same outcome to a connection that
  broke, and then the supplier may still be working: the code is booked after the
  book was read, and another supplier has been asked.
* `WakeIdle`, `NoIdleLane` (`delivery.worker.ts:82`): lanes are there so that one supplier stuck in
  retries does not hold up other orders. A lane that finds the queue empty ends, and
  `run()` starts no lane while a drain is running. If one order is slow, every order
  paid after the other lanes have ended waits for it, whatever the number of lanes.
  Another instance may take the orders; `EveryOrderClaimed` shows that they are
  claimed in the end.
* `WakeLocked`, `StartsWithoutPoll` (`delivery.worker.ts:103`): `wake()` is "called right after a
  payment is applied so delivery starts without waiting for the next poll" (lines 46-47). If a second
  payment event for the order has its row just then, the lane skips it, finds nothing and ends; the
  order waits for the poll.
* `AuditUnused`, `DisputedIsUnused` (`supplier-audit.service.ts:89`): a delivery that completes
  between the query for deliveries and the one for the status of items is missing in
  the first and settled in the second, so the customer's own code is recorded as
  unused, "dispute the charge".
* `AuditUnknown`, `UnknownWasNeverSent` (`supplier-audit.service.ts:130`): the attempt row is
  written after the supplier's answer, so a request in flight is recorded as one "we
  never sent" (`supplier-discrepancy.entity.ts:22`); nothing withdraws the finding.
* `AuditBlind`, `ChangedBookIsCaught` (`supplier-audit.service.ts:112`): an entry with any discrepancy on
  record, also one that a pass noted and resolved, is skipped before its code is compared with
  the delivered one; a book that changes later is not noticed.
* `HistoryHole`, `HistoryIsComplete` (`order-transition.ts:33`): the comment says that every
  transition leaves its event in the same transaction; callers outside a
  transaction pass the connection's manager, and a process that dies between the two
  leaves a status no event tells of. `MoneyIsRecorded` shows that no money falls into
  the hole.
* `HistoryOrder`, `ReplayIsState` (`history.service.ts:49`): such an event may also be written after
  the next one of that row, and the replay then ends in the older status.
  `ReplayedSettlements` shows that it is never a settlement that is replayed wrong.
* `HistoryRace`, `ReportsHold` (`history.service.ts:138`): a payment that began in a period and commits
  between the report's queries makes it say `balanced=false` although the books are
  right. `ClosedReportsHold` says when a report can be trusted.
* `ViewAddsUp` (`orders.service.ts:131`): a view of an order read as unpaid may show `paid` 0 and a unit
  that was delivered before its items were read.
* `ReconSpelling`, `NothingUnpaidDelivered` (`reconciliation.service.ts:51`): the list "must be empty: ... a delivery
  for an order that never had a paid event applied". An event that spells the order's UUID in upper
  case passes the validation, finds the order and is applied, but its text never equals
  `id::text`: the report is unhealthy for a correct order, for good.
* `ReconCapped`, `CountsExact` (`reconciliation.service.ts:7`): "Lists are capped; counts are exact", but
  a count is the length of the capped list.

## 7. Not modelled

* `create` as an action (orders are there from the start, as it leaves them), the
  validation of input, `generate` and `explain` of the catalog (tools for load experiments),
  the progress report (counts), seed data, wiring and health: no state that
  another step could disturb.
* The cap on the report's lists about suppliers (100 rows), and the limit of a supplier's statement.
* The stubs' configuration and statistics, and `restock`. What the stubs answer is
  modelled in full, and more: suppliers lie in ways the stubs do not.
* Amounts and currencies beyond "the right amount" and "another one".
* Liveness, ENABLED, and induction over data are checked on instances, not proved.
