# PayIn, specified in TLA+

PayIn takes stablecoin payments without holding funds. A merchant opens an
order or binds a deposit address to a user; PayIn watches the addresses on
several chains, waits for confirmations, closes the order or reports the
deposit, and notifies the merchant. This directory specifies the part of the
code that decides about money, promises and ownership: `packages/processor`,
`packages/monitor`, `packages/notification`, the payment links of
`packages/manager` and the organizations of `packages/auth`.

All of it runs in one Node process over one PostgreSQL database. There are no
threads; there are many async functions that give up the event loop at every
`await`, few database transactions, `UPDATE`s that select a row by its key
whatever state the row is in, timers and maps in memory, and a restart that
rebuilds that memory from the tables. The models are cut accordingly: **one
database statement, with the code up to the next `await`, is one action**, and
what a function read before an `await` is a variable that may be stale when it
is used.

## 1. Inventory

### Order service (`order-service.ts`, `order-state-machine.ts`, `transfer.repository.ts`)
- *State*: rows of `orders` (status, address, confirmed_received,
  grace_period_ends_at) and `transfers` (order_id, is_confirmed); two timers
  for each order in memory.
- *Operations*: createOrder, the timeout of the grace period, recording a
  transfer, processing a confirmed one, transitionToStatus, stopOrderMonitoring,
  restoreOrderMonitoring.
- *Talks to*: address pool, monitor (watch, unwatch), event bus.
- *Hard*: the timeout and confirmations of one order interleave; status,
  announcement, unwatching and release are separate steps; a crash loses timers.
- *Correct when*: only paid orders complete, a final status stays, a pending
  order keeps its address, is watched and closes, a closed one gives it back.

### Processor core (`processor-core.ts`, `business-context-resolver.ts`, `chain-state.repository.ts`)
- *State*: isStarted, isRecovering.
- *Operations*: start (normal or recovery), restoreMonitoringTargets, routing a
  transfer to an order or a deposit, the handlers of delayed confirmation,
  progress of scanned blocks.
- *Hard*: event handlers are not awaited by who emits; a restart must be
  complete before new work arrives.

### Address pool (`address-pool.repository.ts`, table `address_pool`)
- *State*: for each address idle, allocated, bound or archived; order_id;
  deposit_reference; cooldown_until.
- *Operations*: add, allocate, release, bind, unbind (by reference or address),
  archive, unarchive.
- *Hard*: check-then-update without transactions; rows selected by address
  alone. A CHECK constraint guards the row.
- *Correct when*: an address serves one owner, rests between owners, and a
  reference has one address.

### Deposit service (`deposit-service.ts`)
- *State*: the bindings in the pool, `deposits`. *Operations*: bind, unbind,
  record a deposit, confirm and announce it.
- *Hard*: lookup and binding are two statements; two confirmation cycles may
  announce a deposit twice.

### Delayed confirmation service (`delayed-confirmation-service.ts`)
- *State*: a map from transaction hash to pending transaction, a cache of block
  numbers. *Operations*: add, check cycle (every 30 s), confirm, retry, give up,
  clean up.
- *Hard*: the map is keyed by hash while a transaction may hold several
  transfers and may be found again in another block; a check holds an entry
  across two calls to the node; cycles may overlap; entries are dropped at a
  size limit; a restart empties the map.
- *Correct when*: a transfer is confirmed once, only when deep enough, and no
  entry stays for ever.

### Monitor and scanner (`monitor.ts`, `scanner.ts`, `target-manager.ts`)
- *State*: targets; for each chain lastProcessedBlock, currentBlock, range, lock,
  health; isAllChainsSynced.
- *Operations*: watch, unwatch, scan cycle (normal, recovery, without targets),
  progress, synced status, health.
- *Hard*: targets, height and blocks of one cycle belong to different moments;
  ranges are skipped when nothing is watched; progress and transfers are handed
  over without waiting for what becomes of them.
- *Correct when*: every block from the stored progress on is scanned, no
  transfer to a watched address is missed, and recovery ends.

### Chain bookkeeping (`chain-blocks.repository.ts`, `config-utils.ts`)
- *State*: `chain_blocks`, the last processed block of each chain.
- *Operations*: updateChainBlock, buildChainRangesFromDatabase.
- *Hard*: written when a block has been scanned, not when its transfers are
  confirmed; a start goes back ten blocks, and one that cannot read the table is a
  start without a past.

### Notification queue (`notification-queue.ts`, `notification-service.ts`, `notification.repository.ts`) and manager (`manager.ts`)
- *State*: `notification_logs` (pending, sending, success, failed, cancelled,
  retry_count, next_retry_at), endpoints, one loop and its workers.
- *Operations*: sendNotification, enqueue, fetch, send, record, manual retry;
  enable, disable and delete an endpoint; start, stop.
- *Hard*: a batch is sent in parallel while rows are retried by hand, cancelled
  or deleted; the catch block may throw itself; a crash in the middle of a request.
- *Correct when*: one worker sends a row at a time, a bounded number of times,
  and every row ends.

### Payment links (`payment-link.service.ts`, `manager.ts`)
- *State*: `paymentlinks` (status, archived, expires_at, inventory_total,
  _reserved, _sold), `paymentlink_orders` (status, order_id).
- *Operations*: publish, edit, archive; reserve, create the order, attach its id,
  release; sync with the order's status.
- *Hard*: counters are read and written back as absolute values; a reservation,
  its order and the outcome live in three transactions and an event.
- *Correct when*: stock is never oversold, counters and reservations agree, a
  reservation tells the outcome of its order and does not stay for ever.

### Organizations (`organization-manager.ts`, `schema.ts` of `packages/auth`)
- *State*: members and roles, ownership_transfer_requests.
- *Operations*: create and delete an organization, add, change and remove
  members, initiate, accept, reject and cancel a transfer.
- *Hard*: read, check and write are separate statements of concurrent sessions;
  a trigger and a unique index guard the owner.
- *Correct when*: there is exactly one owner, a pending transfer was asked for by
  the owner, and one that is accepted is executed.

### Not candidates
RPC manager (endpoint choice, health, rate limits: latency and availability, not
results; a later candidate, see section 6), chain adapters,
sessions and keys, shared helpers, the other HTTP routes, MCP server, tools, demo:
input/output or request-scoped statements without a protocol between actors.

## 2. Plan

| step | module | content | state |
|---|---|---|---|
| 1 | `OrderContract`, `OrderPayment` | what an order promises; how the services keep it | done |
| 2 | `OrderPaymentProofs` | type correctness, completed orders are paid | done |
| 3 | `AddressPool` | the pool between orders, deposits and operators | done |
| 4 | `NotificationQueue` | from an event to the merchant's endpoint | done |
| 5 | `ConfirmationQueue`, `DelayedConfirmation` | what the queue of confirmations promises; check cycles, cached heights, capacity, blocks that are replaced | done |
| 6 | `BlockScan` | scan cycles, progress, crash and recovery of one chain | done |
| 7 | `PaymentLink` | stock and reservations | done |
| 8 | `Organization`, `OrganizationProofs` | the owner, and transfers of ownership | done |
| 9 | `AddressPoolProofs`, `NotificationQueueProofs`, `PaymentLinkProofs`, `BlockScanProofs`, `DelayedConfirmationProofs`, `OrderClosingProofs` | every safety property of the runs for every value of the constants; the safety half of both refinements | done |
| 10 | a composition of `BlockScan` and `DelayedConfirmation` | the queue as BlockScan's set `found`, with replaced blocks in both | next |
| 11 | `RpcManager` | requests, retries, health checks and token buckets of one chain's endpoints | later |

Abstract specifications: an order (`OrderContract`, implemented by `OrderPayment`)
and a queue whose entries leave it once (`ConfirmationQueue`, implemented by
`DelayedConfirmation`).

## 3. The modules and the code

### OrderContract
What `apps/docs/en/guide/order-payment.md` promises: `Open`, `Pay` (payments of
one transaction are confirmed), `Close` (completed if paid, expired if not),
and that pending orders close. `Open` may leave an order paid at once: the API
accepts an order for nothing, and the empty sum covers it. In `OrderPayment` an
order is paid when its confirmed rows are in `Sufficient`.

### OrderPayment
| model | code |
|---|---|
| `status`, `address`, `received`, `due` | row of `orders`; `received` is confirmed_received as the set of transfers summed |
| `holder`, `cooling` | `address_pool.order_id`, cooldown_until in the future |
| `rowOrder`, `confirmed` | rows of `transfers`, is_confirmed |
| `timers`, `watched`, `queue`, `ctx`, `recording` | timers, monitor targets, pendingTransactions, business contexts, unawaited initialProcessing handlers |
| `pc`, `goal`, `total` | where a handler is and what it read; a handler is named by the order whose timer fired or the transfer that was confirmed |
| `mode`, `toRestore`, `awaiting`, `creating` | start-up, restoration loop, createOrder calls after their transaction |

A timeout handler runs `ReadAtTimeout`, `CheckTransition`, `SetStatus`,
`EmitStatusChange`, `StopMonitoring`, `ReleaseAddress`; a confirmation handler
`MarkConfirmed`, `SumConfirmed`, `UpdateReceived` and then the same five.
`HandlerFails` ends a handler at any statement, `Crash` ends all of them.

Abstractions, and what they assume:
- An amount is a set of transfers; `Sufficient[o]` are the sets that reach the
  order's amount. It must be upward closed: transfers have no negative amount.
  Rounding of floating-point sums is not represented.
- `CooldownOutlivesWork`: an address leaves its cooldown only when no handler,
  queued or unrecorded transfer of its previous order is left. The default
  cooldown is 30 minutes, a pending transaction lives for 10. A merchant may
  configure less; then the property it is needed for is not claimed.
- The grace period does not end during the call that creates the order.
- A restart is always a recovery: `chain_blocks` holds data by then. A graceful
  stop is a `Crash`: `ProcessorCore.stop` does not wait for handlers.
- Time is the order in which deadlines pass; there is no clock.
- The context of a transfer is resolved and the transfer queued in one step: what
  may happen while the code awaits the context may as well happen before the
  transaction is confirmed. A context that cannot be read is a transfer that is
  never detected.
- A pending entry with the same transaction hash may or may not survive an
  `addPendingTransaction` (it does when its check is in flight). What happens
  inside the queue is the subject of `DelayedConfirmation`.

### AddressPool
Rows as records under the table's CHECK constraint (`RowAllowed`; an `UPDATE`
it refuses changes nothing). Requests (bind, unbind, unbind by address, archive,
unarchive) are callers with a program counter; an order is open, closing (its
handlers have still to release the address, perhaps more than once) or closed.
`resting` remembers who was released less than a cooldown ago, whatever the
column says. Unbinding is three steps: `UnbindDepositAddress` looks the address up
and keeps it in `found`, `UnwatchDepositAddress` takes it from the targets,
`UnbindAddress` updates the rows of the reference. A cooldown outlives the handlers
of the order and the request that has looked the address up (minutes against one
call). `Overlap` lets requests about one reference or address run together;
`EarlyUnarchive` lets operators unarchive an address that rests. The run checks both
off, which is more than the code gives; the theorems (section 5) need neither and
name the one window in which it matters.

### NotificationQueue
The manager's `mode` (the processor starts before the notification service and
stops after it), `sendNotification` as a set of endpoints still to enqueue, the
table, the loop (`CheckQueue`, `FetchBatch`), a worker for each slot with the
retry_count it fetched, manual retries in two steps. Workers that throw go to
the catch block; a catch block that throws rejects `Promise.all`, and the loop
goes on without the rest of the batch (`EndWorker`). An enqueue that fails ends
the process (`EnqueueFails`): the service and the event bus rethrow the error as
an `error` event, no listener is registered on either, and the rejection is
unhandled. `StatementsAreQuick` says that the statements of a worker other than
the request itself are done before the next check, five seconds later. Which
due row is fetched first is left open. A failed fetch counts as an empty one.

### ConfirmationQueue and DelayedConfirmation
`ConfirmationQueue` is the promise: an entry is put in once, is confirmed at most
once or abandoned, and does not wait for ever. `DelayedConfirmation` is
`TransferEvent` and `handleTransferEvent` (`AddPendingTransaction` with the drop at the
size limit and the replacement of the entry with the same hash; `ResolveFails` when
the context cannot be read or there is none), a check cycle that starts a check of
every entry (`CheckPendingTransactions`), each check in two steps
(`GetTransactionReceipt` or its failures, then `GetCurrentBlockNumber` from cache or
node), `cleanupExpiredTransactions` with the last check of a cycle (`CheckEnds`),
the three statements of `recordTransferOnly` (`FindTransfer`, `FindAddress`,
`InsertTransfer`, and `RecordingFails` for each), and the handlers of a confirmation:
`MarkAsConfirmed`, `AnnounceDeposit`. The chain mines, and may replace its last
`ReorgDepth` blocks; the scanner finds a transaction again in its new block, which
makes a new *entry* with the same hash. A cached height lies at most `HeightLag`
behind.

The time an entry has waited is `discovered`, the number of entries added before
it; the oldest entry is the one the size limit drops, also when the new entry
replaces one and needs no room: that is what the code does, and no property says
otherwise. The mapping to `ConfirmationQueue` is `Places`: an entry is new, waiting,
confirmed or gone. `crossed` remembers transfers two cycles have checked at the same
time: `setInterval` does not wait for a cycle, and such a transfer may be confirmed
by both.

Conditions:
- `BlocksAreSlow`: no check spans more than one new block, nor the second
  discovery of its transaction. Without it a transaction that moved is
  confirmed through its old entry and again through the new one.
- `RecordingIsQuick`: a row is inserted before its transfer is confirmed.
- `ConfirmedIsDeep` needs `ReorgDepth + 2 <= Confirmations`: the height that is
  compared may be one block ahead of the receipt.
- `AnnouncedOnce` excepts, in its formula, `crossed` transfers and (`FoundLate`) those
  that moved on a chain with `Safe + 2 > Confirmations`: the scanner stays `Safe` blocks
  behind the head, and an old entry may be confirmed before the transaction is
  found again. `ethereum-mainnet` is such a chain (safe distance 3, 3 confirmations).

Left out: two transfers of one transaction (the second replaces the first, see
section 6), and `confirmationProgress`, which rewrites a number that is shown.

### BlockScan
One chain, beside others of which only is said whether they have caught up.
| model | code |
|---|---|
| `last`, `current`, `range`, `monitored`, `healthy` | chainStates, chainSettings[chain].chainRanges.startBlock |
| `others`, `synced`, `recovering` | isAllChainsSynced, ProcessorCore.isRecovering |
| `scan` | the cycle: its targets, its range, the heights or blocks it waits for |
| `stored`, `writes` | chain_blocks, and updates nobody waits for, in any order |
| `read` | the stored progress has been read, the process is not up yet |
| `found`, `settled` | payments being recorded or pending, and confirmed ones |
| `lost` | payments given up |

A cycle is `ExecuteScanCycle`, which takes the targets and the range it will act on
(`executeScanCycle` decides between recovery and normal mode before it awaits the
height), then `JumpToSafe` (no targets), `RecoveryScan` or `NormalScan`,
`ScanLatestBlocks` (the height is read again, a range of one block is left for
later), `ExecuteScanTask`; `HeightFails`, `LatestFails` and `ScanFails` are the
exceptions. One cycle follows the other in one loop, so that the lock of a chain is
always free: the takeover of a lock older than 30 s needs a second caller, and the
only one, `watch`, starts a cycle for `config.chainRanges` alone, which the processor
never sets (it sets `chainSettings`).

`Crash` forgets everything in memory. A start has two steps: `ReadProgress` is
`buildChainRangesFromDatabase` and, in recovery, the restoration of the targets;
`ReadFails` is its catch block, after which the process starts in normal mode and
restores nothing; `Start` and `StartBlind` (the height could not be read) are
`initializeState`. A chain without a row starts at block 1 if another chain has one,
and otherwise without a range.

`lost` is what the code gives up, each at the step that does it: a payment found but
not confirmed more than `Depth` blocks behind the progress a crash leaves; every
payment not confirmed yet when a process starts without a range; and payments to an
address such a process has not restored. `NothingSkipped` says that nothing else is
ever passed over.

Condition: `RequestsAreQuick` (no more than `Safe` blocks are mined while a height is
requested; otherwise an address that is bound meanwhile is missing in the targets of
a cycle that jumps over its first payment). No relation between batch, confirmations
and rescanned blocks is assumed. Addresses stay bound. Replaced blocks are the
subject of `DelayedConfirmation`.

### PaymentLink
A transaction that changes the stock gets the row (`Begin`, when no other holds it)
and writes back what it computed from the row it read (`Commit...`): with the row
lock removed, as in the faulty variant `NoRowLock`, updates are lost. A buyer's
request is `createPaymentLinkOrder`: reserve, create the order, attach its id, and
in the catch block release. Orders close as `OrderPayment` says; events reach
`syncOrderStatus` in any order and not at all while the process starts.
`reopened`: an order has closed between the moment `handlePaymentWindowTimeout` read
it as pending and the sync of that notice, so that the notice has set its reservation
back to pending; the counters and the row are never right again. `toggled`:
inventory_total has changed between NULL and a number; the counters are not kept
while it is NULL.

### Organization
Roles under the trigger `check_last_owner` (`LastOwner`) and the index
`idx_one_owner_per_organization` (`NoOtherOwner`), sessions that read, decide and
write. A transaction that is rolled back leaves everything as it was; `refused`
remembers what the trigger or the index has undone. Nothing serialises sessions: two
may answer one request, and the later write replaces the earlier one. A viewer
differs from a member in no statement that is modelled.

Each component's *faulty variants* (commented so, right before the definition they
replace) are the bugs the properties are tested against: every property of
every passing run is violated when its variant is put in place.

## 4. The runs

| run | expects | shows |
|---|---|---|
| `order_payment_crash` | pass | two orders share an address in turn, two transfers, overlapping handlers, one failed statement, one crash: completed orders are paid, confirmed_received counts only confirmed transfers of the order, a pending order holds its address |
| `order_payment_restart` | pass | one order, two transfers, two crashes: pending orders stay watched and timed, all close |
| `order_payment_serial` | pass | two orders, three transfers, no overlap, no crash: implements `OrderContract`, announcements stay true, totals never fall, addresses return |
| `order_payment_terminal` | violation | with overlap, a final status is replaced |
| `address_pool` | pass | two addresses, orders, references and callers, one restart: open orders keep their address, one address for each reference, bound addresses are watched, cooldowns are served |
| `notification_queue` | pass | two notifications and workers, one retry each way, two failed statements, switching and deleting the endpoint, one stop, one crash: one sender at a time, no row left in sending, bounded attempts, every row ends |
| `confirmation` | pass | two deposits, a transaction that may move to another block, a queue of two entries, a cached height, one cycle at a time: confirmed when deep, announced once; implements `ConfirmationQueue`, entries do not wait for ever |
| `confirmation_overlap` | pass | two cycles at a time, a queue of one entry, two failed calls: what is confirmed is announced unless a statement failed, and an entry leaves the queue once, except one that both cycles check |
| `block_scan` | pass | six blocks, two payments, one crash, one failure, also at a start: no payment is skipped but those given up, recovery covers the downtime and ends, payments are found again and again |
| `payment_link` | pass | two buyers, one or two units, an edit, one crash, one failed statement, notices that are synced late: no overselling, no row tells a wrong outcome; but for reopened reservations counters and rows agree and reservations end |
| `organization` | pass | three users, two sessions, two transfers: one owner at any time, a pending transfer was asked for by the owner |
| `organization_transfer` | violation | a transfer to another user, accepted in time, is not executed |

The violations are disagreements between documentation or comments and code found
while modelling; each passing run states under which restriction the promise
does hold.

**Bounds.** Two orders and one address are the least with a previous and a next
owner; two transfers the least with a stale and a fresh sum; three let one
order need two and the other be paid as well. One failed statement reaches every
handler at every step. Two crashes reach a crash during recovery from a crash.
Two workers and two rows are the least for a batch that one worker leaves by
rejecting while the other goes on; a rejection on a row that survives takes two
failed statements. `MaxCrashes`, `MaxFailures`, `MaxStops`, `MaxManual`,
`MayCrash` and `MaxRetries` are the only bounds; nothing else is cut off. Symmetry
is used for orders and transfers (`order_payment_crash`) and in `address_pool`,
where all properties are of states or single steps; runs with liveness use none.
`CHECK_DEADLOCK FALSE` throughout: when all orders are closed, or every bound is
used up, these systems rightly rest.

Of the newer runs: `confirmation` has the least capacity at which an addition both
drops the oldest entry and replaces its own hash, and the least chain on which a
transaction moves after it was found and still gets four confirmations.
`confirmation_overlap` has room for one, so that an entry one cycle is checking is
dropped before the next cycle begins. In `block_scan` a batch and the blocks scanned
again are two each and confirmations are three, so that a crash does give payments
up; six blocks hold a bind, a payment, a crash, a recovery of more than one batch and
its end. Two buyers and one unit are the
least for a race for the last unit, two units for two reservations at a time. Two
sessions and two requests are the least for answers that interleave with another
transfer. `MaxHeight`, `MaxPayments`, `MaxReorgs`, `MaxErrors`, `MaxEdits`,
`MaxRequests`, `MaxCrashes`, `MaxFailures` and `Moving` are the bounds.

**Conditional properties.** `SendingHasSender` and `EveryNotificationEnds` hold
until the process dies or a second statement fails: after either, the code has
nothing that takes up a row in `sending`. `OneSender` is stated of rows nobody
has retried by hand: a manual retry that arrives late makes a row pending while
it is being sent. `PendingIsAttended` and `EveryOrderCloses` are checked without
failing statements: a timeout handler that fails is not started again before the
next restart. `ConfirmedIsAnnounced`, `ReservationEnds`, `CountersMatchRows` and
`NoOversell` say in their formulas which failures they except; `PaymentsAreFound` and
`RecoveryEnds` except a chain whose height could not be read (`Blind`), because the
code never scans it again, and `RecoveryEnds` other chains that never catch up. The constants named in
section 3 (`BlocksAreSlow`, `RecordingIsQuick`, `RequestsAreQuick`, `Overlap`,
`EarlyUnarchive`) are what the code relies on without enforcing it; with
the other value the properties named there are violated. `AnnouncedOnce`,
`LeavesOnce`, `NothingSkipped` and `PaymentsAreFound` say in their formulas what the
code gives up.

**Fairness.** `OrderPayment`: a statement that was
awaited returns and its handler goes on, armed timers fire, deadlines pass,
createOrder goes on after its transaction, a supervisor restarts the process.
Nothing is assumed of customers, chains and confirmations. `NotificationQueue`:
the process starts again, statements and requests return (a request has a
timeout), the loop's timer fires, retries come due. Nobody has to publish, retry,
stop the service or touch an endpoint. `DelayedConfirmation`: cycles start while
something waits, calls return, the pending time passes; the chain need not grow.
`BlockScan`: the loop goes on and its requests are answered, checks confirm what can
be confirmed, the process is started again; blocks, payments and other chains are
free. `PaymentLink`: statements return and orders close (`EveryOrderCloses`); strong
fairness is assumed of the one thing that competes, getting a row lock that is
free again and again, to release a unit or to sync an outcome (PostgreSQL queues its
waiters); nothing is assumed of notices. `Organization` claims no
liveness. Everywhere else fairness is weak.

## 5. The proofs

`OrderPaymentProofs`, for any number of orders, addresses, transfers, crashes and
failed statements, with and without overlap:

- `TypeCorrect`: `Spec => []TypeOK`. `TypeOK` is inductive because it also says
  that a handler in flight has an order with a row (`JobHasAddress`), so that
  `address[job(w)]` is an address.
- `PaidBeforeCompleted`: `Spec => []CompletedIsPaid`.
- `ReceivedOnlyConfirmed`: `Spec => []ReceivedIsConfirmed`.

`CompletedIsPaid` is not inductive: a handler writes `completed` long after it
decided, on a sum it took even earlier. The invariant `PaidInv` follows the
evidence through the handlers: `confirmed_received` and every sum a handler
carries are subsets of the order's confirmed rows; a handler whose goal is
`completed` and which is past its decision belongs to an order whose confirmed
rows suffice. It is preserved because rows, once inserted, keep their order and
once confirmed stay so (`RowsGrow`), a transfer's context does not change while
its handler runs (`ContextStays`), and `Sufficient` is upward closed. For each
part a lemma says where a changed value can come from (`SumSteps`,
`ReceivedSteps`, `GoalSteps`, `StatusSteps`); the induction step only combines them.
Used assumptions: `SetsDisjoint`, `ConstantTypes`, `SufficientIsUpwardClosed`.

`OrganizationProofs`, for any number of users, sessions and requests:

- `TypeCorrect`: `Spec => []TypeOK`.
- `ExactlyOneOwner`: `Spec => []OneOwner`, also when sessions overlap.
- `OwnersAsk`: `Spec => []AskedByOwner`.
- `NoTransferCompletes`: no request is ever completed; the finding of
  `organization_transfer` is not an accident of one trace.

`OneOwner` counts; the invariant `OwnerInv` says instead that the set of owners is a
singleton, and that without an organization nobody has a role, which the creation
needs. What trigger and index permit keeps it (`PermittedKeepsOwner`); an accepted
transfer is refused by one of them or changes no owner (`AcceptKeepsOwner`); for the
same reason a deletion is always refused (`DeletionIsRefused`). For the
requests, `AskInv` says that whoever has passed the check of the owner and has not
inserted yet, and whoever a pending request names, is the owner; that requests to
come are empty; and that none is completed. Used assumption: `OrganizationTypes`.

`AddressPoolProofs`, for any number of addresses, orders, references and callers:

- `TypeCorrect`: `Spec => []TypeOK`, with any interleaving.
- `OneAddress`, `OpenOrderKeepsAddress`, `CooldownServed` and `BoundAreWatched`, also
  with any interleaving: requests about the same thing overlap and operators
  unarchive what they like. Each is about one reference or address and names the
  one thing that breaks it. `BindsApart(r)`: no two binds of the reference are both
  between lookup and update. `RestsUndisturbed(a)`: no request is about to unarchive
  this address while it rests. The theorems say `Spec /\ []BindsApart(r) => ...` and
  `Spec /\ []RestsUndisturbed(a) => ...`, so a behaviour that breaks the promise has
  gone through exactly that window, and nothing else leads there: no late handler, no
  stale lookup, no other overlap, no restart.
- The updates select rows by address alone, so an open order is safe only because
  whoever may still write is known: `PoolInv(a)` says that a resting address is
  nobody's and cooling, that what the late handlers of a closed order still release
  is that order's or rests, and that whoever has looked an address up to unwatch it
  still means its owner, or the address rests. `BindingInv(r)` says that while a
  request is about to bind the reference it is bound nowhere.

`NotificationQueueProofs`, for any number of events, endpoints, workers, retries,
stops and failures:

- `TypeCorrect`; `SendingIsAttended`, without a condition. `SendingInv` adds that a
  worker throws for one of three reasons, and what a graceful stop leaves behind.
- `OneSenderAtMost`, under `StatementsAreQuick`. `SenderInv` says that whoever sends
  has claimed its row and that a fetch in progress finds only rows of nobody.
- `AttemptsStayBounded`, under `StatementsAreQuick`. The bound is a sum over the
  workers of a row, and sums over sets of unknown size are induction; `OwedBy`
  makes it the size of a set instead, one pair for each worker and each request
  it may still send. `BudgetInv` says that what was sent, what claimed workers
  owe, what a manual retry holds in hand and what the row promises (`left`) are
  never more than `allowed`; and the same with the retry_count an unclaimed worker
  has read in place of what the row promises, because the row may have been reset
  meanwhile. A claim turns the promise into debt, a recorded retry turns it back,
  a request pays one off. Two unclaimed workers never have one row
  (`ClaimsDiffer`); without the condition they do, and both send.

`PaymentLinkProofs`, for any number of buyers, edits, crashes and failures:

- `TypeCorrect`, without a condition: the lock of the row makes every
  read-modify-write see what it overwrites (`LockInv`).
- `CountersMatch`, without a condition but the one in the formula (`reopened`).
  `LinkInv` joins three invariants: a row
  belongs to its request until that has ended (`RequestInv`), every event in flight is
  true of its order (`OutcomeInv`), and the counters are the sizes of the sets of
  reservations.
- `RowsTellOutcome`, without a condition: a late notice puts `pending` into a row,
  and `OutcomeInv` follows every other event.
- `NeverOversold`, without a condition. After a late notice the counters do not count
  the rows any more, but `UnitInv` says that each order the property counts has a
  unit the stock counts, and that the counters are never below those; the table
  keeps their sum below the total. Used besides the types: `NothingIsNoStock`.

`BlockScanProofs`, for any height, batch, depth and number of payments:

- `TypeCorrect`, and `RecoveryCompletes` (`[]RecoveryIsComplete`), without a condition.
- `NoPaymentSkipped` (`[]NothingSkipped`), under `RequestsAreQuick` alone. `ScanInv`
  contains `CycleInv`: a cycle without targets began before any payment that is not
  given up, and its heights are at most `Safe` blocks old; `OpenIsWatched`: a process
  that does not watch the address has no open payment; and, across a crash,
  `RestartReaches` and `ReadGoesBack`: whatever progress is stored or being stored, a
  start goes back far enough for every open payment.

`DelayedConfirmationProofs`, for any number of transfers, capacity, retries and
blocks that are replaced:

- `TypeCorrect`, with `TypeInv`: the times of entries differ, what has been found is
  recorded or staged, what waits has been added.
- `DeepWhenConfirmed`, under `DepthCoversReorgs` (`BlocksAreSlow` and
  `ReorgDepth + 2 <= Confirmations`). `LookInv` relates what a check remembers of the
  receipt to the chain while it waits for the height.
- `DeepIsAnnounced`, under `RecordingIsQuick`.
- `QueueIsKept`: `Spec => LeavesOnce`, without a condition and for any number of
  overlapping cycles. `CheckedRest` is needed: an entry with a check in flight has
  been confirmed only if its transfer is in `crossed`.
- `OneAnnouncement`, under `DepthCoversReorgs`, for any overlap and any safe distance.
  `SettledInv` says that once an entry of a transfer that is not excepted is
  confirmed, its transaction is deep and where it was found, and no other entry of
  its hash waits, is checked or is confirmed.

`OrderClosingProofs`, on top of `OrderPaymentProofs`:

- `PendingKeepsAddress`, under `CooldownOutlivesWork`, with overlap, failures and
  crashes. `HoldInv` follows the work of every order (timers, watched addresses,
  queued transfers, handlers): work left over from a closed order keeps the address
  cooling, so no late release hits the next owner.
- `PendingStaysAttended`, under `CooldownOutlivesWork` and without failing statements:
  `AttendInv`, while orders are restored one by one after a crash.
- `FinalStaysFinal` and `ReceivedOnlyGrows`, with any overlap of handlers, failures and
  crashes. Neither promise is kept by the code in every behaviour; the theorems are
  about one order and say which window breaks it. `ChecksApart(o)`: no two handlers
  of the order are between the check of the transition and the `UPDATE`. Under
  `[]ChecksApart(o)` a final status stays and no other outcome has been announced;
  `order_payment_terminal` is a way through that window, and by the theorem the only
  kind there is. `SumsApart(o)`: no two confirmations of the order are between the
  sum and the `UPDATE`. The invariants are `WritesOnce(o)` (who is about to write has
  seen the order pending, and it still is) and `SumIsFresh(o)` (the sum a handler is
  about to write contains what is written).

The conditions are hypotheses of the theorems: on Boolean or numeric constants, where
both values are states the models can be run in and the properties that fail with
the other value are named in section 4, or on the behaviour (`[]ChecksApart(o)` and the
like). They stand for what the code leaves to configuration and timing, and none is
assumed by the models themselves. Used assumptions, all evaluated by TLC in every
run: the types of the constants (`ConstantTypes`, `StockTypes`, `ScanTypes`,
`ConfirmationTypes`, with a positive `MaxHeight`, larger than `Safe` in `BlockScan`),
`SetsDisjoint`, `SufficientIsUpwardClosed`, `NothingIsNoStock`. Every inductive
invariant was checked by TLC on the run of its component before it was proved.

Only model-checked: liveness (`EveryOrderCloses`, `AddressReturns`,
`EveryNotificationEnds`, `ReservationEnds`, `PaymentsAreFound`, `RecoveryEnds` and the
fairness parts of `KeepsContract` and `KeepsQueue`), because it needs `ENABLED` and
fairness, which are out of the prover's reach; and the step simulation of
`OrderContract` (`KeepsContract`), which the code keeps only without overlap, crash and
failure. No module that is proved about declares a RECURSIVE operator.

## 6. What the code does not promise, and what is not modelled

Met while modelling, true of the code, and no run of their own:
- A crash between the update of an order's status and the release leaves its
  address allocated for good (`address-management.md:53`).
- A transaction that pays two orders, or makes two deposits: the second event
  replaces the first in the queue, and the first is never confirmed. A
  replacement at the size limit drops an entry it needs no room for
  (`delayed-confirmation-service.ts:180`).
- Two bind requests for one reference that overlap bind two addresses; archiving
  and unarchiving an address skips its cooldown.
- What restoration announces has no subscriber; an order that closes then leaves
  its reservation pending and its unit reserved. So does a crash between
  reservation and order.
- `attachOrderId` may fail after the order was created: the reservation is
  deleted, the order stays payable.
- retryCount counts failures over the whole wait and is never reset; entries older
  than ten minutes are dropped, whatever the depth their chain requires; check
  cycles that overlap may confirm an entry twice (the event's id is the same).
- The notice of the end of the payment window may set a closed reservation back to
  pending; its unit then counts as reserved again.
- A chain whose height cannot be read at the start is not monitored until the next
  restart, one whose height cannot be read in a cycle is never scanned again; in
  recovery, orders and bindings stay refused. `chainTargetReached` is never
  emitted for ranges from the database.
- With batchSize 1 normal mode makes no progress, because a range of one block
  counts as empty. A chain without a row starts at block 1 when another has one.
- A database error while the ranges are built makes a start a normal one: the
  downtime is not scanned and no target is restored. Nor is an existing binding
  watched when it is asked for again: its payments are lost until the next restart.
- Every restart goes back ten blocks: deposits there may be announced again.
- Tron requires 20 confirmations and Solana 32 (`chain-utils.ts:23,28`), a start goes
  back ten blocks: a crash gives up the payments found earlier than that and not yet
  confirmed. With batches larger than ten blocks (`manager.mainnet.yaml` sets 25 to 100
  on most chains) a crash during recovery may give up one found early in its batch.
  The confirmations of that file (12 to 128) are configured but never read by
  `handleTransferEvent`, which asks `ChainUtils`.
- On `ethereum-mainnet` the scanner stays 3 blocks behind the head and 3 confirmations
  are asked for: a transaction that moves to another block may be confirmed through
  its old entry and be found, and announced, again.
- No transfer of ownership succeeds and no organization with an owner can be
  deleted. The mark of an expired request is rolled back with the exception, so it
  stays pending and blocks further ones until it is rejected or cancelled; two
  initiations at a time may leave two pending, two answers to one request the later
  one.
- Read in `rpc-manager.ts`, which has no module: `docs/self-hosting/configuration.md:59`
  says an endpoint is marked unhealthy only after `maxFailures` failures in a row,
  which is so for health checks; a request marks it at its first network error
  (line 182), and only a health check brings it back. A request whose last
  endpoint goes that way fails at once, with retries left. After one wait for a
  token a request goes out with or without one (`rate-limiter.ts:36`), so requests
  that wait together exceed the rate.

Not modelled: `cancelOrder` has no caller. Amount arithmetic, formatting, RPC,
authentication and email are left to tests. Of notifications, creating endpoints
and test events are left out; of payment links, slugs and currencies; of the
monitor, unwatching, statistics and ranges with an end block; of organizations,
names and audit rows. The HTTP layer appears only where its requests are the
callers of a model.

## 7. Running

    tlc -workers 2 -config order_payment_crash.cfg MCOrderPayment   # and so on
    tlapm OrderPaymentProofs.tla
    tlapm OrderClosingProofs.tla
    tlapm AddressPoolProofs.tla
    tlapm NotificationQueueProofs.tla
    tlapm PaymentLinkProofs.tla
    tlapm BlockScanProofs.tla
    tlapm DelayedConfirmationProofs.tla
    tlapm OrganizationProofs.tla

`PROJECT.json` maps every definition to its source lines and lists components,
runs, faulty variants, findings, hazards and theorems.
