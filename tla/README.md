# A formal model of rrelayer

rrelayer is a service that sends EVM transactions on behalf of *relayers*: accounts
whose keys it holds.  A client posts a transaction; rrelayer gives it a nonce, saves
it, signs and broadcasts it, raises its gas price until it is mined, confirms it, and
can cancel or replace it on the way.  This directory holds TLA+ specifications of the
service, configurations that check them with TLC, and proofs checked by TLAPS.  Paths
below are relative to `src/crates/core/src/` unless they start with `documentation/`
(`src/documentation/rrelayer/docs/pages/`).

## 1. Inventory

### 1.1 Components

| component | code | state | operations | model |
|---|---|---|---|---|
| transaction queue of a relayer | `transaction/queue_system/transactions_queue.rs`, `transactions_queues.rs`, `types/competitive_transaction.rs` | three deques: pending, in-mempool (with contests between an original and its rival), mined | add, cancel, replace; one loop per deque: send, bump gas, read receipts, confirm; recovery from a nonce conflict, close-out of a rejected transaction | `RelayerQueue` |
| nonce manager | `transaction/nonce_manager.rs` | the next free nonce | synchronise, get and increment, release, advance, read | `NonceManager` |
| startup and crash recovery | `transaction/queue_system/start.rs`, `attempts.rs` | none of its own | repair of poisoned rows, of recorded attempts and of absent ones; rebuilding of queues and nonce manager; spawning of the loops | `RelayerQueue` |
| transaction store | `transaction/db/write.rs`, `read.rs` | `relayer.transaction`, its audit log | one commit per statement; the broadcast attempt is audited in the commit that writes its row | `RelayerQueue` |
| transaction lifecycle | `transaction/types/transaction_status.rs` | a transaction's status | — | `TransactionLifecycle` |
| EVM node and network | `provider/evm_provider.rs` (client side) | pool, chain | send, pending count, transaction lookup, receipt | `EvmNode` |
| admission idempotency | `transaction/db/admission.rs`, `transaction/api/*`, `signing/api/*` | unique `external_id` with a digest | send, cancel, replace, sign; answer a retry with the same row | `Requests` |
| rate limiter | `rate_limiting/*` | windows per rule and caller | check, charge, commit, give back | `RateLimiter` |
| shutdown coordinator | `shutdown.rs` | a flag, a counter of operations, a notification | enter, leave, request, wait with a timeout | `Shutdown` |
| webhook delivery | `webhooks/manager.rs`, `webhooks/sender.rs`, `background_tasks/webhook_manager_task.rs` | map of pending deliveries with attempts and next time, history table | report, send rounds, retry with backoff, sweep | `Webhooks` |
| relayer management, wallet indexes, relayer cache | `relayer/*`, `shared/cache.rs` | rows, queues' settings, cached relayers | create, clone, import, delete, pause, change | `Relayers` |
| automatic top up, cron jobs | `background_tasks/automatic_top_up_task.rs`, `cron_job_task.rs` | relayer cache, due times, `cron_job_state` | check balances and transfer, run when due | `Schedules` |
| signing and wallets | `wallet/*`, `provider/mod.rs` | what each provider holds, what each manager remembers | find or make a key, import, clone, sign | `Wallets` |
| gas pricing | `gas/*`, `compute_gas_price_for_transaction` and its blob twin | cached prices per chain | refresh, price, escalate, bump, cap | `GasPricing` |
| balance monitor | `background_tasks/balance_monitor.rs` | — | raise a low balance | an event of `Webhooks` |
| transaction cache, authentication, policies, permissions, Safe proxy | `transaction/cache.rs`, `app_state.rs`, `policy/*`, `authentication/*`, `safe_proxy.rs` | configuration | predicates, encodings | not modelled |
| server, CLI, SDKs, tests | `startup.rs`, `yaml.rs`, `src/crates/cli`, `src/crates/sdk`, `src/crates/e2e-tests` | — | routing, parsing | not modelled |

`PROJECT.json` lists the same components with their status.

### 1.2 How they interact

The HTTP handlers and the three loops of every relayer share one `TransactionsQueues`
behind a `tokio::sync::Mutex`.  A handler or a loop takes it, does everything it does
(database statements, RPC calls, changes of the deques) and lets it go, so **operations
of a relayer never interleave with each other**.  What does interleave with an operation,
at every `await` in it, is the rest of the world: the node mines, forgets or refuses, an
answer gets lost, a statement fails, a deadline passes, another holder of the key sends
a transaction, and the process dies.  Memory is then rebuilt from the table and the chain.

In front of that mutex, a request has passed the limiter (a lock per counter) and may have
looked its relayer up in a cache; behind it, the queue asks a wallet manager (a map with a
lock per network) for a signature and an oracle (a mutex per read) for a price, and tells
the webhook manager (a mutex) what happened.  None of these locks spans the steps of the
others.  A handler is a future that hyper drops when its client hangs up, at any await.
The background tasks are clients of the same `add_transaction`.

### 1.3 What is hard

* **Write-ahead.** `persist_and_broadcast` makes the hash of an attempt durable before
  any byte reaches an RPC endpoint.  Everything that recovers from a lost answer or a
  crash relies on that.
* **Two sources of nonces.** The nonce manager counts, the chain counts, rows hold
  nonces; they are reconciled at admission, in conflict recovery and at startup.
* **Ambiguous answers.** "nonce too low" may mean that another user of the key took the
  nonce, or that an earlier attempt of this very transaction was mined.
* **Memory before the table and the table before memory.** Both orders occur, and each
  step can fail alone.
* **Contests.** Two rows share one nonce; the link between them is in one row only.
* **Deadlines.** A transaction that expires is sent as an empty one, possibly after
  its payload has been broadcast.
* **Check, then charge.** The limiter looks at its counters and charges them under
  different locks and with a clock read before each; what it charged must come back when
  the request does nothing.
* **Copies written back.** Webhook rounds work on copies and write them over the map.
* **Caches.** A relayer, a signer and a price are each read at one moment and used at
  another.
* **Fixed external ids.** The background tasks rely on the idempotency of admission.

### 1.4 What makes each component correct

* queue: no two unrelated transactions share a nonce; no payload takes effect twice;
  a status never contradicts the chain and a final one is never left; everything open
  in the table is in memory; everything admitted is settled.
* nonce manager: what it hands out is held by nobody, and it leaves no gap.
* startup: a restart loses nothing, and nothing that may still be mined loses its nonce.
* store: a row's hash is recorded before it is used; no commit takes a status back.
* admission: one request, one transaction, and one answer; it costs what it did.
* rate limiter: what was granted in a window does not exceed its limit by more than the
  requests in flight.
* shutdown: no operation runs once the wait has returned; the wait returns.
* webhooks: a delivery is taken by its endpoint or tried `max_retries` times, and one
  round does not undo another's bookkeeping.
* relayers: wallet indexes are unique, queues follow rows, caches follow both.
* schedules: runs are an interval apart, restarts do not postpone them, what is on its way
  is not sent again.
* wallets: a relayer signs with the key whose address its row holds; every call returns.
* gas pricing: bids rise, stay under the cap, and get the transaction mined.

`PROJECT.json` lists, under `hazards`, the places where this code can go wrong in a way
a test would hardly reach, each with the properties that cover it or why none does.

## 2. The modules

| module | what it is |
|---|---|
| `EvmNode` | the account's chain, the node's pool, the answers to `eth_sendRawTransaction`, what the network does on its own (external to the repository; modelled from how the code interprets it) |
| `NonceManager` | the five operations of the counter, as functions |
| `RelayerQueue` | the queue of one relayer: API, loops, store, crash and startup. The core module |
| `TransactionLifecycle` | the abstract specification: what a client of the API is promised about a transaction |
| `RelayerQueueProperties` | the safety, action and liveness properties, the refinement mapping, the fairness |
| `RelayerQueueProofs` | theorems about `RelayerQueue`: types, the write-ahead rule, the nonce manager, the entries memory holds for the rows, final statuses |
| `RelayerQueueRowsProofs` | extends it: theorems about nonces, payloads, contests, live broadcasts, the rows memory holds, and the refinement of `TransactionLifecycle` |
| `Shutdown`, `ShutdownProofs` | the shutdown coordinator, the loops and requests it drains; theorems about it |
| `RateLimiter` | the three counters, one lock at a time |
| `Requests` | extends `RateLimiter`: the handlers that change something, from their checks through the limiter to the admission of a transaction |
| `RequestsProofs` | theorems about the limiter, alone and within `Requests`, about the idempotency of admission, its nonces and what a request is charged |
| `Webhooks`, `WebhooksProofs` | reports, rounds, the background task, the history table; theorems |
| `Relayers`, `RelayersProofs` | rows, queues, cache and requests of the relayer management; theorems |
| `Schedules`, `SchedulesProofs` | cron jobs and top-ups, as clients of `add_transaction`; theorems |
| `Wallets` | the seven wallet managers |
| `GasPricing`, `GasPricingProofs` | oracles, bids, and the node and market they meet; theorems |
| `MC...` | instances for TLC |

`Requests` models how a row comes to be `PENDING` and stops there; `RelayerQueue` starts
from an admission that is one step (`Admit`) and goes on.  `Schedules` sees a transaction
only as the status of its row.  `GasPricing` gives what `RelayerQueue` takes for granted of
a price, that it rises to a cap.

### 2.1 From the code to RelayerQueue

An operation is cut at its awaits.  `op` is the operation in flight: its stage (`at`),
what it is for (`kind`: a pending send, a gas bump, a cancellation, a replacement) and
the copy of the transaction it carries.  There is at most one, because of the mutex.

| code | actions |
|---|---|
| `add_transaction` | `Admit`, `AdmitUnestimable` (the gas estimate is refused), `AdmitUnsaved` (the row is not saved, the nonce is released) |
| `cancel_transaction`, `replace_transaction` on a pending transaction | `CancelPending`, `ReplacePending` |
| the same on an in-mempool transaction | `CancelInmempool`, `ReplaceInmempool`, then `Deliver`, `MarkRivalSent`, `LinkRival` |
| `process_single_pending` | `SendPending` or `EstimateRejects`, then `Deliver`, then one of `MarkPendingSent`, `CloseOut`, `AdoptLanded`, `ReassignPending` |
| `process_single_inmempool` | `ResolveReceipt` (and `SettleLoser` when a contest is decided), or `BumpGas`, `Deliver`, then one of `MarkBumpSent`, `ConflictMined`, `ReassignInmempool` |
| `process_single_mined` | `Confirm` |
| `persist_and_broadcast` | `Send` (price, expiry, signature, record) and `Deliver` (the answer) |
| an error from a statement or a query | `StepFails`, `ResolveReceiptUnsaved`, `AdmitUnsaved` |
| `startup_transactions_queues` | `RepairPoisoned`, `RepairAttempts`, `LoadQueues` |
| a repair that fails: the relayer is skipped (`start.rs:719-752`) | `PoisonedUnrepaired`, `AttemptsUnrepaired` |
| rows or a nonce that cannot be read: the whole startup ends (`start.rs:754-801`) | `LoadFails` |
| the process is started again by its operator | `StartAgain` |
| a crash, or a shutdown that drops the future in flight | `Crash` |
| `has_expired` | `Expire` moves the clock past one deadline |
| the network | `Network` |

State: `pendq`, `inq`, `minedq` are the three deques, `nm` the nonce manager's counter,
`db` the rows and `audit` the recorded attempts; `boot` tells how far the process has
started, and is `"offline"` for a relayer that the startup has skipped.  `moved` is a
history variable: the ids whose nonce the in-mempool loop has reassigned.  `expired` is the clock.

What is abstracted, and why it is sound for the properties:

* A signed transaction is its nonce, payload and gas price, which is what its hash
  depends on.  A payload is the id of the transaction whose call it carries, or `Noop`
  for `transaction_to_noop`.  Calldata, addresses, value and chain id are not looked at
  by any decision modelled here.
* A price is a number: the steps of the oracle are the set `Quotes`, the cap is `MaxGas`.
  `compute_gas_price_for_transaction` is reduced to its shape, strictly above the last
  price until the cap.  A bump that the code skips because the network is above the
  user's cap changes nothing and is a stutter.  `GasPricing` has the computation, and its
  `BidsRise` is that shape.
* Rivals compete only with transactions that are not rivals, and a rival's id doubles
  as its payload.
* The node keeps one transaction per nonce and replaces it by a better paid one.  A
  transaction that it forgets (`stray`) may still be mined by another node while the
  budget has a `late` inclusion.
* `SettleLoser`, `LinkRival` and `MarkRivalSent` are separate steps because the code
  commits separately.  `Confirm` reads the confirmation depth as "deep enough".
* A failed repair is one that failed after any part of the landed attempts were recovered, each
  in its own commit; the absent ones fail together in the last.  Its other errors (a row
  whose attempts are missing, a row that changed meanwhile) cannot arise from the states modelled.
* Ids in rows are never reused; deletion of relayers, pause (a relayer that no loop
  serves for a while, which is a relayer whose loops are slow) and the Safe proxy are
  left out; `Relayers` has the former two, and `GasPricing` has prices, those of blobs
  included.

### 2.2 Faults and their budget

`Budgets` is a set of budgets; a behaviour starts with one of them, which gives each fault
a number of strikes.  It is the bound of every run of the queue.

| fault | effect |
|---|---|
| `crash` | the process stops between two awaits, memory is lost |
| `db` | a statement fails and changes nothing |
| `rpc` | the answer to a send is lost after the node took it, or the send never arrives, or a query of a conflict's recovery or of a startup fails |
| `reject` | the gas estimate or the node refuses the payload |
| `revert` | a mined transaction reverts |
| `external` | another holder of the key takes the next nonce |
| `evict` | the pool forgets a transaction |
| `late` | a transaction our node forgot is mined |
| `expire` | a deadline passes |

### 2.3 From the code to Shutdown

`RelayerQueue` treats an operation as a sequence of awaits and a shutdown as a crash.
`Shutdown` looks at what that leaves open: the coordinator is used from several threads,
so each load and each store of it is an action, and an operation is one state.

| code | actions |
|---|---|
| a loop of `start.rs`: subscribe, take the mutex, process, sleep | `Subscribe`, `Acquire`, `NothingToDo` or an operation, `WakeUp` |
| a cancel or replace request | `Arrive`, `Acquire`, the same, `HangUp` |
| `enter_operation` | `PassCheck` (load of the flag), then `Enter` (increment); `Refuse` |
| `OperationGuard::drop`, `exit_operation` | `Finish` or `DropFuture` (decrement), then `NotifyWaiters`, then `Unlock` |
| the loop's `select!` on the signal | `Hear` |
| `request_shutdown` | `RaiseFlag`, `SendSignal`, `SeeNone`, `SeeSome`, `Register`, `TimeOut` |

`pc` says where each worker is, and who holds the mutex follows from it.  A worker may be
dropped where it awaits: while it waits for the mutex, while it looks for something to
do, and inside its operation.  Between the check and the increment, and between the
decrement and the release of the mutex, there is no await, only other threads.  The flag
and the counter are read with relaxed ordering; a stale read is an earlier read, which
the interleavings contain.  The other listeners (oracles, webhooks, cron jobs, the Unix
socket) hold no guard and are left out.

### 2.4 From the code to RateLimiter and Requests

A request has a slot in the limiter; `slot` says where `check_and_reserve` is with it and
which scopes are left.  The mutex of a scope is held for one action.

| code (`rate_limiting/rate_limiter.rs`) | actions of `RateLimiter` |
|---|---|
| `check_and_reserve` | `Begin`, a `Check` per scope, `Exceed` or a `Charge` per scope |
| `RateLimitReservation::commit` | `Commit` |
| `Drop` of a reservation, and the task it spawns | `DropReservation`, a `Revert` per scope |
| a handler dropped between two locks of `check_and_reserve` | `Abandon` |
| the clock, read before each lock | `Tick`; a `Check`, a `Charge` and a `Revert` use a time up to now |

| code | actions of `Requests` |
|---|---|
| a handler of `transaction/api/*`, `signing/api/*` | `Arrive`, `Refuse` (authentication, policies, permissions, pause), `HangUp` |
| `find_admitted_transaction` before the limiter | `FindStored` |
| `check_and_reserve_rate_limit` | `EnterLimiter`, the limiter's actions, `Limited`, `GiveBack` |
| `convert_blob_strings_to_blobs` | `BadBlobs` |
| the queues' mutex | `Lock` |
| `add_transaction` | `AnswerStored`, `Prepare` or `AdmitFails`, `EstimationFails` or `Reserve`, `Saved`, `Beaten` or `SaveFails`, `Push` |
| a statement whose answer nobody waits for | `Settle` |
| cancel, replace | `EditDone`, `EditFails` |
| the signing endpoints | `Signed`, `SignFails` |

Each action is what runs between two awaits.  `row`, `queued`, `nonce` and `next` are the
table, the deque and the counter as admission sees them; `answer` and `counted` are
histories: what a client was told, and whose charge a counter contains.  What a
cancellation does to its transaction is `RelayerQueue`'s.  A digest is a model value; two
requests under one external id have the same digest when they ask for the same thing.

### 2.5 From the code to Webhooks

| code (`webhooks/manager.rs` and its task) | actions |
|---|---|
| `update_network_names` | `NameNetworks` |
| `queue_webhook` and the round it spawns | `Report` (waits for the mutex), `Queue`, `Start`, `WriteBack` |
| `process_ready_deliveries`: copies, sends, history | `LogInitial`, `Post`, `LogOutcome` for each copy |
| the task's three `try_lock`s of one round | `Pick`, `Take` and `Release`, `TaskWriteBack` |
| `cleanup_webhook_deliveries` | `Sweep` |
| `next_retry_at` | `Due` |
| the end of the process | `Stop` |

`pending` is the manager's map, `copies` what a round works on, `record` the row in
`delivery_history`.  A delivery is an event for an endpoint; `accepted` and `refused` are
what the endpoint did.  Backoff is a set: how long a delivery waits does not matter, only
that it waits.

### 2.6 From the code to Relayers

| code (`relayer/api/*`, `relayer/db/*`, `shared/cache.rs`) | actions |
|---|---|
| a handler | `Arrive`, `HangUp` (at any await) |
| a statement under way when its handler was dropped | `Land`, at any later time or never |
| `import_relayer`'s search for the address | `CheckDuplicate` |
| `relayer_creation_mutex` | `Lock` |
| `create_relayer`, `import_relayer`, `clone_relayer` in the table | `Allocate` or `ReadSource`, `CannotSign`, `Insert`, `ReadBack` |
| `start_relayer_queue` | `StartQueue`, `NoNonce` |
| deletion and the changes of settings | `Exists`, `Fill`, `Update`, `Forget`, `ChangeQueue` |
| `get_relayer` and its cache | `Read`, `SetCached`, `Expire` |
| a restart | `Restart` |

Settings are `paused`, `eip_1559_enabled` and `max_gas_price_cap`, which a queue keeps
under other names; allowlists, API keys and names decide nothing here.  A dropped handler
frees `relayer_creation_mutex` at once, but the INSERT, the COMMIT or the UPDATE it had sent is
`late`: it takes effect at any later time, also after the next holder has read MAX + 1 or
another request has invalidated the cache.  Only a creation's advisory lock outlives its handler (`Allocate`).

`Restart` gives no queue to any set of relayers it skips: those without a provider, because
their network is no longer configured (`start.rs:710`), and those whose repair fails
(`start.rs:719`, `start.rs:744`).  A startup that ends with an error is another restart.

Five histories serve the properties: `raced`, the relayers whose cache was invalidated while a look-up
carried their row; `abandoned`, those changed by a handler that ended before it could
invalidate; `unsettled`, those on which requests overlapped, were cut off half way or landed
late; `unstarted`, those whose queue was not started; `overtaken`, the requests whose index a
late INSERT took after they had read it.

### 2.7 From the code to Schedules

| code | actions |
|---|---|
| `next_cron_job_delay`, `run_on_startup` | `StartJob` |
| `enqueue_cron_job_transaction` | `RunJob` |
| `mark_cron_job_ran` | `Mark` |
| `refresh_relayer_cache` | `Refresh` |
| `check_and_top_up_addresses` up to the transfer | `Check` |
| `send_native_top_up_transaction`, its ERC-20 twin | `Transfer`, once per address of the round |
| the rest of the server | `Settle`, `Spend`, `Delete`, `Pause`, `Boot`, `Stop`, `Tick` |

A transaction is the status of the row that has the external id.  Balances are "below
`min_balance`" or not, and whether the payer can afford a round is the choice of a round
that does not start.

### 2.8 From the code to Wallets

| code (`wallet/*_wallet_manager.rs`) | actions |
|---|---|
| `mnemonic`, `private_keys` | `MnemonicLookup`, `PrivateKeyLookup`, `Sign` |
| AWS KMS | `KmsEnter`, `KmsFind`, `KmsMake`, `KmsAlias`, `KmsOpen`, `KmsAdopt`, `Sign` |
| PKCS#11 | `Pkcs11Enter`, `Pkcs11Find`, `Pkcs11Make`, `Pkcs11Open`, `Pkcs11Sign` |
| Fireblocks | `FireblocksEnter`, `VaultFind`, `VaultMake`, `VaultAsset`, `FireblocksSign` |
| Turnkey | `Load`, `TurnkeyMake`, `AccountKeep`, `Missing`, `TurnkeySign`, `TurnkeyTypedData` |
| Privy | `Load`, `PrivyMake`, `AccountKeep`, `Missing`, `PrivySign` |
| handlers and queue loops | `Begin`, `BeginImport`, `Return`, `Abandon`, `Refused` |
| the world | `Restart`, `Outsider` (somebody else uses the account), `Bury` (a vault leaves the first page) |

`backend` is chosen once: one configuration has one provider.  `keys` is what the provider
holds, under which names; `known` is what a manager remembers, one manager per network;
`row` the address that a relayer's row has kept.  Signatures are the key they are made with.

### 2.9 From the code to GasPricing

| code | actions |
|---|---|
| `gas/gas_oracle.rs`, `gas/blob_gas_oracle.rs`, `gas/fee_estimator/base.rs`, `fallback.rs` | `RefreshGas`, `RefreshBlob` |
| `process_single_pending`, `process_single_inmempool`, a cancel or a replace | `SendPending`, `BumpGas`, `Compete` |
| `compute_gas_price_for_transaction` | `ReadPrice`, `Escalate`, `Cap` (one oracle read each) |
| `compute_blob_gas_price_for_transaction` | `ReadBlobPrice`, `EscalateBlob`, `CapBlob` |
| the node's answer and what the loop does with it | `Refused`, `Accepted`, `AnswerLost`, `AlreadyKnown`, `TooLate`, together `Broadcast` |
| producers and the market | `Include`, `Move` |

Prices are small integers and the smallest step is 1, as it is 1 wei in the code; all the
percentages are those of the code, with its truncating divisions.  `Offer` is what gets
signed: a legacy transaction has one price.  `peak` is a history, the highest prices an
oracle has had.

## 3. What the runs check

The model of the queue is checked with at most two user transactions and a rival, one quote
and a cap of 1 or 2 (a cap of 2 allows one gas bump); each listed fault strikes once.  Two
transactions are enough for one to hold the nonce another could take; two prices are
enough for an attempt to be replaced and both to be looked up; each recovery path needs one
fault, and the interesting behaviours combine two of different kinds.  `CHECK_DEADLOCK
FALSE` stands where a run really ends: everything admitted is settled and the faults are
spent, every request is answered, the clock has reached `MaxClock`, the process has ended.
In `shutdown` and `gas` something can always go on, and deadlock is checked: a mutex that is
never released would show.

| run | instance | properties |
|---|---|---|
| `restarts` | two transactions, cap 2; crash, lost answer, external, eviction, late block, once each | `WriteAhead`, `ReservationsProtected`, `LiveBroadcastsProtected`, `AtMostOnceUnlessMoved`, `OpenRowsQueued` |
| `rivals` | two transactions and one rival, cap 2; any two of crash, failed statement, lost answer, rejection, revert | `TypeOK`, `MinedAttempt`, `OneTransactionPerNonce`, `ContestDecided`, `TerminalStable` |
| `settles` | two transactions, cap 1, fair; crash, lost answer (or a query that fails at startup), revert, or crash, external, revert, deadline | `NonceCoverage`, `Settles`, `Refines` |
| `shutdown` | two loops, a stream of requests, fair | `TypeOK`, `OneOperation`, `GuardsCounted`, `OnlyDrains`, `RequestReturns`, `LoopsStop` |
| `admission` | two requests to one relayer (below), clock up to 3, fair | `TypeOK`, `SameRequestSameTransaction`, `OvershootBounded`, `LedgerKept`, `PaidWhenServed`, `NoncesAccounted`, `EveryRequestSettles` |
| `webhooks` | two reports, one endpoint, three tries, fair | `NothingForgotten`, `HistoryTruthful`, `EveryDeliverySettles` |
| `relayers` | two administrators' requests of eleven kinds, one reader, two networks | `IndexesNeverClash`, `QueueFollowsRow`, `StaleOnlyWhenRaced` |
| `schedules` | one job in every configuration, one relayer to top up, one stop | `OneOnItsWay`, `NotPostponed`, `RunsSpaced` |
| `wallets` | two callers, three relayers on two networks, two keys, one fault, every provider, fair | `SignsAsItself`, `EveryCallReturns` |
| `gas` | two markets, three environments, one move, one lost answer, one rival, fair | `BidsRise`, `NeverOverCap`, `KeepsUp` |

**The queue.**

* *Write-ahead* (`WriteAhead`): whatever is out in the network is on record.
* *Nonces* (`ReservationsProtected`, `LiveBroadcastsProtected`,
  `OneTransactionPerNonce`, `NonceCoverage`): a nonce held by a transaction in memory or
  by a pooled broadcast is never free; two transactions share one only if they compete:
  one is the rival of the other, or both are rivals of one original; there is no gap
  between the chain and the counter.
* *Effects* (`AtMostOnceUnlessMoved`, `MinedAttempt`, `ContestDecided`): a payload
  takes effect once, unless the in-mempool loop gave a fresh nonce to a transaction that
  carried it; MINED and CONFIRMED stand for an attempt that was mined and did not revert;
  a loser is written only for a rival that won, that names it, and that carries what the
  loser's status says (nothing for CANCELLED; for REPLACED its own call, or nothing if it
  expired first), and the loser itself has had no effect unless one side was moved.
* *Table and memory* (`OpenRowsQueued`, `TerminalStable`): after every operation
  memory holds exactly the users' open rows; a final status is final, restarts included.
* *Refinement* (`Refines`): every step is a step of `TransactionLifecycle` or leaves
  it alone.  The mapping takes the status from the row and "executed" from the chain.
* *Liveness* (`Settles`): every admitted transaction reaches a final status, unless its
  relayer stays offline after a startup that could not repair it.

**Shutdown.**  Operations exclude one another and are counted exactly, also when their
futures are dropped (`OneOperation`, `GuardsCounted`); once the flag is up the set of
operations under way never grows (`OnlyDrains`); the wait returns, even when the
notification falls between its load and its registration (`RequestReturns`: it is the
timeout that ends it then); a loop that listened when the signal was sent stops, even
inside an operation that hangs (`LoopsStop`).  Two loops and one stream of requests are
enough for each kind to run while the other waits; the number of steps has no bound.

**Admission.**  Each of two requests is any of: a send by a user, a send by nobody with the
same external id and another digest, a signature, a cancellation; the user may use 1 of each
operation per window of two seconds, the relayer 2 transactions and 1 signature, so the user's counter
and the relayer's run out in different requests.  A clock of 3 lets a window end and a charge of the
old one come back in the new one.  `SameRequestSameTransaction`: an external id stands for
one transaction, whoever races.  `OvershootBounded`: a counter is over its limit by at most
the other requests in flight.  `LedgerKept` and `PaidWhenServed`: the counters contain the
requests that were served, and nobody pays for a duplicate, a refusal or a failure.
`NoncesAccounted`: no nonce is shared or skipped but where a save seemed to fail or a client
left.  `EveryRequestSettles`: it is answered and its reservation ends.

**Webhooks.**  One event is a transaction's, the other a low balance nobody listens to, whose report
takes the mutex and starts a round of its own: with the task that makes three overlapping
rounds over one delivery.  An endpoint takes, refuses, or takes and its answer is lost.
`NothingForgotten`: a delivery leaves memory when it was taken or tried `max_retries` times,
whatever stale copies are written back; `HistoryTruthful`: DELIVERED and ABANDONED happened;
`EveryDeliverySettles`.

**Relayers.**  A derived relayer and a private-key one on one network, an empty second
network that holds a private key only: MAX + 1 differs between the two networks and between a
creation and an import, and is −1 where only the key of index −2 is left.  `IndexesNeverClash`: the
unique index refuses a row only when a late INSERT took its index.  `QueueFollowsRow` and
`StaleOnlyWhenRaced` say exactly when the queue and the cache agree with the row: what a look-up
raced, what a handler left unfinished and what the startup skipped is named, and for how long.

**Schedules.**  An interval of 2 with a clock of 3 lets a job run twice, be stopped between
admission and mark, and be late after a restart.  `RunsSpaced`, `NotPostponed`: never early, never
late, unless the database failed; time is counted in ticks, so two runs within one tick count as one.  `OneOnItsWay`: a check that still finds the balance low
queues no second top-up while the first is on its way.  The payer has a clone on a second
chain, because the cache is searched over all chains.

**Wallets.**  Two relayers have index 0 on two networks, a third is a clone: names could clash
in every way names are built.  `SignsAsItself`: nobody signs with another's key, unless the
provider itself shows, or has shown, that key under the relayer's name (`Misnamed`, section 3.3).  `EveryCallReturns`: no call waits
for ever, but for typed data on Turnkey, as long as the providers answer (section 3.1).

**Gas.**  One market asks for a high base fee, one for a high tip and blob price; the
environments differ in what the node asks of a replacement, what producers ask above the
oracle, a limit of the relayer, and legacy transactions.  `BidsRise`, `NeverOverCap`;
`KeepsUp`: a transaction is mined unless its passes keep being held back by a cap, a limit,
the node's rule for replacements, or an answer that was lost (`Held`).

### 3.1 Fairness

Each loop is a task that contends for a tokio mutex.  That mutex is FIFO, so a loop that
waits for it gets it; a loop's step is therefore taken again and again as long as it is
again and again possible: `SF` on `SendPending`, `ResolveReceipt` and `Confirm`.  A
handler that holds the mutex runs on (`WF` on `Continue`), a stopped process is started
again and goes through its startup (`WF` on `Startup`, whose steps are those that succeed), and the network
mines what is pooled at the next nonce (`WF` on `Mine`).  Nothing is assumed of the API, of gas
bumps, or of faults.  Nor of `StartAgain`: nothing in the code retries the repair of a relayer
that the startup has skipped, it takes somebody who restarts the server.  `WF` on `Startup`
does not force a repair to succeed, a failed one takes its place as long as faults are left.

In `Shutdown` the task of `request_shutdown` runs on and its timer ends (`WF`), a loop runs
on where it has no await and its sleep ends (`WF`), and its `select!`, which starts at a
random branch, takes the signal if it is again and again there to be taken (`SF` on
`Hear`).  No operation is assumed to end, and no worker to get the mutex.

In `Requests` a future that can go on is polled and its calls end, if only with an error
(`WF` on `Handler`), the queues' mutex is FIFO (`SF` on `Lock`), and the task a dropped
reservation spawns runs (`WF` on `GiveBack`).  In `Webhooks` futures run on, posts have a
timeout, the task's intervals tick and backoffs end (`WF` on each of its steps).  In
`Wallets` a caller that waits for a manager's mutex gets it, and a call to a provider
ends, if only with an error (`SF` on `Proceeds`): the HTTP clients of the providers have no
timeout, so this is an assumption about the providers and not about the code.  In
`GasPricing` the oracles' intervals tick, the loops come round and what producers would take
is taken (`WF` on `RefreshGas`, `RefreshBlob`, `Pass`, `Include`).  `Relayers` and
`Schedules` have no liveness property and assume none.

### 3.2 Limits of what holds

These are borders of the properties, found with TLC; each names a behaviour of the code.

* `Refines` needs more than one absence, and TLC has a counterexample for each: a late inclusion
  (startup fails the row of an attempt that is absent from the pool, and another node may still
  mine it); a rival, without any fault (a replacement of a pending transaction gives it its own
  payload, and the two no longer go by one name); a rejection, or a deadline, after an answer was lost (the
  row is FAILED or EXPIRED while the first attempt is still pooled); and a revert where prices
  can rise (a reverted attempt and one that was moved to another nonce are both out).
* `OpenRowsQueued` needs the absence of a rival that reverts: the rival is FAILED and its
  original leaves memory with its row still INMEMPOOL until the next restart
  (`transactions_queue.rs:771`).  It also needs the absence of failed statements.
* `LiveBroadcastsProtected` needs that rejections and crashes do not come together: the no-op
  that closes out a rejected transaction may be pooled when a restart fails its row, and its
  nonce is free then (section 3.3, first point).
* `Settles` exempts behaviours in which another user of the key mined a transaction: at the
  gas cap a transaction whose nonce was taken is polled for ever, because no bump is sent and
  so no conflict is met (`transactions_queues.rs:1886`).
* `Settles` exempts a relayer that is offline: a failed repair leaves its rows as they are, and
  everything else of the server goes on without it (`start.rs:719-752`).  If it is started again
  its transactions do settle.
* `IndexesNeverClash` exempts a request whose index a late INSERT took after it had read it: the
  mutex is free as soon as a handler is dropped, an import takes no advisory lock, and a creation
  reads and inserts in one statement that another insert can still precede.
* `StaleOnlyWhenRaced` exempts relayers changed by a handler that ended between its UPDATE and its
  invalidation, and by an UPDATE that took effect after its handler was gone: the cache may show the old
  settings until the next invalidation or for ten minutes.
* `QueueFollowsRow` exempts, until the next restart, relayers with overlapping, unfinished or late changes,
  and asks that a relayer whose queue was not started has none: a change of its settings is answered
  with success and starts nothing.
* `NonceCoverage` needs the absence of gas bumps, whose conflicts leave the old nonce, of
  rejections, whose admission synchronises the counter without reserving, and, with three
  transactions or more, of evictions.
* `PaidWhenServed` exempts a client that hangs up: between two charges it leaves some of
  them, after the commit it has paid although nobody heard the answer.
* `NothingForgotten` and `EveryDeliverySettles` end with the process: the map is not
  persistent, and nothing reads the history back.
* `KeepsUp` exempts a bump whose answer was lost: memory keeps the old price, the next bump
  computes the same bid, the pool says "already known", and so on until the market moves.

### 3.3 Disagreements between the code and its documents

Two runs are expected to find a violation; each states what a comment or a document
says, and its counterexample is a behaviour of the code.

| run | statement | what happens |
|---|---|---|
| `bump_replays` | a mined transaction is not given a fresh nonce, which "would re-execute its payload" (`transactions_queues.rs:1932`) | the receipt of the hash just signed is looked up, not of the one that was mined: the payload takes effect twice |
| `topup_once` | what the task reports as topped up is on its way (`automatic_top_up_task.rs:566`, `documentation/…/automatic-top-up.mdx:3`) | the external id of a top-up is constant, and the FAILED row of the first try answers every later one |

`PROJECT.json` gives the lines.  The known differences that need no run of their own, all
met while modelling (a path without a directory is under `documentation/`):

*Queue.*

* A crash before the no-op that closes out a rejected transaction: startup takes the row for
  a poisoned one and marks it FAILED, and its nonce stays free (`transaction/db/write.rs:391`;
  transactions.mdx:215 has the nonce consumed by a no-op).
* A lost answer, the payload is mined, the deadline passes: the adopted attempt is reported
  EXPIRED (`transactions_queue.rs:758`; transactions.mdx:368).
* The rival of a mined original can be given a fresh nonce and be mined too
  (`transactions_queues.rs:1964`; transactions.mdx:592 has the other side DROPPED).
* The link of a rival is made only for the front of the in-mempool queue; otherwise the
  cancellation is mined and the original is not CANCELLED (`transactions_queue.rs:554`;
  transactions.mdx:455).
* A cancelled pending transaction is not removed and CANCELLED (transactions.mdx:453): it is
  kept as a no-op whose receipt makes it MINED.
* One operation may start after `request_shutdown` has returned true: the flag is read
  before the counter is raised (`shutdown.rs:48`; the test at `shutdown.rs:163`).  It is at
  most one (`OneOperation`).  The loop of a relayer created during a shutdown subscribes
  after the signal and never hears it (`start.rs:79`).
* A receipt is asked of one random RPC endpoint, nonces and transactions of all.

*Admission.*

* Without `fallback_to_relayer` a request needs no key, as rate-limits.mdx:128 says it does;
  it is not counted, not even against the relayer's limits.
* A clock read before a lock can put a counter back into the window that has just ended.
* A client that hangs up after the commit leaves a PENDING row that is not in memory until
  the next restart; one that hangs up before it may skip a nonce.
* A commit that took effect although it seemed to fail leaves two rows with one nonce.
* A transient RPC failure in the gas estimation saves a FAILED row under the external id, and
  a retry is answered with 200 and that row.

*Webhooks.*

* A stale copy may overwrite a completed delivery, which is sent again; a swept delivery may
  come back; a DELIVERED row may become FAILED again.
* `max_retries` is the total number of posts, not that of the retries (webhooks.mdx:363); a
  delivery with `max_retries` 0 is never sent and never swept.
* A 4xx answer is retried (webhooks.mdx:456: "rrelayer will not retry").
* The results of a round of the task are lost when its last `try_lock` fails, and reports wait
  while the task sends.
* An endpoint that lists networks misses what happens before `update_network_names`.

*Relayers.*

* Overlapping changes of one relayer can leave its queue and its row different until the
  next restart; a change between the read-back and the start of a queue is lost to the queue.
* `import_relayer` looks for the address before it waits for the mutex: two imports make two
  relayers with one address (relayers.mdx:109).  Two clones to one chain do so as well.
* The address of a creation is written into every row of the chain with its index, clones
  and deleted rows included.
* If only the private key of index −2 is left on a network, `get_next_wallet_index` is −1, and the
  next import there stores that index, which the unique index does not cover.
* A client that hangs up while its relayer is inserted frees `relayer_creation_mutex` before the row is
  there; the request that comes next may be refused by the unique index with an error.
* The startup goes on without a relayer it cannot repair or whose network is no longer configured; the
  API goes on showing it, and its pending transactions wait for a restart that succeeds.
* A look-up that raced a change is cached for ten minutes; the signing endpoints see
  `paused` through that cache.
* A relayer whose nonce could not be read at creation has no queue until the next restart.

*Schedules.*

* External ids are constant: each pair of an address and an asset is topped up once for
  ever, and a cron job with an `externalId` runs once for ever per relayer (cron-jobs.mdx has
  an example with one).
* The payer's relayer may be taken from another chain (`automatic_top_up_task.rs:528`).
* A crash between the admission and the mark runs the job again; a failed read of the mark
  waits a whole interval.
* A top-up through a Safe always fails.

*Wallets.*

* Turnkey's `sign_typed_data` locks `accounts` twice and waits for itself
  (`turnkey_wallet_manager.rs:726` and `736`; what-is-rrelayer.mdx:68 has every provider sign typed data).
* A failed `create_alias` of KMS is only a warning: after a restart the relayer has a new
  key.  An import does not drop a signer that is remembered for the index.
* Fireblocks' vaults are searched on the first page only; Privy's wallets are known by their
  position in the listing; Turnkey's accounts by the last number of their path, and an error
  of the listing counts as an empty list.
* `private_keys` cannot be combined with another provider (`yaml.rs:417`; private-keys.mdx:35
  says it can).

*Gas.*

* A bump is 5 %, a node asks for 10 % (100 % with blobs): bumps are refused until the market
  has risen.
* A priority fee at its cap stops the bumps while the max fee is below the base fee; for
  legacy relayers too, whose priority fee is not used.
* The default multiplier is 2 (`queue_utils.rs:29`); config.mdx:92 says 4.
* A rival of a transaction at the cap offers the same price and is refused; so is a
  cancellation without blobs of a transaction with blobs.

## 4. What is proved

Every theorem holds for **all** values of the constants that its module's named assumptions
admit; these say no more than that sets of ids are disjoint from marks like "nobody", that
bounds are natural numbers, and that functions have the domains the configuration gives them.

| module | theorem | statement | inductive invariant |
|---|---|---|---|
| `RelayerQueueProofs` | `Typing` | `Spec => []TypeOK` | `TypeOK`, `InFlightRecorded` |
| | `AttemptsWrittenAhead` | `Spec => []WriteAhead` | and `WriteAhead` |
| | `NoncesReserved` | `Spec => []ReservationsProtected` | `TypeOK`, `InFlightRecorded`, `ReservedWhileUp` |
| | `MinedByAttempt` | `Spec => []MinedAttempt` | `TypeOK`, `InFlightRecorded`, `HashesRecorded`, `MinedRecorded` |
| | `FinalStatusStays` | `Spec => TerminalStable` | `TypeOK`, `InFlightRecorded`, `HashesRecorded`, `Placed`, `Links` |
| `RelayerQueueRowsProofs` | `OneOwnerPerNonce` | `Spec => []OneTransactionPerNonce` | and `NoncesApart` |
| | `PayloadsOnce` | `Spec => []AtMostOnceUnlessMoved` | and `WriteAhead`, `NodePlaced`, `Attempted` |
| | `OneSideWins` | `Spec => []ContestDecided` | and `MinedRecorded`, `Contested` |
| | `BroadcastsProtected` | `Spec => []LiveBroadcastsProtected`, of budgets with no rejections or no crashes | `RowsKept` |
| | `OpenRowsInMemory` | `Spec => []OpenRowsQueued`, of budgets with no failed statements, and no reverts or no rivals | `Placed`, `Links`, `NoneLost`, `OpenTracked` |
| | `LifecycleImplemented` | `Spec => Refines`, without rivals, of budgets with no rejections, late blocks and deadlines, and no reverts or one price | `Straight` |
| `ShutdownProofs` | `CoordinatorTyped` | `Spec => []TypeOK` | `TypeOK`, `OneOperation`, `GuardsCounted` |
| | `OperationsExclusive` | `Spec => []OneOperation` | the same |
| | `GuardsExact` | `Spec => []GuardsCounted` | the same |
| | `ShutdownDrains` | `Spec => OnlyDrains` | the same |
| `RequestsProofs` | `LimiterOvershoot` | `LimiterSpec => []OvershootBounded` | `LimiterType`, `OvershootInv` |
| | `Overshoot` | `Spec => []OvershootBounded` | the same |
| | `AdmissionIdempotent` | `Spec => []SameRequestSameTransaction` | `Admitted` |
| | `RequestsTyped` | `Spec => []TypeOK` | `Books` |
| | `NoncesOfAdmission` | `Spec => []NoncesAccounted` | `Books`, `NonceBook` |
| | `LedgerExact` | `Spec => []LedgerKept` | `Books`, `Ledger` |
| | `ChargesSettled` | `Spec => []PaidWhenServed` | the same |
| `WebhooksProofs` | `DeliveriesKept` | `Spec => []NothingForgotten` | `Inv` |
| | `HistoryKept` | `Spec => []HistoryTruthful` | the same |
| `RelayersProofs` | `IndexesStayFree` | `Spec => []IndexesNeverClash` | `IndexInv` |
| | `CacheStaleOnlyByRace` | `Spec => []StaleOnlyWhenRaced` | `FrontsInv` |
| | `QueueKeepsUp` | `Spec => []QueueFollowsRow` | the same |
| `SchedulesProofs` | `JobsSpaced` | `Spec => RunsSpaced` | `CronInv` |
| | `JobsOnTime` | `Spec => NotPostponed` | the same |
| | `TopUpsOnce` | `Spec => []OneOnItsWay` | `Once` |
| `GasPricingProofs` | `BidsAlwaysRise` | `Spec => []BidsRise` | `Inv` |
| | `CapKept` | `Spec => []NeverOverCap` | the same |

No theorem about the queue bounds the faults: `Budgets` is any set of budgets, so crashes,
failed statements and lost answers may strike any number of times and in any order.  The last
three theorems of the queue exclude some kinds of fault altogether and leave the others
unbounded; TLC has a counterexample for each kind they exclude (section 3.2).

**The queue** (`NodeAssumption`, `NoneIsNoHash`, `NoneIsNoEntry`, `QueueAssumption`).

* `TypeOK` alone is not inductive: `Deliver` hands the node whatever hash the operation
  carries, and that it is one needs `InFlightRecorded`: the attempt about to be broadcast
  is in the audit log.  Records are only ever appended (`RecordsStay`), and an operation
  enters that stage only by `Send`, which records first (`OnlySendsRecord`).
* `WriteAhead` follows: only `Deliver` adds to what is out (`OnlyDeliverSends`), and
  what it adds is on record.
* `ReservationsProtected` speaks of a relayer that is online.  To survive `LoadQueues`
  the induction needs to know that nothing is in flight while the process starts
  (`ReservedWhileUp`).  Then: admission reserves past the nonce it queues, conflict
  recovery advances past the nonce it persists, releases give back only what was just
  reserved, sends and links copy a nonce that is queued, and startup takes the maximum of
  everything it queues (`EffectiveStartupNonceType`).

**Rows and memory** (both modules of the queue, the same assumptions).  A transaction exists as
a row, and as copies in the pending queue, on either side of a contest, and in flight.  `Held`
is the set of these copies; a first group of lemmas says of every action what it does to
them, and the rest of the module reasons about that instead of about positions in queues.  The
invariants are layers, each an induction over the ones below it.

* `HashesRecorded`: any hash that a row or a copy has is on record.  `MinedRecorded`: what
  waits for confirmation has an attempt that landed.  Receipts stay, so `MinedAttempt` follows.
* `Placed`: a transaction is in one place, and its row says which: PENDING in the pending queue,
  INMEMPOOL in the other, nothing in memory before the relayer is online.  `Links`: an original
  and its rival name each other, in rows and in copies.  A status ends a transaction only after
  its copies are gone, so no copy can write over it, and this is `TerminalStable`.
* `NoncesApart`: a copy has the nonce of its row, every open row is below the nonce manager, and
  open rows with one nonce compete.  The nonce manager can thus hand out a fresh nonce after a
  crash as well, because startup reads what rows say and not what was in memory.
* `Attempted`: two transactions never carry the same payload, and the attempts of a transaction
  that was not moved have one nonce, or one that another transaction has used up (`Dead`).
  With `NodePlaced` (the chain is in the order of nonces) two effects of one payload
  would be two blocks at one nonce.
* `Contested`: whoever an original names as its rival has been sent with the original's nonce
  (until one of the two is moved), carries what its contest is for or has been emptied by its
  deadline, and a loser is written after its winner.  The hard steps are `LoadQueues`, which rebuilds a contest and its kind from
  two rows, and a second rival, which may overwrite the first one's name.

From here on the proofs no longer go through the actions one by one.  Every step either sends,
and then it records one attempt of one row at that row's nonce (`SendStep`), or it records
nothing and changes rows, queues and what is in flight in a few ways only (`QuietStep`); `StepKinds`
says so, and each layer is an induction over these two shapes.  A repair of a startup that
fails (`Setback`) has done a part of what one that succeeds does, so one lemma
(`RepairEffect`) serves both.

* `LiveBroadcastsProtected`: whatever is pooled has a queued transaction at its nonce.  The pool
  outlives the process, so the invariant cannot speak of memory: `PoolOpen` says that what is pooled is
  a recorded attempt of a row that is open and has its nonce.  A row may leave that state only
  when nothing of it can be pooled any more, its attempts are `Spent`: the chain is past them.
  `AttemptsBelow` (an attempt has the row's nonce or the chain is past it, also after a move),
  `MinedSpent` (a transaction whose polled hash is mined) and `ContestsSpent` (the loser of a contest,
  for whom the winner's block used up the nonce; whoever contends is not bumped and so not moved, with
  `MovedSent`) give the three ways.  `FailuresLast` is where rejections and crashes must
  not meet: a transaction that failed ends only by its own no-op while nothing restarts.
* `OpenRowsQueued`: one inclusion is `Placed`; the other is `OpenTracked`, which allows for the
  one moment at which an open row is not in memory: the loser of a contest, between the removal of
  both sides and the statement that closes its row.  With failed statements that
  moment need not end, and with a reverted rival the statement does not come (`NoneLost`).
* `Refines`: a status is that of the row, a payload is executed once it is mined without
  reverting.  `MapStutter`, `MapSend` and their like say which step of `TransactionLifecycle` a kind of write
  is, `StepsMap` that every action is one or none.  What a step needs is a fact about the
  chain, not about the row: a transaction may be reported FAILED only if it has no effect and will
  have none.  `Straight` supplies it: what is executed stays open until it is MINED
  (`RowsKept`, `WriteAhead`, `NothingFailed`), and what is reported as reverted has no second attempt
  that was mined, because nothing reverts (`NoneReverted`) or every attempt of a transaction has one
  nonce (`OnePrice`: at the cap nothing is bumped, and nothing that is not bumped is moved).

**Shutdown** (`WorkersAssumption`).  The three parts need one another: a decrement keeps the
counter a natural number because guards are counted, and one bit counts them because
operations are exclusive.

**The limiter** (`LimitsAssumption`, `NoUsageAssumption`, `SlotAssumption`,
`ClockAssumption`).  A count alone says nothing about the next charge.  `OvershootInv` counts
what is on its way with it: the requests that have passed the check of a scope and not yet charged it
(`Unpaid`); a check that passes left room for its own, and everything above the limit is explained by
the requests that passed beside it.  `Overshoot` carries this over to `Requests`
(`RequestsAssumption`): every step of a handler is a step of the limiter or leaves it alone.

**Admission** (`RequestsAssumption`).  `Admitted` says that two requests which one row is to
answer never have a row each (`OneRow`), that a transaction told to a client has a row, its
own or that of its twin (`AnswerBacked`), and that nothing is written before a request has
said what it wants (`NothingAhead`).  All handlers' steps and late commits have one shape
(`Moves`: one request's place, answer and row), so the induction is done once for the shape.
`Books` adds where a handler and its slot in the limiter can be at the same time (`Turn`,
`AtDesk`).  `NonceBook` accounts for a nonce from its reservation on: it belongs to one request
that has a row, is about to save one, may still see its commit take effect, or left.
`Ledger` says of each phase of a slot in which counters its request stands (`Standing`);
the upper bound holds always, the exact count until the window ends.

**Webhooks** (`WebhooksAssumption`, `NoCopyAssumption`).  What the map says can be undone by
any copy, so the invariant speaks of both: whatever a map entry or a copy of any round
claims (attempts made, completed, failed) has happened (`PendingBacked`, `CopiesBacked`).
"Has happened" only grows, so a stale copy stays true and may be written anywhere.

**Relayers** (`RelayersAssumption`).  `IndexInv`: a request between allocation and insert holds the
mutex (`Mutex`), its index is free (`IndexFree`) because it is MAX + 1 over the rows the
unique index covers, and rows outside the mutex (clones, deletions) never take it; only a late
INSERT does, and then the request is `overtaken`.  That a
maximum exists (`Bounded`, `MaxOfBounded`) rests on the well-foundedness of the naturals.
`FrontsInv` adds the cache and the queue.  While nobody races, a copy on its way to the cache
is what the row shows (`Current`); while one request alone works on a relayer, its place says
how far the queue is behind the row, and what it will do makes up for that (`Due`).  A late
statement can only fall on a relayer nobody promised anything about: its row is not there
before (`UnbornKept`), or it joins `unsettled` and `abandoned` as it lands (`LandStep`).

**Schedules** (`SchedulesAssumption`).  The database lags behind the transactions, which are
admitted first and marked afterwards.  `Spaced` bounds how far, for a run not to come too
early; `Anchored`, for it not to come too late.  `TopUpsOnce` rests on the look-up of the
stored row alone: `Once` says that no step opens the place that `Admit` fills.

**Gas** (`GasAssumption`).  The oracles may be refreshed between the three reads of a bid, so
`Inv` follows a bid from read to read: what its price has to be above (`Raises`), and that whatever the
oracles, the bid and the pool hold is within the multiplier of the highest price there has been (`peak`).

Only model-checked:

* everything about liveness (`Settles`, `RequestReturns`, `LoopsStop`, `EveryRequestSettles`,
  `EveryDeliverySettles`, `EveryCallReturns`, `KeepsUp`): fairness and `ENABLED` are out of this
  prover's reach;
* `NonceCoverage`: gas bumps, rejections and, with more transactions than the run has, evictions
  leave gaps that are closed later or by a restart (section 3.2), so a theorem for every set of
  transactions would have to exclude most of what can happen;
* `SignsAsItself`: the hazards of `Wallets` are clashes among names built from an index and a
  chain, and its instance has a relayer on either side of each such clash.  It was also checked with three
  keys and two faults, and with two relayers of one network.

## 5. Not modelled

| part | why |
|---|---|
| authentication, policies, permissions | predicates of a request and the configuration; `Requests` has their refusal |
| Safe proxy | the encoding of a call; its own nonce is read when it is sent |
| HTTP routing, configuration, start-up of the server, CLI, SDKs | no protocol state of their own |
| `convert_transaction_to_noop`'s reset of speed and blob price (`transactions_queue.rs:1000`) | `GasPricing` keeps the speed and the blobs of a transaction to its end: a no-op's first bid would be a fast one after a slower last price, without blobs |
| estimators that ask an outside service, gas limits, block limits | prices by another formula; the rest of the bidding is modelled |
| the composite wallet manager | no valid configuration builds it |
| encodings of signatures, the history of signatures | no decision depends on them |
| the transaction cache | serves the read API only |
| the import of private keys at start-up | happens before anything else runs |
| the reading of balances by the monitor | what it raises is an event of `Webhooks` |
| the fan-out over RPC endpoints | one node that may answer, lose the answer, or forget |

What could be added, in order of worth: a refinement that tells payloads from transactions, so that
it can speak of rivals; a proof of `SignsAsItself` for each provider; a larger instance of
`rivals` with three faults; the outside estimators.

## 6. Running

    tlc -workers 2 -config restarts.cfg MCRelayerQueue
    tlapm RelayerQueueProofs.tla

The proofs take from some seconds to a quarter of an hour (`RelayerQueueRowsProofs`) per module.

| run | module | distinct states | time |
|---|---|---|---|
| `restarts` | `MCRelayerQueue` | 1,709,932 | 1 min 20 s |
| `rivals` | `MCRelayerQueue` | 2,178,272 | 2 min 20 s |
| `settles` | `MCRelayerQueue` | 64,209 | 33 s |
| `shutdown` | `MCShutdown` | 2,819 | 2 s |
| `admission` | `MCRequests` | 245,175 | 2 min 30 s |
| `webhooks` | `MCWebhooks` | 11,606 | 8 s |
| `relayers` | `MCRelayers` | 3,195,486 | 1 min 50 s |
| `schedules` | `MCSchedules` | 3,272,956 | 2 min |
| `wallets` | `MCWallets` | 68,563 | 38 s |
| `gas` | `MCGasPricing` | 663,279 | 66 s |

`bump_replays` (`MCRelayerQueue`) and `topup_once` (`MCSchedules`) stop at their
counterexamples within seconds.
