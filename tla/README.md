# A TLA+ model of zboard's durable core

zboard is the control panel of a proxy network: a Go backend (`backend/`) that
sells plans, manages nodes and kernels, ingests the nodes' events, meters usage
and publishes configurations, and a Vue front end. Almost everything it does
beyond answering a request is carried out by *jobs* recorded in a database
ledger and leased by workers, which may be several processes on several hosts;
inside each process a *runtime* owns the handlers and the workers. The events of
the nodes pass through a second durable store, a log of segment files. Money is
handled by a third group of tables: orders, their funding, a wallet, the receipts
of payments, and discounts held by an external provider.

This directory holds TLA+ modules for the ledger, the runtime, the event log,
the payments and the discount redemption, TLC configurations that check them on
small instances, and TLAPS proofs of the main safety properties of these parts.

Paths below are relative to `backend/internal/`; "store.go" without a directory
is `adapters/persistence/jobstore/store.go`.

## 1. Inventory

| Component | State | Operations | Interacts with | What makes it correct |
|---|---|---|---|---|
| Job ledger (`adapters/persistence/jobstore`: store, admission, schedules, cancellation, history, review, import, compact, retention) | `job_runs`, `job_attempts`, `job_schedules`, `job_execution_groups`, `job_execution_budget` | Submit, ImportUnknown, Claim, Finish, RecordCancellation, CancelHandler, Resolve, Schedule, PrunePeriodic | producers submit; the runtime claims and finishes; operators cancel and resolve; the runtime reconciles periodic definitions | leases exclusive per resource, within the budget and the groups; maintenance alone; completion fenced by token; lost work never replayed; one run per planned slot; evidence of losses kept; nothing starves |
| Dispatch lanes (store.go `selectDispatchLane`) | `dispatch_virtual_time`, `job_dispatch_lanes` | choose a lane, charge it | part of Claim | weighted fairness without starvation or banked credit |
| Job runtime and executor (`capabilities/jobs`) | registered handlers, active executions, two mutexes held across database calls, draining and closed | Register, Remove, Deactivate, Detach, Cancel, Drain, Close, RequestRegistered, scheduler loop, work loop, outcome classification | calls the ledger; cancels contexts of running handlers; handlers call back into it | a removed handler is never entered again; what a revoked handler scheduled does not come back; a call on one registration leaves its successor alone; cancellations and pauses arrive; removal and shutdown return |
| Batch tasks (jobstore `batch_*.go`, `application/batch_*.go`) | `tasks` rows with a lease, items | submit, claim, renew, finish, control | run inside ledger jobs | one executor per batch; items applied once |
| Zero event spool (`zeroevent/`) | segment files, checkpoint file, in-flight horizon | Append, ReadBatch, Commit, seal, clean up, compress, compact, recover | event receiver appends, projections read and commit | acknowledged events survive a crash and are delivered in order; cleaned only after commit |
| Projection workers (`application/projection_*.go`, `zero_event_projection.go`) | cursors, statistics | project a batch, commit | spool, database | at-least-once delivery becomes exactly-once effect |
| Local worker supervision (`localworkers/`) | child processes | start, restart, stop | operating system | bounded restarts |
| Configuration publication (`application/configuration_publication.go`, `adapters/zero/`) | revisions, remote files | publish, reconcile, recover | SSH to nodes | a node converges to the last revision |
| Orders, wallet and payments (`adapters/persistence/commercestore`) | `orders`, `order_fundings`, `wallet_accounts`, `wallet_entries`, `payment_attempts`, `payment_receipts`, `wallet_adjustments` | create, fund, pay, expire, cancel, settle by hand, open a checkout, record a failed or a paid fact, review a receipt, credit, debit, pay out, reverse | providers report payments at any time and more than once; discount redemption | the wallet is explained by the business rows; an order costs its price once; a payment has one use; no balance stays reserved for a closed order |
| Discount redemption (`discount_redemption.go`, `order_redemption_lifecycle.go`) | `order_discount_redemptions`: a wish, the last observation, a lease | reserve, commit, release through a leased worker; expiry of unpaid orders | an external provider; the transactions of payment and cancellation write the wish | whoever may pay the discounted price has the discount; it is used up or returned in the end |
| Network, catalogue and renewals, entitlements, metering, plugins, identity, messaging, platform | relational rows | CRUD under row locks; submission of jobs | ledger | domain invariants |
| Handlers, migrations, front end | – | request I/O | all | – |

The hard behaviours are listed line by line in `PROJECT.json` under `hazards`. In
the ledger: workers that stall and report late or twice, leases that
run out while their work goes on, cancellation racing completion, a schedule
that reads the state of a run which others change, rows that are reused and
pruned while late completions still name them, and starvation between lanes and
of maintenance. In the runtime: three kinds of locks and two kinds of contexts,
snapshots taken under one lock and used under another, handlers that call back
while their removal waits for them, and a name that is registered again while its
predecessor goes away. In the spool: a reader that combines what the writer told it with
a directory that has moved on, clean-up and compaction under a consumer at work,
and stops of the process or the host between any two file operations. In
commerce: payments that arrive late, twice, for the wrong amount or for an order that was
meanwhile paid otherwise, expired or canceled, and a provider of discounts whose
answers get lost and whose commands arrive after their sender gave up.

## 2. Modules

| Module | Models |
|---|---|
| `DispatchLanes` | the persisted virtual clock and lane tags, and the choice Claim makes with them |
| `DispatchFairness` | the lanes under an environment that makes any set of lanes eligible at each dispatch, with a history of who was passed by whom |
| `JobLedger` | every transaction of the ledger; EXTENDS `DispatchLanes`, so a claim is the composition of the ledger's and the lanes' steps |
| `EventSpool` | the segment files, the writer, the consumer, maintenance, and the stops of the process |
| `JobRuntime` | one process: the table of handlers, the workers, the scheduler loop, and the calls made on them from outside and from handlers |
| `PaymentSettlement` | abstract: what is promised of payments and deliveries, in three variables |
| `OrderPayments` | every transaction on orders, funding, wallet, checkouts and receipts; implements `PaymentSettlement` |
| `OrderRedemption` | EXTENDS `OrderPayments` with the provider of discounts and the workers that bring it in line, so the two run interleaved on the same rows |
| `MCDispatchFairness`, `MCJobLedger`, `MCEventSpool`, `MCJobRuntime`, `MCOrderPayments`, `MCOrderRedemption` | small instances |
| `DispatchFairnessProofs`, `JobLedgerProofs`, `JobLeaseProofs`, `JobScheduleProofs`, `JobRuntimeProofs`, `EventSpoolProofs`, `OrderPaymentsProofs`, `OrderRedemptionProofs` | theorems; each EXTENDS the module it is about, the ledger's three in a chain |

### How JobLedger corresponds to the code

*Atomicity.* Each operation of the store is one transaction that first updates
the single row of `job_execution_budget` (`Store.lock`, store.go:170-188). The
write serialises them on MySQL and SQLite, so each is one action. Reads made
before the transaction (the probe of Claim, the fast path of Schedule) only
decide not to start it; a stale positive answer leads to a transaction that
finds nothing to do. Pruning does not take the budget row: it pins the schedule
rows, lists its candidates before the transaction and tests them again inside.
The model therefore lets Prune take any part of the candidates that qualify at
the moment it commits. A transaction that returns an error is rolled back, which
is an action that is not enabled.

*State.* `runs`, `attempts` and `schedules` are the tables; a record has the
columns that some operation reads. `job` in a run is the submission as stored.
Uuids are numbers handed out in order; 0 is the empty reference, `Nil` a NULL
time. `claims` is what Claim returned to workers: any claim ever granted may be
presented to Finish at any time, any number of times and with any outcome, which
covers crashed, stalled and repeated workers without modelling them. Its field
`settled` is a history count of accepted completions. The columns `sequence`,
`missed_runs`, `last_state`, `last_started_at`, `last_finished_at` and the audit
log are only reported and are left out, as are the size and format checks.

*Time.* One clock, advanced by `Tick`. The processes of a deployment compare
times of their own clocks; skew between them is not modelled. A worker whose
clock is behind is a worker that reports late.

*Actions.* `Submit`, `ImportUnknown`, `ClaimEmpty` and `ClaimRun` (the two ways
Claim commits), `Finish`, `RecordCancellation`, `CancelHandler`, `Resolve`,
`Schedule` (five ways to commit: `ScheduleIdle`, `ScheduleSkip`,
`ScheduleReuse`, `ScheduleInsert`, `ScheduleRebind`), `Prune`, `Tick`. The three
updates with which Claim records expired leases (store.go:210-219) are part of
both claim actions. Ties that the code breaks by random ids or by lane names are
left open.

*Definitions.* Members of `Definitions` are what the runtime reconciles;
`plan` holds the fields `scheduleDefinitionMatches` compares, so a changed plan
is a changed definition. Keys of periodic runs are pairs of schedule and slot,
as the code formats them.

### How EventSpool corresponds to the code

Paths are relative to `zeroevent/`.

*State.* `disk` maps the number of a segment to its kind (`.active` or `.ready`),
its records and how many of them were synced; `saved` is the checkpoint file.
`active`, `open`, `todo`, `pending` belong to the writer goroutine, `checkpoint`
and `inflight` to the spool object, `rpc`, `snap`, `next`, `held` to the
consumer. Each record counts one unit of a segment's size. A checkpoint is a
segment and a number of records; compressed segments, which count per block, are
left out together with compression, which keeps the records.

*Atomicity.* The writer takes one step per file operation: `BeginBatch` (the
reclamation of `prepareAppend` included), `sealActive`, `createActiveSegment`,
`WriteRecord`, `SyncBatch`. `ReadBatch` is two steps, because the writer runs
between the answer to the snapshot request and the lock under which the directory
is listed: `Snapshot`, then `ReadBatch` or `ReadNothing`. `Commit`, a clean-up
and a compaction are each one step: the locks they hold (`readMu`, `segmentMu`)
keep away those who would see them half done, and a stop in the middle leaves
what a stop before or after would. `Compact` excludes the two steps of a read
(`readMu`) and nothing else.

*Failures.* `AppendFails`, `SealFails`, `CreateFails` and `CommitFails` are the
error returns that leave something behind: records that were written and not
acknowledged, a closed file the writer keeps using, an unused file, a new
checkpoint file beside the old value in memory. `ProcessCrash` keeps the files,
`PowerLoss` any prefix of what was not synced. A sync that failed once is taken
to leave the data to a later sync.

*Age and size.* Retention by age, pressure by size: which consumed segments a
clean-up takes is left open, so every age and every level is covered. The same
holds for the byte budget of a read.

*Faults.* Four steps of the code lose acknowledged events (section 5). The
constant `Faults` says which of them an instance may take; the code is the
instance with all four. The instance without them shows that there is no
fifth cause within its bounds.

### How JobRuntime corresponds to the code

Paths are relative to `capabilities/jobs/`.

*Atomicity.* A critical section of `r.mu` is one step. `claimMu` and the
scheduling mutex of a registration are held across calls of the store, so their
owners are state (`claimMu`, `regs[e].scheduling`) and what happens between
lock and unlock is several steps. A `WaitGroup` is the set of those it counts: `Active(e)`
for the handler calls of a registration, `Done` for the loop and its workers.

*Contexts.* `closed` is the cancellation of the runtime's context,
`regs[e].canceled` that of a registration, and `ctx` of a worker says whether the
context of its run, or only that of the handler call, was canceled. The
derivations between them are `EntryDone`, `RunDone` and `CallDone`.

*Registrations.* An entry of the table is the number of a registration, so that a
second registration under the same name is told from the first, as the code tells
pointers apart.

*Actions.* A worker goes through `WorkerSelects`, `ClaimEnter`, `ClaimRecheck`,
`ClaimRun` or `ClaimEmpty`, `HandlerEnters`, `HandlerRuns`, `HandlerReturns`,
`Finish`, `ReconcileSchedule`; inside its handler it may request another
registered job (`RequestLookup`, `RequestLock`, `RequestSubmit`), which takes the
scheduling mutex of that job. `Deadline`, `Timeout` and `PollCancellation` may
strike at any point. The loop is `LoopTick`, `LoopLock`, `LoopSchedule`,
`LoopWake`. Each call from outside is a process of its own with a program counter.

*The store* is reduced to the runs it keeps and to the answers the runtime sees:
an insertion may find a reason to insert nothing, a completion may fail and leave
the lease to expire, a revocation may fail. `Recorded` is the part of the ledger's
Finish that decides the state, in terms of the state and attempts of a run.
Read-only views, pressure statistics and the coalescing of empty probes
(`emptyUntil`, which only makes a claim come back empty) are left out.

### How OrderPayments corresponds to the code

Paths are relative to `adapters/persistence/commercestore/`.

*Atomicity.* Every operation is one transaction that locks the order row and
then the account row, so each is one action; what a transaction reads before its
lock is read again under it. One that returns an error is rolled back and is an
action that is not enabled. That the entitlement of an order may be refused is
a nondeterministic choice between `FulfillReceipt` and `CreditReceipt`, since the
code then rolls back to a savepoint and turns the payment into balance.

*State.* One customer and one currency. A payment is a trade with its provider;
`attempts` are the checkouts admitted, `notified` the orders for which an event was
stored, `entries` the append-only wallet entries with their unique keys. Amounts
are naturals: the code refuses a sum that does not fit an int64, which is no step.
A repeated event is answered from the stored one and is no step either; events
about the same trade that were not seen before are (`RepeatReceipt`). `grants`
counts fulfilments and is a history variable.

*Time.* A row that expires holds what is left until then; `Tick` lowers all of
them together.

*Refinement.* `ImplementsSettlement` maps the disposition of a receipt to the
use of a payment, the wallet entries with a receipt's key to the credited payments, and
`grants` to the deliveries. Since nothing else is visible, it says that no order of
reports, expiries, cancellations, settlements and reviews uses a payment twice or
delivers an order twice.

### How OrderRedemption corresponds to the code

*The row.* `ExpireUnpaid`, the job that closes orders whose discount nobody paid for in
time, acts on orders and rows at once. Payment and cancellation write `desired`; the worker writes
`observed`, `token`, `wait` and the lease. `Claim` is one step although it reads
and then updates: the update is conditional on the revision that was read and on
`lease_until`, and one that misses writes nothing. The worker then queries,
reads the row again (`Decide`), sends at most one command and stores the answer
(`finish`), provided it still has the lease.

*The provider* is external and modelled from the guarantee the code asks of it,
`exclusive_until_core_finalization_v1`: a hold ends only by a command, a released
key stays released. A call may fail with its command on the way; the command
takes effect at any later time or never (`late`). Workers crash, and the clock may pass the end
of a lease whose worker is still busy. `MaxFaults` bounds these, and also the
number of times the provider answers a commit with "reserved".

## 3. Runs

| Run | Configuration | Shows |
|---|---|---|
| `lane_fairness` | three lanes, one of each weight, virtual time to 4096 | `BoundedLead`: no lane is ahead of the virtual clock by more than one quantum; `BoundedBypass`: while a lane stays eligible another passes it at most 1 + ratio-of-weights times |
| `ledger_sharing` | a core run and a retried plugin run on one resource, maintenance, an imported run; 2 rows, 3 leases, 3 ticks, budget 2; fair workers | `TypeOK`, `ResourceExclusive`, `MaintenanceExclusive`, `LeaseEvidence`, `LostAttemptIsLast`, `RunLifecycle`; `LeaseSettles`: a lease does not stay open past its expiry |
| `ledger_groups` | three plugin runs, two of them in a group of capacity 1 and one of them retried, a free run and maintenance, against a queue limit of 1 and a budget of 2; 4 rows, 3 leases; the clock stands still; fair workers | `CapacityRespected` for groups and budget together; `BacklogBounded`: retries, which enter the queue unchecked, add at most the budget to it; `MaintenanceReached`: ordinary runs that keep arriving do not starve maintenance |
| `ledger_compacting` | a compacting reconciler that changes its revision back and forth | `SettledOnce`, `ScheduleSingleFlight`, `EvidenceKept` |
| `ledger_anchored` | an anchored schedule with retries that is renamed, suppressed and switched to skip; up to 2 attempts per slot, backoff 1, 4 ticks, 3 leases | `AttemptStartedOnce`, `FailuresCounted`; `AttemptBudget`: retries that are claimed again after their backoff stay within the attempts allowed |
| `runtime_calls` | one name registered up to twice, two workers, two callers with four calls between them, one run | `TypeOK`; `RemovedIsQuiet`: after Remove or Detach the handler is not running and is not entered again; `RevokedStaysEmpty`: no scheduling write lands after the revocation; `DrainIsFinal`; `RegistrationKept`: nobody takes a successor out of the table; `RevocationSparesSuccessor` |
| `runtime_progress` | an ordinary and a maintenance handler name, one worker, one caller with three calls, fairness | `CallsReturn`: removal and shutdown come back although handlers call back; `CancellationDelivered`, `PauseReaches`: also when the local cancellation looked too early |
| `spool_recovery` | 3 events, samples of one key out of order and repeated, segments of 2 records, 2 failures, 2 stops, fair consumer and writer, no fault | `TypeOK`, `AcknowledgedKept`, `CommitExact`, `EventuallyDelivered` |
| `spool_code` | 4 events, the same segments, all faults, 1 failure, 1 stop | `BatchIntact`, `CommitAccepted`: these hold for the code as it is |
| `spool_renumber` | one fault, no failure, no stop | expected violation, see section 5 |
| `order_payments` | a purchase of price 2 and a top-up of 1, two payments at a native plugin and one at an integration, a credit and a debit of 1 | `TypeOK`; `WalletExplained`: balance and reservations are what the business rows add up to; `PaidInFull`: an order is fulfilled once and costs its price; `HeldWhileOpen`; `ImplementsSettlement` |
| `order_redemption` | a discounted order that balance or an integration may pay, two overlapping workers, stock 1, 2 faults, fairness | `HoldKept`: whoever may pay or paid has the discount, and only a paid order uses it up; `HoldsSettle`: no hold and no balance is left behind |

Every property has a mutant in `PROJECT.json`: an operator of the module (its
comment says "Mutant") that changes one mapped definition as a plausible bug
would, and under which TLC finds the property violated.

*Bounds.* `MaxRuns`, `MaxTokens` and `MaxTime` bound the rows and leases ever
created and the ticks; they appear in the guards of the actions that count.
The capacities and queue limits are chosen so that each is reached: a budget of
2 with three contenders, a group of 1 with two, a queue limit below the number of
submissions. Lease timeouts of one tick with two ticks or more let a lease expire
and a second lease expire after it. Periodic runs use interval 2 over four ticks or
more, so slots are missed, skipped, reused and pruned. Freedom from deadlock is not claimed:
the bounded clock stops, so the configurations say `CHECK_DEADLOCK FALSE`.

For the spool, `MaxEvents`, `MaxFailures` and `MaxStops` bound what happens;
two records per segment and batches of two make batches cross segments, and two
stops let a recovery be followed by another.

For the runtime, `MaxRegs` (2 registrations of one name: a predecessor and a
successor), `MaxRuns`, `MaxAttempts` and `MaxCalls` bound what happens. Two callers
meet each other and two workers; four calls are enough for a registration, its
removal, a registration of the successor and a fourth call against either. Names and workers do not
interact otherwise than through the locks modelled. Callers and workers are
interchangeable, and symmetry is used for the safety run only.

For commerce, nothing but the sets of orders, trades and adjustments is bounded:
every row is created once, so the states are finite. A price of 2 with a balance of
1 gives split fundings, one of 1 covered ones; two trades of the plugin give an
order that is paid twice. `Lifetime` is one or two ticks; leases and retries take
one (`LeaseTime`, `RetryDelay`, `ConfirmDelay`), so a lease may run out
before the order does or after. `Stock` is 1.

*Fairness.* In the runtime, goroutines that are able to go on do so, a mutex that is
free again and again is obtained in the end (Go's mutexes do not starve), store calls
return, and a handler returns once its context is done; handlers need not return
otherwise, and nobody has to call anything. In discount redemption the clock and the two expiry
jobs go on, the periodic job claims what is due, and a worker proceeds, because
its two calls have timeouts of three seconds within a lease of fifteen; nothing
is assumed of customers, payments or administrators. In the spool, `FairSpec` assumes that a stopped process is started
again, that the writer finishes a batch it began, and that the consumer keeps
polling, as its ticker does. In the ledger, `FairSpec` assumes that time passes and that, for each handler set,
some worker keeps claiming while a claim can commit: `Runtime.work` polls in a
loop with a bounded pause (`capabilities/jobs/runtime.go`). It does not assume
that workers ever report, that anything is submitted, or that schedules are
reconciled. `MaintenanceReached` excuses runs that are `unknown`: they wait for an
operator, and the code lets them block maintenance on purpose (store.go:233-240). It also
excuses a lease that is held for good at the end of the explored time, as no worker has to
report. The leases of an instance are finitely many, so starvation appears as
ordinary runs that take the last of them while maintenance is queued: the property
asks that this does not happen once maintenance waits and a lease is left, and its mutant,
in which waiting maintenance does not hold back ordinary work (store.go:252), does just that.

## 4. Theorems

The proofs hold for every value of the constants that satisfies the named
assumptions of the module: any number of runs, leases, ticks, workers, callers,
submissions, definitions, groups, orders, payments, any capacities, prices and
amounts. What the assumptions ask for beyond the types of the constants:
`PaymentAssumption` that there are finitely many orders, trades and adjustments
(the sums of the books range over them); `RuntimeAssumption` that a run has at
least one attempt (store.go:69-76 defaults and refuses less);
`GoroutineAssumption` that the owners of a mutex are told apart;
`ProducersAssumption` that submissions, imports and definitions name an owner (the
store refuses an empty one: store.go:76, schedules.go:54, requests.go:35) and that
the key of a one-off run is not one of the keys formatted for periodic slots (every
producer prefixes its keys).

* **Lanes** (`DispatchFairnessProofs`). `BoundedLead` is close to inductive;
  `BoundedBypass` is not: the number of times lane *m* passed the waiting lane *l*
  says nothing unless it is tied to the tags. The inductive invariant adds that
  whatever *m* was charged since *l* began to wait fits between the clock at that
  moment and *m*'s tag, and that *l*'s own start tag bounds it from above.
* **Types** (`JobLedgerProofs`): `TypeCorrect`, one lemma per action, and lemmas on
  the row-building operators.
* **Leases** (`JobLeaseProofs`). `ResourcesExclusive`, `MaintenanceAlone` and
  `CapacityKept` share one observation (`LeasesKept`): every action but a claim
  leaves the leased runs a subset of what they were, with the same resource and group.
  So only `ClaimRun` can disturb the invariants, and its guards are evaluated on
  the very rows, after expiry, to which the new lease is added. `CapacityKept`
  needs cardinalities of finite sets. `EvidenceAgrees` and `CompletionFence` rest
  on the invariant `EvidenceInv`: types, freshness (tokens beyond the counter
  occur nowhere, and neither do runs), `LeaseEvidence`, and `SettledIsOver` (a
  claim whose completion was accepted is no longer held by any leased run). The
  last conjunct is what makes "at most once" inductive. `BudgetKept` needs the
  conjunct that a queued run of either kind has an attempt left.
* **Schedules** (`JobScheduleProofs`). `StepKinds` sorts the actions by what they do to
  the tie between a schedule and its run: most are *quiet* (every row keeps its
  owner, key and schedule, none is revived), and only a submission, a
  reconciliation and a pruning create, move or remove rows. The lemmas before it
  establish this action by action; the preservation proofs then look at four kinds
  of step. `SchedulesSingleFlight` needs `FlightInv`: a periodic run has the key
  of its schedule and slot (`SlotKeys`), a schedule that was never reconciled refers
  to nothing, and the next slot of a schedule lies behind the one of the row
  kept for reuse (`SlotsAdvance`). `FailuresCountedOnce` needs a margin: while its
  run is leased, the failures of a schedule are fewer than the leases it counted. `LostIsNeverReplayed` needs that an owner and key belong to one
  row (`IntentsUnique`), that a leased row holds the latest lease of its intent, and
  that a lost attempt still names a row that no action puts back in the queue.
  `AttemptsStartOnce` needs `HistoryInv`: for every lease ever granted, either the row
  of its intent is there and has counted it, or the row was pruned or reused and
  the slot is past, so that no reconciliation plans it again. When a slot is past
  depends on the schedule: if its rows are not compacted and are retained for at least
  an interval, the slot is older than any that can be due; if its definition never
  changes, the slot lies before the next one. `IntentsStartOnce` says this per
  name, so one-off work is covered without a condition. With the retention of
  the shipped settings (7 days, observability/history_retention.go:67) every schedule that
  does not compact meets the first condition, since plugins may ask for intervals of up
  to a week (plugins/tasks.go:33) and the core's are minutes; a compacting one meets
  the second between two changes of its definition.
  `BacklogStaysBounded` uses `CapacityKept`: the only work that enters the queue
  unchecked leaves a lease for it. `RunsLiveOnce` and `EvidenceIsKept` are action
  properties, proved from the same invariants.
* **Spool** (`EventSpoolProofs`). `ReadIsNotLost` and `ProjectedIsAccepted` hold with all
  four faults, hence of the code as it is: a batch that was read lies between
  the checkpoint and its horizon, no writer, clean-up or compaction
  touches that stretch of the files (a compaction starts beyond it or waits), and a
  checkpoint moves only by the commit of that batch. `CommitsWhatWasRead` and
  `AppendKeepsItsPromise` say what remains when the faults named are absent: they
  need that the active segment is the last one (`ActiveLast`), that the checkpoint file
  is ahead of memory by at most a commit whose records are durable
  (`SavedAhead`), and that an accepted event is waiting, written or handed over
  (`PendingKept`). That a compaction leaves a survivor that supersedes whatever it
  drops is a statement about a recursive function over the records; as for the
  sums of the wallet, it is proved by looking at a smallest counterexample.

* **Runtime** (`JobRuntimeProofs`). None of the properties is inductive, because
  each speaks about a state that several calls prepare. One invariant, `Admission`,
  carries all of them. `References`: the table, the loop, the workers, the
  callers and the runs name registrations that were made, under the right id.
  `MutexOwned`: whoever writes durable runs for a registration owns its scheduling
  mutex, and as long as a caller revokes, the name still leads to what it revokes;
  this is what spares a successor (`SuccessorIsSpared`). `Fenced`: a registration
  on its way out is canceled, and stays so. `Holding`: workers hold different
  leased runs, so a sweep of the store finds them. `Swept`: no run of a revoked
  registration is pending or running. The lemmas before the proof say once per kind of state who may
  write it (`TableWriters`, `StoreWriters`, `WorkerMoves`, `CallerMoves`,
  `LoopMoves`); the preservation proofs cite these rather than the actions.
* **Payments** (`OrderPaymentsProofs`). `WalletExplained` equates two cells of the
  wallet with sums over all business rows. A step that books an entry must not
  find it booked already, or the sum would count once what the cell counts twice;
  so the invariant `RowsAgree` says which row state each wallet entry implies
  (`KeysAgree`), how a funding follows its order (`FundsAgree`), that delivery and
  payment coincide (`OrdersAgree`) and that a review concerns a paid order
  (`ReviewsAgree`). `Total` is a recursive function over the subsets of its
  domain; that it exists, does not depend on the order of summation and follows an
  update of one row is proved by looking at a smallest counterexample, with the
  library's well-founded orders on naturals and on finite sets.
  `PaymentsImplementSettlement` maps every action to one of
  `PaymentSettlement` or to a stutter, under the same invariant.
* **Redemption** (`OrderRedemptionProofs`). That a confirmed discount is still held
  when the order is paid depends on what stale workers and lost commands may still
  do: `CommandsWanted` says that any command that can still arrive is wished now,
  `SeenHeld` that what a worker saw lasts until it is asked back, `WishFollows`
  ties the wish to the status of the order. `BooksBesideRedemption` carries the payment
  theorems over to the composition: the redemption workers do not touch the books,
  and an expiry is a release that `OrderPayments` knows.

Every invariant and action property of the runs has a theorem. Only model-checked are the
liveness properties (`LeaseSettles`, `MaintenanceReached`, `CallsReturn`, `CancellationDelivered`,
`PauseReaches`, `EventuallyDelivered`, `HoldsSettle`), because the proof system does not
handle fairness.

## 5. Divergences and observations

*Loss of acknowledged events.* The spool calls itself "a single-process durable
append log" whose `ReadBatch` "consumes a stable snapshot of the active segment
plus all sealed segments" (file_spool.go:54-56). There are four ways in which it can
lose events that `Append` acknowledged. The first has a run; the others appear when
the fault named is given to `Faults`.

* `"renumber"`, run `spool_renumber`: the last segment is sealed by age, consumed and cleaned (once
  it is older than the retention, or under storage pressure). The next segment is
  numbered 1 (file_segment.go:179-182), the checkpoint still names the old one,
  and the new records up to the old offset are skipped, or all of them when the
  checkpoint names a higher segment. This needs no failure.
* `"skip"`: between the snapshot (file_reader.go:29) and the listing (:36)
  the writer adds to the segment of the snapshot, seals it and writes to the next one.
  The read stops at the old size in the first segment and goes on in the second, and
  its commit consumes the records in between. This needs no failure either. In
  `SpoolRecovery.cfg` TLC finds it as a violation of `CommitExact`.
* `"unsynced"`: a segment that did not exist at the snapshot is read to the
  size it has, synced or not, although the reader wants the "durable active
  offset" (file_reader.go:26). Committed and followed by a loss of power, the
  checkpoint lies beyond the end of the file and hides what is written there next.
  The definition `ReadsDurable`, which says that this does not happen, fails
  as an invariant of `SpoolCode.cfg`.
* `"orphan"`: a creation that fails at the directory sync leaves its file;
  after a restart the writer may append to it although later segments exist, and a
  consumer that is past it never reads them. In `SpoolRecovery.cfg` TLC finds it as
  a violation of `CommitExact`.

*Cadence.* The comment on `Store.Schedule` (schedules.go:16-18) says that the next slot
"advances from planned time, never from completion time, so execution duration
cannot drift the cadence". When the run of a schedule with an anchor yields, the
code plans the next slot 100 ms after the moment it
notices (schedules.go:127-129) and advances all later slots from there, so the
schedule leaves the grid of its anchor for good. That the continuation runs soon is
intended; that the cadence is shifted afterwards is what the comment excludes.
`CadenceAnchored`, as an invariant of `Anchored.cfg`, shows it.

*Slots of a schedule that changes its kind.* Compaction deletes the rows of
finished slots. A definition that is changed from compacting to anchored, while its
next slot lies in the past, may therefore run a slot again whose row is gone. The
instances keep the two kinds apart: `AttemptStartedOnce` is checked for anchored
schedules, whose rows stay. The proof of `AttemptsStartOnce` shows that this is one of two ways
for a slot to run again; the other is a retention set to fewer days than the
interval of a schedule whose definition then changes.

*A payment absorbed by a manual settlement.* A failed fact binds its trade to the
order (`RecordFailed`); if an administrator then settles the order by hand, the
order is paid and names a trade that brought no money. Should the provider report
that trade as paid after all, `BoundReceipt` takes it for the payment the order
was settled with ("Old paid orders already consumed this bound receipt",
payment_facts.go:160): it is recorded as `legacy_applied` and neither credited nor reviewed.
The model contains these steps, and `PaymentSettlement` calls the use `absorbed`.

## 6. Not modelled

The read-only queries of the ledger; clock skew; the SQL engines (isolation is
taken as described under *Atomicity*); audit logging. Of commerce: the credit for
the rest of a replaced term, automatic renewal, refunds of consumption and
terminations, customers' competing orders for one entitlement, rows of discounts that were damaged.
Everything else in the inventory that is marked `not_modelled` in `PROJECT.json`,
with the reason there: most of it is request handling, formatting, remote
process control and relational CRUD, whose lines by far outnumber those of
the stores and protocols modelled here.

## 7. Plan

1. Done: lanes, ledger, their runs; the event spool; the job runtime; payments
   with their abstract specification and the refinement; discount redemption
   composed with payments. Proved: section 4.
2. Proofs: that `EventSpool` without faults implements the abstract log of item 4;
   further theorems as modules are added.
3. `BatchTasks`: the lease of a batch and its items, and the guard against
   retrying mail that may have been sent.
4. The spool's compression and block checkpoints; an abstract log that `EventSpool`
   without faults implements; the projection consumer's idempotent cursor on
   top of it; metering after that.
5. Supervision of local workers; automatic renewal on top of `OrderPayments`.
