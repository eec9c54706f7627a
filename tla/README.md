# ac-platform in TLA+

TLA+ specifications of the back end of ac-platform, a service company's
platform: customers book repairs of air conditioners and appliances, technicians
go out and do them with parts from the warehouses, invoices are sent, paid and
refunded. The code is a TypeScript monorepo; the API (`src/apps/api`) is NestJS
over PostgreSQL (Prisma) and Redis, and four front ends use it (`web`,
`admin-crm`, `customer-app`, `technician-app`). The API may run as several
processes; everything they share is in the database. Paths below are relative to
`src/apps/api/src/modules/` unless they say otherwise.

What makes this system hard is the same in every module. A request reads rows
outside or inside a transaction, decides, and writes later; PostgreSQL runs these
transactions at READ COMMITTED, so that the row may have changed in between unless
it was locked; jobs, webhooks and users repeat requests; processes die between a
commit and what should follow it; queues deliver a job again when its worker is only
slow. The specifications therefore take one *SQL statement*, one *call to a queue* or
one *decision on a read* as their step, keep what was read as state
of the session, and let sessions interleave, fail and die anywhere.

## 1. Inventory

| part | state | operations | what makes it correct |
|---|---|---|---|
| **Inventory ledger** `inventory/inventory-ledger.service.ts` | `warehouse_stocks` rows, append-only `inventory_ledger`, item cost | `post` of one movement: look up the reference, lock and read the stock row, check, write row and ledger | no movement is lost, stock row = newest ledger row, a reference is posted once, no overdraft |
| **Stock transfers** `inventory/stock-transfers.service.ts` | transfer, lines, reservations in the ledger | request, approve, reject, dispatch, receive, cancel | pieces are conserved, a status is backed by ledger rows, lines move together |
| **Technician stock** `inventory/technician-inventory.service.ts` | allocations with their counters | allocate, acknowledge, use, return, reconcile | what is used and returned was allocated, nothing missing is closed in silence |
| **Purchase orders** `inventory/purchase-orders.service.ts` | order lines, receipts | submit, approve, place, receive, cancel | received is what the shelf got, an order is RECEIVED in full |
| **Customer ledger** `ledger/ledger.service.ts` | `customer_ledger_entries` with running balances | `post` inside the caller's transaction | one row per financial event, balances chain |
| **Invoices** `invoices/invoices.service.ts` | invoice, payments, refunds, credit notes | create, edit, send, applyPayment, refund, reverse, cancel | paid = sum of payments, debit before credit, refunds within the payment |
| **Payments** `payments/*.ts` | `payment_transactions`, and the provider's view of them | link, webhooks, reconcile, heal, refund | a captured payment is booked once and eventually; a booked one never reopens |
| **Quotations, AMC subscriptions, payouts, overdue sweep** | document rows | accept, convert, activate, accrue, batch, age | one invoice per acceptance, one commission per job |
| **Bookings** `bookings/*.ts`, **assignment** `assignment/`, **dispatch** | booking row, activity timeline, arrival OTP | assign, autoPick, status changes, reschedule, OTP, completion | no double booking, no field work without OTP, the timeline tells the truth |
| **Notifications** `notifications/*.ts` | a row per message, a BullMQ queue, a Redis lock per message, a dead letter queue | enqueue, dispatch, retry with backoff, manual retry, delivery webhooks | no message is sent twice without a reason, retries are bounded, every message settles |
| **Workflow engine** `orchestration/*.ts` | instances, step executions, BullMQ jobs | start from an event, execute a step, delay, pause, resume, cancel, recover | a step takes effect once and along the definition, a started workflow ends |
| **Leads, customers, support desk, growth, tracking, authentication** | their own tables and sockets | see `PROJECT.json` | planned in part, section 6 |
| **Cron lock, document numbers, money and tax** `src/apps/api/src/common/` | a Redis key; a counter row; none | `SET NX PX`; upsert-increment; rounding | planned |
| **Mobile apps' offline queues** | stored writes | enqueue, replay | planned |

How they interact: stock transfers, allocations, purchase orders and bookings call
the inventory ledger inside their own transaction. Payments call
`InvoicesService.applyPayment`, which issues a draft and posts to the customer
ledger in the same transaction. A completed booking publishes a domain event in
process; a listener accrues the commission and is lost if the process dies. Cron
jobs (reconcile, heal, overdue, recovery of workflows) run in every API process behind
a Redis lock that expires and fails open, so no specification relies on it. Workflow
steps that notify enqueue a notification; the two engines share no other state and are
specified apart.

`PROJECT.json` lists every component with its status, and under `hazards` what in
this code is hard to test, each with its line and the properties that watch it.

## 2. Modules

| module | stands for | extends / uses |
|---|---|---|
| `StockMovement` | the arithmetic of one movement: deltas, the three checks, the weighted-average cost | - |
| `StockAccount` | *abstract*: stock rows whose movements are atomic | `StockMovement` |
| `StockLedger` | `InventoryLedgerService.post` of concurrent sessions, statement by statement | `StockMovement`, `INSTANCE StockAccount` |
| `StockLedgerProofs` | theorems about `StockLedger` | `StockLedger`, `TLAPS` |
| `StockTransfers` | transfers and technician allocations over the stock rows of several warehouses | `StockMovement` |
| `StockTransfersProofs` | theorems about `StockTransfers` | `StockTransfers`, `TLAPS` |
| `FieldStock` | a purchase order, technician allocations and corrections over the shelf of one warehouse | `StockMovement` |
| `FieldStockProofs` | theorems about `FieldStock` | `FieldStock`, `TLAPS` |
| `CustomerLedger` | `LedgerService.post` inside its callers' transactions | - |
| `CustomerLedgerProofs` | theorems about `CustomerLedger` | `CustomerLedger`, `TLAPS` |
| `InvoiceAccount` | *abstract*: documents and ledger that change one whole document at a time | - |
| `InvoiceSettlement` | payment links, webhooks, reconciler, cash, refunds and staff on one invoice | `INSTANCE InvoiceAccount` |
| `InvoiceSettlementProofs` | theorems about `InvoiceSettlement` | `InvoiceSettlement`, `TLAPS` |
| `BookingLifecycle` | assignment, status changes, rescheduling, OTP, commission | - |
| `BookingLifecycleProofs` | theorems about `BookingLifecycle` | `BookingLifecycle`, `TLAPS` |
| `Notifications` | the delivery pipeline: queue, workers, lock, retries, dead letters, webhooks, faults | - |
| `NotificationsProofs` | theorems about `Notifications` | `Notifications`, `TLAPS` |
| `WorkflowWalk` | *abstract*: a walk along a workflow definition | - |
| `WorkflowEngine` | one workflow instance: events, jobs, staff, recovery, faults | `INSTANCE WorkflowWalk` |
| `WorkflowEngineProofs` | theorems about `WorkflowEngine` | `WorkflowEngine`, `TLAPS` |
| `MC*` | the small instances TLC checks | the module of the same name |

Operators marked "Mutant of ..." in the modules are faulty versions of the
definition that follows. No specification uses them; `PROJECT.json` names, for each
checked property, one that breaks it.

### StockLedger

A session runs `post()`: `Begin` (input check), `Skip`/`NotADuplicate` (the look-up
of `externalRef`), `LockRow` (`SELECT ... FOR UPDATE`, which waits for a holder and
locks *nothing* if there is no row), `ReadSnapshot`, and `Reject`, `UniqueViolation`
or `Write`. Up to the commit, writes are seen by nobody else and the row lock keeps
others out, so the writes and the commit are one action. `Crash` rolls back anywhere.
A cell whose row exists at the start is *warm*; for a cold one the first post creates
the row, in the window where `FOR UPDATE` locks nothing. `StockAccount` says what
callers may rely on: each movement happens at once and on the current balance.

### StockTransfers

Each operation is one transaction: `Read` (transfer and status, without a lock) and
`Commit` or `Abort`. The posts hold the locks of their stock rows up to the commit, so
a session's movements take effect together at `Commit`, each as one step of the atomic
account `StockLedger` implements. A movement whose reference is on record is skipped,
a refused one fails the transaction. `Draw` and `CommitAllocation` are a technician's
allocation, the only other writer here. A receipt takes any subset of the lines, and may
name a line twice: what is *posted* is the first count, what is *noted* in the line the
last (`Tallies`).

The account is atomic only where there is a row to lock. A warehouse that never held an
item has none (`NoRow`; `WarmCells` are the others). A transaction that begins while the
row is missing notes it (`absent`), since its `FOR UPDATE` may come to nothing; once
somebody has committed the row it may `Look` at a balance it has not locked, and
compute its movements from that at its commit. Two transactions that both create the
row are a unique violation, that is an `Abort`. So pieces are lost in the model where
they are in the code, and `PiecesConserved` is about `WarmCells`; the other properties
are about all cells.

### FieldStock

The services of purchase orders and of technician stock read and check *outside* the
transaction in which they write: `ReadReceive`, `ReadUse` (usage and return check the
same), `ReadReconcile` keep what was read in the session, and the commit that follows
writes whatever the row has become, as `increment` where the code increments. Between
the read and the commit of a receipt stand two more steps, because the transaction reads
the order lines a second time: `Bump` posts the lines and increments the order lines,
which locks both, and `Recount` reads what others had committed by then and derives the
status. Until it commits, what a receipt wrote is seen by nobody else, so the writes
take effect at `Receive`. A receipt may name a part up to `MaxEntries` times; each entry is
checked against the same read, so that one receipt can overrun its line by itself.
`Adjust` is a manual correction. A part without a stock row is treated as in
`StockTransfers` (`sight`, `Look`), and `CountersMatchShelf` is about the parts that had
one. Left out: the update of a draft, the vendor's counters, a part on two
lines of the order, reservations of bookings; CLOSED, which no code writes.

### CustomerLedger

All callers of `LedgerService.post` pass their own READ COMMITTED transaction, so the
Serializable branch is not reached and not modelled. `SELECT ... ORDER BY occurredAt
DESC LIMIT 1 FOR UPDATE` first *chooses* its row, then waits for its lock; rows are
never updated, so after the wait it returns the row chosen, however many newer ones
were committed (`QueueForLatest`, `Granted`). A transaction may post several entries
and holds all its locks to its end.

`Clock` is one clock that ticks with every entry. In the code `occurredAt` is the
`new Date()` of the process that posts (`ledger/ledger.service.ts:105`), and equal stamps
are ordered by id (lines 82-83): with two processes whose clocks differ, or within a
millisecond, the newest row need not be the last one written. The idealisation leaves that
out, so the properties that hold do so under it; the violation needs no skew.

### InvoiceSettlement

One invoice and its links. `gateway` is the provider (external, nondeterministic):
a link may be declined, paid, closed or refunded from its dashboard. Webhooks come
late, repeatedly or never. `Claim` is the guarded `updateMany` that makes one of
webhook and reconciler the winner; `ReadInvoice`, `IssueDraft` and `ApplyPayment` are
`applyPayment`, which reads the invoice without a lock; `Release` gives back a claim
whose payment did not land; `Heal` is phase 2 of the reconciler. `CommitUnanswered`
commits and loses the answer. Refunds lock the payment row, are booked first and sent
to the provider afterwards, and reversed if it refuses.

`Heal` lists captures older than the 15-minute threshold; a settling call lasts
seconds, so `Heal` is enabled only when the call that captured has ended. Its
seven-day window is left out.

`InvoiceAccount` is what the accounts may rely on: an invoice is debited or credited
back, a payment is booked with its entry (and the debit, if the invoice was a draft), a
refund is booked within what its payment has left, or taken back after the provider's
answer. Claims, locks, requests, webhooks and failures are stutters of it.

### BookingLifecycle

`Receive` reads the row and decides (`Allowed`); `CheckConflict` or `PickBest` read
other bookings, still outside a transaction; the write then updates by primary key,
whatever the row has become, only the columns it names, and records the activity with
the status that was *read*. A request the code refuses changes nothing and is left out.
The number of activities is bounded for each user (`MaxRows`). After a completion the
same session is the listener of `BookingCompleted` (`ReadForCommission`, `Accrue`).

### Notifications

A worker's handler (`processJob`) is one action per database, Redis or queue call:
`TakeJob` with the lock (`SkipJob` if it is taken), `ReadRow`, `Claim`, `Dispatch`,
`MarkSent` or `HandleFailure`, `AddToDlq` or `AddDelayed`, `Unlock`. A notification is
identified by its idempotency key, so a second `Enqueue` finds the first row (the
branch for a duplicate row, lines 129-137, cannot be reached under the unique index).
`Dispatch` abstracts the walk over the providers with its circuit breakers to its
outcomes: accepted or not, and at most one answer lost although the message went out.
Webhooks find a row by the provider's reference and write the status later, whatever it
has become. Faults: a worker dies (its job is delivered again), is only slow (it is
delivered twice), a call throws, a caller dies between the row and its job, a lock
expires. Modelled is the operation with queue and Redis; the mode without a queue and
the rate limiter, which only delays, are left out. READ stands with DELIVERED.

### WorkflowEngine

One instance, its step executions and jobs. No transaction spans two statements here, so
every call is an action: `TakeJob`, `Claim` (the compare-and-set on PENDING), `Enter`,
`Run`, `Complete`, and `Upsert`, `Mark`, `Add` of `scheduleStep`. `Run` is the effect of
a step; `ran` and `chosen` record it. `Throw` is an error inside the `try` of
`executeStep`, which schedules a retry; one before it or in its `catch`
(`orchestration/workflow-engine.service.ts:129-141`, 174-181) ends the job for good
(`ThrowUncaught`). Pauses and cancellations write at any time. `Recover` is the cron
job; it takes an instance that was not updated for half an hour, by when no call is
under way and no job is ready. PARALLEL, which no seeded definition uses, and unknown
steps are left out; steps that set context or ask for an AI decision behave like NOTIFY
and CONDITION; an escalation's log and status are one action. An instance never becomes
FAILED: the attempt that is compared with `maxAttempts` is read before the claim counts
it, and no step is claimed twice. `WorkflowWalk` is what the author of a definition sees
of all that: at the moment a step takes effect one before it has gone on to it, and it
goes on to one successor or ends.

## 3. Runs

Every run is in `PROJECT.json`. All passing runs finish their state space.

| run | instance | shows |
|---|---|---|
| `stock_ledger` | 2 sessions, a warm and a cold cell of one item, 7 movements (repeats across cells, hold and release, correction below zero), 2 rows per cell | the type, `WarmLedgersChain`, `SnapshotIsNewestRow`, `RefPostedOnce`, `AvgCostWithinPaid`, the refinement `ImplementsAccount`, and `EveryPostEnds` |
| `stock_ledger_cold` | 3 sessions on a cell without a row | **violation** of `EveryLedgerChains` |
| `stock_transfers` | 2 transfers of 2 and 1 lines from one depot to a shop that never held the filter they both carry, 2 sessions, 1 allocation | `PiecesConserved`, `ReceivedWithinDispatched`, `StatusBackedByLedger`, `LinesMoveTogether` |
| `field_stock` | an order of one compressor and one filter, a compressor on the shelf and a filter never stocked, receipts that may name a part twice, one allocation, 2 requests at a time of up to 2 pieces, one correction (the longest run, about 3 minutes) | `CountersMatchShelf`, `OverrunsBounded`, `ReceivedInFull`, `ShortfallIsRaised` |
| `customer_ledger` | 3 sessions, 4 kinds of transaction, one customer with history and one without, clock up to 6 | `OneRowPerEvent`, `BuiltOnACommittedRow`, `EveryTransactionEnds` |
| `customer_ledger_chain` | the same, clock up to 4 | **violation** of `RunningBalancesChain` |
| `invoice_settlement` | a draft over 2, a link over the whole, cash of 1, one refund, 2 processes, one failure anywhere | `BookedStaysCaptured`, `SucceededOnce`, `LedgerAgreesWithDocuments`, `RefundsWithinPayment`, the refinement `ImplementsAccount`, and `CapturedIsBooked` |
| `settlement_paid_sum` | a sent invoice | **violation** of `PaidMatchesPayments`: two payments overlap |
| `booking_lifecycle` | 1 booking, 2 technicians, a desk user, 2 requests at a time; the desk writes while there are fewer than 3 activities, technicians while there are fewer than 6 | `AttemptsBounded`, `OtpBeforeFieldWork`, `OneCommissionPerCompletion` |
| `notifications` | 1 notification, 2 workers, 2 retries, 2 troubles | `SendsAccounted`, `RetriesBounded`, `EveryRequestSettles` |
| `workflow_engine` | the seeded definition `booking-assignment`, 2 processes, 2 troubles | `StepsRunOnce`, the refinement `ImplementsWalk`, and `UndisturbedEnds` |
| `workflow_stuck` | the same, 1 trouble | **violation** of `StuckWorkflowsRecover` |

Why the bounds are enough. Two sessions suffice for every race of the kind "both
read, then both write"; the customer ledger needs a third, since a waiter whose row is
no longer the newest takes one to hold the lock, one to commit a newer entry, and one
to wait. Two rows on a warm and on a cold cell show the first row, the row that chains
to it, and each with a skipped repeat. In the settlement one failure is enough for
each recovery path, and a link of the whole with cash of a part makes both an
overpayment and a payment on nothing due. With one booking all races of its row
happen; the check for a conflict with another one then always passes (section 4). A visit
takes assign, en route, verify and work; six activities let a technician go back and
resume work after the verification, a second technician take over with the code his
predecessor verified, and a completed booking be reopened by a write that is late, and
completed again. The desk has few of them, since its part comes first.
An order line over 1 piece is overrun as soon as two receipts overlap, two lines show
the receipt that does not see the other line, and the filter has no stock row before its
first receipt. The shop of the transfers has none for it either, so that both receipts may
find nothing to lock. One notification suffices because notifications share nothing
but workers; two workers meet at its lock and at its row, and two troubles make every
pair of a repeated call, a lost answer, a death, a redelivery and a manual retry.
`booking-assignment` has every kind of step, both branches of a condition, and a step
that two others lead to.

`MaxRows` (of each user), `MaxTime`, `MaxCash`, `MaxRefunds`, `MaxFailures`,
`MaxAllocations`, `MaxCount`, `MaxEntries`, `MaxPieces`, `MaxCorrections` and
`MaxTrouble` are the bounds, each a guard named in its module; none hides a step of a
session already under way. `MaxTrouble` bounds what happens beyond the ordinary:
repeated calls and events, interventions of staff, lost answers, faults. The expiry of a
lock is not bounded by it. Most configurations say `CHECK_DEADLOCK FALSE` because the
system may stop there: all work is done, or the bounds are reached. `booking_lifecycle`
uses the symmetry of technicians and of sessions, `stock_transfers` and `field_stock`
that of sessions; they check no liveness, so this is sound.

### Fairness

`StockLedger` and `CustomerLedger`: strong fairness of each session's next step.
PostgreSQL queues the waiters of a row lock, so a waiter is not overtaken for ever,
although the lock may be free and taken again in between. Nothing forces a session to
begin, and crashes are not fair. `InvoiceSettlement`: the same for processes, and strong
fairness of the reconciler and the heal for each transaction they list, because
`payments-reconcile.scheduler.ts` runs them by cron for ever; no webhook is fair, so
`CapturedIsBooked` holds when every webhook is lost.

`Notifications`: weak fairness of each handler's next step and of taking a job (Node
runs them on, BullMQ hands out its jobs), of a call's `queue.add` after its insert, of
the clocks (backoff, delayed jobs) and of the expiry of a lock. Nobody has to enqueue,
to retry or to send a webhook, and no fault has to come. `EveryRequestSettles` is about
notifications that no fault or manual retry disturbs and that were enqueued once; with
a crash after the claim it is false (section 4). `WorkflowEngine`: weak fairness of each
process's next step, of taking the jobs of each step, of delayed jobs falling due, and
of the recovery, which the scheduler runs every minute; no event and no intervention has
to come. `StuckWorkflowsRecover` is refuted under this fairness, with the recovery running
for ever.

`StockTransfers`, `FieldStock` and `BookingLifecycle` depend on people and have no
fairness and no liveness claim.

## 4. What the code does otherwise than it says

Each is a violation run and an entry of `findings` with the text it contradicts.

1. *Inventory ledger, cold cell.* `FOR UPDATE` of a row that does not exist locks
   nothing. Two first movements do no harm by themselves: both create the row
   (`inventory/inventory-ledger.service.ts:210`), and the unique index fails the second. It
   takes three. A and B issue `FOR UPDATE` before the row is there; A creates it and
   commits. C locks the row and reads its balance; B, which holds no lock, finds the row
   with `findUnique` and reads the same balance. C commits, B writes what it computed over
   it, and C's movement is missing from the count.
2. *Customer ledger.* Two overlapping posts compute from the same prior balance,
   the row lock notwithstanding, for the reason given under `CustomerLedger`.
3. *Invoice, paid amount.* Two overlapping payments: the second write forgets the first.
4. *Stuck workflows.* A step that failed, or whose process died, is not PENDING. Neither
   its retry nor the recovery of the instance, which schedules the step again and keeps
   the status of its execution, can claim it: the instance stays RUNNING for ever.

Observed while modelling, and not a run:

- *Transfers.* APPROVED is to "reserve the requested quantity at the source warehouse so
  no one else picks the same parts while the dispatch is queued"
  (`inventory/stock-transfers.service.ts:8-9`; line 144: "Reserve at the source warehouse
  so no one else can pick this stock"). An outflow is checked against the quantity, not the
  quantity less what is reserved: an allocation takes an approved transfer's pieces. And
  an approval that read REQUESTED may commit after the dispatch or the cancelling; its
  posts are skipped, and the transfer is APPROVED with nothing held. After the dispatch
  it may then be cancelled, and the release of that takes away what another transfer of
  the same part has reserved.
- *Transfers.* "Once IN_TRANSIT we require a RECEIVED state (with potential shortfall) so
  the ledger never sits with "ghost" stock floating between two snapshots" (lines 18-20). A
  cancel or reject that read REQUESTED may commit after the dispatch: the pieces have
  left, and nobody can receive them.
- *Purchase orders.* "Every state-changing operation runs in a transaction and checks the
  latest PO status under a row lock so two approvers can't race"
  (`inventory/purchase-orders.service.ts:23-25`). No operation locks the order. An approval
  and a cancellation overwrite each other; two receipts of one line both find it open and
  overrun it; `OverrunsBounded` is what remains of the limit. With nothing concurrent, a
  receipt that names a part twice overruns its line, as each entry is checked by
  itself (line 277).
- *Purchase orders.* Two overlapping receipts of different lines each leave the other's
  line open in their count (`inventory/purchase-orders.service.ts:347`): the order stays
  PARTIALLY_RECEIVED although nothing is open. That the opposite error cannot happen is
  the theorem `OrdersAreReceivedInFull`.
- *Technician stock.* A usage or return that was checked before a reconciliation and
  commits after it reopens the RECONCILED allocation.
- *Invoice, balance.* A payment after a refund without a credit note forgets what was
  refunded; nothing concurrent is needed.
- *Assignment.* `autoPick` scores overlapping jobs but excludes nobody. A verified OTP
  survives a reassignment, so the next technician starts without one
  (`OtpBeforeFieldWork` asks only for *a* verification); `verifyArrivalOtp` looks at no
  status, which `bookings.otp.spec.ts` records as current behaviour.
- *Payments.* A settling call publishes `PaymentSucceeded` even when the payment was
  refused (`Refused` goes on to `publish`).
- *Notifications.* A worker that dies after its claim leaves the row in PROCESSING; the
  job is delivered again ("will be recovered", logs `notification-queue.service.ts`) and
  cannot claim it. The retry of a dead letter schedules a job that finds the row dead and
  ends. A worker whose lock has expired deletes the lock of the next one.
- *Workflows.* `scheduleStep` writes RUNNING whatever the status is: a step at work
  undoes a pause or a cancellation. A job dropped during a pause is of another step than the
  one a resumption schedules, so pause and resume may strand an instance
  (`UndisturbedEnds` leaves paused ones out). `UndisturbedEnds` is about the effect of a
  last step; that the row then stays COMPLETED is not so, since a late duplicate start may
  write RUNNING again.

## 5. Proofs

TLC shows the properties on the instances above; TLAPS proves those below for every
set of cells, sessions, customers, bookings and so on, under the `ASSUME`s of
the modules (which TLC evaluates in the passing runs). All safety properties and action
properties of the passing runs are among them, and so are the three refinements.
`NothingIsOverdrawn`, `TimelinesAgree`, `EffectsFollowDefinition` and `DebitComesFirst`
are about properties no run repeats; the last two say in one state what the refinements
say of the steps.

**`StockLedgerProofs`**. `TypeCorrect`, `SnapshotNeverDiverges`,
`MovementsAreIdempotent`, `NothingIsOverdrawn`, `WarmWritersChain`,
`LedgerImplementsAccount` and `AverageStaysWithinPaid`. The first four hold on cold cells
as well. `WarmLedgersChain` is not inductive: that a row continues from the one before it
depends on what the session read earlier still being true. The invariant that carries
it, `WarmInv`, adds three parts: a session between its lock and its commit on a warm
cell holds the lock (`LockIsHeld`), so what it read is what is there
(`SnapshotIsFresh`), and the stock row is the newest ledger row
(`SnapshotIsNewestRow`), so the next row chains. The same invariant gives the
refinement: `Write` on a warm cell is the abstract `Post` of its movement, everything
else is a stutter. `AverageStaysWithinPaid` is arithmetic over an invariant of its own
(`CostsWithinPaid`: what a session has read is within what was paid, too): a rounded
quotient of a sum of non-negative counts times costs stays between the least and the
greatest cost (`QuotientWithin`, `AvgWithin`). It needs that no count was below zero, the
opening balances included, which is how `NoCountBelowZero` came to name them: an item that
starts below zero has an average that belongs to nobody's price.

**`StockTransfersProofs`**. `TypeCorrect`, `PiecesStayConserved`, `ReceiptsStayWithin`,
`StatusStaysBacked` and `LinesStayTogether`, for any transfers, lines, sessions and
warehouses. Sessions decide on a status that has changed, and write it; the invariant is
therefore about the rows of the ledger: a reference is posted once, a dispatch for what
was requested, a receipt for at most that and only after its dispatch (`Rows`); a request
that was let through has the rows its check implies, and rows are never deleted
(`Requests`); what a line counts as dispatched is within what was requested
(`Dispatches`). With these the checked invariants are inductive together: a repeated post
is skipped by its reference, so a status written late is still backed by what is on
record. Pieces are counted for each cell that had a stock row from the start: such a row
stays, so no transaction finds nothing to lock there, the balance it computes from is
the present one, and a post adds the same to the row and to the movements on record.

**`CustomerLedgerProofs`**. `TypeCorrect`, `EventsAreRecordedOnce` and
`BalancesComeFromCommits`, on the assumptions that the opening ledger is finite, has one
row per reference and adds up. `FiniteLedger` carries the first: `ORDER BY occurredAt
DESC LIMIT 1` has a result because a ledger is finite, which lemma `NewestExists` takes
from the well-foundedness of finite subsets. `OneRowPerEvent` needs `OwnEventsDiffer`:
the unique index compares a transaction with the committed rows only, so that it posts no
reference twice itself comes from the look-up, which sees its own rows.
`BuiltOnACommittedRow` needs `BalanceInv`: stamps are distinct (`StampsDiffer`), so the
row that somebody else has locked is not one of the waiter's own, and as locks are on rows
their holder can see (`LocksAreOnRows`, `OwnRows`), it is a committed one
(`WaitsForCommitted`); therefore a rollback takes away nothing that another row adds to.
That the balances *chain* is not among the theorems: it is false (section 4).

**`BookingLifecycleProofs`**. `TypeCorrect`, `TimelinesAgree`, `NoWorkWithoutOtp`,
`CommissionsArePaidOnce` and `GuessesAreBounded`. Requests decide on a booking they read
earlier and that may have changed, so no invariant relates a read to the present row.
What holds is that a read was true once, and a timeline only grows: the status that was
read is in the timeline (`ReadsHaveBeen`), a read with the OTP verified follows a
verification that follows a departure (`OtpInv`, and `SentInv` for the departure), a
listener works on a booking that was completed (`CompletionsSeen`). The guesses need a
count: the attempts on record plus the sessions that passed the check and have not
counted yet never exceed the limit by more than the sessions less one (`AttemptsInv`).

**`InvoiceSettlementProofs`**. `TypeCorrect`, `BookedIsNeverUncaptured`,
`SucceededIsPublishedOnce`, `LedgerSaysWhatDocumentsSay`, `RefundsStayWithinPayment`,
`DebitComesFirst` and `SettlementImplementsAccount`, for any number of links, sessions,
payments, refunds and failures. The properties lean on each other, so there is one
invariant, `IInv`, of named parts. `Progress` says what a session holds at each step of
its call; `Claims`, that a captured payment is in the hands of at most one settling
session, which alone announces it, and that a booked one is captured; `Debits`, that an
invoice which may be paid is debited; `Identities`, that payments and refunds have ids
nobody else has; `Pending`, that a refund in flight has the session that awaits its
answer; `Receipts` and `Givebacks`, that a payment, a refund and its reversal have their
entry once; `Caps`, that the session holding the lock of a payment has the only refund
under way for it, so what it counted is still true when it writes. The refinement maps
the step that commits to the abstract `Pay`, `Refund`, `Issue`, `Cancel` or `Answer`.

**`FieldStockProofs`**. `TypeCorrect`, `OrdersAreReceivedInFull`, `ShortfallsAreRaised`,
`OverrunsAreBounded` and `ShelfIsAccountedFor`, for every set of parts, allocations and
requests, the last for the parts that had a stock row. A request decides on rows that
have moved on, so what carries the theorems is monotonic: counters only grow. A line
that was full when a receipt counted it is full when the receipt commits
(`ReceiptsCount`); what is missing at a write is no more than what was missing at its
read (`ShortfallsCover`). For the overruns each session holds one token for each piece
it is about to add; pieces on record and tokens together never exceed the limit times
`MaxEntries` times the number of sessions (`LimitsHeld`): each entry of a receipt that
passed the check adds at most the limit, and there are only so many. For the shelf, a
row that was there stays and is the one every request works on (`RowsFound`), every
commit changes the count and one counter by the same amount (`OutChange` for the
allocations), and an allocation nobody has made yet has nothing out (`Untouched`). Sums
over a set of allocations would call for an induction over it, which this prover cannot
instantiate; the lemmas about sums go by a smallest counterexample among its finite
subsets instead.

**`NotificationsProofs`**. `TypeCorrect`, `SendsAreAccounted` and `RetriesAreBounded`,
for every number of workers, retries and faults. The first count is again one of tokens:
a notification may be claimed once for its enqueue and once more for each manual retry; a
worker that claimed it carries that token, a failed attempt gives it back, and only a
lost answer adds a send and keeps the token (`Covered`). The bound on retries holds for
undisturbed notifications only, and needs that their lock admits one worker at a time,
so that the count a worker read is the one it adds to (`Orderly`).

**`WorkflowEngineProofs`**. `TypeCorrect`, `EffectsHappenOnce`,
`EffectsFollowDefinition` and `EngineImplementsWalk`, for every definition that
satisfies the assumption of the module. `StepsRunOnce` is not inductive: that the
process at a step is the only one is because a claim is taken from a PENDING execution
and no step ever becomes PENDING again (`Held`, `Effects`); what an execution, a process
or the instance names was reached along the definition (`NamesReached`). Together they
are `EngineInv`. In the refinement `Run` is the step of the walk (`RunIsOneStep`) and
everything else a stutter (`OnlyRunMoves`).

Only TLC checks liveness: `EveryPostEnds`, `EveryTransactionEnds`, `CapturedIsBooked`,
`EveryRequestSettles` and `UndisturbedEnds` need fairness, that is `ENABLED`, which this
prover does not reason about. The four properties that are refuted have no theorem.

## 6. Plan

Order of work, most important first; the first line of each is what stands.

1. Inventory: `StockMovement`, `StockAccount`, `StockLedger` and its proofs are done.
2. `StockTransfers`, `FieldStock` and their proofs are done. Next an abstract account of
   the pieces that both implement.
3. `Notifications`, `WorkflowEngine` and their proofs are done. Next the mode without a
   queue, and the recovery of a notification left in PROCESSING once the code has one.
4. `CustomerLedger` and its proofs are done. Next the customer merge that moves entries.
5. `InvoiceSettlement` and its proofs are done for the money of a sent or draft invoice.
   Next draft edits, conversion of quotations, AMC
   activation on `InvoicePaid`, payout batches.
6. `BookingLifecycle` and its proofs are done. Next an OTP per visit, leads, dispatch
   decisions, warranty claims.
7. Document numbers, the cron lock, refresh-token rotation, coupon limits and points,
   SLA clocks; the apps' offline queues; GST split and rounding as pure operators
   against a reference.

## 7. Not modelled, and why

- Database internals beyond what the code relies on: READ COMMITTED visibility,
  row locks and unique indexes are modelled, deadlock detection is an abort.
- Pure record keeping, reports, PDF, import and export, user interface, routing
  estimates: no protocol to get wrong.
- In `InvoiceSettlement`: create, edit and duplicate of drafts, customer merge, the
  provider adapters, the heal's seven-day window. Amounts are small numbers; rounding
  and tax are planned as pure operators.
- In `BookingLifecycle`: creation (bookings start PENDING), notes, attachments,
  signature, the warranty claim a completion closes; an expired OTP is one nobody uses.
  What customers may do by themselves is part of what the desk may do.
- In `StockTransfers`: DRAFT, which nothing writes; line notes; the costs carried by
  transfer movements, which are not part of a property there.
- What a stock row created by a first movement is worth to the sums: `StockTransfers` and
  `FieldStock` lose pieces there as the code does, and `PiecesConserved` and
  `CountersMatchShelf` leave these cells out.
- In `CustomerLedger`: clocks that differ and stamps that are equal (section 2).
- In `FieldStock`, `Notifications` and `WorkflowEngine`: what section 2 names.
- Activity rows other than those of a booking's status.
