# Verification of the commerce core

TLA+ models of the parts of this repository where money, stock and external
side effects meet concurrency: the **transactional outbox**, the **gateway
payment sessions** with the customer's store balance, the **orders with the
stock they hold**, the **payment ledger** of an order, the **courier bookings**
and the **books** (financial events, journals and periods). TLC checks small
instances of each; TLAPS proves the results named below for every value of the
constants.

    tlc -workers 2 -config OrderParcel.cfg MCOrderStock.tla    # one run
    tlapm PaymentSessionsProofs.tla                            # the proofs of one module

Paths below are relative to `src/apps/api/src/` unless they start with `src/`.

## 1. Inventory

The system is an Express API over PostgreSQL (Prisma), with BullMQ/Redis for
jobs, and a React storefront and admin. Almost all shared state is in the
database; concurrency is between HTTP handlers, provider callbacks and cron
jobs, interleaved at statement or transaction boundaries.

| Component | State it keeps | Operations | Interacts with |
|---|---|---|---|
| Transactional outbox (`domain/outbox`, `jobs/outbox-worker.ts`) | `OutboxEvent` rows: status, attempts, lease | record, dispatch, deliver, retry, reap, redrive, clean up | BullMQ; SMS, e-mail, Meta consumers |
| Payment sessions (`modules/payments/payment.service.ts`) | `PaymentSession`, `Payment` | start, settle, fail, cancel, reconcile, expire, retry | gateways EPS and SSLCOMMERZ; orders; store balance |
| Store balance (`domain/credit/customer-credit.service.ts`) | `CustomerCreditEntry` | reserve, consume, release, spend, issue | sessions, cancellation, returns |
| Payment ledger (`domain/payments`) | `Payment`, `Refund`, credits, `Order.paymentStatus` | manual payment, COD settlement, return charge, re-marking, refund in two steps, credit, derived position | orders, scanner, courier, finance |
| Orders (`modules/orders/order.service.ts`, `src/packages/shared/src/order-state.ts`) | `Order`, `OrderItem` | place, transition, Trash, restore, purge, reconcile, receive | inventory, ledger, outbox, courier |
| Order changes (`order-modification.service.ts`, `order-adjustments.service.ts`) | lines, adjustments | change lines, return items | inventory, payment links |
| Returns and exchanges (`modules/return-requests`) | `ReturnRequest` | request, approve, reject, exchange | orders, inventory, balance |
| Inventory (`modules/inventory/inventory.service.ts`) | `ProductVariant.stock`, `StockMovement` | sale, release, receipt, write-off, adjust, count | every writer of stock |
| Parcel scanner (`modules/parcel-scans`) | `ParcelReceipt`, batches | receive, correct | orders, inventory, ledger |
| Stock hub (`domain/stock`) | purchases, fills, counts, waste | post and reverse documents | inventory, finance |
| Shipments and courier (`domain/shipments`, `modules/courier`, `jobs/courier-status-cron.ts`) | the order's consignment, courier status and booking claim; `Shipment` legs | book, unlink, poll, webhook, sweep, repair | orders, the courier's service |
| Flash sales, coupons, pricing, loyalty | offers, usages, points | claim, release, quote, earn, reverse | checkout, orders |
| Finance (`domain/finance`) | `FinancialEvent`, `JournalEntry`, `FinancialPeriod` | record, post, supersede, draft, reverse, correct, close, reopen | outbox and sync jobs, staff |
| Manufacturing, purchasing | documents | receive, match, reverse | stock, finance |
| Sessions and authentication | refresh tokens, admin rows | rotate, revoke, demote | all requests |
| Read model, analytics, content, inbox, campaigns | projections and data | rebuild, edit, send | catalogue |

`PROJECT.json` lists every component, with what is modelled of it, and every
hazard at its line.

### What is hard here

* **Callbacks race.** A gateway success can arrive through the browser, the IPN
  and the five-minute reconciliation at once, before, during or after the
  session is cancelled, expired or retried.
* **Two commits where one is wanted.** Claiming a session and booking its
  money, or ending a session and releasing what it reserved, are separate; a
  process can die between them.
* **Leases outlive workers.** An outbox worker slower than its five-minute
  lease meets its own replacement; queue ids swallow re-enqueues.
* **Ids and statuses read early.** The sweep, the retry and the permanent
  deletion act on what they read before.
* **One counter, many writers.** `OrderItem.restockedQuantity` and
  `returnedQuantity` are moved by cancellation, Trash, restore, receipts,
  corrections, item returns and exchanges in any legal order.
* **Guarded and unguarded decreases.** A sale refuses to oversell, a settlement
  of money already taken does not.
* **A stored projection beside its source.** `Order.paymentStatus` is derived
  from the ledger's rows, rewritten by most commands and forgotten by some; the
  state machine decides on the stored one.
* **An outside effect between two commits.** The courier makes a consignment
  before the order can remember its id; the answer may be lost.
* **Row locks and READ COMMITTED.** A journal's transaction reads a period, an
  event and another journal by statements that see different moments; triggers
  look again at the write and at the commit.

### What makes each component correct

* Outbox: no recorded intent is lost; a side effect happens at most once more
  than its delivery was disturbed; every intent ends delivered or visibly FAILED.
* Payment sessions: one claimant books a success, a claimed success is booked
  unless the booking is refused, a checkout charges the balance once, cancelled
  orders stay cancelled, no attempt asks for what was paid before it, every
  attempt ends; and all of it together makes no money and loses none.
* Orders and stock: the movements add up, no unit comes back twice or
  undecided, an order that may ship holds its units, what a customer returns is
  awaited until it is received, one replacement per line.
* Payment ledger: what was refunded, credited or promised never exceeds what
  was received; a delivered COD order stays settled; the courier's cash for a
  refused parcel is charged once; REFUNDED means that all money went back.
* Courier: one parcel per order but for an expired claim or an unlink; what was
  booked in the last 48 hours is shipped; a final report reaches its order, and
  a closed order stays.
* Finance: a replaced event has no effect, no journal is committed into a
  closed month, every recorded event is settled.

## 2. Modules

| Module | Contents |
|---|---|
| `Delivery` | abstract promise of the outbox: intents, sends, disturbances |
| `Outbox` | the outbox as implemented; refines `Delivery` |
| `MCOutbox` | symmetry for TLC |
| `OutboxProofs` | proofs about `Outbox`: types, tokens, duplicates |
| `OutboxDeliveryProofs` | proofs about `Outbox`: nothing lost, one handler, the refinement of `Delivery` |
| `StoreBalance` | abstract promise about one customer's money: reserve, release, settle, place, pay, credit |
| `PaymentSessions` | sessions, gateways, payments, balance and orders of one customer; refines `StoreBalance` |
| `MCPaymentSessions` | symmetry for TLC |
| `PaymentSessionsProofs` | proofs about `PaymentSessions`: types, charges, the moves of an order |
| `PaymentClaimsProofs` | proofs about `PaymentSessions`: claims, what orders received and are asked for, the refinement of `StoreBalance` |
| `OrderStock` | orders, their lines and the stock |
| `MCOrderStock` | symmetry for TLC |
| `OrderStockProofs` | proofs about `OrderStock` |
| `PaymentLedger` | one order's payments, refunds, credits, attempts and stored payment status |
| `MCPaymentLedger`, `PaymentLedgerProofs` | symmetry for TLC; proofs |
| `CourierBooking` | one order's bookings, unlinks and reports, and the courier's sweep |
| `MCCourierBooking`, `CourierBookingProofs` | the model values for TLC; proofs |
| `Books` | financial events, journals and periods, by statement and lock |
| `MCBooks`, `BooksProofs` | event sets for TLC; proofs |

The components meet at the order. `PaymentSessions` says how money becomes a
Payment, `PaymentLedger` what the Payments of an order allow afterwards,
`OrderStock` what a status does to stock, `CourierBooking` how the courier's
reports reach the status; each takes from the others only what its own
guards read. They are not composed into one specification: the shared row
lock makes each command on an order one step for all of them, and their
product would be too large for TLC.

An operator `Faulty_X`, beside the definition `X` it resembles, is `X` with a
plausible mistake. Nothing uses it; put in X's place, it makes TLC
refute the property the mistake should break, which shows that the property
depends on that definition.

### Outbox

One action per SQL statement, queue call or consumer call: between two of them
other processes run.

* `row[e]` is the `OutboxEvent` row; the clock columns are reduced to what the
  statements test (`due`, `lease`, `stale`).
* `disp[d]` is a run of the dispatch job: `DispatchClaim` is its UPDATE over
  the due rows, `EnqueueOk` and `EnqueueError` one queue call, `AfterEnqueue` the
  mark that follows it.
* `waiting`, `active`, `kept`, `stalledOnce` are BullMQ's job sets: an enqueue
  under an id that is still held does nothing, as in BullMQ; a job whose worker
  died is recovered once and fails the second time.
* `worker[w]` is a deliver job: claim, consumer, complete. A worker may overrun
  its lease (`LeaseExpires` while it runs) and goes on.
* `sent`, `handled`, `disturbed` are history for the properties. A disturbance
  is a crash, an overrun, a lost answer or an operator retry.

`ImplementsDelivery` instantiates `Delivery` with the mapping `IntentOf`.

### PaymentSessions

A handler is a program counter: `proc[p].at` names the next statement that
commits on its own. The cron's reconciliation and its sweep share the process
`Cron`, as the job runs them one after the other. `gw[s]` is the gateway's side
of an attempt: no page, open, paid in full, or paid short of what was asked. An
attempt is paid at most once; one that nobody pays stays open. `TimePasses` ages a
session through the windows the code compares with (payable, past its window,
past the 24 h grace).

* `BeginCheckout … GatewayOpens`: `initiatePendingPayment`; the reservation and the
  session row are one transaction, the gateway call is not.
* `BeginRetry`, `RetryExpire`, `BeginLink`, `LinkExpire`, `StartSession`: the two other ways
  into a session, each with what it reads before it acts.
* `SuccessCallback`, `Reconcile`, `ClaimSession`, `BookCheckout`, `BookOrder`,
  `LinkOrder`: `settlePaymentSession`; the claim is a commit of its own.
  A booking that throws rolls its transaction back and not the claim
  (`BookingThrows`, `SettlementThrows`): the coupon was used up, the session has
  a Payment already, or the order is to be confirmed and is in Trash.
* `FailCallback`, `RecordFailure`, `CancelCallback`, `ReleaseStep`: failure and
  cancellation, with the release of the reservation in a second commit. The
  redirect is believed without asking the gateway (`payment.controller.ts:46`
  and `:93`), so these come for an attempt in any state, paid ones included.
* `BeginSweep … EndSweep`: `expireStalePaymentSessions`. It asks EPS first,
  expires the rows still ACTIVE, and releases the ids it read.
* `CustomerCancels`, `StaffCancels`: cancellation with its credit.
* `RecordManualPayment`, `StaffMoves`, `TrashOrRestore`: what else staff do while
  attempts are out. A payment recorded by hand looks at what is due and at no
  attempt, and moves no status; T1 moves an order between PENDING and CONFIRMED
  whether it is paid or not; Trash refuses a confirmation. `cash` is the recorded
  part of `paid`; `late`, `moved` and `trash` remember for the properties that
  staff paid while an attempt was out, moved the order, or trashed it. `Desk`
  names which of the three a run explores.
* `GatewayAnswers`, `EpsGoesDown`, `EpsComesBack`, `ProcessFails`: the world.

`StoreBalance` is the promise without sessions, claims and sweeps: what a
checkout reserves of the balance is paid to its order or released, once; an
attempt's payment settles once; a success after the release pays what the balance
still allows; a payment by other means is at most what is due; a cancelled
order's money is credited once. It promises nothing of who does this, or of what is
asked for. `KeepsAccounts` maps the entries of the balance to `reserved` and `fate`,
the succeeded Payments to `settled` and `charged`, and the orders' rows to `kept`,
`cash` and `credited`; most statements are invisible to it.

Assumptions: one customer's balance; whole units; every order totals `Total`.
`PayableAge` bounds how old an attempt the customer can still pay. Left out:
the change of the order a payment may carry, with the credit that is issued or refused
for it (`PaymentLedger`); a payment link's own lifecycle; refunds; statuses after
CONFIRMED; permanent deletion.

### OrderStock

Every command on an order takes the order's row lock and runs in one
transaction, so it is one action, and it contains the transition, the counters
and the stock movement together. An exchange approval is one too: its return
leg inserts a `Shipment` and thereby shares the order's lock before it reads
the line. Permanent deletion is two actions: `permanentlyDeleteOrder`
(`modules/orders/order.service.ts:1980`) reads the Trash flag, then deletes.

* `order[o]` is an order with one line: `quantity`, `restocked`, `returned` are
  the columns of `OrderItem`; `good` and `damaged` sum its scanner receipts.
* `stock[v]` is `ProductVariant.stock`; `ledger[v]` the sum of the movements
  that belong to no order (adjustments, counts, write-offs, and the movements
  of orders that were deleted for good, which the deletion leaves behind).
* `Allowed` is the transition matrix T1–T8 of `order-state.ts`;
  `ChangeStatus` is `applyOrderTransition`; `ScanParcel` decides an undecided
  parcel and receives it, as `receiveParcel` does.
* `oversold` and `moneyBack` are history for the properties.

Assumptions: all lines of a variant are one line; the whole payment is refunded
or not; courier bookings, coupons, points, costing, fill-to-order floors,
untracked products, the scanner's version token and its idempotency keys are
left out. Where the code refuses a command on account of one of these and the
model does not, the model has more behaviours, and what it never does the code
does not do either. That does not hold of what the model leaves out as an effect:
stock that untracked or fill-to-order products move without a guard is outside
`StockIsExplained` and `NegativeIsExplained`.

`Office` names what else staff do in a run: permanent deletion, corrections of
receipts, adjustments and counts.

### PaymentLedger

Every command takes the order's row lock, reads the position and writes in one
transaction, so it is one action; commands of different orders do not meet, so
one order is enough. The sums over rows are taken over rows here as well.

* `payment`, `refund`, `credit` are the rows; `attempt` a gateway attempt with
  the order change it pays for; `paymentStatus` the stored projection, which
  `Refresh` rewrites where the code does and which is stale where it does not.
* `RecordManualPayment`, `RecordReturnCharge`, `SettleCourierCollected`,
  `ReclassifyPayment`, `RecordRefund`, `CompleteRefund`, `CreditRefundDue`: the
  commands of `domain/payments` and `domain/credit`.
* `ApproveReturn`, `RecordItemReturn`, `ApproveExchange`, `ChangeStatus`,
  `Deliver`, `Reconcile`, `CustomerCancels`, `CourierReports`, `BookOrUnlink`,
  `TrashOrRestore`: what the rest of the shop does to the money or to the rules.
  The booking's consignment may be saved at any status and in Trash, since the
  courier is asked in between.
* `ApplyChange`, `AwaitPayment`, `ExpireChange`, `AskForBalance`, `SettleBalance`,
  `SettleApplied`, `SettleUnapplied`: a change that raises the total waits for
  its payment; a late success is applied, or recorded and credited.
* `RepairProjection`: `repairPaymentLedger`.

Assumptions: no idempotency keys (a repeated call is another command); the four
pre-shipment statuses are one. Amounts are at most `MaxMoney` per row.

### CourierBooking

A booking is read, claim, courier call, save and ship, and no transaction spans
two of them (`call[s].step`); a report is read, answer, note and move
(`report[r].step`). Between any two, another booking, an unlink, a report, a
change of status or the end of the process may come.

* `ReadForBooking … ShipOnBooking`, `ReleaseClaim`, `OutcomeUnknown`: one booking.
  When the courier's answer is lost the claim is kept until its lease
  runs out (`LeaseExpires`).
* `ReadForUnlink`, `Unlink`: `cancelCourierBooking`.
* `BeginReport`, `CourierAnswers`, `NoteStatus`, `MoveOrder`: webhook and staff's look.
* `SweepBegins`, `SweepRepairs`, `SweepPolls`: the cron, which first ships what was
  booked and not shipped and then polls open parcels. The repair looks at the
  bookings of the last 48 hours only (`courier.service.ts:219`): `booked` is the age of
  `courierBookedAt`, as new as the next pass, recent, or older (`BookingAges`).
* `parcel` is the courier's side; `disturbed` and `dropped` are history.

The others of a run's `Casts` take no part: a cast is a set of staff calls and handlers
that do, chosen at the start.

### Books

A transaction is a step counter with the rows it has locked
(`tx[p].rows`, `.entries`), what it has yet to write and what it has written but
not committed. An action is one statement that reads, waits for or writes what
another transaction can change.

* `RecordEvent`, `BeginEvent`, `LockReplaced`, `ReverseReplaced`, `MarkFailed`:
  `processFinancialEvent`, with the supersession of an earlier revision.
* `CreateDraft`, `MoveDraft`, `DeleteDraft`, `PostDraft`, `ReverseJournal`,
  `CorrectJournal`: the journal commands of staff.
* `Write` is an INSERT or the posting UPDATE with its trigger, `Check` the deferred
  trigger at commit, `Commit` the commit; `Breaks` and `Dies` an error and a
  crash, after which the transaction has done nothing.
* `LockPeriod`, `CountDrafts`, `ChangePeriod`: closing and reopening a month.

Assumptions: a month is a date; `SOFT_CLOSED` is `OPEN` (a question of
permission); amounts, accounts and numbering are left out.

## 3. Runs

Every constant that bounds a run is commented where it is declared.
`CHECK_DEADLOCK FALSE` stands where the system may really stop: rows and orders
end in terminal statuses, and the numbers of events, sessions and order ids are finite.

| Run | Instance | Shows |
|---|---|---|
| `outbox_faults` | 1 event, 2 dispatch jobs, 3 workers, 2 attempts, 1 fault, 1 operator retry | nothing lost, duplicates accounted for, no two consumers at once without a disturbance, terminal rows stay |
| `outbox_events` | 2 events, 1 dispatcher, 2 workers, 1 fault, fair | implements `Delivery`; every intent is settled |
| `payment_two_checkouts` | 2 checkouts of one customer, EPS, 2 handlers, cron | exclusive claims, balance charged once, confirmed orders covered, SUCCEEDED final, implements `StoreBalance` |
| `payment_retry` | 1 existing order, unpaid or paid in part, 2 attempts by retry or link, 1 handler, cron, 1 crash; staff record payments and use Trash | an excess has a second paid attempt or a payment recorded meanwhile; claimed successes are booked unless refused |
| `payment_liveness` | 1 checkout, either gateway, one EPS outage, staff move the order, fair, no crash | attempts end, reservations resolve, EPS money is booked |
| `order_parcel` | 1 order, 1 variant, up to 3 units, stock up to 2, all four pre-shipment statuses | movements add up, nothing back twice or undecided, reservations hold, awaited until received |
| `order_exchange` | 1 order and 2 ids its replacements may take, 2 variants, 1 unit | one replacement per line, across variants and for a replacement exchanged in turn |
| `payment_ledger` | 1 order, 2 payments, 2 refunds, 1 attempt, amounts 0 and 1 | held money covers what is given back, delivered COD stays settled, one courier charge, REFUNDED only when all went back |
| `courier_booking` | 2 staff calls, or 1 and a push, next to the sweep; 2 parcels, 1 expired lease or unlink, fair | parcels accounted for, closed stays closed, booked is shipped, a final outcome reaches its order |
| `books` | an event and its revision, 1 manual draft, 2 workers, 1 desk, 2 months, 1 failure or period change, fair | a replaced event has no effect, nothing into a closed month, every event settles |

Why these bounds are enough to be interesting:

* Three workers let one late worker release the claim of another while a third
  claims; two attempts distinguish a retry from a first delivery; one fault per
  behaviour reaches every recovery path, and the proofs cover any number.
* Two handlers and the cron give the three concurrent claimants of a success.
  `payment_two_checkouts` has no crash: with one the run is too long, and
  what a crash does to claims is in `payment_retry`; the theorems cover any number.
* In `payment_retry` one handler and the cron give the two claimants, and a
  handler can start the second attempt while the first is still out. `MaxAge = 1`
  keeps the sweep out of this run: it expires less than a retry does, which
  expires an attempt the cron is about to claim.
  A total of 2 and an opening balance of 1 make a covered part, a gateway part,
  and a second checkout that finds the balance spent. Two sessions suffice for
  any conflict the code tests pairwise (the partial unique index on ACTIVE).
* Three units are the fewest for which kept, good and damaged units can all be
  non-zero in one parcel. A stock of up to 2 is short of 3, so sales
  are refused and settlements oversell.
  Stock may fall without bound through settlements and write-offs, and rise by
  returns; only restocking and counting are capped by `MaxStock`.
* An exchange is all or none per line, so one unit separates its cases; a
  second variant is needed because an exchange changes the variant. Only the
  original is placeable: the two others are ids for replacements, so an
  original could get two, and a replacement one of its own. `Office` is empty
  there: corrections, adjustments and deletions are in `order_parcel`, and the
  theorem covers them together.
  `CONFIRMED` and `PACKED` are the two pre-shipment statuses that differ in the
  matrix (T3 goes back to `PACKED`), all four are in `order_parcel`.
* In the ledger an amount of one separates nothing, something and everything:
  totals, payments and refunds of 0 and 1, two payments and two refunds give
  partial, exact and excess positions of up to two. A prepaid order that also
  takes cash, and a payment split into refund and credit, both occur.
* Two staff calls race for the claim, and a refused one can release the claim the
  other took after a lease ran out. A push next to one call is the other cast.
  A push together with two calls is too large for TLC: of that, the
  safety properties are proved for any number of calls, the liveness is not checked.
* In the books two workers meet on one event or on a revision and its original;
  staff, a closer and two months give every pair of locks. A chain
  of three revisions is in `books_superseded`; the proofs cover any chain.

### Fairness

* A handler that has not crashed goes on to its next statement: weak fairness
  of `HandlerStep`; the weak fairness of each worker's next statement is the same.
* The payment cron runs every five minutes. A pass may find a session not yet
  polled or the process busy, hence strong fairness of `Reconcile` and
  `BeginSweep`; within a pass the steps are weakly fair.
* The outbox dispatch job runs every three seconds; BullMQ hands waiting jobs to
  free workers and recovers stalled ones; clocks advance. All weakly fair.
* The courier sweep runs every 15 minutes, and the courier answers it again and
  again (strong fairness of `CourierAnswers(Sweep)`); a report that has its
  answer is written by the process that holds it. Bookings may stop for ever:
  the claim and the repair exist because they do. `OutcomeReachesOrder`
  excepts what `dropped` records, see below.
* The outbox delivers a financial event until it is processed, and an open
  transaction goes on or fails: weak fairness of each worker's and closer's
  next statement. Staff need not act.
* `payment_liveness` has no crash: `ReservationsResolve` says that the two commits
  (a session's end, the release) both happen when no process dies between them.
* EPS comes back after an outage. In `payment_liveness` the outage is shorter
  than the 24 h grace (`MaxAge = 2`): after the grace the code gives up on
  purpose.
* Nothing makes a customer pay, a browser return or a callback arrive.

## 4. Where the code and its own words differ

Each of these runs checks one statement of a comment; TLC refutes it.

| Run | Statement | What happens |
|---|---|---|
| `payment_coupon` | payment.service.ts:406, settled regardless of coupon drift | the coupon's last use went to somebody else while the customer paid; the booking throws after the claim |
| `books_superseded` | events.service.ts:207, a corrected fact never posts twice | a revision names only the one before it; when that one was not posted yet it is retired, and the journal it was to reverse stays live next to the new one |

Noticed while modelling, reached by the models, without a run of their own:

* `domain/outbox/consumers.ts:48` counts on the lease to prevent a duplicate;
  a worker that overruns it sends again (`DuplicatesAreAccountedFor` counts it,
  processor.ts:131).
* A dispatcher's mark may come after a worker has run the attempt and handed
  the row back for a retry (processor.ts:99): the row is then ENQUEUED without
  a job, and delayed until the reaper finds it stale.
* The reaper returns a crashed delivery to PENDING without looking at the
  attempts (processor.ts:150); the next claim counts on.
* A job that failed in the queue keeps its id for seven days and swallows the
  re-enqueue of the same attempt (jobs/outbox-worker.ts:21), although
  processor.ts:27 says that a row that lost its job is dispatched again.
* `retryPayment` expires by its id alone the session it read as ACTIVE
  (order.service.ts:857), over a success committed in between, although
  payment.service.ts:427 calls SUCCEEDED terminal. The claim of the same
  success can then be made twice; the theorems about claims name this exception.
  The same retry revives an attempt recorded as FAILED, whose later success finds
  a Payment row in its way and cannot be booked.
* A payment recorded by hand neither looks at an open attempt nor closes it
  (`domain/payments/payment-ledger.service.ts:312`). When that attempt is then paid, the
  order is overpaid with one paid attempt; `NeverOvercharged` bounds the excess
  by what was recorded meanwhile. `payment-requests.ts:11` expects it.
* A full payment by hand leaves the order PENDING, and staff may confirm an order
  that is not paid (T1, `order-state.ts:60`): `ConfirmedIsCovered` speaks of
  the orders that the payment code confirmed.
* A success that is claimed while its order is in Trash throws when it would
  confirm the order (order.service.ts:1315) and rolls back after the claim
  (payment.service.ts:126). The session stays SUCCEEDED without Payment, and
  restoring the order does not bring it back; `ClaimsAreBooked` excepts it.
* The fail and cancel redirects end a session without asking the gateway, and
  nothing asks EPS about a session that ended so: money it took is not booked
  (`EpsMoneyIsBooked` excepts these sessions).
* Nothing asks EPS about a session that was EXPIRED by hand (payment.service.ts:677),
  and EPS has no webhook: a payment completed there later is found only if the
  browser returns, although payment-requests.ts:11 lets it settle.
* A parcel that was cancelled after it shipped is outstanding until received
  (order.service.ts:1814); marking the order REFUNDED (T8, order.service.ts:1810)
  before the parcel is back takes it out of every queue, and it cannot be
  received any more. `AwaitedUntilReceived` speaks of what customers return.
* A crash between the claim of a success (payment.service.ts:443) and its
  booking leaves a SUCCEEDED session without Payment; `ClaimsAreBooked` allows
  at most one for every process that failed or died, besides those whose booking is
  refused: Trash, an earlier FAILED record, a coupon used up meanwhile (`payment_coupon`).
* A crash between the end of a session and the release of its reservation
  (payment.service.ts:573) leaves the reservation held.
* Two checkouts may both read a balance that only one can spend
  (payment.service.ts:261); the later is charged what is left, and
  `ConfirmedIsCovered` says what follows (`src/docs/ORDER_ADJUSTMENTS.md:168`).
* A correction of a receipt from good to damaged writes off without a guard
  (parcel-receive.service.ts:563): after the good units were sold again the
  stock goes negative, which `src/docs/INVENTORY_INVARIANTS.md:44` reserves for sales.
  `NegativeIsExplained` states the exact account.
* `permanentlyDeleteOrder` checks Trash outside the deletion; an order restored
  in between is deleted with the stock it took back.
* Comments at order.service.ts:1674 and in `schema.prisma:1369` say that
  reconciling a partial delivery puts stock back; since receipts exist it does not.

In the payment ledger:

* The projection drifts after `recordItemReturn` without compensation and after
  a reconciliation, which change the position and do not rewrite it
  (`src/docs/PAYMENT_LEDGER.md:322`). `RefundedGaveAllBack` holds all the same.
* A late payment of an order whose money was already given back may not settle
  at all: the credit for it is refused when nothing is due back, and the
  settlement rolls back with it (payment.service.ts:95).
* A zero-amount COD settlement row re-marked as a return charge stands in the
  way of a real one, or lets a second, automatic one through.
* An exchange's credit makes a delivered original order owe again
  (`DeliveredCodIsSettled` allows exactly that credit); the drift report omits
  CREDITED orders.
* `adjustOrderPrice` computes the total before it takes the lock that its comment
  relies on (order.service.ts:1592).
* Two requests with one idempotency key: the loser of the unique index gets a
  400 instead of the first one's answer (payment-ledger.service.ts:284).
* The courier is booked with the amount to collect read before the claim.
* A webhook whose handling FAILED keeps its idempotency key, so the courier's
  retry is answered DUPLICATE and its collected amount is lost
  (courier.service.ts:675).

In the courier bookings:

* A final courier status that is noted while the order cannot move
  (`dropped`) excludes the order from the sweep
  (courier-health.service.ts:15): it stays SHIPPED until staff look, although the
  job calls itself the safety net that keeps the order's status correct.
* `shipOnBooking` acts on the status the booking read: after a concurrent
  shipment it takes SHIPPED back to PACKED and forth, and the customer gets a
  second SMS (courier.service.ts:192).
* An order that is put back to PACKED (T3) or restored from Trash more than 48
  hours after it was booked is not shipped by the sweep, which leaves older bookings
  alone on purpose (courier.service.ts:207): `BookedIsShipped` speaks of recent ones.
* The claim checks neither the status nor Trash, and a customer's cancellation
  does not look at the claim: a parcel may be made for a cancelled order.
* A release clears whatever claim is there, a save overwrites whatever
  consignment is there, and the report of an unlinked consignment is written
  on an order booked again.
* Bulk booking saves consignments one after the other; an exception in
  between leaves the later ones unknown to their orders.

In the books:

* Staff may correct the journal of an event; the event's next revision replaces
  the journal, not its correction, and both stay live.
* A revision dated in an open month, of an original posted in a later month that
  was closed, fails with PERIOD_CLOSED until that month is reopened: the reversal
  is never dated before the original (events.service.ts:158). `EventSettles`
  excepts exactly this state (`ReversalIsStuck`); with the run's two months, of
  which the last stays open, it is never entered, so there every event does settle.

## 5. Proofs

TLAPS proves, for any number of events, workers, sessions, handlers, orders and
any bounds:

**OutboxProofs.** `TypeCorrect`; `TokensAccounted`; `AtMostOncePerDisturbance`.
That a side effect happens at most `1 + disturbed` times is not inductive: the
number of sends says nothing about who may still send. `DeliveryTokens` counts
the right to send as tokens. The row holds one while it is claimable, a worker holds
one while it may still send or hand the row back, and each send uses one up. Its
invariance needs one more fact, that a held lease without a live worker counts
as claimable. Each action is shown to add no token
without a disturbance.

**OutboxDeliveryProofs.** `IntentsAreKept`, `OneHandlerAtATime`, `SettledRowsStay`
and the refinement `OutboxDelivers` (`Spec => ImplementsDelivery`). The invariant
follows the deliveries: a worker that finished has handled its event, nothing
unrecorded is delivered, a deleted row has no lease left to run out, and the
workers of an event that was never disturbed still hold its claim, from
which two of them would hold the same one. In the step simulation the guard
of the abstract send is `AtMostOncePerDisturbance`.

**PaymentSessionsProofs.** `TypeCorrect` from `TypeInv`, the conjunction of
`SessOK`, `LedgerOK`, `ProcOK` and `WorldOK`, of which only `ProcOK` is not a
plain type: what a handler carries at each stage. It includes that the balance
never goes below zero. `ChargedOnce` from `ChargeInv`, which adds that an entry
is fresh until its session exists and that a consumed entry is booked, so that
neither the sweep's stale ids nor a late success can consume and release the
same reservation. `CancelledForGood` and `NeverOverCredited` from one lemma that
classifies every step by what it does to an order (`OrderMove`).

**PaymentClaimsProofs.** `OneBookerPerSuccess`, `SuccessIsForGood`, `SuccessMeansPaid`
and `ConfirmedOrdersAreCovered`. `ClaimStep(p)` lists what one step of process p may
do to processes, gateway pages and statuses, and every action is shown to be one;
a success is claimed only of a session the gateway took money for, and whoever is
about to book holds the session SUCCEEDED. The first two theorems assume that
`Entrances` has no `"retry"`: with it they are false, as section 4 says.
For the last, `CoverInv` keeps that a checkout's session and its reservation add up
to the total, that only a checkout's session has no order, and that a session's
Payment is written once.

`OrdersAreNotOvercharged`: that an excess beyond `late` takes two paid attempts is
not inductive, for the excess is decided when the second attempt starts. `AskInv`
says that as long as no attempt of an order was paid, none of its attempts asks for
more than is due, but for what is in `late`, nor does a process that is about to start
one; it needs who may carry which order between the claim, the booking and the link,
and that only what the gateway took is booked (`BookingIsPaid`).

`ClaimedSuccessesAreBooked` counts sessions. The set of lost ones is finite and grows by
at most one session a step: only a process that leaves `"book"` without a Payment
adds one, and it leaves it so by a fault or because the booking is refused, and
then the session is `Refusable`, which lasts: a coupon, a Trash mark and a Payment row
are never taken away.

`PaymentsKeepAccounts` (`Spec => KeepsAccounts`) is the refinement of
`StoreBalance`. The mapping hides the processes, so the guards of the abstract
steps must follow from the rows: that a reservation is fresh when it is made, unresolved
when it is paid or released, and that the order it pays is new. The invariants above
give most of this. `AccountInv` adds that only a checkout's session reserves, that only
a reservation is released or consumed, that a Payment has a session, and that an id
without an order has no money. One lemma shows each of the ledger's steps to be its abstract one
(a booking is a settlement with the share its reservation left, a cancellation a
credit), one that every other step changes nothing the mapping shows.
`MoneyIsConserved` then says that balance, reservations and what orders keep, less what
the gateway brought in, come to the same after every step. What staff recorded is taken off as what
the gateway brought in is. The sums are cardinalities of sets of money units, and these stay finite because a step changes the
units of one session or order; `IsFiniteSet(Existing)` is the assumption that starts it.

**OrderStockProofs.** `TypeCorrect`, `ReservationsKept`, `NothingComesBackTwice`,
`ReceiptsStayInStock`, `ReplacedOnce` and `ReturnsStayAwaited`, from one
inductive invariant. Of each row it says `CountersOK` (restocked and returned
within the line, receipts within what is restocked, money back within what is
returned) and `StatusOK`, what a status says of the counters: for instance that an
order before shipment has no receipt, without which restoring it from Trash
could take back received units. `ReplacementOK` ties an order to its replacement.
The proof has two levels: `Successor(r, s)` lists what one command may do to one row, and
every command is shown to make a successor (composed where a handler makes two
changes, as the scanner does); one lemma then carries a successor of any row to
all orders. Placing, exchanging and deleting for good touch more and are
proved by themselves.

`StockExplained` and `NegativeExplained` sum over all orders. A variant's sum is the
cardinality of the finite set of units its orders hold, so a command that changes one row
changes it by the difference of that row, whatever the number of orders. For each
command the proof compares that difference with what it moved in `stock` and `ledger`
(`Moves`), and, for the second theorem, shows that the movement is upwards, or ends at zero
or above, or is matched by units newly sold without a guard or written off. An
order that is placed enters the sum with its units, one that is deleted for good leaves
them to `ledger`.

**PaymentLedgerProofs.** `TypeCorrect`, `HeldMoneyCoversWhatIsGivenBack`,
`DeliveredStaysSettled`, `ChargedOnce` and `RefundedWhenAllIsBack`, for any number of
rows of any bounded amounts. Sums over sets of rows are handled by lemmas on how one
changed row changes its sum. A sum is the cardinality of a finite set of money
units. The inductive invariant adds to the checked ones that a stored REFUNDED is
never out of date, though other stored values may be: some commands change the
position and leave the stored status alone, and the rule for REFUNDED reads both.

**CourierBookingProofs.** `TypeCorrect`, `ParcelsAccounted` and `ClosedStays`, for any
casts. As
with the outbox, the number of parcels is not inductive; the right to make one is a
token held by a free, unclaimed order or by the one call that claimed it, and only
a lease that runs out or an unlink adds one.

**BooksProofs.** `TypeCorrect`, `ReplacedSettled` and `ClosedMonthsHold`. What a
transaction has written and not committed stays in open months: an inserted journal
holds a share of its period's row, and a posted draft counts as a draft for the
closer until it commits. So the second look of the deferred trigger never fails.

The assumptions are the named `ASSUME`s of the modules (non-zero bounds,
distinct placeholders, finite sets of workers); TLC evaluates them in every run.

What stays with TLC: the liveness properties (`EventuallySettled`,
`EpsMoneyIsBooked`, `ReservationsResolve`, `AttemptsEnd`, `BookedIsShipped`,
`OutcomeReachesOrder`, `EventSettles`), which are beyond the prover. Every
invariant and every action property or refinement that a passing run checks is
stated by a theorem. `ClaimsAreExclusive` and `SucceededIsFinal` are proved for
the entrances without `"retry"`, where they hold. `CancelledForGood`,
`NeverOverCredited`, `SuccessMeansPaid` and `MoneyIsConserved` are proved and are
properties of no run.

## 6. Not modelled, and why

`PROJECT.json` gives the reason per component. In short: pricing, tax and
accounting arithmetic (no interleaving; better as checked operators);
manufacturing and purchasing documents (large, behind the stock hub); treasury,
payroll, assets and statements (documents over the journal); content,
analytics, inbox and campaigns (data edits and reads); the gateways, BullMQ and
the courier's service, which appear only as the code uses them; the web
application, whose calls the models take in any order. Within the modelled
components: the shipment legs and courier costs, payout matching, batches of
the scanner, the product form, amounts and accounts of a journal.

## 7. Plan

Done: `Outbox` with its refinement of `Delivery`, `PaymentSessions` with its
refinement of `StoreBalance`, `OrderStock`, `PaymentLedger`, `CourierBooking`, `Books`, as above. Next, in this order:

1. Order and payment composed: one `Order` row shared by a cancellation, a
   settlement and an order change, with the payment link's own lifecycle and the
   ledger's idempotency keys.
2. The rest of inventory: flash units counted under a lock, the product form's
   compare-and-set, stock hub documents and their reversals. Abstract
   specification: a counter with a journal.
3. Loyalty points: earned, spent, reversed once, never below zero.
4. Refresh-token rotation with its grace window, and the rule that an active
   owner remains.
5. The provider guard's circuit per provider.
6. Proofs: abstract promises for `PaymentLedger` (what is received is kept,
   refunded or credited) and `CourierBooking` (one parcel per order and unlink),
   and what remains of the claims when an order's payment is retried.

The present runs take about a quarter of an hour together on two cores; a new
question should replace one of them or join it rather than repeat it.
