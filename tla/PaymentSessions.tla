-------------------------- MODULE PaymentSessions --------------------------
(***************************************************************************)
(* Gateway payment attempts (modules/payments/payment.service.ts), the     *)
(* store balance a checkout reserves (domain/credit), and the retry of an  *)
(* order's payment (order.service.ts retryPayment).                        *)
(*                                                                         *)
(* Every request handler and the reconciliation cron is a process that     *)
(* moves from one committed database statement or transaction to the next; *)
(* anything may happen in between.  Amounts are whole units: every order   *)
(* totals Total and one customer's balance pays for all of them.           *)
(***************************************************************************)
EXTENDS Integers, FiniteSets, FiniteSetsExt

CONSTANTS
  Sessions,     \* ids a PaymentSession row can get
  OrderIds,     \* ids an Order row can get
  Existing,     \* orders already placed, and unpaid or paid in part (admin-entered, an advance)
  Handlers,     \* concurrent API requests
  Cron,         \* the payment-reconciliation job
  None,
  Providers,    \* subset of {"EPS_PG", "SSLCOMMERZ"}
  Total,        \* what every order charges
  Opening,      \* the customer's store balance at the start
  CouponLimit,  \* usageLimit of the coupon a checkout may use
  MaxAge,       \* bound on a session's age, see Ages
  PayableAge,   \* age up to which the gateway page still takes the payment
  MaxFaults,    \* bound on crashed or failed steps
  MaxOutages,   \* bound on EPS outages
  Entrances,    \* the ways in a run explores, a subset of {"checkout", "retry", "link"}
  Desk          \* what staff do in a run besides cancelling, a subset of {"pay", "move", "trash"}

ASSUME SetsAssumption ==
  /\ Existing \subseteq OrderIds /\ IsFiniteSet(Existing)
  /\ Cron \notin Handlers
  /\ None \notin Sessions \cup OrderIds
  /\ Providers \subseteq {"EPS_PG", "SSLCOMMERZ"}
ASSUME AmountsAssumption == Total \in Nat \ {0} /\ Opening \in Nat
ASSUME BoundsAssumption ==
  /\ CouponLimit \in Nat /\ MaxAge \in 0..3 /\ PayableAge \in 0..3
  /\ MaxFaults \in Nat /\ MaxOutages \in Nat
  /\ Entrances \subseteq {"checkout", "retry", "link"}
  /\ Desk \subseteq {"pay", "move", "trash"}

VARIABLES
  sess,       \* PaymentSession rows
  gw,         \* what the gateway did with each attempt
  payment,    \* the gateway Payment row of each session (unique paymentSessionId)
  entry,      \* the CustomerCreditEntry rows keyed by each session
  balance,    \* the sum of the customer's credit entries
  order,      \* Order rows with the sums of their ledger rows
  coupon,     \* Coupon.usedCount
  proc,       \* where each process is
  sweep,      \* the expiry sweep's two id lists
  retryLock,  \* orders whose payment-retry key is set in Redis
  epsUp,      \* EPS answers
  outages,
  faults

vars == <<sess, gw, payment, entry, balance, order, coupon, proc, sweep, retryLock, epsUp, outages, faults>>
ledger == <<payment, entry, balance, order, coupon>>
outside == <<gw, epsUp, outages, faults>>

(* A session's age in the windows the code tells apart: 0 within the two   *)
(* and three minute grace periods, 1 past them, 2 past expiresAt (48 h),   *)
(* 3 past the 24 hours an unanswered EPS session is kept beyond that.      *)
Ages == 0..3
Settleable == {"ACTIVE", "EXPIRED"}
SessionStatuses == {"NONE", "ACTIVE", "SUCCEEDED", "FAILED", "CANCELLED", "EXPIRED"}
GatewayStates == {"none", "open", "paid", "short"}   \* an attempt nobody pays stays open

NoSession == [status |-> "NONE", order |-> None, pre |-> FALSE, provider |-> "EPS_PG",
              amount |-> 0, age |-> 0, coupon |-> FALSE]
NoEntry == [reserve |-> 0, consumed |-> FALSE, released |-> FALSE, respent |-> 0]
NoPayment == [status |-> "none", order |-> None]
\* cash is the part of paid that staff recorded by hand.  History: whether staff
\* moved the status or put the order into Trash, and how much of the cash came
\* when an attempt was already asking for it.
NoOrder == [status |-> "NONE", paid |-> 0, credited |-> 0, coupon |-> FALSE,
            cash |-> 0, late |-> 0, moved |-> FALSE, trash |-> "never"]
NewOrderRow(status, paid, withCoupon) ==
  [NoOrder EXCEPT !.status = status, !.paid = paid, !.coupon = withCoupon]

Procs == Handlers \cup {Cron}
Stages == {"idle", "claim", "book", "link", "failRecord", "release", "reserve", "placeOrder",
           "gateway", "retryExpire", "linkExpire", "start", "ask", "expire", "sweepRelease"}
Idle == [at |-> "idle", sess |-> None, order |-> None, amount |-> 0, coupon |-> FALSE]
NoSweep == [on |-> FALSE, ask |-> {}, ids |-> {}]

HeldFor(o) == order[o].paid - order[o].credited
\* Mutant: the gateway is asked for the order total.
Faulty_AmountDue(o) == IF order[o].status = "CANCELLED" \/ HeldFor(o) >= Total THEN 0 ELSE Total
AmountDue(o) ==
  IF order[o].status = "CANCELLED" \/ HeldFor(o) >= Total THEN 0 ELSE Total - HeldFor(o)
InTrash(o) == order[o].trash = "in"
ActiveOf(o) == {s \in Sessions : sess[s].status = "ACTIVE" /\ sess[s].order = o}

(* Where a process goes when its current call returns or throws: a settle  *)
(* the sweep asked for returns into the sweep's loop.                      *)
Home(p) == IF p = Cron /\ sweep.on THEN [Idle EXCEPT !.at = "ask"] ELSE Idle
Go(p, stage) == proc' = [proc EXCEPT ![p].at = stage]
Return(p) == proc' = [proc EXCEPT ![p] = Home(p)]
SetStatus(s, status) == sess' = [sess EXCEPT ![s].status = status]

Init ==
  /\ sess = [s \in Sessions |-> NoSession]
  /\ gw = [s \in Sessions |-> "none"]
  /\ payment = [s \in Sessions |-> NoPayment]
  /\ entry = [s \in Sessions |-> NoEntry]
  /\ balance = Opening
  /\ \E advance \in [Existing -> 0..(Total - 1)] :
       order = [o \in OrderIds |-> IF o \in Existing
                                     THEN [NoOrder EXCEPT !.status = "PENDING", !.paid = advance[o]]
                                     ELSE NoOrder]
  /\ coupon = 0
  /\ proc = [p \in Procs |-> Idle]
  /\ sweep = NoSweep
  /\ retryLock = {}
  /\ epsUp = TRUE
  /\ outages = 0
  /\ faults = 0

-----------------------------------------------------------------------------
(* The store-balance reservation of a checkout.  Every operator below runs *)
(* under the customer row lock, so it is one step with its transaction.    *)

\* Mutant: the reservation is taken back without looking at its paymentId.
Faulty_Unresolved(s) == entry[s].reserve > 0 /\ ~entry[s].released
Unresolved(s) == entry[s].reserve > 0 /\ ~entry[s].consumed /\ ~entry[s].released

ReleaseReservation(s) ==
  IF Unresolved(s)
    THEN /\ entry' = [entry EXCEPT ![s].released = TRUE]
         /\ balance' = balance + entry[s].reserve
    ELSE UNCHANGED <<entry, balance>>

-----------------------------------------------------------------------------
(* A storefront checkout paid online: no order yet, only a session.  A     *)
(* repeat with the same key or cart is answered with the live session and  *)
(* changes nothing; one that slips past that guard is another checkout.    *)

BeginCheckout(p) ==
  /\ "checkout" \in Entrances /\ p \in Handlers /\ proc[p].at = "idle"
  /\ \E useBalance, useCoupon \in BOOLEAN :
       LET covered == IF useBalance THEN Min({balance, Total}) ELSE 0 IN
       /\ useCoupon => coupon < CouponLimit
       /\ useBalance => balance > 0
       /\ proc' = [proc EXCEPT ![p] = [Idle EXCEPT !.at = IF covered = Total THEN "placeOrder" ELSE "reserve",
                                                   !.amount = covered, !.coupon = useCoupon]]
  /\ UNCHANGED <<sess, ledger, sweep, retryLock, outside>>

(* The balance covered everything when it was read: createOrder writes the *)
(* order and pays what the balance holds now.                              *)
PlaceFromBalance(p) ==
  /\ proc[p].at = "placeOrder"
  /\ \E o \in OrderIds :
       /\ order[o].status = "NONE"
       /\ LET pays == Min({balance, Total}) IN
            IF proc[p].coupon /\ coupon >= CouponLimit
              THEN UNCHANGED <<order, balance, coupon>>
              ELSE /\ order' = [order EXCEPT ![o] =
                                 NewOrderRow(IF pays = Total THEN "CONFIRMED" ELSE "PENDING", pays, proc[p].coupon)]
                   /\ balance' = balance - pays
                   /\ coupon' = IF proc[p].coupon THEN coupon + 1 ELSE coupon
  /\ Return(p)
  /\ UNCHANGED <<sess, payment, entry, sweep, retryLock, outside>>

\* Mutant: the reservation is taken on the balance read before the transaction.
Faulty_Covers(amount) == TRUE
Covers(amount) == balance >= amount

ReserveAndCreate(p) ==
  LET reserved == proc[p].amount IN
  /\ proc[p].at = "reserve"
  /\ IF ~Covers(reserved)
       THEN Return(p) /\ UNCHANGED <<sess, entry, balance>>
       ELSE \E s \in Sessions, provider \in Providers :
              /\ sess[s].status = "NONE"
              /\ sess' = [sess EXCEPT ![s] = [NoSession EXCEPT !.status = "ACTIVE", !.pre = TRUE, !.provider = provider,
                                                               !.amount = Total - reserved, !.coupon = proc[p].coupon]]
              /\ entry' = [entry EXCEPT ![s].reserve = reserved]
              /\ balance' = balance - reserved
              /\ proc' = [proc EXCEPT ![p].at = "gateway", ![p].sess = s]
  /\ UNCHANGED <<payment, order, coupon, sweep, retryLock, outside>>

-----------------------------------------------------------------------------
(* A payment attempt for an order that exists.                             *)

BeginRetry(p, o) ==
  /\ "retry" \in Entrances /\ p \in Handlers /\ proc[p].at = "idle"
  /\ order[o].status = "PENDING" /\ HeldFor(o) < Total /\ ~InTrash(o)
  /\ o \notin retryLock
  /\ \A s \in ActiveOf(o) : sess[s].age >= 1
  /\ retryLock' = retryLock \cup {o}
  /\ proc' = [proc EXCEPT ![p] = IF ActiveOf(o) = {}
                                   THEN [Idle EXCEPT !.at = "start", !.order = o, !.amount = AmountDue(o)]
                                   ELSE [Idle EXCEPT !.at = "retryExpire", !.order = o,
                                                     !.sess = CHOOSE s \in ActiveOf(o) : TRUE]]
  /\ UNCHANGED <<sess, ledger, sweep, outside>>

(* update({ where: { id } }): whatever the status became meanwhile.        *)
RetryExpire(p) ==
  /\ proc[p].at = "retryExpire"
  /\ SetStatus(proc[p].sess, "EXPIRED")
  /\ proc' = [proc EXCEPT ![p].at = "start", ![p].sess = None, ![p].amount = AmountDue(proc[p].order)]
  /\ UNCHANGED <<ledger, sweep, retryLock, outside>>

BeginLink(p, o) ==
  /\ "link" \in Entrances /\ p \in Handlers /\ proc[p].at = "idle"
  /\ order[o].status \in {"PENDING", "CONFIRMED"} /\ AmountDue(o) > 0 /\ ~InTrash(o)
  /\ proc' = [proc EXCEPT ![p] = [Idle EXCEPT !.at = "linkExpire", !.order = o, !.amount = AmountDue(o),
                                              !.sess = IF ActiveOf(o) = {} THEN None ELSE CHOOSE s \in ActiveOf(o) : TRUE]]
  /\ UNCHANGED <<sess, ledger, sweep, retryLock, outside>>

LinkExpire(p) ==
  LET s == proc[p].sess IN
  /\ proc[p].at = "linkExpire"
  /\ IF s # None /\ sess[s].status = "ACTIVE" /\ sess[s].age >= 1
       THEN SetStatus(s, "EXPIRED")
       ELSE UNCHANGED sess
  /\ proc' = [proc EXCEPT ![p].at = "start", ![p].sess = None]
  /\ UNCHANGED <<ledger, sweep, retryLock, outside>>

(* startPaymentSession: the partial unique index refuses a second ACTIVE   *)
(* session of the order; the live one is reused or the request gets a 409. *)
StartSession(p) ==
  LET o == proc[p].order IN
  /\ proc[p].at = "start"
  /\ IF proc[p].amount = 0 \/ ActiveOf(o) # {}
       THEN Return(p) /\ retryLock' = retryLock \ {o} /\ UNCHANGED sess
       ELSE \E s \in Sessions, provider \in Providers :
              /\ sess[s].status = "NONE"
              /\ sess' = [sess EXCEPT ![s] = [NoSession EXCEPT !.status = "ACTIVE", !.order = o,
                                                               !.provider = provider, !.amount = proc[p].amount]]
              /\ proc' = [proc EXCEPT ![p].at = "gateway", ![p].sess = s]
              /\ UNCHANGED retryLock
  /\ UNCHANGED <<ledger, sweep, outside>>

(* The gateway opens its page, and the customer gets its address.          *)
GatewayOpens(p) ==
  LET s == proc[p].sess IN
  /\ proc[p].at = "gateway"
  /\ gw' = [gw EXCEPT ![s] = "open"]
  /\ retryLock' = retryLock \ {proc[p].order}
  /\ Return(p)
  /\ UNCHANGED <<sess, ledger, sweep, epsUp, outages, faults>>

(* It does not: the session is FAILED and, for a checkout, the reservation *)
(* goes back in a transaction of its own.                                  *)
GatewayRefuses(p) ==
  LET s == proc[p].sess IN
  /\ proc[p].at = "gateway"
  /\ SetStatus(s, "FAILED")
  /\ IF sess[s].pre THEN Go(p, "release") ELSE Return(p)
  /\ retryLock' = retryLock \ {proc[p].order}
  /\ UNCHANGED <<ledger, sweep, outside>>

\* Mutant: the session ends and its reservation is forgotten.
Faulty_ReleaseStep(p) ==
  /\ proc[p].at = "release"
  /\ Return(p)
  /\ UNCHANGED <<sess, ledger, sweep, retryLock, outside>>
ReleaseStep(p) ==
  /\ proc[p].at = "release"
  /\ ReleaseReservation(proc[p].sess)
  /\ Return(p)
  /\ UNCHANGED <<sess, payment, order, coupon, sweep, retryLock, outside>>

RetryLockTimesOut(o) ==
  /\ o \in retryLock
  /\ retryLock' = retryLock \ {o}
  /\ UNCHANGED <<sess, ledger, proc, sweep, outside>>

-----------------------------------------------------------------------------
(* settlePaymentSession.  The read decides whether to try; the conditional *)
(* update is the claim; the order and its Payment come in a transaction of *)
(* their own; a checkout's session learns its order after that.            *)

Verified(s) == gw[s] = "paid"

ReadForSettle(p, s) ==
  /\ Verified(s) /\ sess[s].status \in Settleable
  /\ proc' = [proc EXCEPT ![p] = [Idle EXCEPT !.at = "claim", !.sess = s, !.order = sess[s].order]]

(* A redirect or an IPN of the gateway, at any time and any number of      *)
(* times after the payment: the handler asks the gateway before it settles.*)
SuccessCallback(p, s) ==
  /\ p \in Handlers /\ proc[p].at = "idle"
  /\ sess[s].provider = "EPS_PG" => epsUp
  /\ ReadForSettle(p, s)
  /\ UNCHANGED <<sess, ledger, sweep, retryLock, outside>>

Reconcile(s) ==
  /\ proc[Cron].at = "idle" /\ epsUp
  /\ sess[s].provider = "EPS_PG" /\ sess[s].status = "ACTIVE" /\ sess[s].age \in {1, 2}
  /\ sess[s].order # None => ~InTrash(sess[s].order)
  /\ ReadForSettle(Cron, s)
  /\ UNCHANGED <<sess, ledger, sweep, retryLock, outside>>

\* Mutant: the claim trusts the status read before it.
Faulty_ClaimMatches(s) == TRUE
ClaimMatches(s) == sess[s].status \in Settleable

ClaimSession(p) ==
  LET s == proc[p].sess IN
  /\ proc[p].at = "claim"
  /\ IF ClaimMatches(s)
       THEN SetStatus(s, "SUCCEEDED") /\ Go(p, "book")
       ELSE Return(p) /\ UNCHANGED sess
  /\ UNCHANGED <<ledger, sweep, retryLock, outside>>

(* What the checkout's balance still pays: its reservation, or, when that  *)
(* was given back, what the balance holds of it now.                       *)
\* Mutant: the balance is spent afresh although the reservation still stands.
Faulty_FromBalance(s) == Min({entry[s].reserve, balance})
FromBalance(s) ==
  IF Unresolved(s) THEN entry[s].reserve ELSE Min({entry[s].reserve, balance})

BookingThrows(s) ==
  payment[s].status # "none" \/ (sess[s].coupon /\ coupon >= CouponLimit)

(* insertOrderRecord for a paid checkout.  A coupon used up since the      *)
(* quote, or a Payment that exists, throws and rolls everything back.      *)
BookCheckout(p) ==
  LET s == proc[p].sess IN
  /\ proc[p].at = "book" /\ proc[p].order = None
  /\ IF BookingThrows(s)
       THEN Return(p) /\ UNCHANGED ledger
       ELSE \E o \in OrderIds :
              /\ order[o].status = "NONE"
              /\ order' = [order EXCEPT ![o] =
                             NewOrderRow("CONFIRMED", sess[s].amount + FromBalance(s), sess[s].coupon)]
              /\ payment' = [payment EXCEPT ![s] = [status |-> "SUCCEEDED", order |-> o]]
              /\ IF Unresolved(s)
                   THEN entry' = [entry EXCEPT ![s].consumed = TRUE] /\ UNCHANGED balance
                   ELSE entry' = [entry EXCEPT ![s].respent = FromBalance(s)] /\ balance' = balance - FromBalance(s)
              /\ coupon' = IF sess[s].coupon THEN coupon + 1 ELSE coupon
              /\ proc' = [proc EXCEPT ![p].at = "link", ![p].order = o]
  /\ UNCHANGED <<sess, sweep, retryLock, outside>>

LinkOrder(p) ==
  /\ proc[p].at = "link"
  /\ sess' = [sess EXCEPT ![proc[p].sess].order = proc[p].order]
  /\ Return(p)
  /\ UNCHANGED <<ledger, sweep, retryLock, outside>>

BecomesPaid(o, paid) == HeldFor(o) < Total /\ HeldFor(o) + paid >= Total
Confirms(o, paid) == order[o].status = "PENDING" /\ BecomesPaid(o, paid)

\* Mutant: money for an order that is not PENDING any more is refused.
Faulty_SettlementThrows(s, o) == payment[s].status # "none" \/ order[o].status # "PENDING"
\* The session has a Payment, or the order is to be confirmed and is in Trash
\* ("Restore this order before making changes").
SettlementThrows(s, o) ==
  payment[s].status # "none" \/ (InTrash(o) /\ Confirms(o, sess[s].amount))

(* settleExistingOrder: the Payment and the status in one transaction.     *)
BookOrder(p) ==
  LET s == proc[p].sess
      o == proc[p].order
  IN
  /\ proc[p].at = "book" /\ o # None
  /\ IF SettlementThrows(s, o)
       THEN UNCHANGED <<payment, order>>
       ELSE /\ payment' = [payment EXCEPT ![s] = [status |-> "SUCCEEDED", order |-> o]]
            /\ order' = [order EXCEPT ![o].paid = @ + sess[s].amount,
                                      ![o].status = IF Confirms(o, sess[s].amount) THEN "CONFIRMED" ELSE @]
  /\ Return(p)
  /\ UNCHANGED <<sess, entry, balance, coupon, sweep, retryLock, outside>>

-----------------------------------------------------------------------------
(* markPaymentSessionFailed and markPaymentSessionCancelled.  The redirect *)
(* is believed without asking the gateway: the customer may have paid, or  *)
(* still pay on the page left open.                                        *)

FailCallback(p, s) ==
  /\ p \in Handlers /\ proc[p].at = "idle"
  /\ gw[s] # "none" /\ sess[s].status = "ACTIVE"
  /\ SetStatus(s, "FAILED")
  /\ proc' = [proc EXCEPT ![p] = [Idle EXCEPT !.at = "failRecord", !.sess = s]]
  /\ UNCHANGED <<ledger, sweep, retryLock, outside>>

RecordFailure(p) ==
  LET s == proc[p].sess IN
  /\ proc[p].at = "failRecord"
  /\ IF payment[s].status # "none"
       THEN UNCHANGED <<payment, entry, balance>>
       ELSE /\ payment' = [payment EXCEPT ![s] = [status |-> "FAILED", order |-> sess[s].order]]
            /\ ReleaseReservation(s)
  /\ Return(p)
  /\ UNCHANGED <<sess, order, coupon, sweep, retryLock, outside>>

CancelCallback(p, s) ==
  /\ p \in Handlers /\ proc[p].at = "idle"
  /\ gw[s] # "none" /\ sess[s].status = "ACTIVE"
  /\ SetStatus(s, "CANCELLED")
  /\ proc' = [proc EXCEPT ![p] = [Idle EXCEPT !.at = "release", !.sess = s]]
  /\ UNCHANGED <<ledger, sweep, retryLock, outside>>

-----------------------------------------------------------------------------
(* expireStalePaymentSessions: read the stale ids, ask EPS about its own,  *)
(* expire what is left in one update, then release each id's reservation.  *)

\* Mutant: only the sessions that can be asked about are swept.
Faulty_Stale(s) == sess[s].status = "ACTIVE" /\ sess[s].age >= 2 /\ sess[s].provider = "EPS_PG"
Stale(s) == sess[s].status = "ACTIVE" /\ sess[s].age >= 2

BeginSweep ==
  LET stale == {s \in Sessions : Stale(s)} IN
  /\ proc[Cron].at = "idle" /\ stale # {}
  /\ Go(Cron, "ask")
  /\ sweep' = [on |-> TRUE, ask |-> stale, ids |-> {}]
  /\ UNCHANGED <<sess, ledger, retryLock, outside>>

\* Mutant: a session past its window expires without EPS being asked.
Faulty_EpsConfirms(s) == FALSE
EpsConfirms(s) == sess[s].provider = "EPS_PG" /\ epsUp /\ Verified(s)

SweepAsk(s) ==
  LET eps == sess[s].provider = "EPS_PG"
      paid == EpsConfirms(s)
      keep == paid \/ (eps /\ ~epsUp /\ sess[s].age < 3)
  IN
  /\ proc[Cron].at = "ask" /\ s \in sweep.ask
  /\ sweep' = [sweep EXCEPT !.ask = @ \ {s}, !.ids = IF keep THEN @ ELSE @ \cup {s}]
  /\ IF paid /\ sess[s].status \in Settleable THEN ReadForSettle(Cron, s) ELSE UNCHANGED proc
  /\ UNCHANGED <<sess, ledger, retryLock, outside>>

\* Mutant: the update names the ids only.
Faulty_ExpireMatches(s) == s \in sweep.ids
ExpireMatches(s) == s \in sweep.ids /\ sess[s].status = "ACTIVE"

SweepExpire ==
  /\ proc[Cron].at = "ask" /\ sweep.ask = {}
  /\ sess' = [s \in Sessions |-> IF ExpireMatches(s) THEN [sess[s] EXCEPT !.status = "EXPIRED"] ELSE sess[s]]
  /\ Go(Cron, "sweepRelease")
  /\ UNCHANGED <<ledger, sweep, retryLock, outside>>

SweepRelease(s) ==
  /\ proc[Cron].at = "sweepRelease" /\ s \in sweep.ids
  /\ ReleaseReservation(s)
  /\ sweep' = [sweep EXCEPT !.ids = @ \ {s}]
  /\ UNCHANGED <<sess, payment, order, coupon, proc, retryLock, outside>>

EndSweep ==
  /\ proc[Cron].at = "sweepRelease" /\ sweep.ids = {}
  /\ sweep' = NoSweep
  /\ Go(Cron, "idle")
  /\ UNCHANGED <<sess, ledger, retryLock, outside>>

-----------------------------------------------------------------------------
(* Cancelling an order.  The customer's own cancellation closes the open   *)
(* attempts and credits what was received, once; staff only cancel.        *)

GivesCouponBack(o) == coupon' = IF order[o].coupon /\ order[o].status # "CANCELLED" THEN coupon - 1 ELSE coupon

\* Mutant: what was received is credited again with every cancellation.
Faulty_CancellationCredit(o) == order[o].paid
CancellationCredit(o) == IF order[o].credited = 0 THEN order[o].paid ELSE 0

CustomerCancels(o) ==
  LET credit == CancellationCredit(o) IN
  /\ order[o].status # "NONE" /\ ~InTrash(o)
  /\ order[o].status = "CANCELLED" => credit > 0
  /\ order' = [order EXCEPT ![o].status = "CANCELLED", ![o].credited = @ + credit]
  /\ balance' = balance + credit
  /\ GivesCouponBack(o)
  /\ sess' = [s \in Sessions |-> IF s \in ActiveOf(o) /\ order[o].status # "CANCELLED"
                                   THEN [sess[s] EXCEPT !.status = "EXPIRED"] ELSE sess[s]]
  /\ UNCHANGED <<payment, entry, proc, sweep, retryLock, outside>>

StaffCancels(o) ==
  /\ order[o].status \in {"PENDING", "CONFIRMED"} /\ ~InTrash(o)
  /\ order' = [order EXCEPT ![o].status = "CANCELLED"]
  /\ GivesCouponBack(o)
  /\ UNCHANGED <<sess, payment, entry, balance, proc, sweep, retryLock, outside>>

-----------------------------------------------------------------------------
(* What else staff do to an order, whatever its attempts are doing: record *)
(* a payment received by other means (recordManualPayment), move it between*)
(* PENDING and CONFIRMED (T1), put it into Trash and restore it.           *)

\* An attempt of the order may still be paid, or is about to start.
AttemptIsOut(o) ==
  \/ \E s \in Sessions : /\ sess[s].status # "NONE" /\ sess[s].order = o
                        /\ gw[s] # "short" /\ payment[s].status = "none"
  \/ \E p \in Procs : proc[p].at \in {"linkExpire", "start"} /\ proc[p].order = o

RecordManualPayment(o) ==
  /\ "pay" \in Desk
  /\ order[o].status \in {"PENDING", "CONFIRMED"} /\ ~InTrash(o)
  /\ \E amount \in 1..AmountDue(o) :
       order' = [order EXCEPT ![o].paid = @ + amount, ![o].cash = @ + amount,
                              ![o].late = IF AttemptIsOut(o) THEN @ + amount ELSE @]
  /\ UNCHANGED <<sess, payment, entry, balance, coupon, proc, sweep, retryLock, outside>>

StaffMoves(o) ==
  /\ "move" \in Desk
  /\ order[o].status \in {"PENDING", "CONFIRMED"} /\ ~InTrash(o)
  /\ order' = [order EXCEPT ![o].moved = TRUE,
                            ![o].status = IF @ = "PENDING" THEN "CONFIRMED" ELSE "PENDING"]
  /\ UNCHANGED <<sess, payment, entry, balance, coupon, proc, sweep, retryLock, outside>>

TrashOrRestore(o) ==
  /\ "trash" \in Desk
  /\ order[o].status # "NONE"
  /\ order' = [order EXCEPT ![o].trash = IF @ = "in" THEN "out" ELSE "in"]
  /\ UNCHANGED <<sess, payment, entry, balance, coupon, proc, sweep, retryLock, outside>>

-----------------------------------------------------------------------------
(* The world: an attempt is paid at most once, in full or short of what    *)
(* was asked; EPS goes down and comes back, time passes, and processes die *)
(* or a statement of theirs throws.                                        *)

GatewayAnswers(s) ==
  /\ gw[s] = "open"
  /\ sess[s].age <= PayableAge
  /\ \E answer \in {"paid", "short"} : gw' = [gw EXCEPT ![s] = answer]
  /\ UNCHANGED <<sess, ledger, proc, sweep, retryLock, epsUp, outages, faults>>

TimePasses(s) ==
  /\ sess[s].status # "NONE" /\ sess[s].age < MaxAge
  /\ sess' = [sess EXCEPT ![s].age = @ + 1]
  /\ UNCHANGED <<ledger, proc, sweep, retryLock, outside>>

EpsGoesDown ==
  /\ epsUp /\ outages < MaxOutages
  /\ epsUp' = FALSE /\ outages' = outages + 1
  /\ UNCHANGED <<sess, gw, ledger, proc, sweep, retryLock, faults>>

EpsComesBack ==
  /\ ~epsUp
  /\ epsUp' = TRUE
  /\ UNCHANGED <<sess, gw, ledger, proc, sweep, retryLock, outages, faults>>

ProcessFails(p) ==
  /\ proc[p].at # "idle" /\ faults < MaxFaults
  /\ faults' = faults + 1
  /\ proc' = [proc EXCEPT ![p] = Idle]
  /\ sweep' = IF p = Cron THEN NoSweep ELSE sweep
  /\ UNCHANGED <<sess, gw, ledger, retryLock, epsUp, outages>>

-----------------------------------------------------------------------------
HandlerStep(p) ==
  \/ PlaceFromBalance(p)
  \/ ReserveAndCreate(p)
  \/ RetryExpire(p)
  \/ LinkExpire(p)
  \/ StartSession(p)
  \/ GatewayOpens(p)
  \/ GatewayRefuses(p)
  \/ ReleaseStep(p)
  \/ ClaimSession(p)
  \/ BookCheckout(p)
  \/ BookOrder(p)
  \/ LinkOrder(p)
  \/ RecordFailure(p)

Request(p) ==
  \/ BeginCheckout(p)
  \/ \E o \in OrderIds : BeginRetry(p, o) \/ BeginLink(p, o)
  \/ \E s \in Sessions : SuccessCallback(p, s) \/ FailCallback(p, s) \/ CancelCallback(p, s)

CronStep ==
  \/ \E s \in Sessions : Reconcile(s) \/ SweepAsk(s) \/ SweepRelease(s)
  \/ BeginSweep
  \/ SweepExpire
  \/ EndSweep

World ==
  \/ \E s \in Sessions : GatewayAnswers(s) \/ TimePasses(s)
  \/ \E o \in OrderIds :
       \/ CustomerCancels(o) \/ StaffCancels(o) \/ RetryLockTimesOut(o)
       \/ RecordManualPayment(o) \/ StaffMoves(o) \/ TrashOrRestore(o)
  \/ EpsGoesDown
  \/ EpsComesBack
  \/ \E p \in Procs : ProcessFails(p)

Next == (\E p \in Procs : Request(p) \/ HandlerStep(p)) \/ CronStep \/ World

Spec == Init /\ [][Next]_vars

(* A handler that has not crashed goes on to its next statement; the cron  *)
(* job runs every five minutes and finishes; clocks advance; EPS comes     *)
(* back.  Nothing makes a customer pay or a callback arrive.               *)
Fairness ==
  /\ \A p \in Procs : WF_vars(HandlerStep(p))
  /\ \A s \in Sessions : SF_vars(Reconcile(s)) /\ WF_vars(SweepAsk(s)) /\ WF_vars(SweepRelease(s))
  /\ SF_vars(BeginSweep) /\ WF_vars(SweepExpire) /\ WF_vars(EndSweep)
  /\ \A s \in Sessions : WF_vars(TimePasses(s))
  /\ WF_vars(EpsComesBack)

FairSpec == Spec /\ Fairness

-----------------------------------------------------------------------------
(* Rows keep the shapes of the schema; the balance never goes below zero   *)
(* (CR-4 of docs/ORDER_ADJUSTMENTS.md) whatever order the spends run in.   *)
SessionRows == [status : SessionStatuses, order : OrderIds \cup {None}, pre : BOOLEAN,
                provider : {"EPS_PG", "SSLCOMMERZ"}, amount : 0..Total, age : Ages, coupon : BOOLEAN]
EntryRows == [reserve : 0..Total, consumed : BOOLEAN, released : BOOLEAN, respent : 0..Total]
PaymentRows == [status : {"none", "SUCCEEDED", "FAILED"}, order : OrderIds \cup {None}]
OrderRows == [status : {"NONE", "PENDING", "CONFIRMED", "CANCELLED"}, paid : Nat, credited : Nat, coupon : BOOLEAN,
              cash : Nat, late : Nat, moved : BOOLEAN, trash : {"never", "in", "out"}]
ProcStates == [at : Stages, sess : Sessions \cup {None}, order : OrderIds \cup {None}, amount : 0..Total, coupon : BOOLEAN]

TypeOK ==
  /\ sess \in [Sessions -> SessionRows]
  /\ gw \in [Sessions -> GatewayStates]
  /\ payment \in [Sessions -> PaymentRows]
  /\ entry \in [Sessions -> EntryRows]
  /\ balance \in Nat
  /\ order \in [OrderIds -> OrderRows]
  /\ coupon \in Int
  /\ proc \in [Procs -> ProcStates]
  /\ sweep \in [on : BOOLEAN, ask : SUBSET Sessions, ids : SUBSET Sessions]
  /\ retryLock \in SUBSET OrderIds
  /\ epsUp \in BOOLEAN
  /\ outages \in Nat
  /\ faults \in Nat

(* One checkout takes what it reserved from the customer's balance at most *)
(* once: a reservation is paid to the order or given back, never both, and *)
(* is spent afresh only after it was given back -- however the expiry      *)
(* sweep, a failure and a late success of the same session interleave.     *)
NeverChargedTwice ==
  \A s \in Sessions :
    /\ ~(entry[s].consumed /\ entry[s].released)
    /\ entry[s].respent > 0 => entry[s].released
    /\ entry[s].respent <= entry[s].reserve

(* An order that the payment code confirmed is paid in full; the only      *)
(* shortfall there is comes from a checkout whose reservation had been     *)
(* given back before the late success booked (settleReservedStoreCredit).  *)
(* Staff may confirm an unpaid order, so one they moved is another matter. *)
ConfirmedIsCovered ==
  \A o \in OrderIds :
    order[o].status = "CONFIRMED" /\ ~order[o].moved /\ order[o].paid < Total =>
      \E s \in Sessions : payment[s].order = o /\ entry[s].released

(* Of all the callbacks, the IPN and the cron that report the same success *)
(* only one gets to book it (the claim of settlePaymentSession).           *)
ClaimsAreExclusive ==
  \A p, q \in Procs :
    p # q /\ proc[p].at = "book" /\ proc[q].at = "book" => proc[p].sess # proc[q].sess

(* A session whose success was claimed gets its Payment.  Left without are *)
(* those whose process died or failed between the two, and those that the  *)
(* booking refuses: the coupon was used up meanwhile, the order went into  *)
(* Trash, or a retry revived an attempt recorded as FAILED.  Attempts that *)
(* pay for a change of the order are PaymentLedger's (SettleUnapplied).    *)
Unbooked == {s \in Sessions :
  /\ sess[s].status = "SUCCEEDED" /\ payment[s].status # "SUCCEEDED"
  /\ \A p \in Procs : ~(proc[p].at = "book" /\ proc[p].sess = s)}
Refusable(s) ==
  \/ sess[s].coupon
  \/ sess[s].order # None /\ order[sess[s].order].trash # "never"
  \/ payment[s].status = "FAILED"
ClaimsAreBooked == Cardinality({s \in Unbooked : ~Refusable(s)}) <= faults

(* "FAILED/CANCELLED/SUCCEEDED are the only true terminal states" of a     *)
(* session (payment.service.ts:427): nothing takes a success back, but the *)
(* retry, which expires by its id alone the session it read as ACTIVE.     *)
SucceededIsFinal ==
  [][\A s \in Sessions : sess[s].status = "SUCCEEDED" => sess'[s].status = "SUCCEEDED"]_vars

(* A late success records its money on a cancelled order but never brings  *)
(* the order back (its stock has already been released).                   *)
CancelledStays ==
  [][\A o \in OrderIds : order[o].status = "CANCELLED" => order'[o].status = "CANCELLED"]_vars

(* An order takes more than its total by two attempts that were both       *)
(* really paid, or by what staff recorded while an attempt was out: no     *)
(* attempt asks for what was paid before it, by whatever means, and no     *)
(* excess is larger than what came in beside the one attempt.              *)
NeverOvercharged ==
  \A o \in OrderIds :
    order[o].paid > Total + order[o].late =>
      \E s, t \in Sessions : s # t /\ payment[s].order = o /\ payment[t].order = o
                             /\ payment[s].status = "SUCCEEDED" /\ payment[t].status = "SUCCEEDED"

(* What the store balance promises of the customer's money, module         *)
(* StoreBalance, is kept by the statements of the handlers and the cron,   *)
(* however they interleave, fail or come twice.                            *)
Reserved == [s \in Sessions |-> entry[s].reserve]
Fate == [s \in Sessions |->
  IF entry[s].reserve = 0 THEN "none" ELSE IF entry[s].consumed THEN "paid"
  ELSE IF entry[s].released THEN "released" ELSE "reserved"]
Settled == {s \in Sessions : payment[s].status = "SUCCEEDED"}
Charged == [s \in Sessions |-> IF s \in Settled THEN sess[s].amount ELSE 0]
Kept == [o \in OrderIds |-> HeldFor(o)]
Cash == [o \in OrderIds |-> order[o].cash]
Credited == {o \in OrderIds : order[o].credited > 0}
Account == INSTANCE StoreBalance WITH
  Orders <- OrderIds, reserved <- Reserved, fate <- Fate, settled <- Settled, charged <- Charged,
  kept <- Kept, cash <- Cash, credited <- Credited
KeepsAccounts == Account!Spec

(* EPS has no webhook: money it took for a checkout is booked even when    *)
(* the browser never comes back, because the reconciliation and the sweep  *)
(* ask for it -- unless a redirect had reported the attempt as over.       *)
EpsMoneyIsBooked ==
  \A s \in Sessions :
    (gw[s] = "paid" /\ sess[s].provider = "EPS_PG" /\ sess[s].pre)
      ~> (payment[s].status = "SUCCEEDED" \/ sess[s].status \in {"FAILED", "CANCELLED"})

(* What a checkout reserved does not stay reserved once its session ended. *)
ReservationsResolve ==
  \A s \in Sessions :
    (sess[s].status \in {"FAILED", "CANCELLED", "EXPIRED"} /\ entry[s].reserve > 0)
      ~> (entry[s].released \/ entry[s].consumed)

(* No attempt blocks its order for ever by staying ACTIVE.                 *)
AttemptsEnd ==
  \A s \in Sessions : (sess[s].status = "ACTIVE") ~> (sess[s].status # "ACTIVE")

(* What the code's comments promise and the code does not keep.            *)

(* No success is lost between the claim and the booking: not to a crash,   *)
(* and not to a coupon that was used up while the customer was paying.     *)
EveryClaimIsBooked == Unbooked = {}

=============================================================================
