--------------------------- MODULE PaymentLedger ---------------------------
(***************************************************************************)
(* The money of one order: its settlements, refunds, store credit and      *)
(* return charges, the position derived from them, and the stored payment  *)
(* status that the rest of the shop reads.                                 *)
(*                                                                         *)
(* Every command takes the order's row lock, reads the position and writes *)
(* in one transaction, so it is one action; commands touch the rows of     *)
(* their own order only, so one order is enough. The sums the code takes   *)
(* over rows are taken over rows here as well (Sum counts units of money). *)
(*                                                                         *)
(* The order's own steps are here for the money they move or the rules     *)
(* they turn on; its stock is in OrderStock, how a payment attempt reaches *)
(* its success in PaymentSessions, how a parcel is booked in               *)
(* CourierBooking. The pre-shipment statuses are one, OPEN. A Payment of   *)
(* a failed attempt counts only by being there: it is a flag of the order. *)
(***************************************************************************)
EXTENDS Integers, FiniteSets

CONSTANTS
  PaymentIds,  \* ids of succeeded Payment rows
  RefundIds,   \* ids of Refund rows
  Attempts,    \* gateway attempts on the order
  MaxMoney     \* bound: the largest amount of a row, a total or a return

ASSUME IdsAssumption ==
  IsFiniteSet(PaymentIds) /\ IsFiniteSet(RefundIds) /\ PaymentIds # {}
ASSUME MoneyAssumption == MaxMoney \in Nat \ {0}

VARIABLES
  order,          \* Order
  payment,        \* Payment rows with status SUCCEEDED
  refund,         \* Refund rows
  credit,         \* CustomerCreditEntry: all issued from the order, and by exchanges
  attempt,        \* PaymentSession rows and the OrderModification each pays for
  paymentStatus   \* Order.paymentStatus, the stored projection

vars == <<order, payment, refund, credit, attempt, paymentStatus>>

Money == 0..MaxMoney
Closed == {"CANCELLED", "RETURNED", "REFUNDED"}
Statuses == {"OPEN", "SHIPPED", "DELIVERED", "PARTIALLY_DELIVERED"} \cup Closed
RefusedParcel == {"PARTIALLY_DELIVERED", "RETURNED", "CANCELLED"}
PaymentStatuses ==
  {"REFUNDED", "CREDITED", "PAID", "PARTIALLY_REFUNDED", "PARTIALLY_PAID", "FAILED", "UNPAID"}

\* customer: linked to an account. returned: value of its APPROVED returns.
\* decided: what its partial delivery's reconciliation found. collected: cash
\* the courier reported. credited: its cancellation was credited.
OrderRows ==
  [status : Statuses, cod : BOOLEAN, customer : BOOLEAN, trashed : BOOLEAN,
   consignment : BOOLEAN, total : Money, returned : Money,
   decided : {"NO", "KEPT", "NOTHING_KEPT"}, collected : Money,
   failed : BOOLEAN, credited : BOOLEAN]

NoPayment == [provider |-> "NONE", purpose |-> "ORDER", amount |-> 0]
Row(provider, purpose, amount) ==
  [provider |-> provider, purpose |-> purpose, amount |-> amount]
PaymentRows ==
  [provider : {"NONE", "GATEWAY", "COD", "MANUAL", "STORE_CREDIT"},
   purpose : {"ORDER", "RETURN_CHARGE"}, amount : Money]

RefundRows == [status : {"NONE", "REQUESTED", "COMPLETED"}, amount : Money]
NoRefund == [status |-> "NONE", amount |-> 0]

\* change: the order change this attempt pays for, if any, with the total it
\* sets; current: the order's revision is still the one it was priced on.
AttemptRows ==
  [state : {"NONE", "ASKED", "SETTLED", "BOUNCED"}, amount : Money,
   change : {"NONE", "AWAITING", "EXPIRED", "ENDED"}, total : Money, current : BOOLEAN]
NoAttempt ==
  [state |-> "NONE", amount |-> 0, change |-> "NONE", total |-> 0, current |-> FALSE]

-----------------------------------------------------------------------------
(* The position. *)

Max0(n) == IF n > 0 THEN n ELSE 0
Least(m, n) == IF m < n THEN m ELSE n

\* The units of money of the rows S, an amount of n being n units.
Units(row, S) == {u \in S \X (1..MaxMoney) : u[2] <= row[u[1]].amount}
Sum(row, S) == Cardinality(Units(row, S))

Settlements ==
  {p \in PaymentIds : payment[p].provider # "NONE" /\ payment[p].purpose = "ORDER"}
RefundsIn(status) == {r \in RefundIds : refund[r].status = status}
Paid == Sum(payment, Settlements)
Refunded == Sum(refund, RefundsIn("COMPLETED"))
Pending == Sum(refund, RefundsIn("REQUESTED"))

\* Of an order row o whose settlements come to paid.
EffectiveTotal(o) == Max0(o.total - o.returned)
NetPaid(paid) == Max0(paid - Refunded - credit.all)
\* Faulty: a balance below zero is not cut off.
Faulty_AmountDue(o, paid) ==
  IF o.status \in Closed THEN 0 ELSE EffectiveTotal(o) - (paid - credit.all)
AmountDue(o, paid) ==
  IF o.status \in Closed THEN 0 ELSE Max0(EffectiveTotal(o) - (paid - credit.all))
Overpaid(o, paid) == Max0(NetPaid(paid) - EffectiveTotal(o))
\* Faulty: a requested refund does not reserve its money.
Faulty_Refundable == Max0(Paid - Refunded - credit.all)
Refundable == Max0(Paid - Refunded - Pending - credit.all)
RefundDue(o, paid) ==
  Max0((IF o.status \in {"CANCELLED", "RETURNED"} THEN NetPaid(paid) ELSE Overpaid(o, paid))
       - Pending)

DerivedStatus ==
  LET settled == Settlements # {}
      back == Refunded + credit.all
  IN  IF Refunded > 0 /\ Refunded >= Paid THEN "REFUNDED"
      ELSE IF credit.all > 0 /\ back >= Paid THEN "CREDITED"
      ELSE IF settled /\ NetPaid(Paid) >= EffectiveTotal(order) THEN "PAID"
      ELSE IF back > 0 THEN "PARTIALLY_REFUNDED"
      ELSE IF settled /\ Paid > 0 THEN "PARTIALLY_PAID"
      ELSE IF ~settled /\ order.failed THEN "FAILED"
      ELSE "UNPAID"

\* refreshPaymentStatus, the last step of every command that writes money.
Refresh == paymentStatus' = DerivedStatus'

-----------------------------------------------------------------------------
(* Steps that commands share. *)

Present(p) == payment[p].provider # "NONE"
Write(p, row) == ~Present(p) /\ payment' = [payment EXCEPT ![p] = row]
Request(r, amount) ==
  /\ refund[r].status = "NONE" /\ amount \in 1..MaxMoney
  /\ refund' = [refund EXCEPT ![r] = [status |-> "REQUESTED", amount |-> amount]]
Issue(amount) == credit' = [credit EXCEPT !.all = @ + amount]

\* A new order: nothing paid, a part from the store balance, or marked paid.
Init ==
  /\ order \in {[status |-> "OPEN", cod |-> cod, customer |-> customer, trashed |-> FALSE,
                 consignment |-> FALSE, total |-> total, returned |-> 0, decided |-> "NO",
                 collected |-> 0, failed |-> FALSE, credited |-> FALSE] :
                   cod \in BOOLEAN, customer \in BOOLEAN, total \in Money}
  /\ \E p \in PaymentIds, a \in 1..MaxMoney :
       payment \in
         {[q \in PaymentIds |-> NoPayment],
          [q \in PaymentIds |-> IF q = p THEN Row("MANUAL", "ORDER", order.total)
                                ELSE NoPayment]}
         \cup IF order.customer /\ a <= order.total
              THEN {[q \in PaymentIds |-> IF q = p THEN Row("STORE_CREDIT", "ORDER", a)
                                          ELSE NoPayment]}
              ELSE {}
  /\ refund = [r \in RefundIds |-> NoRefund]
  /\ credit = [all |-> 0, exchange |-> 0]
  /\ attempt = [s \in Attempts |-> NoAttempt]
  /\ paymentStatus = DerivedStatus

-----------------------------------------------------------------------------
(* Settlements. *)

\* Faulty: a settlement in part counts as the whole.
Faulty_SettledInFull == Settlements # {}
\* The order is delivered and a COD order's balance is settled by one row, of
\* zero too; nothing is recorded on an order settled in full.
SettledInFull == Settlements # {} /\ AmountDue(order, Paid) = 0
CollectCod ==
  IF order.cod /\ ~SettledInFull
  THEN \E p \in PaymentIds : Write(p, Row("COD", "ORDER", AmountDue(order, Paid))) /\ Refresh
  ELSE UNCHANGED <<payment, paymentStatus>>

\* A definitive gateway failure.
RecordFailedAttempt ==
  /\ \E s \in Attempts : attempt[s].state # "NONE"
  /\ order' = [order EXCEPT !.failed = TRUE]
  /\ UNCHANGED <<payment, refund, credit, attempt>>
  /\ Refresh

WithinDue(amount) == amount > 0 /\ amount <= AmountDue(order, Paid)
\* A payment staff record by hand, before dispatch or, of a partial delivery,
\* the cash the courier collected.
RecordManualPayment(p, amount) ==
  /\ ~order.trashed /\ WithinDue(amount)
  /\ \/ /\ order.status \notin Closed /\ ~(order.cod /\ order.consignment)
        /\ Write(p, Row("MANUAL", "ORDER", amount))
     \/ /\ order.cod /\ order.status = "PARTIALLY_DELIVERED"
        /\ Write(p, Row("COD", "ORDER", amount))
  /\ UNCHANGED <<order, refund, credit, attempt>>
  /\ Refresh

CourierCharges ==
  {p \in PaymentIds : payment[p].provider = "COD" /\ payment[p].purpose = "RETURN_CHARGE"}
\* A return charge of a refused parcel, through the courier (once) or by hand.
RecordReturnCharge(p, provider, amount) ==
  /\ ~order.trashed /\ order.status \in RefusedParcel
  /\ provider = "COD" => CourierCharges = {}
  /\ Write(p, Row(provider, "RETURN_CHARGE", amount))
  /\ UNCHANGED <<order, refund, credit, attempt>>
  /\ Refresh

KeptNothing ==
  \/ order.status = "RETURNED"
  \/ order.status = "CANCELLED" /\ order.consignment
  \/ order.status = "PARTIALLY_DELIVERED" /\ order.decided = "NOTHING_KEPT"
\* Faulty: a return charge staff recorded is not looked for.
Faulty_CashOnRecord == {p \in Settlements : payment[p].provider = "COD"}
\* Courier cash already on the order, the automatic charge itself included.
CashOnRecord == {p \in PaymentIds : payment[p].provider = "COD" /\ payment[p].amount > 0}
\* What the courier reported becomes the return charge of a refused parcel.
SettleCourierCollected(p) ==
  /\ ~order.trashed /\ order.collected > 0 /\ KeptNothing /\ CashOnRecord = {}
  /\ Write(p, Row("COD", "RETURN_CHARGE", order.collected))
  /\ UNCHANGED <<order, refund, credit, attempt>>
  /\ Refresh

\* Faulty: re-marking a payment leaves the stored status alone.
Faulty_Remark(p, purpose) ==
  /\ payment' = [payment EXCEPT ![p].purpose = purpose]
  /\ UNCHANGED paymentStatus
Remark(p, purpose) == payment' = [payment EXCEPT ![p].purpose = purpose] /\ Refresh
\* A payment becomes the return charge while what the order still holds covers
\* it, or order money again.
ReclassifyPayment(p) ==
  /\ payment[p].provider \in {"COD", "MANUAL"}
  /\ UNCHANGED <<order, refund, credit, attempt>>
  /\ \/ /\ payment[p].purpose = "ORDER" /\ order.status \in RefusedParcel
        /\ payment[p].provider = "COD" => CourierCharges = {}
        /\ payment[p].amount <= Refundable
        /\ Remark(p, "RETURN_CHARGE")
     \/ payment[p].purpose = "RETURN_CHARGE" /\ Remark(p, "ORDER")

-----------------------------------------------------------------------------
(* Refunds and store credit. *)

RecordRefund(r, amount) ==
  /\ ~order.trashed /\ amount \in 1..Refundable
  /\ refund[r].status = "NONE"
  /\ refund' = [refund EXCEPT ![r] = [status |-> "COMPLETED", amount |-> amount]]
  /\ UNCHANGED <<order, payment, credit, attempt>>
  /\ Refresh

CompleteRefund(r) ==
  /\ refund[r].status = "REQUESTED"
  /\ Refunded + credit.all + refund[r].amount <= Paid
  /\ refund' = [refund EXCEPT ![r].status = "COMPLETED"]
  /\ UNCHANGED <<order, payment, credit, attempt>>
  /\ Refresh

\* Staff move what is owed back to the customer's store balance.
CreditRefundDue(amount) ==
  /\ order.customer /\ ~order.trashed /\ amount \in 1..RefundDue(order, Paid)
  /\ Issue(amount)
  /\ UNCHANGED <<order, payment, refund, attempt>>
  /\ Refresh

\* An exchange for a cheaper item: the difference goes back as credit, capped
\* by what is refundable, or as a requested refund. The request was made of a
\* delivered order; the approval looks neither at its status nor at Trash.
ApproveExchange(amount) ==
  /\ order.customer /\ order.status \in {"DELIVERED", "RETURNED", "REFUNDED"}
  /\ amount \in 1..Refundable
  /\ \/ /\ credit' = [all |-> credit.all + amount, exchange |-> credit.exchange + amount]
        /\ UNCHANGED refund
     \/ UNCHANGED credit /\ \E r \in RefundIds : Request(r, amount)
  /\ UNCHANGED <<order, payment, attempt>>
  /\ Refresh

\* What a return gives back, at most its value and at most what is owed or
\* held; with nothing to give back the stored status is left alone.
Compensate(o, value) ==
  \/ LET amount == Least(value, RefundDue(o, Paid)) IN
     /\ amount > 0 /\ Issue(amount) /\ UNCHANGED refund /\ Refresh
  \/ LET amount == Least(value, Refundable) IN
     /\ amount > 0 /\ UNCHANGED credit
     /\ \E r \in RefundIds : Request(r, amount) /\ Refresh
  \/ UNCHANGED <<refund, credit, paymentStatus>>
\* Items of a delivered order come back, the last of them or not.
RecordItemReturn(value, last) ==
  LET returned == [order EXCEPT !.returned = @ + value] IN
  /\ order.customer /\ ~order.trashed /\ order.returned + value \in Money
  /\ \/ order.status = "DELIVERED"
     \/ order.status = "PARTIALLY_DELIVERED" /\ order.decided # "NO"
  /\ order' = [returned EXCEPT
                 !.status = IF last /\ @ = "DELIVERED" THEN "RETURNED" ELSE @,
                 !.decided = IF last /\ @ # "NO" THEN "NOTHING_KEPT" ELSE @]
  /\ UNCHANGED <<payment, attempt>>
  /\ Compensate(returned, value)

\* A customer's return is approved; staff may credit all that is owed back.
ApproveReturn(asCredit) ==
  LET returned == [order EXCEPT !.status = "RETURNED"]
      owed == RefundDue(returned, Paid)
  IN  /\ order.customer /\ ~order.trashed /\ order.status \in {"DELIVERED", "RETURNED"}
      /\ order' = returned
      /\ UNCHANGED <<payment, refund, attempt>>
      /\ IF asCredit /\ owed > 0 THEN Issue(owed) /\ Refresh
         ELSE UNCHANGED <<credit, paymentStatus>>

-----------------------------------------------------------------------------
(* The order's own steps. *)

\* The transitions without money; a refunded order needs the stored status to
\* say that all its money has gone back.
MoveOn(to) ==
  \/ order.status = "OPEN" /\ to = "SHIPPED"
  \/ order.status = "SHIPPED" /\ to = "OPEN"
  \/ order.status \in {"OPEN", "SHIPPED"} /\ to \in {"PARTIALLY_DELIVERED", "CANCELLED"}
  \/ order.status \in {"DELIVERED", "PARTIALLY_DELIVERED"} /\ to = "RETURNED"
  \/ /\ order.status \in {"DELIVERED", "PARTIALLY_DELIVERED", "CANCELLED", "RETURNED"}
     /\ to = "REFUNDED" /\ paymentStatus = "REFUNDED"
ChangeStatus(to) ==
  /\ ~order.trashed /\ MoveOn(to)
  /\ order' = [order EXCEPT !.status = to]
  /\ UNCHANGED <<payment, refund, credit, attempt, paymentStatus>>
Deliver ==
  /\ ~order.trashed /\ order.status \in {"OPEN", "SHIPPED"}
  /\ order' = [order EXCEPT !.status = "DELIVERED"]
  /\ UNCHANGED <<refund, credit, attempt>>
  /\ CollectCod

TrashOrRestore ==
  /\ order' = [order EXCEPT !.trashed = ~@]
  /\ UNCHANGED <<payment, refund, credit, attempt, paymentStatus>>

\* A booking is saved, at whatever the order has become since the call read it, or
\* unlinked; the courier reports cash of a partial delivery, after that moved the
\* order on.
BookOrUnlink ==
  /\ order' = [order EXCEPT !.consignment = ~@]
  /\ UNCHANGED <<payment, refund, credit, attempt, paymentStatus>>
CourierReports(amount) ==
  /\ order.consignment /\ order.status \notin {"OPEN", "SHIPPED"}
  /\ amount # order.collected
  /\ order' = [order EXCEPT !.collected = amount]
  /\ UNCHANGED <<payment, refund, credit, attempt, paymentStatus>>

\* What the customer kept of a partial delivery is decided; the return is a
\* row, and so a value, only of an order with a customer. The stored status is
\* left alone.
Reconcile(value, all) ==
  /\ ~order.trashed /\ order.status = "PARTIALLY_DELIVERED" /\ order.decided = "NO"
  /\ order.returned + value \in Money
  /\ order' = [order EXCEPT !.decided = IF all THEN "NOTHING_KEPT" ELSE "KEPT",
                            !.returned = IF order.customer THEN @ + value ELSE @]
  /\ UNCHANGED <<payment, refund, credit, attempt, paymentStatus>>

\* A change that still waits for its payment ends.
Ended(s) == IF attempt[s].change # "AWAITING" THEN attempt[s]
            ELSE [attempt[s] EXCEPT !.change = "ENDED", !.total = 0, !.current = FALSE]

\* The customer cancels: all that is owed back becomes store credit, once. A
\* repeat on a cancelled order only credits.
CustomerCancels ==
  LET cancelled == [order EXCEPT !.status = "CANCELLED"]
      owed == RefundDue(cancelled, Paid)
      issues == owed > 0 /\ ~order.credited
  IN  /\ order.customer /\ ~order.trashed
      /\ \/ order.status = "OPEN" /\ ~order.consignment
            /\ attempt' = [s \in Attempts |-> Ended(s)]
         \/ order.status = "CANCELLED" /\ UNCHANGED attempt
      /\ order' = [cancelled EXCEPT !.credited = @ \/ issues]
      /\ UNCHANGED <<payment, refund>>
      /\ IF issues THEN Issue(owed) /\ Refresh ELSE UNCHANGED <<credit, paymentStatus>>

-----------------------------------------------------------------------------
(* Changes of the order and the payments that wait for them. *)

Editable == ~order.trashed /\ order.status = "OPEN" /\ ~order.consignment
\* The attempts once the order's revision moved on.
Outdated(s) == [attempt[s] EXCEPT !.current = FALSE]
\* An overpayment goes to the store balance or, without a customer, becomes a
\* requested refund. Crediting fails the change when requests hold it all.
SettleChange(o) ==
  LET owed == RefundDue(o, Paid) IN
  IF Overpaid(o, Paid) = 0 THEN UNCHANGED <<refund, credit>>
  ELSE IF o.customer THEN owed > 0 /\ Issue(owed) /\ UNCHANGED refund
  ELSE /\ UNCHANGED credit
       /\ IF owed > 0 THEN \E r \in RefundIds : Request(r, owed) ELSE UNCHANGED refund

\* A change of an order is applied, or waits until an online order that holds
\* money is paid the difference. One change waits at a time.
ApplyChange(total) ==
  LET changed == [order EXCEPT !.total = total] IN
  /\ Editable
  /\ order' = changed
  /\ attempt' = [s \in Attempts |-> Outdated(s)]
  /\ SettleChange(changed)
  /\ UNCHANGED payment
  /\ Refresh
AwaitPayment(s, total) ==
  LET difference == Max0(total - NetPaid(Paid)) IN
  /\ Editable /\ ~order.cod /\ Paid > 0 /\ difference > 0
  /\ attempt[s].state = "NONE"
  /\ attempt' = [q \in Attempts |->
       IF q = s THEN [state |-> "ASKED", amount |-> difference, change |-> "AWAITING",
                      total |-> total, current |-> TRUE]
       ELSE Ended(q)]
  /\ UNCHANGED <<order, payment, refund, credit, paymentStatus>>
ExpireChange(s) ==
  /\ attempt[s].change = "AWAITING"
  /\ attempt' = [attempt EXCEPT ![s].change = "EXPIRED"]
  /\ UNCHANGED <<order, payment, refund, credit, paymentStatus>>

\* A retry or a payment link asks for the balance due.
AskForBalance(s) ==
  /\ ~order.trashed /\ attempt[s].state = "NONE" /\ AmountDue(order, Paid) > 0
  /\ ~(order.cod /\ order.consignment)
  /\ attempt' = [attempt EXCEPT ![s] = [NoAttempt EXCEPT !.state = "ASKED",
                                                        !.amount = AmountDue(order, Paid)]]
  /\ UNCHANGED <<order, payment, refund, credit, paymentStatus>>

\* The attempt is over; what it was for is not looked at again.
Over(state) == [NoAttempt EXCEPT !.state = state]
Applicable(s) == attempt[s].change \in {"AWAITING", "EXPIRED"} /\ attempt[s].current /\ Editable
\* The money of an attempt that pays for no change, or for one applied now.
SettleBalance(s, p) ==
  /\ attempt[s].state = "ASKED" /\ attempt[s].change = "NONE"
  /\ Write(p, Row("GATEWAY", "ORDER", attempt[s].amount))
  /\ attempt' = [attempt EXCEPT ![s] = Over("SETTLED")]
  /\ UNCHANGED <<order, refund, credit>>
  /\ Refresh
SettleApplied(s, p) ==
  LET changed == [order EXCEPT !.total = attempt[s].total] IN
  /\ attempt[s].state = "ASKED" /\ Applicable(s)
  /\ SettleChange(changed)
  /\ order' = changed
  /\ Write(p, Row("GATEWAY", "ORDER", attempt[s].amount))
  /\ attempt' = [q \in Attempts |-> IF q = s THEN Over("SETTLED") ELSE Outdated(q)]
  /\ Refresh
\* The change cannot be applied any more (an applicable one when its units are
\* sold out): the money stands, and what it overpays is credited. With nothing
\* of it left to credit the settlement fails as a whole.
SettleUnapplied(s, p) ==
  LET paid == Paid + attempt[s].amount
      owed == RefundDue(order, paid)
      credits == order.customer /\ Overpaid(order, paid) > 0
  IN  /\ attempt[s].state = "ASKED" /\ attempt[s].change # "NONE"
      /\ UNCHANGED <<order, refund>>
      /\ IF credits /\ owed = 0
         THEN /\ attempt' = [attempt EXCEPT ![s] = Over("BOUNCED")]
              /\ UNCHANGED <<payment, credit, paymentStatus>>
         ELSE /\ Write(p, Row("GATEWAY", "ORDER", attempt[s].amount))
              /\ attempt' = [attempt EXCEPT ![s] = Over("SETTLED")]
              /\ IF credits THEN Issue(owed) ELSE UNCHANGED credit
              /\ Refresh

\* The repair command rewrites the stored status from the rows.
RepairProjection ==
  /\ paymentStatus # DerivedStatus
  /\ UNCHANGED <<order, payment, refund, credit, attempt>>
  /\ Refresh

-----------------------------------------------------------------------------
Amounts == 1..MaxMoney

OrderStep ==
  \/ Deliver \/ TrashOrRestore \/ BookOrUnlink \/ CustomerCancels
  \/ \E to \in Statuses : ChangeStatus(to)
  \/ \E amount \in Amounts : CourierReports(amount)
  \/ \E value \in Money, all \in BOOLEAN : Reconcile(value, all)
  \/ \E value \in Money, last \in BOOLEAN : RecordItemReturn(value, last)
  \/ \E asCredit \in BOOLEAN : ApproveReturn(asCredit)
  \/ \E amount \in Amounts : ApproveExchange(amount)
  \/ \E total \in Money : ApplyChange(total)

PaymentStep ==
  \/ RecordFailedAttempt
  \/ \E p \in PaymentIds :
       \/ SettleCourierCollected(p) \/ ReclassifyPayment(p)
       \/ \E amount \in Amounts : RecordManualPayment(p, amount)
       \/ \E provider \in {"COD", "MANUAL"}, amount \in Amounts :
            RecordReturnCharge(p, provider, amount)
  \/ \E s \in Attempts :
       \/ AskForBalance(s) \/ ExpireChange(s)
       \/ \E total \in Money : AwaitPayment(s, total)
       \/ \E p \in PaymentIds :
            SettleBalance(s, p) \/ SettleApplied(s, p) \/ SettleUnapplied(s, p)

RefundStep ==
  \/ RepairProjection
  \/ \E amount \in Amounts : CreditRefundDue(amount)
  \/ \E r \in RefundIds :
       CompleteRefund(r) \/ \E amount \in Amounts : RecordRefund(r, amount)

Next == OrderStep \/ PaymentStep \/ RefundStep
Spec == Init /\ [][Next]_vars

-----------------------------------------------------------------------------
(* Properties. *)

\* Rows keep their shapes and their amounts stay within bounds; the credits of
\* exchanges are among those issued.
TypeOK ==
  /\ order \in OrderRows
  /\ payment \in [PaymentIds -> PaymentRows]
  /\ refund \in [RefundIds -> RefundRows]
  /\ credit \in [all : Nat, exchange : Nat]
  /\ attempt \in [Attempts -> AttemptRows]
  /\ paymentStatus \in PaymentStatuses

\* What was refunded, credited and promised as a refund never exceeds what was
\* received for the order, whatever is paid late, re-marked, returned or
\* cancelled in between; so every requested refund can be paid out.
NeverGivesBackMoreThanPaid == Refunded + Pending + credit.all <= Paid

\* A delivered COD order is settled and owes nothing, through later returns,
\* refunds and credits; an exchange's credit is the exception: it is money the
\* position no longer counts as paid (docs/PAYMENT_LEDGER.md PL-5).
DeliveredCodIsSettled ==
  order.cod /\ order.status = "DELIVERED" =>
    Settlements # {} /\ AmountDue(order, Paid) <= credit.exchange

\* The courier's cash for a refused parcel is a return charge once, by whichever
\* of staff, the scanner and the courier's report records it first. (The empty
\* row that settles a delivery which owed nothing can be re-marked as a charge;
\* it does not count.)
OneCourierCharge ==
  \A p, q \in CourierCharges : payment[p].amount > 0 /\ payment[q].amount > 0 => p = q

\* An order becomes REFUNDED only when every taka received has gone back, though
\* the rule reads the stored status and not the rows.
RefundedGaveAllBack ==
  [][order.status # "REFUNDED" /\ order'.status = "REFUNDED" =>
       Refunded > 0 /\ Refunded >= Paid]_vars
=============================================================================
