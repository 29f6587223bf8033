----------------------------- MODULE OrderStock -----------------------------
(***************************************************************************)
(* Orders and the stock they hold: the order state machine, Trash, order   *)
(* changes, returns, exchanges, parcel receipts and their corrections,     *)
(* with every stock movement they make (inventory.service.ts is the only   *)
(* writer of ProductVariant.stock).                                        *)
(*                                                                         *)
(* Every command on an order runs in one transaction under the order's row *)
(* lock (an exchange approval holds it through the return leg it opens     *)
(* first), so it is one action. Deleting an order for good is two: it      *)
(* checks Trash before, and outside, the deletion.                         *)
(*                                                                         *)
(* An order is one line: a variant and a quantity. Money is one flag, that *)
(* the order's refund is recorded. Coupons, points, costing, courier       *)
(* bookings and fill-to-order floors are left out.                         *)
(***************************************************************************)
EXTENDS Integers, FiniteSets

CONSTANTS
  Orders,        \* order ids
  Placeable,     \* those a customer places; the others are only replacements
  Variants,
  NoVariant,     \* the variant of an id not used yet
  NoOrder,       \* what an ordinary order replaces
  PreShipment,   \* the pre-shipment statuses used: stock tells none apart
  MaxQuantity,   \* largest number of units on a line
  MaxStock,      \* bound: no restock or count above it
  Office         \* bound: what else staff do, a subset of {"purge", "correct", "adjust"}

ASSUME OrdersAssumption == NoOrder \notin Orders /\ Placeable \subseteq Orders
ASSUME PreShipmentAssumption ==
  /\ {"CONFIRMED", "PACKED"} \subseteq PreShipment
  /\ PreShipment \subseteq {"PENDING", "CONFIRMED", "PROCESSING", "PACKED"}
ASSUME QuantityAssumption == MaxQuantity \in Nat \ {0} /\ MaxStock \in Nat
VARIABLES
  stock,       \* ProductVariant.stock
  ledger,      \* sum of the StockMovement rows that belong to no order
  order,       \* Order with its line (OrderItem)
  purging      \* orders whose permanent deletion has passed its Trash check

vars == <<stock, ledger, order, purging>>

Closed == {"CANCELLED", "RETURNED", "REFUNDED"}
Statuses == PreShipment \cup {"SHIPPED", "DELIVERED", "PARTIALLY_DELIVERED"} \cup Closed
\* The statuses whose returned units can be waiting to be received.
CustomerReturn == {"DELIVERED", "PARTIALLY_DELIVERED", "RETURNED", "REFUNDED"}

\* restocked and returned are OrderItem's counters, good and damaged what its
\* scanner receipts (corrections included) count. Kept for the properties:
\* moneyBack, the returned units whose value goes back in money or credit, and
\* oversold, the units a paid settlement took below zero (of a purged order,
\* all it took there).
OrderRows ==
  [status : Statuses \cup {"ABSENT", "PURGED"}, trashed : BOOLEAN,
   variant : Variants \cup {NoVariant}, quantity : 0..MaxQuantity,
   restocked : 0..MaxQuantity, returned : 0..MaxQuantity, moneyBack : 0..MaxQuantity,
   good : 0..MaxQuantity, damaged : 0..MaxQuantity, oversold : 0..2 * MaxQuantity,
   reconciled : BOOLEAN, refunded : BOOLEAN,
   request : {"NONE", "RETURN", "EXCHANGE"}, replaces : Orders \cup {NoOrder}]

Absent ==
  [status |-> "ABSENT", trashed |-> FALSE, variant |-> NoVariant, quantity |-> 0,
   restocked |-> 0, returned |-> 0, moneyBack |-> 0, good |-> 0, damaged |-> 0,
   oversold |-> 0, reconciled |-> FALSE, refunded |-> FALSE, request |-> "NONE",
   replaces |-> NoOrder]

NewOrder(status, v, q, replaces) ==
  [Absent EXCEPT !.status = status, !.variant = v, !.quantity = q, !.replaces = replaces]

Present(o) == order[o].status \in Statuses
\* The order a command may change: it is not in Trash.
Open(o) == Present(o) /\ ~order[o].trashed
Larger(m, n) == IF m > n THEN m ELSE n
Smaller(m, n) == IF m < n THEN m ELSE n
Quantities == 1..MaxQuantity

Init ==
  /\ stock \in [Variants -> 0..MaxStock]
  /\ ledger = stock
  /\ order = [o \in Orders |-> Absent]
  /\ purging = {}

-----------------------------------------------------------------------------
(* Stock writers. *)

Move(v, delta) == stock' = [stock EXCEPT ![v] = @ + delta]
\* Faulty: a guard on the stock before the decrease.
Faulty_Available(v, n) == stock[v] >= 0
\* A guarded decrease never takes stock below zero.
Available(v, n) == stock[v] - n >= 0
\* Units a decrease of n takes below zero.
Below(v, n) == Larger(0, n - Larger(0, stock[v]))
\* The movements of an order and, with them, those that belong to none.
OrderMoves(v, delta) == Move(v, delta) /\ UNCHANGED <<ledger, purging>>
BothMove(v, onOrder, outside) ==
  /\ Move(v, onOrder + outside)
  /\ ledger' = [ledger EXCEPT ![v] = @ + outside]
  /\ UNCHANGED purging

-----------------------------------------------------------------------------
(* The state machine. *)

\* Whether the matrix has a row for from -> to.
Allowed(from, to) ==
  LET open == PreShipment \cup {"SHIPPED"} IN
  \/ from \in PreShipment /\ to \in PreShipment \cup {"SHIPPED"}             \* T1, T2
  \/ from = "SHIPPED" /\ to = "PACKED"                                       \* T3
  \/ from \in open /\ to \in {"DELIVERED", "PARTIALLY_DELIVERED", "CANCELLED"} \* T4-T6
  \/ from \in {"DELIVERED", "PARTIALLY_DELIVERED"} /\ to = "RETURNED"        \* T7
  \/ from \in {"DELIVERED", "PARTIALLY_DELIVERED", "CANCELLED", "RETURNED"}  \* T8
     /\ to = "REFUNDED"

\* Faulty: a count that forgets what is already decided.
Faulty_WithCustomer(r) == r.quantity - r.restocked
\* Units of a line still with the customer.
WithCustomer(r) == r.quantity - Larger(r.returned, r.restocked)
\* A return decision counts up to n of them; it moves no stock.
Decided(r, n) == Larger(0, Smaller(n, WithCustomer(r)))
\* Faulty: a later decision replaces the earlier one.
Faulty_Decide(r, n) == [r EXCEPT !.returned = Decided(r, n), !.moneyBack = Decided(r, n)]
Decide(r, n) == [r EXCEPT !.returned = @ + Decided(r, n), !.moneyBack = @ + Decided(r, n)]

\* Units a release may still put back.
Unreleased(r) == Larger(0, r.quantity - r.restocked)
ReleasedBy(r, to) == IF to = "CANCELLED" /\ r.status \in PreShipment
                     THEN Unreleased(r) ELSE 0

\* The line and status after applyOrderTransition.
Transition(r, to) ==
  LET moved == IF to = "RETURNED" THEN Decide(r, WithCustomer(r)) ELSE r
  IN  [moved EXCEPT !.status = to, !.restocked = @ + ReleasedBy(r, to)]

Permitted(r, to) ==
  /\ to # r.status
  /\ Allowed(r.status, to)
  /\ to = "REFUNDED" => r.refunded

\* Staff, the courier, the customer's own cancellation, and the second
\* transaction of a reconciliation that found nothing kept.
ChangeStatus(o, to) ==
  /\ Open(o)
  /\ Permitted(order[o], to)
  /\ order' = [order EXCEPT ![o] = Transition(@, to)]
  /\ OrderMoves(order[o].variant, ReleasedBy(order[o], to))

\* The payment ledger records that the whole payment went back.
RefundRecorded(o) ==
  /\ Present(o)
  /\ ~order[o].refunded
  /\ order' = [order EXCEPT ![o].refunded = TRUE]
  /\ UNCHANGED <<stock, ledger, purging>>

-----------------------------------------------------------------------------
(* Placing, changing and trashing an order. *)

PlaceOrder(o, v, q, status) ==
  /\ order[o].status = "ABSENT"
  /\ Available(v, q)
  /\ order' = [order EXCEPT ![o] = NewOrder(status, v, q, NoOrder)]
  /\ OrderMoves(v, -q)

\* A paid gateway order is written whatever the stock is by then.
SettlePaidOrder(o, v, q) ==
  /\ order[o].status = "ABSENT"
  /\ order' = [order EXCEPT ![o] = [NewOrder("CONFIRMED", v, q, NoOrder)
                                     EXCEPT !.oversold = Below(v, q)]]
  /\ OrderMoves(v, -q)

\* Faulty: a change that also counts the removed units as put back.
Faulty_ModifyOrder(o, q) ==
  LET more == q - order[o].quantity IN
  /\ Open(o)
  /\ order[o].status \in PreShipment
  /\ more # 0
  /\ more > 0 => Available(order[o].variant, more)
  /\ order' = [order EXCEPT ![o].quantity = q, ![o].restocked = @ + Larger(0, -more)]
  /\ OrderMoves(order[o].variant, -more)
\* The line grows or shrinks before shipment. Removed units go back without
\* touching restocked, which counts the units of the line as it now is.
ModifyOrder(o, q) ==
  LET more == q - order[o].quantity IN
  /\ Open(o)
  /\ order[o].status \in PreShipment
  /\ more # 0
  /\ more > 0 => Available(order[o].variant, more)
  /\ order' = [order EXCEPT ![o].quantity = q]
  /\ OrderMoves(order[o].variant, -more)

TrashOrder(o) ==
  LET units == IF order[o].status \in PreShipment THEN Unreleased(order[o]) ELSE 0 IN
  /\ Open(o)
  /\ order' = [order EXCEPT ![o].trashed = TRUE, ![o].restocked = @ + units]
  /\ OrderMoves(order[o].variant, units)

\* Faulty: a restore that takes back what is outstanding.
Faulty_Reclaimed(r) == IF r.status \in PreShipment THEN Larger(0, r.quantity - r.restocked) ELSE 0
\* Units a restored order takes back.
Reclaimed(r) == IF r.status \in PreShipment THEN Larger(0, r.restocked - r.returned) ELSE 0

RestoreOrder(o) ==
  LET units == Reclaimed(order[o]) IN
  /\ Present(o) /\ order[o].trashed
  /\ units > 0 => Available(order[o].variant, units)
  /\ order' = [order EXCEPT ![o].trashed = FALSE, ![o].restocked = @ - units]
  /\ OrderMoves(order[o].variant, -units)

BeginPurge(o) ==
  /\ "purge" \in Office
  /\ Present(o) /\ order[o].trashed
  /\ o \notin purging
  /\ purging' = purging \cup {o}
  /\ UNCHANGED <<stock, ledger, order>>

\* The row is deleted as it is now; its movements outlive it and belong to no
\* order from then on. What it took below zero is remembered here.
FinishPurge(o) ==
  /\ o \in purging
  /\ purging' = purging \ {o}
  /\ order' = [order EXCEPT ![o] =
       [Absent EXCEPT !.status = "PURGED", !.variant = order[o].variant,
                      !.oversold = order[o].oversold + order[o].damaged]]
  /\ ledger' = [ledger EXCEPT ![order[o].variant] = @ + order[o].restocked - order[o].quantity]
  /\ UNCHANGED stock


-----------------------------------------------------------------------------
(* Returns, exchanges and partial deliveries. *)

\* What the customer kept of a partial delivery is decided: `back` units return.
Reconciled(r, back) == [Decide(r, back) EXCEPT !.reconciled = TRUE]
Unreconciled(r) == r.status = "PARTIALLY_DELIVERED" /\ ~r.reconciled

Reconcile(o, back) ==
  /\ Open(o) /\ Unreconciled(order[o])
  /\ back <= order[o].quantity
  /\ order' = [order EXCEPT ![o] = Reconciled(@, back)]
  /\ UNCHANGED <<stock, ledger, purging>>

\* Staff record the return of n units; a delivered order whose every unit is
\* returned becomes RETURNED.
RecordItemReturn(o, n) ==
  LET r == order[o]
      decided == Decide(r, n)
      all == r.status = "DELIVERED" /\ decided.returned >= r.quantity IN
  /\ Open(o)
  /\ r.status = "DELIVERED" \/ (r.status = "PARTIALLY_DELIVERED" /\ r.reconciled)
  /\ n \in 1..WithCustomer(r)
  /\ order' = [order EXCEPT ![o] = IF all THEN Transition(decided, "RETURNED") ELSE decided]
  /\ UNCHANGED <<stock, ledger, purging>>

RequestReturn(o, type) ==
  /\ order[o].status = "DELIVERED" /\ order[o].request = "NONE"
  /\ type = "EXCHANGE" => order[o].restocked = 0 /\ order[o].returned = 0
  /\ order' = [order EXCEPT ![o].request = type]
  /\ UNCHANGED <<stock, ledger, purging>>

RejectRequest(o) ==
  /\ Present(o) /\ order[o].request # "NONE"
  /\ order' = [order EXCEPT ![o].request = "NONE"]
  /\ UNCHANGED <<stock, ledger, purging>>

ApproveReturn(o) ==
  LET r == [order[o] EXCEPT !.request = "NONE"] IN
  /\ Open(o) /\ order[o].request = "RETURN"
  /\ \/ r.status = "RETURNED" /\ order' = [order EXCEPT ![o] = r]
     \/ Permitted(r, "RETURNED") /\ order' = [order EXCEPT ![o] = Transition(r, "RETURNED")]
  /\ UNCHANGED <<stock, ledger, purging>>

\* Faulty: an approval that neither looks at earlier returns nor closes the request.
Faulty_ApproveExchange(o, p, v) ==
  LET r == order[o] IN
  /\ Present(o) /\ r.request = "EXCHANGE"
  /\ order[p].status = "ABSENT" /\ v # r.variant
  /\ Available(v, r.quantity)
  /\ order' = [order EXCEPT ![o] = [r EXCEPT !.returned = r.quantity],
                            ![p] = NewOrder("CONFIRMED", v, r.quantity, o)]
  /\ OrderMoves(v, -r.quantity)
\* The replacement p, of another variant, is a new order: its units leave stock
\* now, the exchanged ones are only counted as returned, all or none, and go
\* back for no money. Neither Trash nor the status is checked.
ApproveExchange(o, p, v) ==
  LET r == order[o] IN
  /\ Present(o) /\ r.request = "EXCHANGE"
  /\ r.restocked = 0 /\ r.returned = 0
  /\ order[p].status = "ABSENT" /\ v # r.variant
  /\ Available(v, r.quantity)
  /\ Decided(r, r.quantity) = r.quantity
  /\ order' = [order EXCEPT ![o] = [r EXCEPT !.returned = @ + r.quantity, !.request = "NONE"],
                            ![p] = NewOrder("CONFIRMED", v, r.quantity, o)]
  /\ OrderMoves(v, -r.quantity)

-----------------------------------------------------------------------------
(* Parcels that come back. *)

\* Units of a line that can still be received: of a customer return those
\* decided, of a parcel cancelled after it shipped all of them.
Receivable(r) == r.status \in CustomerReturn \cup {"CANCELLED"}
\* Faulty: every parcel measured by its quantity.
Faulty_Outstanding(r) == Larger(0, r.quantity - r.restocked)
Outstanding(r) ==
  Larger(0, (IF r.status \in CustomerReturn THEN r.returned ELSE r.quantity) - r.restocked)

\* Staff receive n units, `damaged` of them unsellable, and close `lost` units
\* that never will come. All go back on the order; damaged and lost are
\* written off outside it.
ReceiveParcel(o, n, damaged, lost) ==
  /\ Open(o) /\ Receivable(order[o])
  /\ n + lost \in 1..Outstanding(order[o])
  /\ damaged <= n
  /\ order' = [order EXCEPT ![o].restocked = @ + n + lost]
  /\ BothMove(order[o].variant, n + lost, -(damaged + lost))

\* The scanner decides the outcome of a parcel nobody decided yet, then
\* receives what is in it.
AwaitsOutcome(r) == r.status = "SHIPPED" \/ Unreconciled(r)
ScanPlan(r, kept) ==
  IF AwaitsOutcome(r) THEN kept < r.quantity - r.restocked
  ELSE kept = 0 /\ Receivable(r) /\ Outstanding(r) > 0
ScanOutcome(r, kept) ==
  LET back == r.quantity - r.restocked - kept IN
  CASE r.status = "SHIPPED" /\ kept = 0 -> Transition(r, "CANCELLED")
    [] r.status = "SHIPPED" /\ kept > 0 ->
         Reconciled(Transition(r, "PARTIALLY_DELIVERED"), back)
    [] Unreconciled(r) /\ kept = 0 -> Transition(Reconciled(r, back), "RETURNED")
    [] Unreconciled(r) /\ kept > 0 -> Reconciled(r, back)
    [] OTHER -> r

\* A receipt may count nothing: every unit missing.
ScanParcel(o, kept, good, damaged) ==
  LET r == ScanOutcome(order[o], kept) IN
  /\ Open(o) /\ ScanPlan(order[o], kept)
  /\ good + damaged <= Outstanding(r)
  /\ order' = [order EXCEPT ![o] = [r EXCEPT !.restocked = @ + good + damaged,
                                             !.good = @ + good, !.damaged = @ + damaged]]
  /\ BothMove(r.variant, good + damaged, -damaged)

\* Corrections of a receipt, at any later time and also in Trash.
\* Good units turn out damaged: written off, whatever the stock is by now.
CorrectToDamaged(o, n) ==
  /\ "correct" \in Office
  /\ Present(o)
  /\ n \in 1..order[o].good
  /\ order' = [order EXCEPT ![o].good = @ - n, ![o].damaged = @ + n]
  /\ BothMove(order[o].variant, 0, -n)

CorrectToGood(o, n) ==
  /\ "correct" \in Office
  /\ Present(o)
  /\ n \in 1..order[o].damaged
  /\ order' = [order EXCEPT ![o].damaged = @ - n, ![o].good = @ + n]
  /\ BothMove(order[o].variant, 0, n)

\* Faulty: a correction the next one does not see.
Faulty_CorrectToUnresolved(o, from, n) ==
  LET reversed == IF from = "damaged" THEN n ELSE 0 IN
  /\ "correct" \in Office
  /\ Present(o)
  /\ n \in 1..order[o][from] /\ n <= order[o].restocked
  /\ Available(order[o].variant, n - reversed)
  /\ order' = [order EXCEPT ![o].restocked = @ - n]
  /\ BothMove(order[o].variant, -n, reversed)
\* They were never in the parcel: they leave stock on the order again, which
\* must still have them, and are waiting to come back.
CorrectToUnresolved(o, from, n) ==
  LET reversed == IF from = "damaged" THEN n ELSE 0 IN
  /\ "correct" \in Office
  /\ Present(o)
  /\ n \in 1..order[o][from] /\ n <= order[o].restocked
  /\ Available(order[o].variant, n - reversed)
  /\ order' = [order EXCEPT ![o][from] = @ - n, ![o].restocked = @ - n]
  /\ BothMove(order[o].variant, -n, reversed)

-----------------------------------------------------------------------------
(* Stock changes outside any order. *)

AdjustStock(v, delta) ==
  /\ "adjust" \in Office
  /\ delta # 0
  /\ Available(v, -delta)
  /\ stock[v] + delta <= MaxStock
  /\ BothMove(v, 0, delta)
  /\ UNCHANGED order

DeclareCount(v, counted) ==
  /\ "adjust" \in Office
  /\ counted # stock[v]
  /\ BothMove(v, 0, counted - stock[v])
  /\ UNCHANGED order

-----------------------------------------------------------------------------
Placing ==
  \/ \E o \in Placeable, v \in Variants, q \in Quantities :
       \/ \E status \in {"PENDING", "CONFIRMED"} \cap PreShipment : PlaceOrder(o, v, q, status)
       \/ SettlePaidOrder(o, v, q)
  \/ \E o \in Orders :
    \/ \E q \in Quantities : ModifyOrder(o, q)
    \/ TrashOrder(o) \/ RestoreOrder(o) \/ BeginPurge(o) \/ FinishPurge(o)

Moving ==
  \E o \in Orders :
    \/ \E to \in Statuses : ChangeStatus(o, to)
    \/ RefundRecorded(o)
    \/ \E n \in 0..MaxQuantity : Reconcile(o, n) \/ RecordItemReturn(o, n)
    \/ \E type \in {"RETURN", "EXCHANGE"} : RequestReturn(o, type)
    \/ RejectRequest(o) \/ ApproveReturn(o)
    \/ \E p \in Orders, v \in Variants : ApproveExchange(o, p, v)

Receiving ==
  \E o \in Orders, n \in 0..MaxQuantity :
    \/ \E damaged, lost \in 0..MaxQuantity : ReceiveParcel(o, n, damaged, lost)
    \/ \E kept, damaged \in 0..MaxQuantity : ScanParcel(o, kept, n, damaged)
    \/ CorrectToDamaged(o, n) \/ CorrectToGood(o, n)
    \/ \E from \in {"good", "damaged"} : CorrectToUnresolved(o, from, n)

Adjusting ==
  \E v \in Variants :
    \/ \E delta \in -MaxStock..MaxStock : AdjustStock(v, delta)
    \/ \E counted \in 0..MaxStock : DeclareCount(v, counted)

Next == Placing \/ Moving \/ Receiving \/ Adjusting

Spec == Init /\ [][Next]_vars

-----------------------------------------------------------------------------
(* Properties. *)

TypeOK ==
  /\ stock \in [Variants -> Int]
  /\ ledger \in [Variants -> Int]
  /\ order \in [Orders -> OrderRows]
  /\ purging \subseteq Orders

\* What a row of v holds of its line, and what of its line a paid settlement or
\* a write-off took off the shelf without a look at it.
Held(r, v) == IF r.variant = v THEN r.quantity - r.restocked ELSE 0
Unchecked(r, v) == IF r.variant = v THEN r.oversold + r.damaged ELSE 0
\* The sum of a count over all orders, unit by unit.
Units(count) == {u \in Orders \X (1..3 * MaxQuantity) : u[2] <= count[u[1]]}
Total(count) == Cardinality(Units(count))
HeldBy(v) == [o \in Orders |-> Held(order[o], v)]
UncheckedBy(v) == [o \in Orders |-> Unchecked(order[o], v)]

\* INV-1 and INV-3: a variant's stock is what came in and went out outside any
\* order, less the units its orders still hold; an order's movements add up to
\* restocked - quantity through every change, return, receipt and correction.
StockIsExplained == \A v \in Variants : stock[v] = ledger[v] - Total(HeldBy(v))

\* An order that may still ship holds every unit of its line, however often it
\* was changed, trashed and restored; in Trash it holds none (and a parcel that
\* left before Trash is not on the shelf).
ReservationsHold ==
  \A o \in Orders :
    /\ order[o].status \in PreShipment =>
         /\ order[o].returned = 0
         /\ order[o].restocked = IF order[o].trashed THEN order[o].quantity ELSE 0
    /\ order[o].status = "SHIPPED" => order[o].returned = 0 /\ order[o].restocked = 0

\* INV-2, and of a delivered order no unit is stock again before its return was
\* decided (owner decision M2): no sequence of returns, receipts, corrections,
\* Trash and restores puts a unit back or returns it twice.
NothingBackUndecided ==
  \A o \in Orders :
    /\ order[o].restocked <= order[o].quantity
    /\ order[o].returned <= order[o].quantity
    /\ order[o].status \in {"DELIVERED", "PARTIALLY_DELIVERED", "RETURNED"} =>
         order[o].restocked <= order[o].returned

\* Stock goes below zero only by units of paid settlements and by received
\* units that a correction wrote off later.
NegativeIsExplained == \A v \in Variants : stock[v] + Total(UncheckedBy(v)) >= 0

\* A replacement ships only in exchange for units that come back for it: a line
\* is exchanged at most once, and no unit is both exchanged and paid back (D-1).
OneReplacementPerLine ==
  \A o, p \in Orders :
    order[p].replaces = o /\ order[o].status # "PURGED" =>
      /\ order[o].returned = order[o].quantity
      /\ order[o].moneyBack = 0
      /\ \A q \in Orders : order[q].replaces = o => q = p

\* What the receipts of an order count as in hand is put back on the order: a
\* later correction never takes back more than was put in.
ReceiptsAreInStock ==
  \A o \in Orders : order[o].good + order[o].damaged <= order[o].restocked

\* A unit of a customer return that is waited for is waited for until it is
\* received or written off, through every later decision, status change and
\* correction, and waited for again when a correction takes its receipt back.
AwaitedUntilReceived ==
  [][\A o \in Orders :
       (/\ order[o].status \in CustomerReturn /\ order[o].restocked <= order[o].returned
        /\ order'[o].status # "PURGED") =>
         Outstanding(order'[o]) >= Outstanding(order[o]) - (order'[o].restocked - order[o].restocked)]_vars

=============================================================================
