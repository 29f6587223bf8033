--------------------------- MODULE OrderStockProofs ---------------------------
(***************************************************************************)
(* Theorems about OrderStock, for any orders, variants, quantities and     *)
(* stock: what holds of each order by itself, and what the orders' units   *)
(* add up to, through every sequence of commands.                          *)
(***************************************************************************)
EXTENDS OrderStock, FiniteSetTheorems, TLAPS

\* What the status of an order says of its counters.
StatusOK(r) ==
  /\ r.status \in PreShipment =>
       /\ r.returned = 0 /\ r.good = 0 /\ r.damaged = 0
       /\ r.restocked = IF r.trashed THEN r.quantity ELSE 0
  /\ r.status = "SHIPPED" => r.returned = 0 /\ r.restocked = 0
  /\ r.status \in {"DELIVERED", "PARTIALLY_DELIVERED", "RETURNED"} => r.restocked <= r.returned
  /\ r.status \in Statuses => r.quantity # 0 /\ r.oversold <= MaxQuantity
  /\ r.status \notin Statuses => r.replaces = NoOrder
  /\ r.request # "NONE" => r.status \in CustomerReturn

\* The counters of a line never count a unit twice.
CountersOK(r) ==
  /\ r.restocked <= r.quantity
  /\ r.returned <= r.quantity
  /\ r.moneyBack <= r.returned
  /\ r.good + r.damaged <= r.restocked

RowOK(r) == r \in OrderRows /\ CountersOK(r) /\ StatusOK(r)

\* An order with a replacement is past delivery and wholly exchanged.
ReplacementOK ==
  \A o, p \in Orders :
    order[p].replaces = o =>
      /\ order[o].status \in CustomerReturn \cup {"PURGED"}
      /\ order[o].status # "PURGED" =>
           /\ order[o].returned = order[o].quantity
           /\ order[o].moneyBack = 0
           /\ \A q \in Orders : order[q].replaces = o => q = p

StockInts == stock \in [Variants -> Int] /\ ledger \in [Variants -> Int]

Inv ==
  /\ StockInts
  /\ order \in [Orders -> OrderRows]
  /\ \A o \in Orders : RowOK(order[o])
  /\ purging \subseteq {o \in Orders : Present(o)}
  /\ ReplacementOK

-----------------------------------------------------------------------------
(***************************************************************************)
(* One order. Successor(r, s): a command may turn row r into row s.        *)
(***************************************************************************)
Exchanged(r) == r.status \in CustomerReturn /\ r.returned = r.quantity /\ r.moneyBack = 0
Awaiting(r) == r.status \in CustomerReturn /\ r.restocked <= r.returned

Successor(r, s) ==
  /\ RowOK(s)
  /\ s.status \in Statuses
  /\ s.replaces = r.replaces
  /\ Exchanged(r) => Exchanged(s)
  /\ Awaiting(r) => Awaiting(s) /\ s.returned >= r.returned

Live(r) == RowOK(r) /\ r.status \in Statuses

\* A row in a status of the state machine carries natural counters.
LEMMA Counters ==
  ASSUME NEW r, Live(r)
  PROVE  /\ r.quantity \in Nat /\ r.restocked \in Nat /\ r.returned \in Nat /\ r.moneyBack \in Nat
         /\ r.good \in Nat /\ r.damaged \in Nat /\ r.oversold \in Nat
         /\ r.quantity <= MaxQuantity /\ MaxQuantity \in Nat
BY QuantityAssumption DEF Live, RowOK, OrderRows

\* Before shipment, after it and closed are different statuses.
LEMMA StatusesDiffer ==
  ASSUME NEW status \in PreShipment
  PROVE  /\ status \notin CustomerReturn /\ status \notin Closed /\ status # "SHIPPED"
         /\ status # "DELIVERED" /\ status # "PARTIALLY_DELIVERED"
BY PreShipmentAssumption DEF CustomerReturn, Closed

\* One command after another is a command.
LEMMA Composed ==
  ASSUME NEW r, NEW s, NEW t, Live(r), Successor(r, s), Successor(s, t)
  PROVE  Successor(r, t)
<1>1. Live(s) /\ Live(t) BY DEF Successor, Live
<1>2. r.returned \in Nat /\ s.returned \in Nat /\ t.returned \in Nat BY <1>1, Counters
<1>3. QED BY <1>2 DEF Successor

\* A return decision counts only units still with the customer.
LEMMA DecidedBounds ==
  ASSUME NEW r, Live(r), NEW n \in Nat
  PROVE  /\ Decided(r, n) \in Nat /\ Decided(r, n) <= n
         /\ r.returned + Decided(r, n) <= r.quantity
         /\ r.returned = r.quantity => Decided(r, n) = 0
         /\ WithCustomer(r) \in Nat
         /\ r.restocked <= r.returned => r.returned + Decided(r, WithCustomer(r)) = r.quantity
<1> DEFINE left == WithCustomer(r)
<1>1. /\ r.quantity \in Nat /\ r.restocked \in Nat /\ r.returned \in Nat
      /\ r.restocked <= r.quantity /\ r.returned <= r.quantity
  BY Counters DEF Live, RowOK, CountersOK
<1>2. /\ left \in Nat /\ r.returned + left <= r.quantity /\ (r.restocked <= r.returned => r.returned + left = r.quantity)
      /\ r.returned = r.quantity => left = 0
  <2>1. left = r.quantity - (IF r.returned > r.restocked THEN r.returned ELSE r.restocked)
    BY DEF WithCustomer, Larger
  <2> HIDE DEF left
  <2>2. QED BY <1>1, <2>1
<1> HIDE DEF left
<1>3. Decided(r, n) = IF n < left THEN n ELSE left
  BY <1>2 DEF Decided, Larger, Smaller, left
<1>4. Decided(r, left) = left
  BY <1>2 DEF Decided, Larger, Smaller, left
<1>5. QED BY <1>1, <1>2, <1>3, <1>4 DEF left

\* A return decision changes returned and moneyBack, by the units it decides.
LEMMA DecideFields ==
  ASSUME NEW r, Live(r), NEW n \in Nat
  PROVE  /\ Decide(r, n) = [r EXCEPT !.returned = r.returned + Decided(r, n),
                                     !.moneyBack = r.moneyBack + Decided(r, n)]
         /\ Decide(r, n).status = r.status /\ Decide(r, n).trashed = r.trashed
         /\ Decide(r, n).refunded = r.refunded
         /\ Decide(r, n).reconciled = r.reconciled
         /\ Decide(r, n).quantity = r.quantity /\ Decide(r, n).restocked = r.restocked
         /\ Decide(r, n).returned = r.returned + Decided(r, n)
         /\ Decide(r, n).moneyBack = r.moneyBack + Decided(r, n)
         /\ Decide(r, n).good = r.good /\ Decide(r, n).damaged = r.damaged
         /\ Decide(r, n).oversold = r.oversold /\ Decide(r, n).replaces = r.replaces
         /\ Decide(r, n).request = r.request
BY DEF Decide, Live, RowOK, OrderRows

LEMMA DecideStep ==
  ASSUME NEW r, Live(r), NEW n \in Nat, r.status \in CustomerReturn
  PROVE  Successor(r, Decide(r, n)) /\ Live(Decide(r, n))
<1> DEFINE s == Decide(r, n)
           d == Decided(r, n)
<1>1. d \in Nat /\ r.returned + d <= r.quantity /\ (r.returned = r.quantity => d = 0)
  BY DecidedBounds
<1>2. /\ s = [r EXCEPT !.returned = r.returned + d, !.moneyBack = r.moneyBack + d]
      /\ s.status = r.status /\ s.trashed = r.trashed
      /\ s.quantity = r.quantity /\ s.restocked = r.restocked
      /\ s.returned = r.returned + d /\ s.moneyBack = r.moneyBack + d
      /\ s.good = r.good /\ s.damaged = r.damaged /\ s.oversold = r.oversold
      /\ s.replaces = r.replaces /\ s.request = r.request
  BY DecideFields
<1>3. /\ r.quantity \in Nat /\ r.restocked \in Nat /\ r.returned \in Nat /\ r.moneyBack \in Nat
      /\ r.good \in Nat /\ r.damaged \in Nat /\ r.oversold \in Nat
      /\ r.quantity <= MaxQuantity /\ MaxQuantity \in Nat
  BY Counters
<1>4. r \in OrderRows /\ CountersOK(r) /\ StatusOK(r) /\ r.status \in Statuses
  BY DEF Live, RowOK
<1> HIDE DEF s, d
<1>5. s \in OrderRows
  <2>1. r.returned + d \in 0..MaxQuantity /\ r.moneyBack + d \in 0..MaxQuantity
    BY <1>1, <1>3, <1>4 DEF CountersOK
  <2>2. QED BY <1>2, <1>4, <2>1 DEF OrderRows
<1>6. CountersOK(s) BY <1>1, <1>2, <1>3, <1>4 DEF CountersOK
<1>7. StatusOK(s)
  <2>1. r.status \notin PreShipment /\ r.status # "SHIPPED"
    BY StatusesDiffer DEF CustomerReturn
  <2>2. QED BY <1>1, <1>2, <1>3, <1>4, <2>1 DEF StatusOK
<1>8. (Exchanged(r) => Exchanged(s)) /\ (Awaiting(r) => Awaiting(s) /\ s.returned >= r.returned)
  BY <1>1, <1>2, <1>3 DEF Exchanged, Awaiting
<1>9. QED BY <1>2, <1>4, <1>5, <1>6, <1>7, <1>8 DEF Successor, Live, RowOK, s

\* What a release puts back is what the line still holds.
LEMMA ReleaseBounds ==
  ASSUME NEW r, Live(r), NEW to
  PROVE  /\ ReleasedBy(r, to) \in Nat
         /\ r.restocked + ReleasedBy(r, to) <= r.quantity
         /\ Unreleased(r) \in Nat /\ r.restocked + Unreleased(r) = r.quantity
         /\ to # "CANCELLED" => ReleasedBy(r, to) = 0
<1>1. r.quantity \in Nat /\ r.restocked \in Nat /\ r.restocked <= r.quantity
  BY Counters DEF Live, RowOK, CountersOK
<1>2. QED BY <1>1 DEF ReleasedBy, Unreleased, Larger

\* A transition keeps the row in order, and releases units only before shipment.
LEMMA TransitionStep ==
  ASSUME NEW r, Live(r), ~r.trashed, NEW to \in Statuses, Permitted(r, to)
  PROVE  Successor(r, Transition(r, to)) /\ Live(Transition(r, to))
         /\ Transition(r, to).status = to /\ Transition(r, to).trashed = r.trashed
         /\ Transition(r, to).quantity = r.quantity
         /\ Transition(r, to).reconciled = r.reconciled
         /\ Transition(r, to).good = r.good /\ Transition(r, to).damaged = r.damaged
         /\ Transition(r, to).restocked = r.restocked + ReleasedBy(r, to)
<1> DEFINE moved == IF to = "RETURNED" THEN Decide(r, WithCustomer(r)) ELSE r
           s == Transition(r, to)
<1>1. s = [moved EXCEPT !.status = to, !.restocked = moved.restocked + ReleasedBy(r, to)]
  BY DEF Transition
<1>2. /\ Live(moved)
      /\ moved.returned \in Nat /\ moved.moneyBack \in Nat
      /\ moved.returned >= r.returned
      /\ to = "RETURNED" => moved.returned >= r.restocked
      /\ to # "RETURNED" => moved = r
      /\ moved.restocked = r.restocked /\ moved.quantity = r.quantity
      /\ moved.good = r.good /\ moved.damaged = r.damaged
      /\ moved.trashed = r.trashed /\ moved.reconciled = r.reconciled
      /\ moved.replaces = r.replaces /\ moved.request = r.request
      /\ Exchanged(r) => moved.returned = r.quantity /\ moved.moneyBack = 0
  <2>1. CASE to = "RETURNED"
    <3>1. r.status \in {"DELIVERED", "PARTIALLY_DELIVERED"}
      BY <2>1, PreShipmentAssumption DEF Permitted, Allowed
    <3>2. r.status \in CustomerReturn BY <3>1 DEF CustomerReturn
    <3>3. WithCustomer(r) \in Nat BY DecidedBounds
    <3>4. Live(Decide(r, WithCustomer(r))) /\ Successor(r, Decide(r, WithCustomer(r)))
      BY <3>2, <3>3, DecideStep
    <3>5. /\ moved.status = r.status /\ moved.trashed = r.trashed
          /\ moved.reconciled = r.reconciled
          /\ moved.quantity = r.quantity /\ moved.restocked = r.restocked
          /\ moved.returned = r.returned + Decided(r, WithCustomer(r))
          /\ moved.good = r.good /\ moved.damaged = r.damaged
          /\ moved.replaces = r.replaces /\ moved.request = r.request
      BY <2>1, <3>3, DecideFields
    <3>6. /\ Decided(r, WithCustomer(r)) \in Nat
          /\ r.returned + Decided(r, WithCustomer(r)) >= r.restocked
      <4>1. r.restocked <= r.returned BY <3>1 DEF Live, RowOK, StatusOK
      <4>2. r.restocked <= r.quantity BY DEF Live, RowOK, CountersOK
      <4>3. QED BY <3>3, <4>1, <4>2, DecidedBounds
    <3>7. moved.returned \in Nat /\ moved.moneyBack \in Nat /\ r.returned \in Nat
      BY <2>1, <3>4, Counters
    <3>8. QED BY <2>1, <3>4, <3>5, <3>6, <3>7 DEF Successor, Exchanged
  <2>2. CASE to # "RETURNED" BY <2>2, Counters DEF Exchanged
  <2>3. QED BY <2>1, <2>2
<1>3. /\ ReleasedBy(r, to) \in Nat /\ r.restocked + ReleasedBy(r, to) <= r.quantity
      /\ to # "CANCELLED" => ReleasedBy(r, to) = 0
  BY ReleaseBounds
<1> HIDE DEF moved
<1>4. s \in OrderRows
  <2>1. moved.restocked + ReleasedBy(r, to) \in 0..MaxQuantity BY <1>2, <1>3, Counters
  <2>2. QED BY <1>1, <1>2, <2>1 DEF OrderRows, Live, RowOK
<1>5. /\ s.status = to /\ s.trashed = r.trashed /\ s.quantity = r.quantity
      /\ s.returned = moved.returned /\ s.moneyBack = moved.moneyBack
      /\ s.good = r.good /\ s.damaged = r.damaged /\ s.reconciled = r.reconciled
      /\ s.oversold = moved.oversold /\ s.replaces = r.replaces /\ s.request = r.request
      /\ s.restocked = r.restocked + ReleasedBy(r, to)
  BY <1>1, <1>2 DEF Live, RowOK, OrderRows
<1>6. CountersOK(s)
  BY <1>2, <1>3, <1>5, Counters DEF CountersOK, Live, RowOK
<1>7. StatusOK(s)
  <2>1. to \in PreShipment \cup {"SHIPPED"} =>
          /\ moved = r /\ r.restocked = 0 /\ r.returned = 0 /\ r.good = 0 /\ r.damaged = 0
          /\ ReleasedBy(r, to) = 0 /\ r.request = "NONE"
    <3>1. SUFFICES ASSUME to \in PreShipment \cup {"SHIPPED"}
                   PROVE  /\ moved = r /\ r.restocked = 0 /\ r.returned = 0
                          /\ r.good = 0 /\ r.damaged = 0
                          /\ ReleasedBy(r, to) = 0 /\ r.request = "NONE"
      OBVIOUS
    <3>2. r.status \in PreShipment \cup {"SHIPPED"} /\ to # "RETURNED" /\ to # "CANCELLED"
      BY <3>1, StatusesDiffer, PreShipmentAssumption DEF Permitted, Allowed, Closed
    <3>3. r.status \notin CustomerReturn BY <3>2, StatusesDiffer DEF CustomerReturn
    <3>4. r.good = 0 /\ r.damaged = 0 /\ r.restocked = 0 /\ r.returned = 0
      BY <3>2, Counters DEF Live, RowOK, StatusOK, CountersOK
    <3>5. QED BY <1>2, <1>3, <3>2, <3>3, <3>4 DEF Live, RowOK, StatusOK
  <2>2. to \in {"DELIVERED", "PARTIALLY_DELIVERED", "RETURNED"} => s.restocked <= s.returned
    <3>1. CASE to = "RETURNED" BY <1>2, <1>3, <1>5, <3>1, Counters
    <3>2. CASE to \in {"DELIVERED", "PARTIALLY_DELIVERED"}
      <4>1. r.status \in PreShipment \cup {"SHIPPED"}
        BY <3>2, PreShipmentAssumption DEF Permitted, Allowed
      <4>2. r.restocked = 0 BY <4>1 DEF Live, RowOK, StatusOK
      <4>3. QED BY <1>2, <1>3, <1>5, <3>2, <4>2, Counters
    <3>3. QED BY <3>1, <3>2
  <2>3. r.request # "NONE" => to \in CustomerReturn
    <3>1. r.request # "NONE" => r.status \in CustomerReturn BY DEF Live, RowOK, StatusOK
    <3>2. r.status \in CustomerReturn => to \in {"RETURNED", "REFUNDED"}
      BY StatusesDiffer DEF Permitted, Allowed, CustomerReturn
    <3>3. QED BY <3>1, <3>2 DEF CustomerReturn
  <2>4. s.quantity # 0 /\ s.oversold <= MaxQuantity
    BY <1>2, <1>5 DEF Live, RowOK, StatusOK
  <2>5. QED BY <1>3, <1>5, <2>1, <2>2, <2>3, <2>4, Counters DEF StatusOK
<1>8. r.status \in CustomerReturn => to \in CustomerReturn /\ to # "CANCELLED"
  BY StatusesDiffer DEF Permitted, Allowed, CustomerReturn
<1>9. Exchanged(r) => Exchanged(s) BY <1>2, <1>5, <1>8 DEF Exchanged
<1>10. Awaiting(r) => Awaiting(s) /\ s.returned >= r.returned
  BY <1>2, <1>3, <1>5, <1>8, Counters DEF Awaiting
<1>11. RowOK(s) BY <1>4, <1>6, <1>7 DEF RowOK
<1>12. QED BY <1>5, <1>9, <1>10, <1>11 DEF Successor, Live

\* A command that changes only flags and what is back on the shelf.
LEMMA SameLine ==
  ASSUME NEW r, Live(r), NEW s \in OrderRows, CountersOK(s),
         s.status = r.status, s.quantity = r.quantity, s.returned = r.returned,
         s.moneyBack = r.moneyBack, s.oversold = r.oversold, s.replaces = r.replaces,
         s.request # "NONE" => r.status \in CustomerReturn,
         r.status \in PreShipment =>
           s.good = 0 /\ s.damaged = 0 /\ s.restocked = IF s.trashed THEN s.quantity ELSE 0,
         r.status = "SHIPPED" => s.restocked = 0,
         Awaiting(r) => s.restocked <= s.returned
  PROVE  Successor(r, s)
<1>1. r.returned \in Nat BY Counters
<1>2. r.status \in {"DELIVERED", "PARTIALLY_DELIVERED", "RETURNED"} => s.restocked <= s.returned
  BY DEF Live, RowOK, StatusOK, Awaiting, CustomerReturn
<1>3. StatusOK(s)
  BY <1>2 DEF Live, RowOK, StatusOK
<1>4. QED BY <1>1, <1>3 DEF Successor, Live, RowOK, Exchanged, Awaiting

\* Flags of the order, with the line as it was.
LEMMA FlagStep ==
  ASSUME NEW r, Live(r), NEW s \in OrderRows,
         s.status = r.status, s.quantity = r.quantity, s.returned = r.returned,
         s.restocked = r.restocked, s.good = r.good, s.damaged = r.damaged,
         s.moneyBack = r.moneyBack, s.oversold = r.oversold, s.replaces = r.replaces,
         s.trashed = r.trashed,
         s.request # "NONE" => r.status \in CustomerReturn
  PROVE  Successor(r, s)
<1>1. CountersOK(s) BY DEF CountersOK, Live, RowOK
<1>2. r.status \in PreShipment =>
        s.good = 0 /\ s.damaged = 0 /\ s.restocked = IF s.trashed THEN s.quantity ELSE 0
  BY DEF Live, RowOK, StatusOK
<1>3. r.status = "SHIPPED" => s.restocked = 0 BY DEF Live, RowOK, StatusOK
<1>4. Awaiting(r) => s.restocked <= s.returned BY DEF Awaiting
<1>5. QED BY <1>1, <1>2, <1>3, <1>4, SameLine

LEMMA RefundedStep ==
  ASSUME NEW r, Live(r)
  PROVE  Successor(r, [r EXCEPT !.refunded = TRUE])
<1> DEFINE s == [r EXCEPT !.refunded = TRUE]
<1>1. s \in OrderRows /\ s.status = r.status /\ s.quantity = r.quantity /\ s.returned = r.returned
      /\ s.restocked = r.restocked /\ s.good = r.good /\ s.damaged = r.damaged
      /\ s.moneyBack = r.moneyBack /\ s.oversold = r.oversold /\ s.replaces = r.replaces
      /\ s.trashed = r.trashed /\ s.request = r.request
  BY DEF Live, RowOK, OrderRows
<1>2. r.request # "NONE" => r.status \in CustomerReturn BY DEF Live, RowOK, StatusOK
<1> HIDE DEF s
<1>3. Successor(r, s) BY <1>1, <1>2, FlagStep
<1>4. QED BY <1>3 DEF s

LEMMA RequestStep ==
  ASSUME NEW r, Live(r), NEW type \in {"NONE", "RETURN", "EXCHANGE"},
         type # "NONE" => r.status \in CustomerReturn
  PROVE  Successor(r, [r EXCEPT !.request = type])
         /\ [r EXCEPT !.request = type].trashed = r.trashed
         /\ [r EXCEPT !.request = type].status = r.status
<1> DEFINE s == [r EXCEPT !.request = type]
<1>1. s \in OrderRows /\ s.status = r.status /\ s.quantity = r.quantity /\ s.returned = r.returned
      /\ s.restocked = r.restocked /\ s.good = r.good /\ s.damaged = r.damaged
      /\ s.moneyBack = r.moneyBack /\ s.oversold = r.oversold /\ s.replaces = r.replaces
      /\ s.trashed = r.trashed /\ s.request = type
  BY DEF Live, RowOK, OrderRows
<1> HIDE DEF s
<1>2. Successor(r, s) BY <1>1, FlagStep
<1>3. QED BY <1>1, <1>2 DEF s

LEMMA ReconciledStep ==
  ASSUME NEW r, Live(r), r.status = "PARTIALLY_DELIVERED", NEW back \in Nat
  PROVE  Successor(r, Reconciled(r, back)) /\ Live(Reconciled(r, back))
         /\ Reconciled(r, back).status = r.status /\ Reconciled(r, back).trashed = r.trashed
         /\ Reconciled(r, back).quantity = r.quantity
         /\ Reconciled(r, back).restocked = r.restocked
         /\ Reconciled(r, back).good = r.good /\ Reconciled(r, back).damaged = r.damaged
<1> DEFINE d == Decide(r, back)
           s == [d EXCEPT !.reconciled = TRUE]
<1>1. Successor(r, d) /\ Live(d) BY DecideStep DEF CustomerReturn
<1>2. d.status = r.status /\ d.trashed = r.trashed /\ d.quantity = r.quantity
      /\ d.restocked = r.restocked /\ d.good = r.good /\ d.damaged = r.damaged
  BY DecideFields
<1> HIDE DEF d
<1>3. s \in OrderRows /\ s.status = d.status /\ s.quantity = d.quantity /\ s.returned = d.returned
      /\ s.restocked = d.restocked /\ s.good = d.good /\ s.damaged = d.damaged
      /\ s.moneyBack = d.moneyBack /\ s.oversold = d.oversold /\ s.replaces = d.replaces
      /\ s.trashed = d.trashed /\ s.request = d.request
  BY <1>1 DEF Live, RowOK, OrderRows
<1>4. d.request # "NONE" => d.status \in CustomerReturn BY <1>1 DEF Live, RowOK, StatusOK
<1>5. s = Reconciled(r, back) BY DEF Reconciled, d
<1> HIDE DEF s
<1>6. Successor(d, s) BY <1>1, <1>3, <1>4, FlagStep
<1>7. Successor(r, s) BY <1>1, <1>6, Composed
<1>8. QED BY <1>2, <1>3, <1>5, <1>7 DEF Successor, Live

\* A change of the line before shipment.
LEMMA ModifyStep ==
  ASSUME NEW r, Live(r), r.status \in PreShipment, ~r.trashed, NEW q \in Quantities
  PROVE  Successor(r, [r EXCEPT !.quantity = q])
<1> DEFINE s == [r EXCEPT !.quantity = q]
<1>1. q \in Nat /\ q # 0 /\ q \in 0..MaxQuantity BY QuantityAssumption DEF Quantities
<1>2. s \in OrderRows /\ s.status = r.status /\ s.quantity = q /\ s.returned = r.returned
      /\ s.restocked = r.restocked /\ s.good = r.good /\ s.damaged = r.damaged
      /\ s.moneyBack = r.moneyBack /\ s.oversold = r.oversold /\ s.replaces = r.replaces
      /\ s.trashed = r.trashed /\ s.request = r.request
  BY <1>1 DEF Live, RowOK, OrderRows
<1> HIDE DEF s
<1>3. r.returned = 0 /\ r.good = 0 /\ r.damaged = 0 /\ r.restocked = 0
  BY DEF Live, RowOK, StatusOK
<1>4. r.moneyBack = 0 BY <1>3, Counters DEF Live, RowOK, CountersOK
<1>5. CountersOK(s) BY <1>1, <1>2, <1>3, <1>4 DEF CountersOK
<1>6. r.status \notin CustomerReturn /\ r.status # "SHIPPED"
      /\ r.status \notin {"DELIVERED", "PARTIALLY_DELIVERED", "RETURNED"}
  BY StatusesDiffer DEF CustomerReturn
<1>7. StatusOK(s) BY <1>1, <1>2, <1>3, <1>6 DEF StatusOK, Live, RowOK
<1>8. QED BY <1>2, <1>5, <1>6, <1>7 DEF Successor, Live, RowOK, Exchanged, Awaiting, s

\* Trash puts an unshipped order's units back, restoring it takes them again.
LEMMA TrashStep ==
  ASSUME NEW r, Live(r), ~r.trashed
  PROVE  LET units == IF r.status \in PreShipment THEN Unreleased(r) ELSE 0
         IN  /\ units \in Nat
             /\ Successor(r, [r EXCEPT !.trashed = TRUE, !.restocked = r.restocked + units])
<1> DEFINE units == IF r.status \in PreShipment THEN Unreleased(r) ELSE 0
           s == [r EXCEPT !.trashed = TRUE, !.restocked = r.restocked + units]
<1>1. /\ units \in Nat /\ r.restocked + units <= r.quantity
      /\ r.status \in PreShipment => r.restocked + units = r.quantity
      /\ r.status \notin PreShipment => units = 0
  BY ReleaseBounds, Counters DEF Live, RowOK, CountersOK
<1> HIDE DEF units
<1>2. s \in OrderRows /\ s.status = r.status /\ s.quantity = r.quantity /\ s.returned = r.returned
      /\ s.restocked = r.restocked + units /\ s.good = r.good /\ s.damaged = r.damaged
      /\ s.moneyBack = r.moneyBack /\ s.oversold = r.oversold /\ s.replaces = r.replaces
      /\ s.trashed = TRUE /\ s.request = r.request
  <2>1. r.restocked + units \in 0..MaxQuantity BY <1>1, Counters
  <2>2. QED BY <2>1 DEF Live, RowOK, OrderRows
<1> HIDE DEF s
<1>3. CountersOK(s) BY <1>1, <1>2, Counters DEF CountersOK, Live, RowOK
<1>4. r.status \in PreShipment =>
        s.good = 0 /\ s.damaged = 0 /\ s.restocked = IF s.trashed THEN s.quantity ELSE 0
  BY <1>1, <1>2 DEF Live, RowOK, StatusOK
<1>5. r.status = "SHIPPED" => s.restocked = 0
  BY <1>1, <1>2, StatusesDiffer DEF Live, RowOK, StatusOK
<1>6. Awaiting(r) => s.restocked <= s.returned
  BY <1>1, <1>2, StatusesDiffer, Counters DEF Awaiting
<1>7. r.request # "NONE" => r.status \in CustomerReturn BY DEF Live, RowOK, StatusOK
<1>8. Successor(r, s) BY <1>2, <1>3, <1>4, <1>5, <1>6, <1>7, SameLine
<1>9. QED BY <1>1, <1>8 DEF s, units

LEMMA RestoreStep ==
  ASSUME NEW r, Live(r), r.trashed
  PROVE  /\ Reclaimed(r) \in Nat
         /\ Successor(r, [r EXCEPT !.trashed = FALSE, !.restocked = r.restocked - Reclaimed(r)])
<1> DEFINE units == Reclaimed(r)
           s == [r EXCEPT !.trashed = FALSE, !.restocked = r.restocked - units]
<1>1. /\ units \in Nat /\ r.restocked - units \in Nat
      /\ r.status \in PreShipment => r.restocked - units = 0
      /\ r.status \notin PreShipment => units = 0
  BY Counters DEF Reclaimed, Larger, Live, RowOK, StatusOK
<1> HIDE DEF units
<1>2. s \in OrderRows /\ s.status = r.status /\ s.quantity = r.quantity /\ s.returned = r.returned
      /\ s.restocked = r.restocked - units /\ s.good = r.good /\ s.damaged = r.damaged
      /\ s.moneyBack = r.moneyBack /\ s.oversold = r.oversold /\ s.replaces = r.replaces
      /\ s.trashed = FALSE /\ s.request = r.request
  <2>1. r.restocked - units \in 0..MaxQuantity
    BY <1>1, Counters DEF Live, RowOK, CountersOK
  <2>2. QED BY <2>1 DEF Live, RowOK, OrderRows
<1> HIDE DEF s
<1>3. r.status \in PreShipment => s.good = 0 /\ s.damaged = 0 /\ s.restocked = 0
  BY <1>1, <1>2 DEF Live, RowOK, StatusOK
<1>4. CountersOK(s) BY <1>1, <1>2, <1>3, Counters DEF CountersOK, Live, RowOK
<1>5. r.status = "SHIPPED" => s.restocked = 0
  BY <1>1, <1>2, StatusesDiffer DEF Live, RowOK, StatusOK
<1>6. Awaiting(r) => s.restocked <= s.returned
  BY <1>1, <1>2, StatusesDiffer, Counters DEF Awaiting
<1>7. r.request # "NONE" => r.status \in CustomerReturn BY DEF Live, RowOK, StatusOK
<1>8. Successor(r, s) BY <1>2, <1>3, <1>4, <1>5, <1>6, <1>7, SameLine
<1>9. QED BY <1>1, <1>8 DEF s, units

LEMMA Unchanged ==
  ASSUME NEW r, Live(r)
  PROVE  Successor(r, r)
BY Counters DEF Live, Successor, Awaiting

\* What is outstanding can be put back without counting a unit twice.
LEMMA OutstandingBounds ==
  ASSUME NEW r, Live(r)
  PROVE  /\ Outstanding(r) \in Nat
         /\ r.restocked + Outstanding(r) <= r.quantity
         /\ Awaiting(r) => r.restocked + Outstanding(r) = r.returned
BY Counters DEF Outstanding, Larger, Live, RowOK, CountersOK, Awaiting

\* A receipt or a correction: it moves restocked and what the receipts count.
LEMMA CountStep ==
  ASSUME NEW r, Live(r), NEW x \in Nat, NEW g \in Nat, NEW d \in Nat,
         r.status \notin PreShipment, r.status # "SHIPPED",
         x <= r.quantity, g + d <= x, Awaiting(r) => x <= r.returned
  PROVE  Successor(r, [r EXCEPT !.restocked = x, !.good = g, !.damaged = d])
<1> DEFINE s == [r EXCEPT !.restocked = x, !.good = g, !.damaged = d]
<1>1. r.quantity \in Nat /\ r.quantity <= MaxQuantity /\ MaxQuantity \in Nat /\ r.returned \in Nat
      /\ r.moneyBack \in Nat
  BY Counters
<1>2. s \in OrderRows /\ s.status = r.status /\ s.quantity = r.quantity /\ s.returned = r.returned
      /\ s.restocked = x /\ s.good = g /\ s.damaged = d
      /\ s.moneyBack = r.moneyBack /\ s.oversold = r.oversold /\ s.replaces = r.replaces
      /\ s.trashed = r.trashed /\ s.request = r.request
  <2>1. x \in 0..MaxQuantity /\ g \in 0..MaxQuantity /\ d \in 0..MaxQuantity BY <1>1
  <2>2. QED BY <2>1 DEF Live, RowOK, OrderRows
<1> HIDE DEF s
<1>3. CountersOK(s) BY <1>2 DEF CountersOK, Live, RowOK
<1>4. r.request # "NONE" => r.status \in CustomerReturn BY DEF Live, RowOK, StatusOK
<1>5. Successor(r, s) BY <1>2, <1>3, <1>4, SameLine
<1>6. QED BY <1>5 DEF s

\* Once a status can be received, the order left before.
LEMMA ReceivableLeft ==
  ASSUME NEW r, Receivable(r)
  PROVE  r.status \notin PreShipment /\ r.status # "SHIPPED"
BY StatusesDiffer DEF Receivable, CustomerReturn, Closed

\* What a scanner decides before it receives.
LEMMA ScanOutcomeStep ==
  ASSUME NEW r, Live(r), ~r.trashed, NEW kept \in Nat, ScanPlan(r, kept)
  PROVE  LET s == ScanOutcome(r, kept)
         IN  /\ Successor(r, s) /\ Live(s) /\ Receivable(s)
             /\ s.good = r.good /\ s.damaged = r.damaged
<1> DEFINE back == r.quantity - r.restocked - kept
<1>1. CASE r.status = "SHIPPED" /\ kept = 0
  <2>1. "CANCELLED" \in Statuses /\ Permitted(r, "CANCELLED")
    BY <1>1 DEF Statuses, Closed, Permitted, Allowed
  <2>2. ScanOutcome(r, kept) = Transition(r, "CANCELLED") BY <1>1 DEF ScanOutcome, Unreconciled
  <2>3. QED BY <2>1, <2>2, TransitionStep DEF Receivable
<1>2. CASE r.status = "SHIPPED" /\ kept > 0
  <2> DEFINE t == Transition(r, "PARTIALLY_DELIVERED")
  <2>1. "PARTIALLY_DELIVERED" \in Statuses /\ Permitted(r, "PARTIALLY_DELIVERED")
    BY <1>2 DEF Statuses, Permitted, Allowed
  <2>2. ScanOutcome(r, kept) = Reconciled(t, back) BY <1>2 DEF ScanOutcome, Unreconciled
  <2>3. Successor(r, t) /\ Live(t) /\ t.status = "PARTIALLY_DELIVERED"
        /\ t.good = r.good /\ t.damaged = r.damaged
    BY <2>1, TransitionStep
  <2>4. back \in Nat
    BY <1>2, Counters, PreShipmentAssumption DEF ScanPlan, AwaitsOutcome
  <2> HIDE DEF t, back
  <2>5. Successor(t, Reconciled(t, back)) /\ Live(Reconciled(t, back))
        /\ Reconciled(t, back).status = t.status
        /\ Reconciled(t, back).good = t.good /\ Reconciled(t, back).damaged = t.damaged
    BY <2>3, <2>4, ReconciledStep
  <2>6. Successor(r, Reconciled(t, back)) BY <2>3, <2>5, Composed
  <2>7. QED BY <2>2, <2>3, <2>5, <2>6 DEF Receivable, CustomerReturn
<1>3. CASE Unreconciled(r)
  <2>1. r.status = "PARTIALLY_DELIVERED" /\ ~r.reconciled BY <1>3 DEF Unreconciled
  <2>2. back \in Nat BY <1>3, Counters DEF ScanPlan, AwaitsOutcome
  <2> HIDE DEF back
  <2>3. Successor(r, Reconciled(r, back)) /\ Live(Reconciled(r, back))
        /\ Reconciled(r, back).status = r.status /\ Reconciled(r, back).trashed = r.trashed
        /\ Reconciled(r, back).good = r.good /\ Reconciled(r, back).damaged = r.damaged
    BY <2>1, <2>2, ReconciledStep
  <2>4. CASE kept = 0
    <3> DEFINE t == Reconciled(r, back)
    <3>1. ScanOutcome(r, kept) = Transition(t, "RETURNED")
      BY <2>1, <2>4, <1>3 DEF ScanOutcome, back
    <3>2. Live(t) /\ ~t.trashed /\ t.status = "PARTIALLY_DELIVERED" BY <2>1, <2>3
    <3> HIDE DEF t
    <3>3. "RETURNED" \in Statuses /\ Permitted(t, "RETURNED")
      BY <3>2 DEF Statuses, Closed, Permitted, Allowed
    <3>4. Successor(t, Transition(t, "RETURNED")) /\ Live(Transition(t, "RETURNED"))
          /\ Transition(t, "RETURNED").status = "RETURNED"
          /\ Transition(t, "RETURNED").good = t.good
          /\ Transition(t, "RETURNED").damaged = t.damaged
      BY <3>2, <3>3, TransitionStep
    <3>5. Successor(r, Transition(t, "RETURNED")) BY <2>3, <3>4, Composed DEF t
    <3>6. QED BY <2>3, <3>1, <3>4, <3>5 DEF Receivable, CustomerReturn, t
  <2>5. CASE kept > 0
    <3>1. ScanOutcome(r, kept) = Reconciled(r, back)
      BY <2>1, <2>5, <1>3 DEF ScanOutcome, back
    <3>2. QED BY <2>1, <2>3, <3>1 DEF Receivable, CustomerReturn
  <2>6. QED BY <2>4, <2>5
<1>4. CASE r.status # "SHIPPED" /\ ~Unreconciled(r)
  <2>1. ScanOutcome(r, kept) = r /\ Receivable(r)
    BY <1>4 DEF ScanOutcome, ScanPlan, AwaitsOutcome
  <2>2. QED BY <2>1, Unchanged
<1>5. QED BY <1>1, <1>2, <1>3, <1>4

-----------------------------------------------------------------------------
(***************************************************************************)
(* Commands. Each that works on an existing order turns its row into a     *)
(* successor of it.                                                        *)
(***************************************************************************)
RowStep(o) ==
  /\ \E s : Successor(order[o], s) /\ order' = [order EXCEPT ![o] = s]
  /\ purging' = purging

LEMMA Moved ==
  ASSUME StockInts, NEW v, NEW delta \in Int, NEW outside \in Int
  PROVE  /\ OrderMoves(v, delta) => StockInts' /\ purging' = purging
         /\ BothMove(v, delta, outside) => StockInts' /\ purging' = purging
BY DEF StockInts, OrderMoves, BothMove, Move

LEMMA PresentLives ==
  ASSUME Inv, NEW o \in Orders, Present(o)
  PROVE  Live(order[o])
BY DEF Inv, Live, Present

LEMMA ChangeStatusStep ==
  ASSUME Inv, NEW o \in Orders, NEW to \in Statuses, ChangeStatus(o, to)
  PROVE  RowStep(o) /\ StockInts'
<1>1. Live(order[o]) /\ ~order[o].trashed /\ Permitted(order[o], to)
  BY PresentLives DEF ChangeStatus, Open
<1>2. Successor(order[o], Transition(order[o], to)) BY <1>1, TransitionStep
<1>3. order' = [order EXCEPT ![o] = Transition(order[o], to)] BY DEF ChangeStatus
<1>4. ReleasedBy(order[o], to) \in Int BY <1>1, ReleaseBounds
<1>5. QED BY <1>2, <1>3, <1>4, Moved DEF ChangeStatus, Inv, RowStep

LEMMA RefundRecordedStep ==
  ASSUME Inv, NEW o \in Orders, RefundRecorded(o)
  PROVE  RowStep(o) /\ StockInts'
<1>1. Live(order[o]) BY PresentLives DEF RefundRecorded
<1>2. Successor(order[o], [order[o] EXCEPT !.refunded = TRUE]) BY <1>1, RefundedStep
<1>3. order' = [order EXCEPT ![o] = [order[o] EXCEPT !.refunded = TRUE]]
  BY DEF RefundRecorded
<1>4. QED BY <1>2, <1>3 DEF RefundRecorded, Inv, StockInts, RowStep

LEMMA ModifyOrderStep ==
  ASSUME Inv, NEW o \in Orders, NEW q \in Quantities, ModifyOrder(o, q)
  PROVE  RowStep(o) /\ StockInts'
<1>1. Live(order[o]) /\ ~order[o].trashed /\ order[o].status \in PreShipment
  BY PresentLives DEF ModifyOrder, Open
<1>2. Successor(order[o], [order[o] EXCEPT !.quantity = q]) BY <1>1, ModifyStep
<1>3. order' = [order EXCEPT ![o] = [order[o] EXCEPT !.quantity = q]]
  BY DEF ModifyOrder
<1>4. -(q - order[o].quantity) \in Int BY <1>1, Counters DEF Quantities
<1>5. QED BY <1>2, <1>3, <1>4, Moved DEF ModifyOrder, Inv, RowStep

LEMMA TrashOrderStep ==
  ASSUME Inv, NEW o \in Orders, TrashOrder(o)
  PROVE  RowStep(o) /\ StockInts'
<1> DEFINE r == order[o]
           units == IF r.status \in PreShipment THEN Unreleased(r) ELSE 0
<1>1. Live(r) /\ ~r.trashed BY PresentLives DEF TrashOrder, Open
<1>2. units \in Nat /\ Successor(r, [r EXCEPT !.trashed = TRUE, !.restocked = r.restocked + units])
  BY <1>1, TrashStep
<1>3. order' = [order EXCEPT ![o] = [r EXCEPT !.trashed = TRUE, !.restocked = r.restocked + units]]
  BY DEF TrashOrder
<1>4. OrderMoves(r.variant, units) BY DEF TrashOrder
<1> HIDE DEF units
<1>5. units \in Int BY <1>2
<1>6. QED BY <1>2, <1>3, <1>4, <1>5, Moved DEF Inv, RowStep

LEMMA RestoreOrderStep ==
  ASSUME Inv, NEW o \in Orders, RestoreOrder(o)
  PROVE  RowStep(o) /\ StockInts'
<1> DEFINE r == order[o]
           units == Reclaimed(r)
<1>1. Live(r) /\ r.trashed BY PresentLives DEF RestoreOrder
<1>2. units \in Nat /\ Successor(r, [r EXCEPT !.trashed = FALSE, !.restocked = r.restocked - units])
  BY <1>1, RestoreStep
<1>3. order' = [order EXCEPT ![o] = [r EXCEPT !.trashed = FALSE, !.restocked = r.restocked - units]]
  BY DEF RestoreOrder
<1>4. OrderMoves(r.variant, -units) BY DEF RestoreOrder
<1> HIDE DEF units
<1>5. -units \in Int BY <1>2
<1>6. QED BY <1>2, <1>3, <1>4, <1>5, Moved DEF Inv, RowStep

LEMMA ReconcileStep ==
  ASSUME Inv, NEW o \in Orders, NEW back \in Nat, Reconcile(o, back)
  PROVE  RowStep(o) /\ StockInts'
<1>1. Live(order[o]) /\ order[o].status = "PARTIALLY_DELIVERED"
  BY PresentLives DEF Reconcile, Open, Unreconciled
<1>2. Successor(order[o], Reconciled(order[o], back)) BY <1>1, ReconciledStep
<1>3. order' = [order EXCEPT ![o] = Reconciled(order[o], back)] BY DEF Reconcile
<1>4. QED BY <1>2, <1>3 DEF Reconcile, Inv, StockInts, RowStep

LEMMA ItemReturnStep ==
  ASSUME Inv, NEW o \in Orders, NEW n \in Nat, RecordItemReturn(o, n)
  PROVE  RowStep(o) /\ StockInts'
<1> DEFINE r == order[o]
           d == Decide(r, n)
           all == r.status = "DELIVERED" /\ d.returned >= r.quantity
<1>1. Live(r) /\ ~r.trashed /\ r.status \in CustomerReturn
  BY PresentLives DEF RecordItemReturn, Open, CustomerReturn
<1>2. Successor(r, d) /\ Live(d) BY <1>1, DecideStep
<1>3. d.status = r.status /\ d.trashed = r.trashed BY <1>1, DecideFields
<1>4. order' = [order EXCEPT ![o] = IF all THEN Transition(d, "RETURNED") ELSE d]
  BY DEF RecordItemReturn
<1>5. UNCHANGED <<stock, ledger, purging>> BY DEF RecordItemReturn
<1> HIDE DEF d
<1>6. CASE all
  <2>1. "RETURNED" \in Statuses /\ Permitted(d, "RETURNED")
    BY <1>3, <1>6 DEF Statuses, Closed, Permitted, Allowed
  <2>2. Successor(d, Transition(d, "RETURNED")) BY <1>1, <1>2, <1>3, <2>1, TransitionStep
  <2>3. Successor(r, Transition(d, "RETURNED")) BY <1>1, <1>2, <2>2, Composed
  <2>4. QED BY <1>4, <1>5, <1>6, <2>3 DEF Inv, StockInts, RowStep
<1>7. CASE ~all BY <1>2, <1>4, <1>5, <1>7 DEF Inv, StockInts, RowStep
<1>8. QED BY <1>6, <1>7

LEMMA RequestsStep ==
  ASSUME Inv, NEW o \in Orders,
         \/ \E type \in {"RETURN", "EXCHANGE"} : RequestReturn(o, type)
         \/ RejectRequest(o)
  PROVE  RowStep(o) /\ StockInts'
<1>1. PICK type \in {"NONE", "RETURN", "EXCHANGE"} :
        /\ type # "NONE" => order[o].status = "DELIVERED"
        /\ order' = [order EXCEPT ![o] = [order[o] EXCEPT !.request = type]]
        /\ UNCHANGED <<stock, ledger, purging>>
  BY DEF RequestReturn, RejectRequest
<1>2. Present(o) BY DEF RequestReturn, RejectRequest, Present, Statuses
<1>3. Live(order[o]) BY <1>2, PresentLives
<1>4. Successor(order[o], [order[o] EXCEPT !.request = type])
  BY <1>1, <1>3, RequestStep DEF CustomerReturn
<1>5. QED BY <1>1, <1>4 DEF Inv, StockInts, RowStep

LEMMA ApproveReturnStep ==
  ASSUME Inv, NEW o \in Orders, ApproveReturn(o)
  PROVE  RowStep(o) /\ StockInts'
<1> DEFINE r == [order[o] EXCEPT !.request = "NONE"]
<1>1. Live(order[o]) /\ ~order[o].trashed BY PresentLives DEF ApproveReturn, Open
<1>2. Successor(order[o], r) /\ r.trashed = order[o].trashed BY <1>1, RequestStep
<1>3. \/ order' = [order EXCEPT ![o] = r]
      \/ Permitted(r, "RETURNED") /\ order' = [order EXCEPT ![o] = Transition(r, "RETURNED")]
  BY DEF ApproveReturn
<1>4. UNCHANGED <<stock, ledger, purging>> BY DEF ApproveReturn
<1>5. Live(r) BY <1>2 DEF Successor, Live
<1> HIDE DEF r
<1>6. CASE order' = [order EXCEPT ![o] = r]
  BY <1>2, <1>4, <1>6 DEF Inv, StockInts, RowStep
<1>7. CASE Permitted(r, "RETURNED") /\ order' = [order EXCEPT ![o] = Transition(r, "RETURNED")]
  <2>1. "RETURNED" \in Statuses BY DEF Statuses, Closed
  <2>2. Successor(r, Transition(r, "RETURNED")) BY <1>1, <1>2, <1>5, <1>7, <2>1, TransitionStep
  <2>3. Successor(order[o], Transition(r, "RETURNED")) BY <1>1, <1>2, <2>2, Composed
  <2>4. QED BY <1>4, <1>7, <2>3 DEF Inv, StockInts, RowStep
<1>8. QED BY <1>3, <1>6, <1>7

LEMMA ReceiveParcelStep ==
  ASSUME Inv, NEW o \in Orders, NEW n \in Nat, NEW damaged \in Nat, NEW lost \in Nat,
         ReceiveParcel(o, n, damaged, lost)
  PROVE  RowStep(o) /\ StockInts'
<1> DEFINE r == order[o]
           x == r.restocked + n + lost
<1>1. Live(r) /\ Receivable(r) BY PresentLives DEF ReceiveParcel, Open
<1>2. n + lost <= Outstanding(r) BY OutstandingBounds, <1>1 DEF ReceiveParcel
<1>3. /\ Outstanding(r) \in Nat /\ r.restocked + Outstanding(r) <= r.quantity
      /\ Awaiting(r) => r.restocked + Outstanding(r) = r.returned
  BY <1>1, OutstandingBounds
<1>4. r.restocked \in Nat /\ r.good \in Nat /\ r.damaged \in Nat /\ r.quantity \in Nat
      /\ r.good + r.damaged <= r.restocked
  BY <1>1, Counters DEF Live, RowOK, CountersOK
<1>5. x \in Nat /\ x <= r.quantity /\ r.good + r.damaged <= x /\ (Awaiting(r) => x <= r.returned)
  BY <1>2, <1>3, <1>4
<1>6. order' = [order EXCEPT ![o] = [r EXCEPT !.restocked = x, !.good = r.good, !.damaged = r.damaged]]
  <2>1. order' = [order EXCEPT ![o] = [r EXCEPT !.restocked = x]]
    BY DEF ReceiveParcel
  <2>2. [r EXCEPT !.restocked = x] = [r EXCEPT !.restocked = x, !.good = r.good, !.damaged = r.damaged]
    BY <1>1 DEF Live, RowOK, OrderRows
  <2>3. QED BY <2>1, <2>2
<1>7. BothMove(r.variant, n + lost, -(damaged + lost)) BY DEF ReceiveParcel
<1>8. n + lost \in Int /\ -(damaged + lost) \in Int OBVIOUS
<1>9. StockInts' /\ purging' = purging BY <1>7, <1>8, Moved DEF Inv
<1> HIDE DEF x, r
<1>10. Successor(r, [r EXCEPT !.restocked = x, !.good = r.good, !.damaged = r.damaged])
  <2> DEFINE g == r.good
             d == r.damaged
  <2>1. g \in Nat /\ d \in Nat /\ g + d <= x BY <1>4, <1>5
  <2> HIDE DEF g, d
  <2>2. Successor(r, [r EXCEPT !.restocked = x, !.good = g, !.damaged = d])
    BY <1>1, <1>5, <2>1, ReceivableLeft, CountStep
  <2>3. QED BY <2>2 DEF g, d
<1>11. QED BY <1>6, <1>9, <1>10 DEF RowStep, r

LEMMA ScanParcelStep ==
  ASSUME Inv, NEW o \in Orders, NEW kept \in Nat, NEW good \in Nat, NEW damaged \in Nat,
         ScanParcel(o, kept, good, damaged)
  PROVE  RowStep(o) /\ StockInts'
<1> DEFINE r == ScanOutcome(order[o], kept)
           x == r.restocked + good + damaged
           g == r.good + good
           d == r.damaged + damaged
<1>1. Live(order[o]) /\ ~order[o].trashed /\ ScanPlan(order[o], kept)
  BY PresentLives DEF ScanParcel, Open
<1>2. Successor(order[o], r) /\ Live(r) /\ Receivable(r) BY <1>1, ScanOutcomeStep
<1>3. good + damaged <= Outstanding(r) BY DEF ScanParcel
<1>4. order' = [order EXCEPT ![o] = [r EXCEPT !.restocked = x, !.good = g, !.damaged = d]]
  BY DEF ScanParcel
<1>5. BothMove(r.variant, good + damaged, -damaged) BY DEF ScanParcel
<1> HIDE DEF r
<1>6. /\ Outstanding(r) \in Nat /\ r.restocked + Outstanding(r) <= r.quantity
      /\ Awaiting(r) => r.restocked + Outstanding(r) = r.returned
  BY <1>2, OutstandingBounds
<1>7. r.restocked \in Nat /\ r.good \in Nat /\ r.damaged \in Nat /\ r.quantity \in Nat
      /\ r.good + r.damaged <= r.restocked
  BY <1>2, Counters DEF Live, RowOK, CountersOK
<1>8. x \in Nat /\ g \in Nat /\ d \in Nat /\ x <= r.quantity /\ g + d <= x
      /\ (Awaiting(r) => x <= r.returned)
  BY <1>3, <1>6, <1>7
<1> HIDE DEF x, g, d
<1>9. Successor(r, [r EXCEPT !.restocked = x, !.good = g, !.damaged = d])
  BY <1>2, <1>8, ReceivableLeft, CountStep
<1>10. Successor(order[o], [r EXCEPT !.restocked = x, !.good = g, !.damaged = d])
  BY <1>1, <1>2, <1>9, Composed
<1>11. good + damaged \in Int /\ -damaged \in Int OBVIOUS
<1>12. QED BY <1>4, <1>5, <1>10, <1>11, Moved DEF Inv, RowStep

\* A correction moves n units between what the receipts count and, when they
\* were never there, off the shelf.
LEMMA CorrectionStep ==
  ASSUME Inv, NEW o \in Orders, NEW n \in Nat,
         \/ CorrectToDamaged(o, n) \/ CorrectToGood(o, n)
         \/ \E from \in {"good", "damaged"} : CorrectToUnresolved(o, from, n)
  PROVE  RowStep(o) /\ StockInts'
<1> DEFINE r == order[o]
<1>1. Live(r) /\ n >= 1
  BY PresentLives DEF CorrectToDamaged, CorrectToGood, CorrectToUnresolved
<1>2. r.restocked \in Nat /\ r.good \in Nat /\ r.damaged \in Nat /\ r.quantity \in Nat
      /\ r.returned \in Nat /\ r.good + r.damaged <= r.restocked /\ r.restocked <= r.quantity
  BY <1>1, Counters DEF Live, RowOK, CountersOK
<1>3. r.good + r.damaged > 0 => r.status \notin PreShipment /\ r.status # "SHIPPED"
  BY <1>1, <1>2 DEF Live, RowOK, StatusOK
<1>4. r \in OrderRows BY <1>1 DEF Live, RowOK
<1>5. CASE CorrectToDamaged(o, n)
  <2>1. n <= r.good BY <1>2, <1>5 DEF CorrectToDamaged
  <2>2. order' = [order EXCEPT ![o] = [r EXCEPT !.good = r.good - n, !.damaged = r.damaged + n]]
    BY <1>5 DEF CorrectToDamaged
  <2>3. StockInts' /\ purging' = purging
    <3>1. 0 \in Int /\ -n \in Int OBVIOUS
    <3>2. QED BY <1>5, <3>1, Moved DEF CorrectToDamaged, Inv
  <2> HIDE DEF r
  <2>4. [r EXCEPT !.good = r.good - n, !.damaged = r.damaged + n]
          = [r EXCEPT !.restocked = r.restocked, !.good = r.good - n, !.damaged = r.damaged + n]
    BY <1>4 DEF OrderRows
  <2>5. Successor(r, [r EXCEPT !.restocked = r.restocked, !.good = r.good - n,
                               !.damaged = r.damaged + n])
    <3> DEFINE x == r.restocked
               g == r.good - n
               d == r.damaged + n
    <3>1. x \in Nat /\ g \in Nat /\ d \in Nat /\ x <= r.quantity /\ g + d <= x
          /\ (Awaiting(r) => x <= r.returned) /\ r.good + r.damaged > 0
      BY <1>1, <1>2, <2>1 DEF Awaiting
    <3> HIDE DEF x, g, d
    <3>2. Successor(r, [r EXCEPT !.restocked = x, !.good = g, !.damaged = d])
      BY <1>1, <1>3, <3>1, CountStep
    <3>3. QED BY <3>2 DEF x, g, d
  <2>6. QED BY <2>2, <2>3, <2>4, <2>5 DEF RowStep, r
<1>6. CASE CorrectToGood(o, n)
  <2>1. n <= r.damaged BY <1>2, <1>6 DEF CorrectToGood
  <2>2. order' = [order EXCEPT ![o] = [r EXCEPT !.damaged = r.damaged - n, !.good = r.good + n]]
    BY <1>6 DEF CorrectToGood
  <2>3. StockInts' /\ purging' = purging
    <3>1. 0 \in Int /\ n \in Int OBVIOUS
    <3>2. QED BY <1>6, <3>1, Moved DEF CorrectToGood, Inv
  <2> HIDE DEF r
  <2>4. [r EXCEPT !.damaged = r.damaged - n, !.good = r.good + n]
          = [r EXCEPT !.restocked = r.restocked, !.good = r.good + n, !.damaged = r.damaged - n]
    BY <1>4 DEF OrderRows
  <2>5. Successor(r, [r EXCEPT !.restocked = r.restocked, !.good = r.good + n,
                               !.damaged = r.damaged - n])
    <3> DEFINE x == r.restocked
               g == r.good + n
               d == r.damaged - n
    <3>1. x \in Nat /\ g \in Nat /\ d \in Nat /\ x <= r.quantity /\ g + d <= x
          /\ (Awaiting(r) => x <= r.returned) /\ r.good + r.damaged > 0
      BY <1>1, <1>2, <2>1 DEF Awaiting
    <3> HIDE DEF x, g, d
    <3>2. Successor(r, [r EXCEPT !.restocked = x, !.good = g, !.damaged = d])
      BY <1>1, <1>3, <3>1, CountStep
    <3>3. QED BY <3>2 DEF x, g, d
  <2>6. QED BY <2>2, <2>3, <2>4, <2>5 DEF RowStep, r
<1>7. ASSUME NEW from \in {"good", "damaged"}, CorrectToUnresolved(o, from, n)
      PROVE  RowStep(o) /\ StockInts'
  <2> DEFINE g == IF from = "good" THEN r.good - n ELSE r.good
             d == IF from = "damaged" THEN r.damaged - n ELSE r.damaged
             x == r.restocked - n
  <2>1. n <= r[from] /\ n <= r.restocked BY <1>2, <1>7 DEF CorrectToUnresolved
  <2>2. order' = [order EXCEPT ![o] = [r EXCEPT ![from] = r[from] - n, !.restocked = x]]
    BY <1>7 DEF CorrectToUnresolved
  <2>3. StockInts' /\ purging' = purging
    <3>1. -n \in Int /\ (IF from = "damaged" THEN n ELSE 0) \in Int OBVIOUS
    <3>2. QED BY <1>7, <3>1, Moved DEF CorrectToUnresolved, Inv
  <2> HIDE DEF r
  <2>4. [r EXCEPT ![from] = r[from] - n, !.restocked = x]
          = [r EXCEPT !.restocked = x, !.good = g, !.damaged = d]
    <3>1. CASE from = "good" BY <1>4, <3>1 DEF OrderRows
    <3>2. CASE from = "damaged" BY <1>4, <3>2 DEF OrderRows
    <3>3. QED BY <3>1, <3>2
  <2>5. x \in Nat /\ g \in Nat /\ d \in Nat /\ x <= r.quantity /\ g + d <= x
        /\ (Awaiting(r) => x <= r.returned)
        /\ r.good + r.damaged > 0
    <3>1. CASE from = "good" BY <1>1, <1>2, <2>1, <3>1 DEF Awaiting
    <3>2. CASE from = "damaged" BY <1>1, <1>2, <2>1, <3>2 DEF Awaiting
    <3>3. QED BY <3>1, <3>2
  <2> HIDE DEF g, d, x
  <2>6. Successor(r, [r EXCEPT !.restocked = x, !.good = g, !.damaged = d])
    BY <1>1, <1>3, <2>5, CountStep
  <2>7. QED BY <2>2, <2>3, <2>4, <2>6 DEF RowStep, r
<1>8. QED BY <1>5, <1>6, <1>7

-----------------------------------------------------------------------------
(***************************************************************************)
(* All orders.                                                             *)
(***************************************************************************)

\* Through a step, what is awaited stays awaited.
StillAwaited ==
  \A o \in Orders :
    Awaiting(order[o]) /\ order'[o].status # "PURGED" =>
      Awaiting(order'[o]) /\ order'[o].returned >= order[o].returned

LEMMA OutsideStatuses == "PURGED" \notin Statuses /\ "ABSENT" \notin Statuses
BY PreShipmentAssumption DEF Statuses, Closed

LEMMA RowStepKeeps ==
  ASSUME Inv, NEW o \in Orders, Present(o), RowStep(o), StockInts'
  PROVE  Inv' /\ StillAwaited
<1>1. PICK s : Successor(order[o], s) /\ order' = [order EXCEPT ![o] = s] BY DEF RowStep
<1>2. purging' = purging BY DEF RowStep
<1>3. RowOK(s) /\ s.status \in Statuses /\ s.replaces = order[o].replaces /\ s \in OrderRows
  BY <1>1 DEF Successor, RowOK
<1>4. order \in [Orders -> OrderRows] /\ \A a \in Orders : RowOK(order[a]) BY DEF Inv
<1>5. order' \in [Orders -> OrderRows] /\ order'[o] = s
      /\ \A a \in Orders : a # o => order'[a] = order[a]
  BY <1>1, <1>3, <1>4
<1>6. \A a \in Orders : RowOK(order'[a]) BY <1>3, <1>4, <1>5
<1>7. purging' \subseteq {a \in Orders : Present(a)'}
  BY <1>2, <1>3, <1>5 DEF Inv, Present
<1>8. ReplacementOK'
  <2>1. SUFFICES ASSUME NEW a \in Orders, NEW p \in Orders, order'[p].replaces = a
                 PROVE  /\ order'[a].status \in CustomerReturn \cup {"PURGED"}
                        /\ order'[a].status # "PURGED" =>
                             /\ order'[a].returned = order'[a].quantity
                             /\ order'[a].moneyBack = 0
                             /\ \A q \in Orders : order'[q].replaces = a => q = p
    BY DEF ReplacementOK
  <2>2. \A q \in Orders : order'[q].replaces = order[q].replaces BY <1>3, <1>5
  <2>3. /\ order[a].status \in CustomerReturn \cup {"PURGED"}
        /\ order[a].status # "PURGED" =>
             /\ order[a].returned = order[a].quantity
             /\ order[a].moneyBack = 0
             /\ \A q \in Orders : order[q].replaces = a => q = p
    BY <2>1, <2>2 DEF Inv, ReplacementOK
  <2>4. CASE a # o BY <1>5, <2>2, <2>3, <2>4
  <2>5. CASE a = o
    <3>1. Exchanged(order[o])
      BY <2>3, <2>5, OutsideStatuses DEF Present, Exchanged
    <3>2. Exchanged(s) BY <1>1, <3>1 DEF Successor
    <3>3. QED BY <1>5, <2>2, <2>3, <2>5, <3>2, OutsideStatuses DEF Exchanged, Present
  <2>6. QED BY <2>4, <2>5
<1>9. StillAwaited
  <2>1. SUFFICES ASSUME NEW a \in Orders, Awaiting(order[a])
                 PROVE  Awaiting(order'[a]) /\ order'[a].returned >= order[a].returned
    BY DEF StillAwaited
  <2>2. CASE a = o BY <1>1, <1>5, <2>1, <2>2 DEF Successor
  <2>3. CASE a # o
    <3>1. order[a].returned \in Nat BY <1>4 DEF OrderRows
    <3>2. QED BY <1>5, <2>1, <2>3, <3>1
  <2>4. QED BY <2>2, <2>3
<1>10. QED BY <1>5, <1>6, <1>7, <1>8, <1>9 DEF Inv

\* A new order's row.
LEMMA AbsentRow == Absent \in OrderRows /\ RowOK(Absent)
<1>1. 0 \in 0..MaxQuantity /\ 0 \in 0..2 * MaxQuantity BY QuantityAssumption
<1>2. Absent \in OrderRows BY <1>1 DEF Absent, OrderRows
<1>3. CountersOK(Absent) BY DEF Absent, CountersOK
<1>4. Absent.status = "ABSENT" /\ Absent.request = "NONE" /\ Absent.replaces = NoOrder BY DEF Absent
<1>5. StatusOK(Absent)
  <2>1. "ABSENT" \notin Statuses /\ "ABSENT" \notin PreShipment
    BY OutsideStatuses, PreShipmentAssumption
  <2>2. QED BY <1>4, <2>1 DEF StatusOK
<1>6. QED BY <1>2, <1>3, <1>5 DEF RowOK

LEMMA NewRow ==
  ASSUME NEW status \in PreShipment, NEW v \in Variants, NEW q \in Quantities,
         NEW replaces \in Orders \cup {NoOrder}, NEW oversold \in 0..MaxQuantity
  PROVE  LET new == NewOrder(status, v, q, replaces)
             r == [new EXCEPT !.oversold = oversold]
         IN  /\ new \in OrderRows /\ new.oversold = 0
             /\ RowOK(r) /\ r.status = status /\ r.status \in Statuses
             /\ r.replaces = replaces /\ r.status \notin CustomerReturn
<1> DEFINE new == NewOrder(status, v, q, replaces)
           r == [new EXCEPT !.oversold = oversold]
<1>1. q \in 1..MaxQuantity /\ MaxQuantity \in Nat BY QuantityAssumption DEF Quantities
<1>2. /\ new.status = status /\ new.trashed = FALSE /\ new.quantity = q /\ new.restocked = 0
      /\ new.returned = 0 /\ new.moneyBack = 0 /\ new.good = 0 /\ new.damaged = 0
      /\ new.oversold = 0 /\ new.request = "NONE" /\ new.replaces = replaces
  BY DEF NewOrder, Absent
<1>3. status \in Statuses /\ status \notin CustomerReturn /\ status # "SHIPPED"
      /\ status \notin {"DELIVERED", "PARTIALLY_DELIVERED", "RETURNED"}
  BY StatusesDiffer DEF Statuses, CustomerReturn
<1>4. new \in OrderRows
  <2>1. q \in 0..MaxQuantity BY <1>1
  <2>2. new = [Absent EXCEPT !.status = status, !.variant = v, !.quantity = q, !.replaces = replaces]
    BY DEF NewOrder
  <2>3. PICK z \in OrderRows : z = Absent BY AbsentRow
  <2>4. \A x \in OrderRows, st \in Statuses, w \in Variants : [x EXCEPT !.status = st, !.variant = w] \in OrderRows
    BY DEF OrderRows
  <2>5. PICK y \in OrderRows : y = [z EXCEPT !.status = status, !.variant = v] BY <1>3, <2>4
  <2>6. [y EXCEPT !.quantity = q, !.replaces = replaces] \in OrderRows BY <2>1 DEF OrderRows
  <2>7. QED BY <2>2, <2>3, <2>5, <2>6
<1> HIDE DEF new
<1>5. r \in OrderRows
  <2>1. oversold \in 0..(2 * MaxQuantity) BY <1>1
  <2>2. QED BY <1>4, <2>1 DEF OrderRows
<1>6. /\ r.status = status /\ r.trashed = FALSE /\ r.quantity = q /\ r.restocked = 0
      /\ r.returned = 0 /\ r.moneyBack = 0 /\ r.good = 0 /\ r.damaged = 0
      /\ r.oversold = oversold /\ r.request = "NONE" /\ r.replaces = replaces
  BY <1>2, <1>4 DEF OrderRows
<1> HIDE DEF r
<1>7. CountersOK(r) BY <1>1, <1>6 DEF CountersOK
<1>8. StatusOK(r) BY <1>1, <1>3, <1>6 DEF StatusOK
<1>9. QED BY <1>2, <1>3, <1>4, <1>5, <1>6, <1>7, <1>8 DEF RowOK, r, new

LEMMA NewRowPlain ==
  ASSUME NEW status \in PreShipment, NEW v \in Variants, NEW q \in Quantities,
         NEW replaces \in Orders \cup {NoOrder}
  PROVE  LET r == NewOrder(status, v, q, replaces)
         IN  /\ RowOK(r) /\ r.status = status /\ r.status \in Statuses
             /\ r.replaces = replaces /\ r.status \notin CustomerReturn
<1> DEFINE new == NewOrder(status, v, q, replaces)
           r == [new EXCEPT !.oversold = 0]
<1>1. 0 \in 0..MaxQuantity BY QuantityAssumption
<1>2. /\ new \in OrderRows /\ new.oversold = 0
      /\ RowOK(r) /\ r.status = status /\ r.status \in Statuses
      /\ r.replaces = replaces /\ r.status \notin CustomerReturn
  BY <1>1, NewRow
<1> HIDE DEF new
<1>3. r = new BY <1>2 DEF OrderRows
<1>4. QED BY <1>2, <1>3 DEF new

\* An order of no customer's return enters where there was none.
LEMMA NewOrderKeeps ==
  ASSUME Inv, NEW o \in Orders, NEW r, order[o].status = "ABSENT",
         RowOK(r), r.status \in Statuses, r.replaces = NoOrder,
         order' = [order EXCEPT ![o] = r], StockInts', purging' = purging
  PROVE  Inv' /\ StillAwaited
<1>1. order \in [Orders -> OrderRows] /\ (\A a \in Orders : RowOK(order[a])) /\ r \in OrderRows
  BY DEF Inv, RowOK
<1>2. order' \in [Orders -> OrderRows] /\ order'[o] = r
      /\ \A a \in Orders : a # o => order'[a] = order[a]
  BY <1>1
<1>3. \A a \in Orders : RowOK(order'[a]) BY <1>1, <1>2
<1>4. purging' \subseteq {a \in Orders : Present(a)'} BY <1>2 DEF Inv, Present
<1>5. ReplacementOK'
  <2>1. \A a \in Orders : a # NoOrder BY OrdersAssumption
  <2>2. \A a, p \in Orders : order'[p].replaces = a => p # o /\ a # o /\ order[p].replaces = a
    <3>1. \A p \in Orders : order[p].replaces = o => FALSE
      BY DEF Inv, ReplacementOK, CustomerReturn
    <3>2. QED BY <1>2, <2>1, <3>1
  <2>3. QED BY <1>2, <2>2 DEF Inv, ReplacementOK
<1>6. StillAwaited
  <2>1. SUFFICES ASSUME NEW a \in Orders, Awaiting(order[a])
                 PROVE  Awaiting(order'[a]) /\ order'[a].returned >= order[a].returned
    BY DEF StillAwaited
  <2>2. a # o BY <2>1 DEF Awaiting, CustomerReturn
  <2>3. order[a].returned \in Nat BY <1>1 DEF OrderRows
  <2>4. QED BY <1>2, <2>1, <2>2, <2>3
<1>7. QED BY <1>2, <1>3, <1>4, <1>5, <1>6 DEF Inv

\* Stock changed, no order did.
LEMMA OrdersUntouched ==
  ASSUME Inv, order' = order, StockInts', purging' \subseteq {a \in Orders : Present(a)}
  PROVE  Inv' /\ StillAwaited
<1>1. ReplacementOK' BY DEF Inv, ReplacementOK
<1>2. \A o \in Orders : order[o].returned \in Nat BY DEF Inv, OrderRows
<1>3. QED BY <1>1, <1>2 DEF Inv, Present, StillAwaited

LEMMA PlacedKeeps ==
  ASSUME Inv, NEW o \in Orders, NEW v \in Variants, NEW q \in Quantities,
         NEW status \in PreShipment, PlaceOrder(o, v, q, status)
  PROVE  Inv' /\ StillAwaited
<1> DEFINE r == NewOrder(status, v, q, NoOrder)
<1>1. RowOK(r) /\ r.status \in Statuses /\ r.replaces = NoOrder BY NewRowPlain
<1>2. order[o].status = "ABSENT" /\ order' = [order EXCEPT ![o] = r] BY DEF PlaceOrder
<1>3. -q \in Int BY DEF Quantities
<1>4. StockInts' /\ purging' = purging BY <1>3, Moved DEF PlaceOrder, Inv
<1> HIDE DEF r
<1>5. QED BY <1>1, <1>2, <1>4, NewOrderKeeps

LEMMA SettledKeeps ==
  ASSUME Inv, NEW o \in Orders, NEW v \in Variants, NEW q \in Quantities, SettlePaidOrder(o, v, q)
  PROVE  Inv' /\ StillAwaited
<1> DEFINE below == Below(v, q)
           r == [NewOrder("CONFIRMED", v, q, NoOrder) EXCEPT !.oversold = below]
<1>1. below \in 0..MaxQuantity
  <2>1. stock[v] \in Int /\ q \in 1..MaxQuantity /\ MaxQuantity \in Nat
    BY QuantityAssumption DEF Inv, StockInts, Quantities
  <2>2. QED BY <2>1 DEF Below, Larger
<1>2. order[o].status = "ABSENT" /\ order' = [order EXCEPT ![o] = r] BY DEF SettlePaidOrder
<1> HIDE DEF below
<1>3. RowOK(r) /\ r.status \in Statuses /\ r.replaces = NoOrder
  BY <1>1, NewRow, PreShipmentAssumption
<1>4. -q \in Int BY DEF Quantities
<1>5. StockInts' /\ purging' = purging BY <1>4, Moved DEF SettlePaidOrder, Inv
<1> HIDE DEF r
<1>6. QED BY <1>2, <1>3, <1>5, NewOrderKeeps

\* The exchanged line is wholly returned, for no money, and had no replacement.
LEMMA ExchangeKeeps ==
  ASSUME Inv, NEW o \in Orders, NEW p \in Orders, NEW v \in Variants, ApproveExchange(o, p, v)
  PROVE  Inv' /\ StillAwaited
<1> DEFINE r == order[o]
           q == r.quantity
           s == [r EXCEPT !.returned = r.returned + q, !.request = "NONE"]
           new == NewOrder("CONFIRMED", v, q, o)
<1>1. Live(r) /\ r.status \in CustomerReturn /\ order[p].status = "ABSENT" /\ o # p
  <2>1. Live(r) /\ r.request = "EXCHANGE" /\ order[p].status = "ABSENT"
    BY PresentLives DEF ApproveExchange
  <2>2. QED BY <2>1, OutsideStatuses DEF Live, RowOK, StatusOK
<1>2. r.restocked = 0 /\ r.returned = 0 /\ q \in Quantities /\ q \in Nat /\ q # 0
      /\ q <= MaxQuantity /\ MaxQuantity \in Nat /\ r.moneyBack = 0
      /\ r.good = 0 /\ r.damaged = 0
  <2>1. r.restocked = 0 /\ r.returned = 0 BY DEF ApproveExchange
  <2>2. QED BY <1>1, <2>1, Counters DEF Live, RowOK, StatusOK, CountersOK, Quantities
<1>3. order' = [order EXCEPT ![o] = s, ![p] = new]
  BY DEF ApproveExchange
<1>4. StockInts' /\ purging' = purging
  <2>1. -q \in Int BY <1>2
  <2>2. QED BY <2>1, Moved DEF ApproveExchange, Inv
<1>5. RowOK(new) /\ new.status \in Statuses /\ new.replaces = o /\ new.status \notin CustomerReturn
  BY <1>2, NewRowPlain, PreShipmentAssumption
<1> HIDE DEF new
<1>6. s \in OrderRows /\ s.status = r.status /\ s.trashed = r.trashed /\ s.quantity = q
      /\ s.restocked = 0 /\ s.returned = q /\ s.moneyBack = 0 /\ s.good = 0 /\ s.damaged = 0
      /\ s.oversold = r.oversold /\ s.request = "NONE" /\ s.replaces = r.replaces
  <2>1. r.returned + q = q /\ q \in 0..MaxQuantity BY <1>2
  <2>2. QED BY <1>1, <1>2, <2>1 DEF Live, RowOK, OrderRows
<1> HIDE DEF s
<1>7. RowOK(s) /\ s.status \in Statuses
  <2>1. CountersOK(s) BY <1>2, <1>6 DEF CountersOK
  <2>2. s.status \notin PreShipment /\ s.status # "SHIPPED"
    BY <1>1, <1>6, ReceivableLeft DEF Receivable
  <2>3. StatusOK(s) BY <1>1, <1>2, <1>6, <2>2 DEF StatusOK, Live, RowOK
  <2>4. QED BY <1>1, <1>6, <2>1, <2>3 DEF RowOK, Live
<1>8. order \in [Orders -> OrderRows] /\ (\A a \in Orders : RowOK(order[a]))
      /\ new \in OrderRows
  BY <1>5 DEF Inv, RowOK
<1>9. order' \in [Orders -> OrderRows] /\ order'[o] = s /\ order'[p] = new
      /\ \A a \in Orders : a # o /\ a # p => order'[a] = order[a]
  BY <1>1, <1>3, <1>6, <1>8
<1>10. \A a \in Orders : RowOK(order'[a]) BY <1>5, <1>7, <1>8, <1>9
<1>11. purging' \subseteq {a \in Orders : Present(a)'}
  BY <1>4, <1>5, <1>7, <1>9 DEF Inv, Present
<1>12. ReplacementOK'
  <2>1. \A b \in Orders : order[b].replaces # o
    <3>1. SUFFICES ASSUME NEW b \in Orders, order[b].replaces = o PROVE FALSE OBVIOUS
    <3>2. order[o].status # "PURGED" BY <1>1 DEF CustomerReturn
    <3>3. order[o].returned = order[o].quantity BY <3>1, <3>2 DEF Inv, ReplacementOK
    <3>4. QED BY <1>2, <3>3
  <2>2. \A b \in Orders : order[b].replaces # p
    BY <1>1 DEF Inv, ReplacementOK, CustomerReturn
  <2>3. SUFFICES ASSUME NEW a \in Orders, NEW b \in Orders, order'[b].replaces = a
                 PROVE  /\ order'[a].status \in CustomerReturn \cup {"PURGED"}
                        /\ order'[a].status # "PURGED" =>
                             /\ order'[a].returned = order'[a].quantity
                             /\ order'[a].moneyBack = 0
                             /\ \A c \in Orders : order'[c].replaces = a => c = b
    BY DEF ReplacementOK
  <2>4. \A c \in Orders : c # p => order'[c].replaces = order[c].replaces
    BY <1>6, <1>9
  <2>5. CASE b = p
    <3>1. a = o BY <1>5, <1>9, <2>3, <2>5
    <3>2. \A c \in Orders : order'[c].replaces = o => c = p BY <2>1, <2>4
    <3>3. QED BY <1>1, <1>6, <1>9, <2>5, <3>1, <3>2
  <2>6. CASE b # p
    <3>1. order[b].replaces = a BY <2>3, <2>4, <2>6
    <3>2. a # o /\ a # p BY <2>1, <2>2, <3>1
    <3>3. order'[a] = order[a] BY <1>9, <3>2
    <3>4. order'[p].replaces # a BY <1>5, <1>9, <3>2
    <3>5. QED BY <2>4, <3>1, <3>3, <3>4 DEF Inv, ReplacementOK
  <2>7. QED BY <2>5, <2>6
<1>13. StillAwaited
  <2>1. SUFFICES ASSUME NEW a \in Orders, Awaiting(order[a])
                 PROVE  Awaiting(order'[a]) /\ order'[a].returned >= order[a].returned
    BY DEF StillAwaited
  <2>2. CASE a = o BY <1>1, <1>2, <1>6, <1>9, <2>2 DEF Awaiting
  <2>3. CASE a # o
    <3>1. a # p BY <1>1, <2>1 DEF Awaiting, CustomerReturn
    <3>2. order[a].returned \in Nat BY <1>8 DEF OrderRows
    <3>3. QED BY <1>9, <2>1, <2>3, <3>1, <3>2
  <2>4. QED BY <2>2, <2>3
<1>14. QED BY <1>4, <1>9, <1>10, <1>11, <1>12, <1>13 DEF Inv

LEMMA PurgedKeeps ==
  ASSUME Inv, NEW o \in Orders, FinishPurge(o)
  PROVE  Inv' /\ StillAwaited
<1> DEFINE r == order[o]
           s == [Absent EXCEPT !.status = "PURGED", !.variant = r.variant,
                               !.oversold = r.oversold + r.damaged]
<1>1. Live(r)
  BY PresentLives DEF FinishPurge, Inv
<1>2. r.oversold + r.damaged \in 0..2 * MaxQuantity
  BY <1>1, Counters DEF Live, RowOK, StatusOK, CountersOK
<1>3. r.restocked - r.quantity \in Int /\ r.variant \in Variants \cup {NoVariant}
  BY <1>1, Counters DEF Live, RowOK, OrderRows
<1>4. order' = [order EXCEPT ![o] = s] /\ purging' = purging \ {o} BY DEF FinishPurge
<1>5. StockInts'
  <2>1. r.restocked \in Int /\ r.quantity \in Int BY <1>1, Counters
  <2>2. stock \in [Variants -> Int] /\ ledger \in [Variants -> Int] BY DEF Inv, StockInts
  <2>3. ledger' = [ledger EXCEPT ![r.variant] = ledger[r.variant] + r.restocked - r.quantity]
        /\ stock' = stock
    BY DEF FinishPurge
  <2> HIDE DEF r
  <2>4. CASE r.variant \in Variants
    <3>1. ledger[r.variant] + r.restocked - r.quantity \in Int BY <2>1, <2>2, <2>4
    <3>2. QED BY <2>2, <2>3, <3>1 DEF StockInts
  <2>5. CASE r.variant \notin Variants
    <3>1. ledger' \in [Variants -> Int] BY <2>2, <2>3, <2>5
    <3>2. QED BY <2>2, <2>3, <3>1 DEF StockInts
  <2>6. QED BY <2>4, <2>5
<1>6. s \in OrderRows BY <1>2, <1>3, AbsentRow DEF OrderRows
<1>7. s.status = "PURGED" /\ s.request = "NONE" /\ s.replaces = NoOrder /\ s.quantity = 0
      /\ s.restocked = 0 /\ s.returned = 0 /\ s.moneyBack = 0 /\ s.good = 0 /\ s.damaged = 0
  BY DEF Absent
<1> HIDE DEF s
<1>8. RowOK(s)
  <2>1. CountersOK(s) BY <1>7 DEF CountersOK
  <2>2. "PURGED" \notin PreShipment BY PreShipmentAssumption
  <2>3. StatusOK(s) BY <1>7, <2>2, OutsideStatuses DEF StatusOK
  <2>4. QED BY <1>6, <2>1, <2>3 DEF RowOK
<1>9. order \in [Orders -> OrderRows] /\ \A a \in Orders : RowOK(order[a]) BY DEF Inv
<1>10. order' \in [Orders -> OrderRows] /\ order'[o] = s
       /\ \A a \in Orders : a # o => order'[a] = order[a]
  BY <1>4, <1>6, <1>9
<1>11. \A a \in Orders : RowOK(order'[a]) BY <1>8, <1>9, <1>10
<1>12. purging' \subseteq {a \in Orders : Present(a)'} BY <1>4, <1>10 DEF Inv, Present
<1>13. ReplacementOK'
  <2>1. \A a, b \in Orders : order'[b].replaces = a => b # o /\ order[b].replaces = a
    BY <1>7, <1>10, OrdersAssumption
  <2>2. QED BY <1>7, <1>10, <2>1 DEF Inv, ReplacementOK
<1>14. StillAwaited
  <2>1. SUFFICES ASSUME NEW a \in Orders, Awaiting(order[a]), order'[a].status # "PURGED"
                 PROVE  Awaiting(order'[a]) /\ order'[a].returned >= order[a].returned
    BY DEF StillAwaited
  <2>2. order'[a] = order[a] BY <1>7, <1>10, <2>1
  <2>3. order[a].returned \in Nat BY <1>9 DEF OrderRows
  <2>4. QED BY <2>1, <2>2, <2>3
<1>15. QED BY <1>5, <1>10, <1>11, <1>12, <1>13, <1>14 DEF Inv

LEMMA AdjustedKeeps ==
  ASSUME Inv, Adjusting
  PROVE  Inv' /\ StillAwaited
<1>1. order' = order /\ \E v \in Variants, delta \in Int : BothMove(v, 0, delta)
  <2>1. ASSUME NEW v \in Variants, NEW delta \in -MaxStock..MaxStock, AdjustStock(v, delta)
        PROVE  order' = order /\ \E w \in Variants, n \in Int : BothMove(w, 0, n)
    BY <2>1 DEF AdjustStock
  <2>2. ASSUME NEW v \in Variants, NEW counted \in 0..MaxStock, DeclareCount(v, counted)
        PROVE  order' = order /\ \E w \in Variants, n \in Int : BothMove(w, 0, n)
    <3>1. counted - stock[v] \in Int BY DEF Inv, StockInts
    <3>2. QED BY <2>2, <3>1 DEF DeclareCount
  <2>3. QED BY <2>1, <2>2 DEF Adjusting
<1>2. StockInts' /\ purging' = purging
  <2>1. 0 \in Int OBVIOUS
  <2>2. QED BY <1>1, <2>1, Moved DEF Inv
<1>3. QED BY <1>1, <1>2, OrdersUntouched DEF Inv

LEMMA StepKeeps == Inv /\ [Next]_vars => Inv' /\ (StillAwaited \/ UNCHANGED order)
<1> SUFFICES ASSUME Inv, [Next]_vars PROVE Inv' /\ (StillAwaited \/ UNCHANGED order)
  OBVIOUS
<1>n. MaxQuantity \in Nat /\ Quantities \subseteq Nat /\ 0..MaxQuantity \subseteq Nat
  BY QuantityAssumption DEF Quantities
<1>0. ASSUME NEW o \in Orders, Present(o), RowStep(o), StockInts' PROVE Inv' /\ StillAwaited
  BY <1>0, RowStepKeeps
<1>1. CASE Placing
  <2>1. ASSUME NEW o \in Orders, NEW v \in Variants, NEW q \in Quantities,
               \/ \E status \in {"PENDING", "CONFIRMED"} \cap PreShipment : PlaceOrder(o, v, q, status)
               \/ SettlePaidOrder(o, v, q)
        PROVE  Inv' /\ StillAwaited
    BY <2>1, PlacedKeeps, SettledKeeps
  <2>2. ASSUME NEW o \in Orders, NEW q \in Quantities, ModifyOrder(o, q)
        PROVE  Inv' /\ StillAwaited
    BY <1>0, <2>2, ModifyOrderStep DEF ModifyOrder, Open
  <2>3. ASSUME NEW o \in Orders, TrashOrder(o) \/ RestoreOrder(o)
        PROVE  Inv' /\ StillAwaited
    BY <1>0, <2>3, TrashOrderStep, RestoreOrderStep DEF TrashOrder, RestoreOrder, Open
  <2>4. ASSUME NEW o \in Orders, BeginPurge(o) PROVE Inv' /\ StillAwaited
    <3>1. order' = order /\ StockInts' /\ purging' \subseteq {a \in Orders : Present(a)}
      BY <2>4 DEF BeginPurge, Inv, StockInts
    <3>2. QED BY <3>1, OrdersUntouched
  <2>5. ASSUME NEW o \in Orders, FinishPurge(o) PROVE Inv' /\ StillAwaited
    BY <2>5, PurgedKeeps
  <2>6. QED BY <1>1, <2>1, <2>2, <2>3, <2>4, <2>5, OrdersAssumption DEF Placing
<1>2. CASE Moving
  <2>1. ASSUME NEW o \in Orders, NEW to \in Statuses, ChangeStatus(o, to)
        PROVE  Inv' /\ StillAwaited
    BY <1>0, <2>1, ChangeStatusStep DEF ChangeStatus, Open
  <2>2. ASSUME NEW o \in Orders, RefundRecorded(o) PROVE Inv' /\ StillAwaited
    BY <1>0, <2>2, RefundRecordedStep DEF RefundRecorded
  <2>3. ASSUME NEW o \in Orders, NEW n \in 0..MaxQuantity, Reconcile(o, n) \/ RecordItemReturn(o, n)
        PROVE  Inv' /\ StillAwaited
    <3>1. n \in Nat /\ Present(o) BY <1>n, <2>3 DEF Reconcile, RecordItemReturn, Open
    <3>2. QED BY <1>0, <2>3, <3>1, ReconcileStep, ItemReturnStep
  <2>4. ASSUME NEW o \in Orders,
               \/ \E type \in {"RETURN", "EXCHANGE"} : RequestReturn(o, type)
               \/ RejectRequest(o)
        PROVE  Inv' /\ StillAwaited
    <3>1. Present(o) BY <2>4 DEF RequestReturn, RejectRequest, Present, Statuses
    <3>2. QED BY <1>0, <2>4, <3>1, RequestsStep
  <2>5. ASSUME NEW o \in Orders, ApproveReturn(o) PROVE Inv' /\ StillAwaited
    BY <1>0, <2>5, ApproveReturnStep DEF ApproveReturn, Open
  <2>6. ASSUME NEW o \in Orders, NEW p \in Orders, NEW v \in Variants, ApproveExchange(o, p, v)
        PROVE  Inv' /\ StillAwaited
    BY <2>6, ExchangeKeeps
  <2>7. QED BY <1>2, <2>1, <2>2, <2>3, <2>4, <2>5, <2>6 DEF Moving
<1>3. CASE Receiving
  <2>1. ASSUME NEW o \in Orders, NEW n \in 0..MaxQuantity,
               NEW damaged \in 0..MaxQuantity, NEW lost \in 0..MaxQuantity,
               ReceiveParcel(o, n, damaged, lost)
        PROVE  Inv' /\ StillAwaited
    <3>1. n \in Nat /\ damaged \in Nat /\ lost \in Nat BY <1>n
    <3>2. QED BY <1>0, <2>1, <3>1, ReceiveParcelStep DEF ReceiveParcel, Open
  <2>2. ASSUME NEW o \in Orders, NEW n \in 0..MaxQuantity,
               NEW damaged \in 0..MaxQuantity, NEW kept \in 0..MaxQuantity,
               ScanParcel(o, kept, n, damaged)
        PROVE  Inv' /\ StillAwaited
    <3>1. n \in Nat /\ damaged \in Nat /\ kept \in Nat BY <1>n
    <3>2. QED BY <1>0, <2>2, <3>1, ScanParcelStep DEF ScanParcel, Open
  <2>3. ASSUME NEW o \in Orders, NEW n \in 0..MaxQuantity,
               \/ CorrectToDamaged(o, n) \/ CorrectToGood(o, n)
               \/ \E from \in {"good", "damaged"} : CorrectToUnresolved(o, from, n)
        PROVE  Inv' /\ StillAwaited
    <3>1. n \in Nat /\ Present(o)
      BY <1>n, <2>3 DEF CorrectToDamaged, CorrectToGood, CorrectToUnresolved
    <3>2. QED BY <1>0, <2>3, <3>1, CorrectionStep
  <2>4. QED BY <1>3, <2>1, <2>2, <2>3 DEF Receiving
<1>4. CASE Adjusting BY <1>4, AdjustedKeeps
<1>5. CASE UNCHANGED vars
  <2>1. order' = order /\ stock' = stock /\ ledger' = ledger /\ purging' = purging
    BY <1>5 DEF vars
  <2>2. QED BY <2>1 DEF Inv, StockInts, ReplacementOK, Present
<1>6. QED BY <1>1, <1>2, <1>3, <1>4, <1>5 DEF Next

LEMMA InitHolds == Init => Inv
<1> SUFFICES ASSUME Init PROVE Inv OBVIOUS
<1>1. StockInts
  <2>1. 0..MaxStock \subseteq Int BY QuantityAssumption
  <2>2. QED BY <2>1 DEF Init, StockInts
<1>2. order \in [Orders -> OrderRows] /\ \A o \in Orders : order[o] = Absent
  BY AbsentRow DEF Init
<1>3. ReplacementOK
  <2>1. \A p \in Orders : order[p].replaces = NoOrder BY <1>2 DEF Absent
  <2>2. QED BY <2>1, OrdersAssumption DEF ReplacementOK
<1>4. QED BY <1>1, <1>2, <1>3, AbsentRow DEF Inv, Init

LEMMA AlwaysInv == Spec => []Inv
BY InitHolds, StepKeeps, PTL DEF Spec

-----------------------------------------------------------------------------
(***************************************************************************)
(* Sums over orders. A sum is the cardinality of a finite set of units, so *)
(* what one order's new count does to it follows from the theorems about   *)
(* finite sets.                                                            *)
(***************************************************************************)
Pile(o, n) == {o} \X (1..n)

LEMMA PileSize ==
  ASSUME NEW o, NEW n \in Nat
  PROVE  IsFiniteSet(Pile(o, n)) /\ Cardinality(Pile(o, n)) = n
<1>1. IsFiniteSet(1..n) /\ Cardinality(1..n) = n
  <2>1. IsFiniteSet(1..n) /\ Cardinality(1..n) = IF 1 > n THEN 0 ELSE n - 1 + 1
    BY SMTT(30), FS_Interval
  <2>2. (IF 1 > n THEN 0 ELSE n - 1 + 1) = n OBVIOUS
  <2>3. QED BY <2>1, <2>2
<1>2. IsFiniteSet({o}) /\ Cardinality({o}) = 1 BY FS_Singleton
<1>3. IsFiniteSet({o} \X (1..n)) /\ Cardinality({o} \X (1..n)) = Cardinality({o}) * Cardinality(1..n)
  BY <1>1, <1>2, FS_Product
<1>4. Cardinality({o}) * Cardinality(1..n) = 1 * n BY <1>1, <1>2
<1>5. 1 * n = n OBVIOUS
<1>6. QED BY <1>3, <1>4, <1>5 DEF Pile

\* Without one pile, a sum is less by its height; with another, more by it.
LEMMA PileRemoved ==
  ASSUME NEW U, IsFiniteSet(U), NEW o, NEW n \in Nat, Pile(o, n) \subseteq U
  PROVE  IsFiniteSet(U \ Pile(o, n)) /\ Cardinality(U \ Pile(o, n)) = Cardinality(U) - n
<1>1. Cardinality(U \ Pile(o, n)) = Cardinality(U) - Cardinality(U \cap Pile(o, n))
      /\ IsFiniteSet(U \ Pile(o, n))
  BY FS_Difference
<1>2. U \cap Pile(o, n) = Pile(o, n) OBVIOUS
<1>3. QED BY <1>1, <1>2, PileSize

LEMMA PileAdded ==
  ASSUME NEW U, IsFiniteSet(U), NEW o, NEW n \in Nat, U \cap Pile(o, n) = {}
  PROVE  IsFiniteSet(U \cup Pile(o, n)) /\ Cardinality(U \cup Pile(o, n)) = Cardinality(U) + n
<1>1. IsFiniteSet(Pile(o, n)) /\ Cardinality(Pile(o, n)) = n BY PileSize
<1>2. /\ IsFiniteSet(U \cup Pile(o, n))
      /\ Cardinality(U \cup Pile(o, n))
           = Cardinality(U) + Cardinality(Pile(o, n)) - Cardinality(U \cap Pile(o, n))
  BY <1>1, FS_Union
<1>3. Cardinality({}) = 0 BY FS_EmptySet
<1>4. Cardinality(U) \in Nat BY FS_CardinalityType
<1>5. Cardinality(U \cap Pile(o, n)) = 0 BY <1>3
<1>6. Cardinality(U \cup Pile(o, n)) = Cardinality(U) + n BY <1>1, <1>2, <1>4, <1>5
<1>7. QED BY <1>2, <1>6

\* When one order's count changes, so does the sum, by as much.
LEMMA TotalMoves ==
  ASSUME NEW f, NEW g, NEW o \in Orders, \A a \in Orders : a # o => g[a] = f[a],
         f[o] \in 0..3 * MaxQuantity, g[o] \in 0..3 * MaxQuantity, IsFiniteSet(Units(f))
  PROVE  /\ IsFiniteSet(Units(g)) /\ Total(g) = Total(f) - f[o] + g[o]
         /\ Total(f) - f[o] \in Nat
<1> DEFINE top == 3 * MaxQuantity
           rest == Units(f) \ Pile(o, f[o])
<1>1. MaxQuantity \in Nat /\ top \in Nat BY QuantityAssumption
<1>2. f[o] \in Nat /\ g[o] \in Nat /\ f[o] <= top /\ g[o] <= top BY <1>1
<1> HIDE DEF top
<1>3. Units(f) = {u \in Orders \X (1..top) : u[2] <= f[u[1]]}
      /\ Units(g) = {u \in Orders \X (1..top) : u[2] <= g[u[1]]}
  BY DEF Units, top
<1>4. ASSUME NEW h, h[o] \in Nat, h[o] <= top
      PROVE  Pile(o, h[o]) = {u \in {o} \X (1..top) : u[2] <= h[u[1]]}
  <2>1. \A n \in 1..h[o] : n \in 1..top /\ n <= h[o] BY <1>1, <1>4
  <2>2. \A n \in 1..top : n <= h[o] => n \in 1..h[o] BY <1>1, <1>4
  <2>3. QED BY <2>1, <2>2 DEF Pile
<1>5. Pile(o, f[o]) \subseteq Units(f) BY <1>2, <1>3, <1>4
<1>6. Units(g) = rest \cup Pile(o, g[o]) /\ rest \cap Pile(o, g[o]) = {}
  <2>1. Pile(o, f[o]) = {u \in {o} \X (1..top) : u[2] <= f[u[1]]}
        /\ Pile(o, g[o]) = {u \in {o} \X (1..top) : u[2] <= g[u[1]]}
    BY <1>2, <1>4
  <2>2. rest = {u \in (Orders \ {o}) \X (1..top) : u[2] <= f[u[1]]} BY <1>3, <2>1
  <2>3. QED BY <1>3, <2>1, <2>2
<1>7. IsFiniteSet(rest) /\ Cardinality(rest) = Cardinality(Units(f)) - f[o]
  BY <1>2, <1>5, PileRemoved
<1>8. IsFiniteSet(rest \cup Pile(o, g[o]))
      /\ Cardinality(rest \cup Pile(o, g[o])) = Cardinality(rest) + g[o]
  BY <1>2, <1>6, <1>7, PileAdded
<1> HIDE DEF rest
<1>9. Cardinality(rest) \in Nat BY <1>7, FS_CardinalityType
<1>10. QED BY <1>6, <1>7, <1>8, <1>9 DEF Total

-----------------------------------------------------------------------------
(***************************************************************************)
(* The stock and the sums.                                                 *)
(***************************************************************************)

\* An id not used yet holds nothing.
AbsentHolds == \A o \in Orders : order[o].status = "ABSENT" => order[o] = Absent

Explained(v) ==
  /\ IsFiniteSet(Units(HeldBy(v))) /\ IsFiniteSet(Units(UncheckedBy(v)))
  /\ stock[v] = ledger[v] - Total(HeldBy(v))
  /\ stock[v] + Total(UncheckedBy(v)) >= 0

StockInv == AbsentHolds /\ \A v \in Variants : Explained(v)

LEMMA CountBounds ==
  ASSUME NEW r, RowOK(r), NEW v
  PROVE  Held(r, v) \in 0..3 * MaxQuantity /\ Unchecked(r, v) \in 0..3 * MaxQuantity
<1>1. /\ r.quantity \in 0..MaxQuantity /\ r.restocked \in 0..MaxQuantity /\ r.restocked <= r.quantity
      /\ r.oversold \in 0..2 * MaxQuantity /\ r.damaged \in 0..MaxQuantity /\ MaxQuantity \in Nat
  BY QuantityAssumption DEF RowOK, OrderRows, CountersOK
<1>2. QED BY <1>1 DEF Held, Unchecked

\* A step accounts for what it does to order o: the stock of each variant moves
\* as the outside movements and the units the order holds do, and the order's
\* unchecked units make up for the whole of a stock below zero or for its fall.
Accounts(o) ==
  \A v \in Variants :
    /\ stock'[v] - ledger'[v] = stock[v] - ledger[v] + Held(order[o], v) - Held(order'[o], v)
    /\ \/ stock'[v] + Unchecked(order'[o], v) >= 0
       \/ stock'[v] + Unchecked(order'[o], v) >= stock[v] + Unchecked(order[o], v)

SameCounts(r, s) == \A v : Held(s, v) = Held(r, v) /\ Unchecked(s, v) = Unchecked(r, v)

\* Such a step keeps every variant explained.
LEMMA AccountedStep ==
  ASSUME Inv, Inv', NEW v \in Variants, Explained(v), NEW o \in Orders, Accounts(o),
         \A a \in Orders : a # o => SameCounts(order[a], order'[a])
  PROVE  Explained(v)'
<1> DEFINE f == HeldBy(v)
           g == HeldBy(v)'
           h == UncheckedBy(v)
           k == UncheckedBy(v)'
<1>1. f[o] = Held(order[o], v) /\ g[o] = Held(order'[o], v)
      /\ h[o] = Unchecked(order[o], v) /\ k[o] = Unchecked(order'[o], v)
  BY DEF HeldBy, UncheckedBy, Held, Unchecked
<1>2. \A a \in Orders : a # o => g[a] = f[a] /\ k[a] = h[a]
  BY DEF HeldBy, UncheckedBy, Held, Unchecked, SameCounts
<1>3. RowOK(order[o]) /\ RowOK(order'[o]) BY DEF Inv
<1>4. /\ f[o] \in 0..3 * MaxQuantity /\ g[o] \in 0..3 * MaxQuantity
      /\ h[o] \in 0..3 * MaxQuantity /\ k[o] \in 0..3 * MaxQuantity
  BY <1>1, <1>3, CountBounds
<1>5. /\ IsFiniteSet(Units(f)) /\ IsFiniteSet(Units(h))
      /\ stock[v] = ledger[v] - Total(f) /\ stock[v] + Total(h) >= 0
  BY DEF Explained
<1>6. stock[v] \in Int /\ ledger[v] \in Int /\ stock'[v] \in Int /\ ledger'[v] \in Int
  BY DEF Inv, StockInts
<1>7. stock'[v] - ledger'[v] = stock[v] - ledger[v] + f[o] - g[o]
  BY <1>1 DEF Accounts
<1>n. \/ stock'[v] + k[o] >= 0
      \/ stock'[v] + k[o] >= stock[v] + h[o]
  BY <1>1 DEF Accounts
<1>8. Units(HeldBy(v))' = Units(g) /\ Units(UncheckedBy(v))' = Units(k)
      /\ Total(HeldBy(v))' = Total(g) /\ Total(UncheckedBy(v))' = Total(k)
  BY DEF Units, Total
<1> HIDE DEF f, g, h, k
<1>9. IsFiniteSet(Units(g)) /\ Total(g) = Total(f) - f[o] + g[o]
  BY <1>2, <1>4, <1>5, TotalMoves
<1>10. IsFiniteSet(Units(k)) /\ Total(k) = Total(h) - h[o] + k[o] /\ Total(h) - h[o] \in Nat
  BY <1>2, <1>4, <1>5, TotalMoves
<1>11. Total(f) \in Nat /\ Total(g) \in Nat /\ Total(h) \in Nat /\ Total(k) \in Nat
  BY <1>5, <1>9, <1>10, FS_CardinalityType DEF Total
<1>12. /\ f[o] \in Int /\ g[o] \in Int /\ h[o] \in Int /\ k[o] \in Int
  BY <1>4
<1>13. stock'[v] = ledger'[v] - Total(g)
  BY <1>5, <1>6, <1>7, <1>9, <1>11, <1>12
<1>14. stock'[v] + Total(k) >= 0
  BY <1>5, <1>6, <1>n, <1>10, <1>11, <1>12
<1>15. QED BY <1>8, <1>9, <1>10, <1>13, <1>14 DEF Explained

\* What a command moves: delta units for an order, the rest for none.
Moves(w, delta, outside) ==
  \A v \in Variants :
    /\ stock'[v] = IF v = w THEN stock[v] + delta + outside ELSE stock[v]
    /\ ledger'[v] = IF v = w THEN ledger[v] + outside ELSE ledger[v]

LEMMA MovesOf ==
  ASSUME Inv, NEW w, NEW delta \in Int, NEW outside \in Int
  PROVE  /\ OrderMoves(w, delta) => Moves(w, delta, 0)
         /\ BothMove(w, delta, outside) => Moves(w, delta, outside)
         /\ UNCHANGED <<stock, ledger>> => Moves(w, 0, 0)
<1>1. stock \in [Variants -> Int] /\ ledger \in [Variants -> Int] BY DEF Inv, StockInts
<1>2. OrderMoves(w, delta) => Moves(w, delta, 0) BY <1>1 DEF OrderMoves, Move, Moves
<1>3. BothMove(w, delta, outside) => Moves(w, delta, outside)
  BY <1>1 DEF BothMove, Move, Moves
<1>4. UNCHANGED <<stock, ledger>> => Moves(w, 0, 0) BY <1>1 DEF Moves
<1>5. QED BY <1>2, <1>3, <1>4

\* One order's row changes, its variant does not.
LEMMA RowExplained ==
  ASSUME Inv, Inv', StockInv, NEW o \in Orders, NEW s, order' = [order EXCEPT ![o] = s],
         NEW delta \in Int, NEW outside \in Int, Moves(order[o].variant, delta, outside),
         s.status # "ABSENT", s.variant = order[o].variant,
         s.quantity - s.restocked = order[o].quantity - order[o].restocked - delta,
         LET rise == s.oversold + s.damaged - order[o].oversold - order[o].damaged
         IN  \/ delta + outside + rise >= 0
             \/ \A v \in Variants :
                  v = order[o].variant => stock[v] + delta + outside + s.oversold + s.damaged >= 0
  PROVE  StockInv'
<1> DEFINE r == order[o]
<1>1. order \in [Orders -> OrderRows] /\ r \in OrderRows BY DEF Inv
<1>2. order'[o] = s /\ \A a \in Orders : a # o => order'[a] = order[a] BY <1>1
<1>3. s \in OrderRows BY <1>2 DEF Inv
<1>4. /\ r.quantity \in Int /\ r.restocked \in Int /\ r.oversold \in Int /\ r.damaged \in Int
      /\ s.quantity \in Int /\ s.restocked \in Int /\ s.oversold \in Int /\ s.damaged \in Int
  BY <1>1, <1>3 DEF OrderRows
<1>5. AbsentHolds' BY <1>2 DEF StockInv, AbsentHolds
<1>6. Accounts(o)
  <2>1. SUFFICES ASSUME NEW v \in Variants
                 PROVE  /\ stock'[v] - ledger'[v]
                             = stock[v] - ledger[v] + Held(r, v) - Held(s, v)
                        /\ \/ stock'[v] + Unchecked(s, v) >= 0
                           \/ stock'[v] + Unchecked(s, v) >= stock[v] + Unchecked(r, v)
    BY <1>2 DEF Accounts
  <2>2. stock[v] \in Int /\ ledger[v] \in Int BY DEF Inv, StockInts
  <2> HIDE DEF r
  <2>3. CASE v = r.variant
    <3>1. stock'[v] = stock[v] + delta + outside /\ ledger'[v] = ledger[v] + outside
      BY <2>3 DEF Moves, r
    <3>2. /\ Held(r, v) = r.quantity - r.restocked /\ Held(s, v) = s.quantity - s.restocked
          /\ Unchecked(r, v) = r.oversold + r.damaged /\ Unchecked(s, v) = s.oversold + s.damaged
      BY <2>3 DEF Held, Unchecked, r
    <3>3. s.quantity - s.restocked = r.quantity - r.restocked - delta BY DEF r
    <3>4. stock'[v] - ledger'[v] = stock[v] - ledger[v] + Held(r, v) - Held(s, v)
      BY <1>4, <2>2, <3>1, <3>2, <3>3
    <3>5. \/ delta + outside + (s.oversold + s.damaged - r.oversold - r.damaged) >= 0
          \/ stock[v] + delta + outside + s.oversold + s.damaged >= 0
      BY <2>3 DEF r
    <3>6. \/ stock'[v] + Unchecked(s, v) >= 0
          \/ stock'[v] + Unchecked(s, v) >= stock[v] + Unchecked(r, v)
      BY <1>4, <2>2, <3>1, <3>2, <3>5
    <3>7. QED BY <3>4, <3>6
  <2>4. CASE v # r.variant
    <3>1. stock'[v] = stock[v] /\ ledger'[v] = ledger[v] BY <2>4 DEF Moves, r
    <3>2. Held(r, v) = 0 /\ Held(s, v) = 0 /\ Unchecked(r, v) = 0 /\ Unchecked(s, v) = 0
      BY <2>4 DEF Held, Unchecked, r
    <3>3. QED BY <2>2, <3>1, <3>2
  <2>5. QED BY <2>3, <2>4
<1>7. \A a \in Orders : a # o => SameCounts(order[a], order'[a]) BY <1>2 DEF SameCounts
<1>8. \A v \in Variants : Explained(v)' BY <1>6, <1>7, AccountedStep DEF StockInv
<1>9. QED BY <1>5, <1>8 DEF StockInv

\* An order enters with a line of v whose units leave stock; every other order
\* holds what it held.
LEMMA EntryExplained ==
  ASSUME Inv, Inv', StockInv, NEW o \in Orders, NEW v \in Variants, NEW q \in Nat,
         order[o].status = "ABSENT", Moves(v, -q, 0),
         order'[o].status # "ABSENT", order'[o].variant = v, order'[o].quantity = q,
         order'[o].restocked = 0, order'[o].damaged = 0,
         order'[o].oversold >= q \/ stock[v] - q + order'[o].oversold >= 0,
         \A a \in Orders : a # o => SameCounts(order[a], order'[a]),
         \A a \in Orders : a # o /\ order'[a].status = "ABSENT" => order'[a] = order[a]
  PROVE  StockInv'
<1> DEFINE s == order'[o]
<1>1. order[o] = Absent BY DEF StockInv, AbsentHolds
<1>2. \A w : Held(order[o], w) = 0 /\ Unchecked(order[o], w) = 0
  BY <1>1 DEF Held, Unchecked, Absent
<1>3. s \in OrderRows BY DEF Inv
<1>4. s.oversold \in Int BY <1>3 DEF OrderRows
<1>5. Accounts(o)
  <2>1. SUFFICES ASSUME NEW w \in Variants
                 PROVE  /\ stock'[w] - ledger'[w] = stock[w] - ledger[w] + 0 - Held(s, w)
                        /\ \/ stock'[w] + Unchecked(s, w) >= 0
                           \/ stock'[w] + Unchecked(s, w) >= stock[w] + 0
    BY <1>2 DEF Accounts
  <2>2. stock[w] \in Int /\ ledger[w] \in Int BY DEF Inv, StockInts
  <2>3. CASE w = v
    <3>1. Held(s, w) = q - 0 /\ Unchecked(s, w) = s.oversold + 0 BY <2>3 DEF Held, Unchecked
    <3>2. stock'[w] = stock[w] + (-q) + 0 /\ ledger'[w] = ledger[w] + 0 BY <2>3 DEF Moves
    <3>3. s.oversold >= q \/ stock[w] - q + s.oversold >= 0 BY <2>3
    <3> HIDE DEF s
    <3>4. QED BY <1>4, <2>2, <3>1, <3>2, <3>3
  <2>4. CASE w # v
    <3>1. Held(s, w) = 0 /\ Unchecked(s, w) = 0 BY <2>4 DEF Held, Unchecked
    <3>2. stock'[w] = stock[w] /\ ledger'[w] = ledger[w] BY <2>4 DEF Moves
    <3> HIDE DEF s
    <3>3. QED BY <2>2, <3>1, <3>2
  <2>5. QED BY <2>3, <2>4
<1>6. \A w \in Variants : Explained(w)' BY <1>5, AccountedStep DEF StockInv
<1>7. AbsentHolds'
  <2>1. SUFFICES ASSUME NEW a \in Orders, order'[a].status = "ABSENT" PROVE order'[a] = Absent
    BY DEF AbsentHolds
  <2>2. order'[a] = order[a] BY <2>1
  <2>3. QED BY <2>1, <2>2 DEF StockInv, AbsentHolds
<1>8. QED BY <1>6, <1>7 DEF StockInv

\* Stock moves for no order; it does not end below zero.
LEMMA OutsideExplained ==
  ASSUME Inv, StockInv, order' = order, NEW w \in Variants, NEW delta \in Int,
         Moves(w, 0, delta), delta = 0 \/ stock[w] + delta >= 0
  PROVE  StockInv'
<1>1. SUFFICES ASSUME NEW v \in Variants PROVE Explained(v)'
  BY DEF StockInv, AbsentHolds
<1>2. HeldBy(v)' = HeldBy(v) /\ UncheckedBy(v)' = UncheckedBy(v)
  BY DEF HeldBy, UncheckedBy, Held, Unchecked
<1>3. Units(HeldBy(v))' = Units(HeldBy(v)) /\ Units(UncheckedBy(v))' = Units(UncheckedBy(v))
      /\ Total(HeldBy(v))' = Total(HeldBy(v)) /\ Total(UncheckedBy(v))' = Total(UncheckedBy(v))
  BY <1>2 DEF Units, Total
<1>4. Explained(v) BY DEF StockInv
<1>5. Total(HeldBy(v)) \in Nat /\ Total(UncheckedBy(v)) \in Nat
  BY <1>4, FS_CardinalityType DEF Explained, Total
<1>6. stock[v] \in Int /\ ledger[v] \in Int BY DEF Inv, StockInts
<1>7. \/ stock'[v] = stock[v] /\ ledger'[v] = ledger[v]
      \/ stock'[v] = stock[v] + delta /\ ledger'[v] = ledger[v] + delta /\ stock'[v] >= 0
  <2>1. CASE v = w
    <3>1. stock'[v] = stock[v] + 0 + delta /\ ledger'[v] = ledger[v] + delta BY <2>1 DEF Moves
    <3>2. QED BY <1>6, <2>1, <3>1
  <2>2. CASE v # w BY <2>2 DEF Moves
  <2>3. QED BY <2>1, <2>2
<1>8. stock'[v] = ledger'[v] - Total(HeldBy(v)) /\ stock'[v] + Total(UncheckedBy(v)) >= 0
  <2>1. stock[v] = ledger[v] - Total(HeldBy(v)) /\ stock[v] + Total(UncheckedBy(v)) >= 0
    BY <1>4 DEF Explained
  <2>2. QED BY <1>5, <1>6, <1>7, <2>1
<1>9. QED BY <1>3, <1>4, <1>8 DEF Explained

-----------------------------------------------------------------------------
(***************************************************************************)
(* Commands: what each does to the units of its order.                     *)
(***************************************************************************)
SameLineUnits(r, s) ==
  s.variant = r.variant /\ s.quantity = r.quantity /\ s.oversold = r.oversold /\ s.damaged = r.damaged

\* A decision and a transition leave the line, and what was written off, alone;
\* a transition puts back what it releases.
LEMMA DecideUnits ==
  ASSUME NEW r \in OrderRows, NEW n
  PROVE  SameLineUnits(r, Decide(r, n)) /\ Decide(r, n).restocked = r.restocked
BY DEF Decide, OrderRows, SameLineUnits

LEMMA TransitionUnits ==
  ASSUME NEW r \in OrderRows, NEW to
  PROVE  SameLineUnits(r, Transition(r, to))
         /\ Transition(r, to).restocked = r.restocked + ReleasedBy(r, to)
<1> DEFINE n == WithCustomer(r)
           released == ReleasedBy(r, to)
<1>1. CASE to = "RETURNED"
  <2>1. Transition(r, to) = [Decide(r, n) EXCEPT !.status = to,
                               !.restocked = Decide(r, n).restocked + released]
    BY <1>1 DEF Transition
  <2> HIDE DEF n, released
  <2>2. Transition(r, to) = [[r EXCEPT !.returned = r.returned + Decided(r, n),
                                      !.moneyBack = r.moneyBack + Decided(r, n)]
                               EXCEPT !.status = to, !.restocked = r.restocked + released]
    BY <2>1, DecideUnits DEF Decide
  <2>3. QED BY <2>2 DEF OrderRows, SameLineUnits, released
<1>2. CASE to # "RETURNED"
  <2>1. Transition(r, to) = [r EXCEPT !.status = to, !.restocked = r.restocked + released]
    BY <1>2 DEF Transition
  <2> HIDE DEF n, released
  <2>2. QED BY <2>1 DEF OrderRows, SameLineUnits, released
<1>3. QED BY <1>1, <1>2

LEMMA ReconciledUnits ==
  ASSUME NEW r \in OrderRows, NEW n
  PROVE  SameLineUnits(r, Reconciled(r, n)) /\ Reconciled(r, n).restocked = r.restocked
BY DEF Reconciled, Decide, OrderRows, SameLineUnits

\* The scanner's decision puts nothing back: its parcels left before.
LEMMA ScanOutcomeUnits ==
  ASSUME NEW r, Live(r), ~r.trashed, NEW kept \in Nat, ScanPlan(r, kept)
  PROVE  SameLineUnits(r, ScanOutcome(r, kept)) /\ ScanOutcome(r, kept).restocked = r.restocked
<1> DEFINE back == r.quantity - r.restocked - kept
<1>1. r \in OrderRows /\ r.restocked \in Nat BY Counters DEF Live, RowOK
<1>2. "SHIPPED" \notin PreShipment /\ "PARTIALLY_DELIVERED" \notin PreShipment BY PreShipmentAssumption
<1>3. \A to : r.status = "SHIPPED" => ReleasedBy(r, to) = 0 BY <1>2 DEF ReleasedBy
<1>4. CASE r.status = "SHIPPED" /\ kept = 0
  <2>1. ScanOutcome(r, kept) = Transition(r, "CANCELLED") BY <1>4 DEF ScanOutcome, Unreconciled
  <2>2. QED BY <1>1, <1>3, <1>4, <2>1, TransitionUnits
<1>5. CASE r.status = "SHIPPED" /\ kept > 0
  <2> DEFINE t == Transition(r, "PARTIALLY_DELIVERED")
  <2>1. ScanOutcome(r, kept) = Reconciled(t, back) BY <1>5 DEF ScanOutcome, Unreconciled, back
  <2>2. SameLineUnits(r, t) /\ t.restocked = r.restocked BY <1>1, <1>3, <1>5, TransitionUnits
  <2>3. "PARTIALLY_DELIVERED" \in Statuses /\ Permitted(r, "PARTIALLY_DELIVERED")
    BY <1>5 DEF Statuses, Permitted, Allowed
  <2>4. t \in OrderRows BY <2>3, TransitionStep DEF Live, RowOK
  <2> HIDE DEF t
  <2>5. QED BY <2>1, <2>2, <2>4, ReconciledUnits DEF SameLineUnits
<1>6. CASE r.status # "SHIPPED" /\ Unreconciled(r) /\ kept = 0
  <2> DEFINE t == Reconciled(r, back)
  <2>1. ScanOutcome(r, kept) = Transition(t, "RETURNED") BY <1>6 DEF ScanOutcome, back
  <2>2. back \in Nat
    BY <1>6, Counters DEF ScanPlan, AwaitsOutcome
  <2>3. Live(t) /\ SameLineUnits(r, t) /\ t.restocked = r.restocked
    BY <1>1, <1>6, <2>2, ReconciledUnits, ReconciledStep DEF Unreconciled
  <2>4. ReleasedBy(t, "RETURNED") = 0 /\ t \in OrderRows BY <2>3 DEF ReleasedBy, Live, RowOK
  <2> HIDE DEF t
  <2>5. QED BY <1>1, <2>1, <2>3, <2>4, TransitionUnits DEF SameLineUnits
<1>7. CASE r.status # "SHIPPED" /\ Unreconciled(r) /\ kept > 0
  <2>1. ScanOutcome(r, kept) = Reconciled(r, back) BY <1>7 DEF ScanOutcome, back
  <2>2. QED BY <1>1, <2>1, ReconciledUnits
<1>8. CASE r.status # "SHIPPED" /\ ~Unreconciled(r)
  <2>1. ScanOutcome(r, kept) = r BY <1>8 DEF ScanOutcome
  <2>2. QED BY <2>1 DEF SameLineUnits
<1>9. kept = 0 \/ kept > 0 OBVIOUS
<1>10. QED BY <1>4, <1>5, <1>6, <1>7, <1>8, <1>9

\* A command that moves no unit.
LEMMA UnmovedExplained ==
  ASSUME Inv, Inv', StockInv, NEW o \in Orders, NEW s, order' = [order EXCEPT ![o] = s],
         UNCHANGED <<stock, ledger>>, s.status # "ABSENT",
         SameLineUnits(order[o], s), s.restocked = order[o].restocked
  PROVE  StockInv'
<1> DEFINE r == order[o]
<1>1. r \in OrderRows BY DEF Inv
<1>2. r.quantity \in Int /\ r.restocked \in Int /\ r.oversold \in Int /\ r.damaged \in Int
  BY <1>1 DEF OrderRows
<1>3. 0 \in Int /\ Moves(r.variant, 0, 0) BY MovesOf
<1>4. s.quantity - s.restocked = r.quantity - r.restocked - 0 BY <1>2 DEF SameLineUnits
<1>5. 0 + 0 + (s.oversold + s.damaged - r.oversold - r.damaged) >= 0 BY <1>2 DEF SameLineUnits
<1>6. s.variant = r.variant BY DEF SameLineUnits
<1>7. QED BY <1>3, <1>4, <1>5, <1>6, RowExplained

\* A command that moves delta units of its order between it and the shelf.
LEMMA MovedExplained ==
  ASSUME Inv, Inv', StockInv, NEW o \in Orders, NEW s, order' = [order EXCEPT ![o] = s],
         NEW delta \in Int, OrderMoves(order[o].variant, delta), s.status # "ABSENT",
         s.variant = order[o].variant, s.oversold = order[o].oversold, s.damaged = order[o].damaged,
         s.quantity - s.restocked = order[o].quantity - order[o].restocked - delta,
         delta >= 0 \/ Available(order[o].variant, -delta)
  PROVE  StockInv'
<1> DEFINE r == order[o]
<1>1. r \in OrderRows BY DEF Inv
<1>2. r.quantity \in Int /\ r.restocked \in Int /\ r.oversold \in Nat /\ r.damaged \in Nat
  BY <1>1, QuantityAssumption DEF OrderRows
<1>3. 0 \in Int /\ Moves(r.variant, delta, 0) BY MovesOf
<1>4. \/ delta + 0 + (s.oversold + s.damaged - r.oversold - r.damaged) >= 0
      \/ \A v \in Variants : v = r.variant => stock[v] + delta + 0 + s.oversold + s.damaged >= 0
  <2>1. CASE delta >= 0 BY <1>2, <2>1
  <2>2. CASE Available(r.variant, -delta)
    <3>1. ASSUME NEW v \in Variants, v = r.variant
          PROVE  stock[v] + delta + 0 + s.oversold + s.damaged >= 0
      <4>1. stock[v] \in Int /\ stock[v] - (-delta) >= 0 BY <2>2, <3>1 DEF Available, Inv, StockInts
      <4>2. QED BY <1>2, <4>1
    <3>2. QED BY <3>1
  <2>3. QED BY <2>1, <2>2
<1>5. QED BY <1>3, <1>4, RowExplained

LEMMA LiveRow ==
  ASSUME Inv, NEW o \in Orders, Present(o)
  PROVE  /\ Live(order[o]) /\ order[o] \in OrderRows
         /\ order[o].status # "ABSENT"
         /\ order[o].quantity \in Nat /\ order[o].restocked \in Nat
         /\ order[o].good \in Nat /\ order[o].damaged \in Nat /\ order[o].oversold \in Nat
BY PresentLives, Counters, OutsideStatuses DEF Present, Live, RowOK

LEMMA ChangeStatusExplained ==
  ASSUME Inv, Inv', StockInv, NEW o \in Orders, NEW to \in Statuses, ChangeStatus(o, to)
  PROVE  StockInv'
<1> DEFINE r == order[o]
           s == Transition(r, to)
           n == ReleasedBy(r, to)
<1>1. Live(r) /\ r \in OrderRows /\ r.quantity \in Nat /\ r.restocked \in Nat /\ ~r.trashed
      /\ Permitted(r, to)
  BY LiveRow DEF ChangeStatus, Open
<1>2. n \in Nat BY <1>1, ReleaseBounds
<1>3. SameLineUnits(r, s) /\ s.restocked = r.restocked + n BY <1>1, TransitionUnits
<1>4. s.status = to /\ to # "ABSENT" BY <1>1, TransitionStep, OutsideStatuses
<1>5. order' = [order EXCEPT ![o] = s] /\ OrderMoves(r.variant, n) BY DEF ChangeStatus
<1> HIDE DEF s, n
<1>6. s.quantity - s.restocked = r.quantity - r.restocked - n BY <1>1, <1>2, <1>3 DEF SameLineUnits
<1>7. n \in Int /\ n >= 0 BY <1>2
<1>8. QED BY <1>3, <1>4, <1>5, <1>6, <1>7, MovedExplained DEF SameLineUnits

\* Flags, requests and decisions.
LEMMA DecisionsExplained ==
  ASSUME Inv, Inv', StockInv, NEW o \in Orders, NEW n \in Nat,
         \/ RefundRecorded(o) \/ Reconcile(o, n) \/ RecordItemReturn(o, n)
         \/ \E type \in {"RETURN", "EXCHANGE"} : RequestReturn(o, type)
         \/ RejectRequest(o) \/ ApproveReturn(o)
  PROVE  StockInv'
<1> DEFINE r == order[o]
<1>1. Present(o)
  BY DEF RefundRecorded, Reconcile, RecordItemReturn, RequestReturn, RejectRequest, ApproveReturn,
         Present, Open, Statuses
<1>2. r \in OrderRows /\ r.status # "ABSENT" BY <1>1, LiveRow
<1>3. UNCHANGED <<stock, ledger>>
  BY DEF RefundRecorded, Reconcile, RecordItemReturn, RequestReturn, RejectRequest, ApproveReturn
<1>4. ASSUME NEW t \in OrderRows
      PROVE  /\ SameLineUnits(t, Transition(t, "RETURNED"))
             /\ Transition(t, "RETURNED").restocked = t.restocked
             /\ Transition(t, "RETURNED").status = "RETURNED"
  <2>1. ReleasedBy(t, "RETURNED") = 0 /\ t.restocked \in Int BY <1>4 DEF ReleasedBy, OrderRows
  <2>2. Transition(t, "RETURNED").status = "RETURNED"
    BY DEF Transition, Decide, OrderRows
  <2>3. QED BY <2>1, <2>2, TransitionUnits
<1>5. ASSUME RefundRecorded(o) PROVE StockInv'
  <2> DEFINE s == [r EXCEPT !.refunded = TRUE]
  <2>1. order' = [order EXCEPT ![o] = s] BY <1>5 DEF RefundRecorded
  <2>2. SameLineUnits(r, s) /\ s.restocked = r.restocked /\ s.status = r.status
    BY <1>2 DEF OrderRows, SameLineUnits
  <2> HIDE DEF s
  <2>3. QED BY <1>2, <1>3, <2>1, <2>2, UnmovedExplained
<1>6. ASSUME Reconcile(o, n) PROVE StockInv'
  <2>1. order' = [order EXCEPT ![o] = Reconciled(r, n)] BY <1>6 DEF Reconcile
  <2>2. Reconciled(r, n).status = r.status BY <1>2 DEF Reconciled, Decide, OrderRows
  <2>3. SameLineUnits(r, Reconciled(r, n)) /\ Reconciled(r, n).restocked = r.restocked
        /\ Reconciled(r, n).status # "ABSENT"
    BY <1>2, <2>2, ReconciledUnits
  <2>4. QED BY <1>3, <2>1, <2>3, UnmovedExplained
<1>7. ASSUME RecordItemReturn(o, n) PROVE StockInv'
  <2> DEFINE d == Decide(r, n)
             all == r.status = "DELIVERED" /\ d.returned >= r.quantity
  <2>1. order' = [order EXCEPT ![o] = IF all THEN Transition(d, "RETURNED") ELSE d]
    BY <1>7 DEF RecordItemReturn
  <2>2. Live(r) /\ r.status \in CustomerReturn
    BY <1>1, <1>7, LiveRow DEF RecordItemReturn, CustomerReturn
  <2>3. d \in OrderRows /\ d.status = r.status /\ SameLineUnits(r, d) /\ d.restocked = r.restocked
    BY <1>2, <2>2, DecideStep, DecideFields, DecideUnits DEF Live, RowOK
  <2> HIDE DEF d
  <2>4. CASE all
    <3>1. order' = [order EXCEPT ![o] = Transition(d, "RETURNED")] BY <2>1, <2>4
    <3>2. SameLineUnits(r, Transition(d, "RETURNED"))
          /\ Transition(d, "RETURNED").restocked = r.restocked
          /\ Transition(d, "RETURNED").status # "ABSENT"
      BY <1>4, <2>3 DEF SameLineUnits
    <3>3. QED BY <1>3, <3>1, <3>2, UnmovedExplained
  <2>5. CASE ~all
    <3>1. order' = [order EXCEPT ![o] = d] BY <2>1, <2>5
    <3>2. QED BY <1>2, <1>3, <2>3, <3>1, UnmovedExplained
  <2>6. QED BY <2>4, <2>5
<1>8. ASSUME (\E type \in {"RETURN", "EXCHANGE"} : RequestReturn(o, type)) \/ RejectRequest(o)
      PROVE  StockInv'
  <2>1. PICK type : order' = [order EXCEPT ![o] = [r EXCEPT !.request = type]]
    BY <1>8 DEF RequestReturn, RejectRequest
  <2> DEFINE s == [r EXCEPT !.request = type]
  <2>2. SameLineUnits(r, s) /\ s.restocked = r.restocked /\ s.status = r.status
    BY <1>2 DEF OrderRows, SameLineUnits
  <2>3. order' = [order EXCEPT ![o] = s] BY <2>1
  <2> HIDE DEF s
  <2>4. QED BY <1>2, <1>3, <2>2, <2>3, UnmovedExplained
<1>9. ASSUME ApproveReturn(o) PROVE StockInv'
  <2> DEFINE s == [r EXCEPT !.request = "NONE"]
  <2>1. \/ order' = [order EXCEPT ![o] = s]
        \/ order' = [order EXCEPT ![o] = Transition(s, "RETURNED")]
    BY <1>9 DEF ApproveReturn
  <2>2. s \in OrderRows /\ SameLineUnits(r, s) /\ s.restocked = r.restocked /\ s.status = r.status
    BY <1>2 DEF OrderRows, SameLineUnits
  <2> HIDE DEF s
  <2>3. CASE order' = [order EXCEPT ![o] = s] BY <1>2, <1>3, <2>2, <2>3, UnmovedExplained
  <2>4. CASE order' = [order EXCEPT ![o] = Transition(s, "RETURNED")]
    <3>1. SameLineUnits(r, Transition(s, "RETURNED"))
          /\ Transition(s, "RETURNED").restocked = r.restocked
          /\ Transition(s, "RETURNED").status # "ABSENT"
      BY <1>4, <2>2 DEF SameLineUnits
    <3>2. QED BY <1>3, <2>4, <3>1, UnmovedExplained
  <2>5. QED BY <2>1, <2>3, <2>4
<1>10. QED BY <1>5, <1>6, <1>7, <1>8, <1>9

LEMMA ModifyExplained ==
  ASSUME Inv, Inv', StockInv, NEW o \in Orders, NEW q \in Quantities, ModifyOrder(o, q)
  PROVE  StockInv'
<1> DEFINE r == order[o]
           s == [r EXCEPT !.quantity = q]
           more == q - r.quantity
<1>1. r \in OrderRows /\ r.status # "ABSENT" /\ r.quantity \in Nat /\ r.restocked \in Nat
  BY LiveRow DEF ModifyOrder, Open
<1>2. q \in Nat BY QuantityAssumption DEF Quantities
<1>3. /\ s.quantity = q /\ s.restocked = r.restocked /\ s.status = r.status
      /\ s.variant = r.variant /\ s.oversold = r.oversold /\ s.damaged = r.damaged
  BY <1>1 DEF OrderRows
<1>4. order' = [order EXCEPT ![o] = s] /\ OrderMoves(r.variant, -more)
      /\ (more > 0 => Available(r.variant, more))
  BY DEF ModifyOrder
<1>5. more \in Int BY <1>1, <1>2
<1> HIDE DEF s
<1>6. s.quantity - s.restocked = r.quantity - r.restocked - (-more) BY <1>1, <1>2, <1>3
<1> HIDE DEF more
<1>7. -more \in Int /\ -(-more) = more BY <1>5
<1>8. -more >= 0 \/ Available(r.variant, -(-more)) BY <1>4, <1>5, <1>7
<1> DEFINE delta == -more
<1>9. delta \in Int /\ OrderMoves(r.variant, delta)
      /\ s.quantity - s.restocked = r.quantity - r.restocked - delta
      /\ (delta >= 0 \/ Available(r.variant, -delta))
  BY <1>4, <1>6, <1>7, <1>8
<1> HIDE DEF delta
<1>10. QED BY <1>1, <1>3, <1>4, <1>9, MovedExplained

LEMMA TrashExplained ==
  ASSUME Inv, Inv', StockInv, NEW o \in Orders, TrashOrder(o)
  PROVE  StockInv'
<1> DEFINE r == order[o]
           units == IF r.status \in PreShipment THEN Unreleased(r) ELSE 0
           s == [r EXCEPT !.trashed = TRUE, !.restocked = r.restocked + units]
<1>1. /\ r \in OrderRows /\ r.status # "ABSENT" /\ r.quantity \in Nat /\ r.restocked \in Nat
      /\ Live(r) /\ ~r.trashed
  BY LiveRow DEF TrashOrder, Open
<1>2. units \in Nat BY <1>1, TrashStep
<1>3. /\ s.quantity = r.quantity /\ s.restocked = r.restocked + units /\ s.status = r.status
      /\ s.variant = r.variant /\ s.oversold = r.oversold /\ s.damaged = r.damaged
  <2> HIDE DEF units
  <2>1. QED BY <1>1 DEF OrderRows
<1>4. order' = [order EXCEPT ![o] = s] /\ OrderMoves(r.variant, units) BY DEF TrashOrder
<1> HIDE DEF s, units
<1>5. s.quantity - s.restocked = r.quantity - r.restocked - units BY <1>1, <1>2, <1>3
<1>6. units \in Int /\ units >= 0 BY <1>2
<1>7. QED BY <1>1, <1>3, <1>4, <1>5, <1>6, MovedExplained

LEMMA RestoreExplained ==
  ASSUME Inv, Inv', StockInv, NEW o \in Orders, RestoreOrder(o)
  PROVE  StockInv'
<1> DEFINE r == order[o]
           units == Reclaimed(r)
           s == [r EXCEPT !.trashed = FALSE, !.restocked = r.restocked - units]
           delta == -units
<1>1. /\ r \in OrderRows /\ r.status # "ABSENT" /\ r.quantity \in Nat /\ r.restocked \in Nat
      /\ Live(r) /\ r.trashed
  BY LiveRow DEF RestoreOrder
<1>2. units \in Nat BY <1>1, RestoreStep
<1>3. /\ s.quantity = r.quantity /\ s.restocked = r.restocked - units /\ s.status = r.status
      /\ s.variant = r.variant /\ s.oversold = r.oversold /\ s.damaged = r.damaged
  <2> HIDE DEF units
  <2>1. QED BY <1>1 DEF OrderRows
<1>4. order' = [order EXCEPT ![o] = s] /\ OrderMoves(r.variant, delta)
      /\ (units > 0 => Available(r.variant, units))
  BY DEF RestoreOrder
<1> HIDE DEF s, units
<1>5. delta \in Int /\ s.quantity - s.restocked = r.quantity - r.restocked - delta
      /\ -delta = units /\ (delta >= 0 \/ units > 0)
  BY <1>1, <1>2, <1>3
<1>6. delta >= 0 \/ Available(r.variant, -delta) BY <1>4, <1>5
<1> HIDE DEF delta
<1>7. QED BY <1>1, <1>3, <1>4, <1>5, <1>6, MovedExplained

\* A receipt or a correction of one: units between the order and the shelf, and
\* write-offs outside it.
LEMMA CountedExplained ==
  ASSUME Inv, Inv', StockInv, NEW o \in Orders, NEW s, order' = [order EXCEPT ![o] = s],
         NEW x \in Int, NEW outside \in Int, BothMove(order[o].variant, x, outside),
         s.status # "ABSENT", s.variant = order[o].variant, s.quantity = order[o].quantity,
         s.restocked = order[o].restocked + x, s.oversold = order[o].oversold,
         order[o] \in OrderRows, s.damaged \in Nat,
         \/ x + outside + s.damaged - order[o].damaged >= 0
         \/ Available(order[o].variant, -(x + outside))
  PROVE  StockInv'
<1> DEFINE r == order[o]
<1>1. r.quantity \in Int /\ r.restocked \in Int /\ r.oversold \in Nat /\ r.damaged \in Nat
  BY QuantityAssumption DEF OrderRows
<1>2. Moves(r.variant, x, outside) BY MovesOf
<1>3. s.quantity - s.restocked = r.quantity - r.restocked - x BY <1>1
<1>4. \/ x + outside + (s.oversold + s.damaged - r.oversold - r.damaged) >= 0
      \/ \A v \in Variants : v = r.variant => stock[v] + x + outside + s.oversold + s.damaged >= 0
  <2>1. CASE x + outside + s.damaged - r.damaged >= 0 BY <1>1, <2>1
  <2>2. CASE Available(r.variant, -(x + outside))
    <3>1. ASSUME NEW v \in Variants, v = r.variant
          PROVE  stock[v] + x + outside + s.oversold + s.damaged >= 0
      <4>1. stock[v] \in Int /\ stock[v] - (-(x + outside)) >= 0
        BY <2>2, <3>1 DEF Available, Inv, StockInts
      <4>2. QED BY <1>1, <4>1
    <3>2. QED BY <3>1
  <2>3. QED BY <2>1, <2>2
<1>5. QED BY <1>2, <1>3, <1>4, RowExplained

LEMMA ReceiveExplained ==
  ASSUME Inv, Inv', StockInv, NEW o \in Orders, NEW n \in Nat, NEW damaged \in Nat, NEW lost \in Nat,
         ReceiveParcel(o, n, damaged, lost)
  PROVE  StockInv'
<1> DEFINE r == order[o]
           s == [r EXCEPT !.restocked = r.restocked + n + lost]
           x == n + lost
           outside == -(damaged + lost)
<1>1. r \in OrderRows /\ r.status # "ABSENT" /\ r.restocked \in Nat /\ r.damaged \in Nat
  BY LiveRow DEF ReceiveParcel, Open
<1>2. order' = [order EXCEPT ![o] = s] /\ BothMove(r.variant, x, outside) /\ damaged <= n
  BY DEF ReceiveParcel
<1>3. /\ s.variant = r.variant /\ s.quantity = r.quantity /\ s.oversold = r.oversold
      /\ s.damaged = r.damaged /\ s.status = r.status /\ s.restocked = r.restocked + n + lost
  BY <1>1 DEF OrderRows
<1>4. s.restocked = r.restocked + x /\ s.damaged \in Nat BY <1>1, <1>3
<1>5. x \in Int /\ outside \in Int /\ x + outside + s.damaged - r.damaged >= 0
  BY <1>1, <1>2, <1>3
<1> HIDE DEF s, x, outside
<1>6. QED BY <1>1, <1>2, <1>3, <1>4, <1>5, CountedExplained

LEMMA ScanExplained ==
  ASSUME Inv, Inv', StockInv, NEW o \in Orders, NEW kept \in Nat, NEW good \in Nat, NEW damaged \in Nat,
         ScanParcel(o, kept, good, damaged)
  PROVE  StockInv'
<1> DEFINE r == order[o]
           t == ScanOutcome(r, kept)
           s == [t EXCEPT !.restocked = t.restocked + good + damaged,
                          !.good = t.good + good, !.damaged = t.damaged + damaged]
           x == good + damaged
           outside == -damaged
<1>1. r \in OrderRows /\ r.restocked \in Nat /\ r.damaged \in Nat /\ Live(r) /\ ~r.trashed
      /\ ScanPlan(r, kept)
  BY LiveRow DEF ScanParcel, Open
<1>2. SameLineUnits(r, t) /\ t.restocked = r.restocked /\ Live(t)
  BY <1>1, ScanOutcomeUnits, ScanOutcomeStep
<1>3. t \in OrderRows /\ t.status # "ABSENT" BY <1>2, OutsideStatuses DEF Live, RowOK
<1>4. order' = [order EXCEPT ![o] = s] /\ BothMove(t.variant, x, outside)
  BY DEF ScanParcel
<1> HIDE DEF t
<1>5. /\ s.variant = t.variant /\ s.quantity = t.quantity /\ s.oversold = t.oversold
      /\ s.status = t.status /\ s.damaged = t.damaged + damaged
      /\ s.restocked = t.restocked + good + damaged
  BY <1>3 DEF OrderRows
<1>6. /\ s.variant = r.variant /\ s.quantity = r.quantity /\ s.oversold = r.oversold
      /\ s.status # "ABSENT" /\ s.damaged = r.damaged + damaged /\ BothMove(r.variant, x, outside)
      /\ s.restocked = r.restocked + good + damaged
  BY <1>2, <1>3, <1>4, <1>5 DEF SameLineUnits
<1>7. s.restocked = r.restocked + x /\ s.damaged \in Nat BY <1>1, <1>6
<1>8. x \in Int /\ outside \in Int /\ x + outside + s.damaged - r.damaged >= 0
  BY <1>1, <1>6
<1> HIDE DEF s, x, outside
<1>9. QED BY <1>1, <1>4, <1>6, <1>7, <1>8, CountedExplained

LEMMA CorrectedExplained ==
  ASSUME Inv, Inv', StockInv, NEW o \in Orders, NEW n \in Nat,
         \/ CorrectToDamaged(o, n) \/ CorrectToGood(o, n)
         \/ \E from \in {"good", "damaged"} : CorrectToUnresolved(o, from, n)
  PROVE  StockInv'
<1> DEFINE r == order[o]
<1>1. /\ r \in OrderRows /\ r.status # "ABSENT" /\ r.quantity \in Nat /\ r.restocked \in Nat
      /\ r.good \in Nat /\ r.damaged \in Nat
  BY LiveRow DEF CorrectToDamaged, CorrectToGood, CorrectToUnresolved
<1>2. ASSUME CorrectToDamaged(o, n) PROVE StockInv'
  <2> DEFINE s == [r EXCEPT !.good = r.good - n, !.damaged = r.damaged + n]
             outside == -n
  <2>1. order' = [order EXCEPT ![o] = s] /\ BothMove(r.variant, 0, outside)
    BY <1>2 DEF CorrectToDamaged
  <2>2. /\ s.variant = r.variant /\ s.quantity = r.quantity /\ s.oversold = r.oversold
        /\ s.status = r.status /\ s.damaged = r.damaged + n /\ s.restocked = r.restocked
    BY <1>1 DEF OrderRows
  <2>3. /\ s.restocked = r.restocked + 0 /\ s.damaged \in Nat /\ outside \in Int /\ 0 \in Int
        /\ 0 + outside + s.damaged - r.damaged >= 0
    BY <1>1, <2>2
  <2> HIDE DEF s, outside
  <2>4. QED BY <1>1, <2>1, <2>2, <2>3, CountedExplained
<1>3. ASSUME CorrectToGood(o, n) PROVE StockInv'
  <2> DEFINE s == [r EXCEPT !.damaged = r.damaged - n, !.good = r.good + n]
  <2>0. n <= r.damaged BY <1>1, <1>3 DEF CorrectToGood
  <2>1. order' = [order EXCEPT ![o] = s] /\ BothMove(r.variant, 0, n)
    BY <1>3 DEF CorrectToGood
  <2>2. /\ s.variant = r.variant /\ s.quantity = r.quantity /\ s.oversold = r.oversold
        /\ s.status = r.status /\ s.damaged = r.damaged - n /\ s.restocked = r.restocked
    BY <1>1 DEF OrderRows
  <2>3. /\ s.restocked = r.restocked + 0 /\ s.damaged \in Nat /\ n \in Int /\ 0 \in Int
        /\ 0 + n + s.damaged - r.damaged >= 0
    BY <1>1, <2>0, <2>2
  <2> HIDE DEF s
  <2>4. QED BY <1>1, <2>1, <2>2, <2>3, CountedExplained
<1>4. ASSUME NEW from \in {"good", "damaged"}, CorrectToUnresolved(o, from, n) PROVE StockInv'
  <2> DEFINE s == [r EXCEPT ![from] = r[from] - n, !.restocked = r.restocked - n]
             x == -n
             reversed == IF from = "damaged" THEN n ELSE 0
  <2>0. n <= r[from] BY <1>1, <1>4 DEF CorrectToUnresolved
  <2>1. /\ order' = [order EXCEPT ![o] = s] /\ BothMove(r.variant, x, reversed)
        /\ Available(r.variant, n - reversed)
    BY <1>4 DEF CorrectToUnresolved
  <2>2. /\ s.variant = r.variant /\ s.quantity = r.quantity /\ s.oversold = r.oversold
        /\ s.status = r.status /\ s.restocked = r.restocked - n
        /\ s.damaged = IF from = "damaged" THEN r.damaged - n ELSE r.damaged
    BY <1>1 DEF OrderRows
  <2>3. reversed \in Int /\ s.damaged \in Nat BY <1>1, <2>0, <2>2
  <2> HIDE DEF reversed
  <2>n. s.restocked = r.restocked + x /\ x \in Int /\ -(x + reversed) = n - reversed
    BY <1>1, <2>2, <2>3
  <2>4. Available(r.variant, -(x + reversed)) BY <2>1, <2>n
  <2> HIDE DEF s, x
  <2>5. QED BY <1>1, <2>1, <2>2, <2>3, <2>n, <2>4, CountedExplained
<1>5. QED BY <1>2, <1>3, <1>4

LEMMA PurgeExplained ==
  ASSUME Inv, Inv', StockInv, NEW o \in Orders, FinishPurge(o)
  PROVE  StockInv'
<1> DEFINE r == order[o]
           s == [Absent EXCEPT !.status = "PURGED", !.variant = r.variant,
                               !.oversold = r.oversold + r.damaged]
           held == r.quantity - r.restocked
           outside == -held
<1>1. Present(o) BY DEF FinishPurge, Inv
<1>2. /\ r \in OrderRows /\ r.quantity \in Nat /\ r.restocked \in Nat
      /\ r.oversold \in Nat /\ r.damaged \in Nat
  BY <1>1, LiveRow
<1>3. order' = [order EXCEPT ![o] = s] BY DEF FinishPurge
<1>4. /\ s.variant = r.variant /\ s.quantity = 0 /\ s.restocked = 0 /\ s.damaged = 0
      /\ s.oversold = r.oversold + r.damaged /\ s.status # "ABSENT"
  BY DEF Absent
<1> HIDE DEF s
<1>5. Moves(r.variant, held, outside)
  <2>1. stock \in [Variants -> Int] /\ ledger \in [Variants -> Int] BY DEF Inv, StockInts
  <2>2. ledger' = [ledger EXCEPT ![r.variant] = ledger[r.variant] + r.restocked - r.quantity]
        /\ stock' = stock
    BY DEF FinishPurge
  <2> HIDE DEF r
  <2>3. ASSUME NEW v \in Variants
        PROVE  /\ stock'[v] = IF v = r.variant THEN stock[v] + held + outside ELSE stock[v]
               /\ ledger'[v] = IF v = r.variant THEN ledger[v] + outside ELSE ledger[v]
    BY <1>2, <2>1, <2>2
  <2>4. QED BY <2>3 DEF Moves
<1>6. /\ held \in Int /\ outside \in Int /\ s.quantity - s.restocked = r.quantity - r.restocked - held
      /\ held + outside + (s.oversold + s.damaged - r.oversold - r.damaged) >= 0
  BY <1>2, <1>4
<1> HIDE DEF held, outside
<1>7. QED BY <1>3, <1>4, <1>5, <1>6, RowExplained

\* A new order, guarded or already paid.
LEMMA PlacedExplained ==
  ASSUME Inv, Inv', StockInv, NEW o \in Orders, NEW v \in Variants, NEW q \in Quantities,
         \/ \E status \in {"PENDING", "CONFIRMED"} \cap PreShipment : PlaceOrder(o, v, q, status)
         \/ SettlePaidOrder(o, v, q)
  PROVE  StockInv'
<1>1. q \in Nat /\ stock[v] \in Int BY QuantityAssumption DEF Quantities, Inv, StockInts
<1>2. order[o].status = "ABSENT" /\ OrderMoves(v, -q) BY DEF PlaceOrder, SettlePaidOrder
<1>3. PICK status \in PreShipment, n \in 0..MaxQuantity :
        /\ order' = [order EXCEPT ![o] = [NewOrder(status, v, q, NoOrder) EXCEPT !.oversold = n]]
        /\ n >= q \/ stock[v] - q + n >= 0
  <2>1. ASSUME NEW status \in PreShipment, PlaceOrder(o, v, q, status)
        PROVE  /\ order' = [order EXCEPT ![o] = [NewOrder(status, v, q, NoOrder) EXCEPT !.oversold = 0]]
               /\ stock[v] - q + 0 >= 0
    <3> DEFINE new == NewOrder(status, v, q, NoOrder)
    <3>1. order' = [order EXCEPT ![o] = new] /\ stock[v] - q >= 0
      BY <2>1 DEF PlaceOrder, Available
    <3>2. 0 \in 0..MaxQuantity BY QuantityAssumption
    <3> DEFINE r == [new EXCEPT !.oversold = 0]
    <3>3. /\ new \in OrderRows /\ new.oversold = 0
          /\ RowOK(r) /\ r.status = status /\ r.status \in Statuses
          /\ r.replaces = NoOrder /\ r.status \notin CustomerReturn
      BY <3>2, NewRow
    <3> HIDE DEF new
    <3>4. new = [new EXCEPT !.oversold = 0] BY <3>3 DEF OrderRows
    <3>5. order' = [order EXCEPT ![o] = [new EXCEPT !.oversold = 0]] BY <3>1, <3>4
    <3>6. stock[v] - q + 0 >= 0 BY <1>1, <3>1
    <3>7. QED BY <3>5, <3>6 DEF new
  <2>2. ASSUME SettlePaidOrder(o, v, q)
        PROVE  /\ order' = [order EXCEPT ![o] = [NewOrder("CONFIRMED", v, q, NoOrder)
                                                   EXCEPT !.oversold = Below(v, q)]]
               /\ Below(v, q) \in 0..MaxQuantity
               /\ Below(v, q) >= q \/ stock[v] - q + Below(v, q) >= 0
    <3>1. q \in 1..MaxQuantity /\ MaxQuantity \in Nat BY QuantityAssumption DEF Quantities
    <3>2. CASE stock[v] > 0
      <4>1. Below(v, q) = IF 0 > q - stock[v] THEN 0 ELSE q - stock[v]
        BY <1>1, <3>2 DEF Below, Larger
      <4>2. QED BY <1>1, <2>2, <3>1, <3>2, <4>1 DEF SettlePaidOrder
    <3>3. CASE ~(stock[v] > 0)
      <4>1. Below(v, q) = q BY <1>1, <3>1, <3>3 DEF Below, Larger
      <4>2. QED BY <1>1, <2>2, <3>1, <3>3, <4>1 DEF SettlePaidOrder
    <3>4. QED BY <3>2, <3>3
  <2>3. "CONFIRMED" \in PreShipment /\ 0 \in 0..MaxQuantity
    BY PreShipmentAssumption, QuantityAssumption
  <2>4. QED BY <2>1, <2>2, <2>3
<1> DEFINE r == [NewOrder(status, v, q, NoOrder) EXCEPT !.oversold = n]
<1>4. /\ r.status = status /\ r.variant = v /\ r.quantity = q /\ r.restocked = 0
      /\ r.damaged = 0 /\ r.oversold = n
  BY DEF NewOrder, Absent
<1> HIDE DEF r
<1>5. order'[o] = r /\ \A a \in Orders : a # o => order'[a] = order[a] BY <1>3 DEF Inv, r
<1>6. status # "ABSENT" BY OutsideStatuses DEF Statuses
<1>7. \A a \in Orders : a # o => SameCounts(order[a], order'[a]) BY <1>5 DEF SameCounts
<1>8. -q \in Int /\ 0 \in Int BY <1>1
<1>9. Moves(v, -q, 0) BY <1>2, <1>8, MovesOf
<1>10. order'[o].oversold >= q \/ stock[v] - q + order'[o].oversold >= 0
  BY <1>3, <1>4, <1>5
<1>11. QED BY <1>1, <1>2, <1>4, <1>5, <1>6, <1>7, <1>9, <1>10, EntryExplained

\* The replacement takes its units; the exchanged line keeps what it holds.
LEMMA ExchangeExplained ==
  ASSUME Inv, Inv', StockInv, NEW o \in Orders, NEW p \in Orders, NEW v \in Variants,
         ApproveExchange(o, p, v)
  PROVE  StockInv'
<1> DEFINE r == order[o]
           s == [r EXCEPT !.returned = r.returned + r.quantity, !.request = "NONE"]
           q == r.quantity
           new == NewOrder("CONFIRMED", v, q, o)
<1>1. Present(o) /\ order[p].status = "ABSENT" BY DEF ApproveExchange
<1>2. r \in OrderRows /\ r.status # "ABSENT" /\ q \in Nat BY <1>1, LiveRow
<1>3. /\ order' = [order EXCEPT ![o] = s, ![p] = new] /\ OrderMoves(v, -q) /\ stock[v] - q >= 0
  BY DEF ApproveExchange, Available
<1>4. SameLineUnits(r, s) /\ s.restocked = r.restocked /\ s.status = r.status
  BY <1>2 DEF OrderRows, SameLineUnits
<1>5. /\ new.status = "CONFIRMED" /\ new.variant = v /\ new.quantity = q /\ new.restocked = 0
      /\ new.damaged = 0 /\ new.oversold = 0
  BY DEF NewOrder, Absent
<1> HIDE DEF s, new
<1>6. /\ o # p /\ order'[o] = s /\ order'[p] = new
      /\ \A a \in Orders : a # o /\ a # p => order'[a] = order[a]
  BY <1>1, <1>2, <1>3 DEF Inv
<1>7. \A a \in Orders : a # p => SameCounts(order[a], order'[a])
  BY <1>4, <1>6 DEF SameLineUnits, SameCounts, Held, Unchecked
<1>8. \A a \in Orders : a # p /\ order'[a].status = "ABSENT" => order'[a] = order[a]
  BY <1>2, <1>4, <1>6
<1> HIDE DEF q
<1>9. -q \in Int /\ 0 \in Int BY <1>2
<1>10. Moves(v, -q, 0) BY <1>3, <1>9, MovesOf
<1>11. stock[v] - q + order'[p].oversold >= 0
  <2>1. stock[v] \in Int BY DEF Inv, StockInts
  <2>2. QED BY <1>2, <1>3, <1>5, <1>6, <2>1
<1>12. QED BY <1>1, <1>2, <1>5, <1>6, <1>7, <1>8, <1>10, <1>11, EntryExplained

\* An adjustment is guarded and a declared count is no debt.
LEMMA AdjustingExplained ==
  ASSUME Inv, StockInv, Adjusting
  PROVE  StockInv'
<1>0. 0 \in Int /\ MaxStock \in Nat BY QuantityAssumption
<1>1. ASSUME NEW v \in Variants, NEW delta \in -MaxStock..MaxStock, AdjustStock(v, delta)
      PROVE  StockInv'
  <2>1. delta \in Int /\ stock[v] \in Int BY <1>0 DEF Inv, StockInts
  <2>2. order' = order /\ BothMove(v, 0, delta) /\ stock[v] - (-delta) >= 0
    BY <1>1 DEF AdjustStock, Available
  <2>3. stock[v] + delta >= 0 BY <2>1, <2>2
  <2>4. Moves(v, 0, delta) BY <1>0, <2>1, <2>2, MovesOf
  <2>5. QED BY <2>1, <2>2, <2>3, <2>4, OutsideExplained
<1>2. ASSUME NEW v \in Variants, NEW counted \in 0..MaxStock, DeclareCount(v, counted)
      PROVE  StockInv'
  <2> DEFINE delta == counted - stock[v]
  <2>1. delta \in Int /\ stock[v] + delta >= 0 BY <1>0 DEF Inv, StockInts
  <2>2. order' = order /\ BothMove(v, 0, delta) BY <1>2 DEF DeclareCount
  <2> HIDE DEF delta
  <2>3. Moves(v, 0, delta) BY <1>0, <2>1, <2>2, MovesOf
  <2>4. QED BY <2>1, <2>2, <2>3, OutsideExplained
<1>3. QED BY <1>1, <1>2 DEF Adjusting

LEMMA StutterExplained ==
  ASSUME StockInv, order' = order, stock' = stock, ledger' = ledger
  PROVE  StockInv'
BY DEF StockInv, AbsentHolds, Explained, HeldBy, UncheckedBy, Held, Unchecked, Units, Total

LEMMA StepExplained == Inv /\ StockInv /\ [Next]_vars => StockInv'
<1> SUFFICES ASSUME Inv, StockInv, [Next]_vars PROVE StockInv' OBVIOUS
<1>0. Inv' /\ Placeable \subseteq Orders BY StepKeeps, OrdersAssumption
<1>1. 0..MaxQuantity \subseteq Nat /\ 0 \in Nat BY QuantityAssumption
<1>2. CASE Placing
  <2>1. ASSUME NEW o \in Placeable, NEW v \in Variants, NEW q \in Quantities,
               \/ \E status \in {"PENDING", "CONFIRMED"} \cap PreShipment : PlaceOrder(o, v, q, status)
               \/ SettlePaidOrder(o, v, q)
        PROVE  StockInv'
    BY <1>0, <2>1, PlacedExplained
  <2>2. ASSUME NEW o \in Orders, BeginPurge(o) PROVE StockInv'
    BY <2>2, StutterExplained DEF BeginPurge
  <2>3. ASSUME NEW o \in Orders,
               \/ \E q \in Quantities : ModifyOrder(o, q)
               \/ TrashOrder(o) \/ RestoreOrder(o) \/ FinishPurge(o)
        PROVE  StockInv'
    BY <1>0, <2>3, ModifyExplained, TrashExplained, RestoreExplained, PurgeExplained
  <2>4. QED BY <1>2, <2>1, <2>2, <2>3 DEF Placing
<1>3. CASE Moving
  <2>1. ASSUME NEW o \in Orders, NEW to \in Statuses, ChangeStatus(o, to) PROVE StockInv'
    BY <1>0, <2>1, ChangeStatusExplained
  <2>2. ASSUME NEW o \in Orders, NEW n \in 0..MaxQuantity, Reconcile(o, n) \/ RecordItemReturn(o, n)
        PROVE  StockInv'
    BY <1>0, <1>1, <2>2, DecisionsExplained
  <2>3. ASSUME NEW o \in Orders,
               \/ RefundRecorded(o) \/ RejectRequest(o) \/ ApproveReturn(o)
               \/ \E type \in {"RETURN", "EXCHANGE"} : RequestReturn(o, type)
        PROVE  StockInv'
    BY <1>0, <1>1, <2>3, DecisionsExplained
  <2>4. ASSUME NEW o \in Orders, NEW p \in Orders, NEW v \in Variants, ApproveExchange(o, p, v)
        PROVE  StockInv'
    BY <1>0, <2>4, ExchangeExplained
  <2>5. QED BY <1>3, <2>1, <2>2, <2>3, <2>4 DEF Moving
<1>4. CASE Receiving
  <2>1. ASSUME NEW o \in Orders, NEW n \in 0..MaxQuantity,
               NEW damaged \in 0..MaxQuantity, NEW lost \in 0..MaxQuantity,
               ReceiveParcel(o, n, damaged, lost)
        PROVE  StockInv'
    BY <1>0, <1>1, <2>1, ReceiveExplained
  <2>2. ASSUME NEW o \in Orders, NEW n \in 0..MaxQuantity,
               NEW damaged \in 0..MaxQuantity, NEW kept \in 0..MaxQuantity,
               ScanParcel(o, kept, n, damaged)
        PROVE  StockInv'
    BY <1>0, <1>1, <2>2, ScanExplained
  <2>3. ASSUME NEW o \in Orders, NEW n \in 0..MaxQuantity,
               \/ CorrectToDamaged(o, n) \/ CorrectToGood(o, n)
               \/ \E from \in {"good", "damaged"} : CorrectToUnresolved(o, from, n)
        PROVE  StockInv'
    BY <1>0, <1>1, <2>3, CorrectedExplained
  <2>4. QED BY <1>4, <2>1, <2>2, <2>3 DEF Receiving
<1>5. CASE Adjusting BY <1>5, AdjustingExplained
<1>6. CASE UNCHANGED vars BY <1>6, StutterExplained DEF vars
<1>7. QED BY <1>2, <1>3, <1>4, <1>5, <1>6 DEF Next

LEMMA InitExplained == Init => StockInv
<1> SUFFICES ASSUME Init PROVE StockInv OBVIOUS
<1>1. \A o \in Orders : order[o] = Absent BY DEF Init
<1>2. AbsentHolds BY <1>1 DEF AbsentHolds
<1>3. ASSUME NEW v \in Variants PROVE Explained(v)
  <2>1. \A o \in Orders : HeldBy(v)[o] = 0 /\ UncheckedBy(v)[o] = 0
    BY <1>1 DEF HeldBy, UncheckedBy, Held, Unchecked, Absent
  <2>2. ASSUME NEW f, \A o \in Orders : f[o] = 0 PROVE Units(f) = {}
    <3>1. \A n \in 1..3 * MaxQuantity : ~(n <= 0) BY QuantityAssumption
    <3>2. QED BY <2>2, <3>1 DEF Units
  <2>3. Units(HeldBy(v)) = {} /\ Units(UncheckedBy(v)) = {} BY <2>1, <2>2
  <2>4. IsFiniteSet({}) /\ Cardinality({}) = 0 BY FS_EmptySet
  <2>5. stock[v] \in Nat /\ ledger[v] = stock[v] BY QuantityAssumption DEF Init
  <2>6. QED BY <2>3, <2>4, <2>5 DEF Explained, Total
<1>4. QED BY <1>2, <1>3 DEF StockInv

LEMMA AlwaysExplained == Spec => []StockInv
BY InitHolds, StepKeeps, InitExplained, StepExplained, PTL DEF Spec

-----------------------------------------------------------------------------
(***************************************************************************)
(* Theorems.                                                               *)
(***************************************************************************)

\* Every counter of a line stays between nothing and its bound through all
\* commands of order.service.ts, return-request.service.ts and the scanner;
\* only a present order is being deleted for good.
THEOREM TypeCorrect == Spec => []TypeOK
<1>1. Inv => TypeOK BY DEF Inv, StockInts, TypeOK
<1>2. QED BY <1>1, AlwaysInv, PTL

\* An order that may still ship holds every unit of its line, and one in Trash
\* none: deleteOrder, restoreOrder and applyPlan undo each other's movements.
THEOREM ReservationsKept == Spec => []ReservationsHold
<1>1. Inv => ReservationsHold
  BY DEF Inv, RowOK, StatusOK, ReservationsHold
<1>2. QED BY <1>1, AlwaysInv, PTL

\* No unit comes back twice, or before its return is decided
\* (INVENTORY_INVARIANTS INV-2), by whichever of cancellation, Trash, receipt,
\* scan or correction it comes.
THEOREM NothingComesBackTwice == Spec => []NothingBackUndecided
<1>1. Inv => NothingBackUndecided
  BY DEF Inv, RowOK, CountersOK, StatusOK, NothingBackUndecided
<1>2. QED BY <1>1, AlwaysInv, PTL

\* What the scanner's receipts count is on the shelf or written off: a
\* correction (correctParcelReceipt) never takes back more than was put in.
THEOREM ReceiptsStayInStock == Spec => []ReceiptsAreInStock
<1>1. Inv => ReceiptsAreInStock BY DEF Inv, RowOK, CountersOK, ReceiptsAreInStock
<1>2. QED BY <1>1, AlwaysInv, PTL

\* createExchangeOrder makes at most one replacement of a line, for units that
\* are all returned for it and for no money, whatever is decided later.
THEOREM ReplacedOnce == Spec => []OneReplacementPerLine
<1>1. Inv => OneReplacementPerLine BY DEF Inv, ReplacementOK, OneReplacementPerLine
<1>2. QED BY <1>1, AlwaysInv, PTL

\* A unit of a customer return that is waited for is waited for until it is
\* received or written off (inspectReturnedParcelInTx, receiveParcel).
THEOREM ReturnsStayAwaited == Spec => AwaitedUntilReceived
<1> DEFINE Kept ==
      \A o \in Orders :
        (/\ order[o].status \in CustomerReturn /\ order[o].restocked <= order[o].returned
         /\ order'[o].status # "PURGED") =>
          Outstanding(order'[o]) >= Outstanding(order[o]) - (order'[o].restocked - order[o].restocked)
<1>1. Inv /\ Inv' /\ StillAwaited => Kept
  <2>1. SUFFICES ASSUME Inv, Inv', StillAwaited, NEW o \in Orders,
                        Awaiting(order[o]), order'[o].status # "PURGED"
                 PROVE  Outstanding(order'[o])
                          >= Outstanding(order[o]) - (order'[o].restocked - order[o].restocked)
    BY DEF Awaiting
  <2> DEFINE r == order[o]
             s == order'[o]
  <2>2. Awaiting(s) /\ s.returned >= r.returned BY <2>1 DEF StillAwaited
  <2>3. r \in OrderRows /\ s \in OrderRows BY <2>1 DEF Inv
  <2> HIDE DEF r, s
  <2>4. r.restocked \in Nat /\ r.returned \in Nat /\ s.restocked \in Nat /\ s.returned \in Nat
    BY <2>3 DEF OrderRows
  <2>5. Awaiting(r) BY <2>1 DEF r
  <2>6. Outstanding(r) = r.returned - r.restocked /\ Outstanding(s) = s.returned - s.restocked
    BY <2>2, <2>4, <2>5 DEF Awaiting, Outstanding, Larger
  <2>7. Outstanding(s) >= Outstanding(r) - (s.restocked - r.restocked)
    BY <2>2, <2>4, <2>6
  <2>8. QED BY <2>7 DEF r, s
<1>2. Inv /\ [Next]_vars => [Kept]_vars
  <2>1. SUFFICES ASSUME Inv, [Next]_vars PROVE Kept \/ UNCHANGED vars OBVIOUS
  <2>2. Inv' /\ (StillAwaited \/ UNCHANGED order) BY <2>1, StepKeeps
  <2>3. CASE StillAwaited BY <1>1, <2>1, <2>2, <2>3
  <2>4. CASE UNCHANGED order
    <3>1. StillAwaited
      <4>1. \A o \in Orders : order[o].returned \in Nat BY <2>1 DEF Inv, OrderRows
      <4>2. QED BY <2>4, <4>1 DEF StillAwaited
    <3>2. QED BY <1>1, <2>1, <2>2, <3>1
  <2>5. QED BY <2>2, <2>3, <2>4
<1>3. QED BY <1>2, AlwaysInv, PTL DEF Spec, AwaitedUntilReceived

\* Every movement inventory.service.ts makes is of an order's units or of no
\* order: a variant's stock is its outside movements less what its orders still
\* hold, for any number of orders, through any sequence of commands.
THEOREM StockExplained == Spec => []StockIsExplained
<1>1. StockInv => StockIsExplained BY DEF StockInv, Explained, StockIsExplained
<1>2. QED BY <1>1, AlwaysExplained, PTL

\* Guarded decreases never take stock below zero: it is there only by units that
\* recordSale sold of a paid order without a look at the stock, and by received
\* units correctParcelReceipt wrote off after they were sold again.
THEOREM NegativeExplained == Spec => []NegativeIsExplained
<1>1. StockInv => NegativeIsExplained BY DEF StockInv, Explained, NegativeIsExplained
<1>2. QED BY <1>1, AlwaysExplained, PTL
=============================================================================
