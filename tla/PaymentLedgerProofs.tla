------------------------- MODULE PaymentLedgerProofs -------------------------
(***************************************************************************)
(* Theorems about PaymentLedger, for any number of rows and any amounts.   *)
(* The sums of the position are cardinalities of finite sets, so what a    *)
(* new, re-marked or completed row does to a sum follows from the theorems *)
(* about finite sets.                                                      *)
(***************************************************************************)
EXTENDS PaymentLedger, FiniteSetTheorems, TLAPS

-----------------------------------------------------------------------------
(* Sums of rows. *)

LEMMA SumIsNatural ==
  ASSUME NEW row, NEW S, IsFiniteSet(S)
  PROVE  IsFiniteSet(Units(row, S)) /\ Sum(row, S) \in Nat
<1>1. IsFiniteSet(1..MaxMoney)
  BY FS_Interval, MoneyAssumption
<1>2. IsFiniteSet(S \X (1..MaxMoney))
  BY <1>1, FS_Product
<1>3. Units(row, S) \in SUBSET (S \X (1..MaxMoney))
  BY DEF Units
<1>4. IsFiniteSet(Units(row, S))
  BY <1>2, <1>3, FS_Subset
<1>. QED
  BY <1>4, FS_CardinalityType DEF Sum

\* Rows that keep their amounts keep their sum.
LEMMA SumKept ==
  ASSUME NEW row, NEW other, NEW S, \A x \in S : other[x].amount = row[x].amount
  PROVE  Sum(other, S) = Sum(row, S)
<1>1. Units(other, S) = Units(row, S)
  BY DEF Units
<1>. QED
  BY <1>1 DEF Sum

\* One more row adds its amount.
LEMMA SumAdds ==
  ASSUME NEW row, NEW S, IsFiniteSet(S), NEW p, p \notin S, row[p].amount \in Money
  PROVE  Sum(row, S \cup {p}) = Sum(row, S) + row[p].amount
<1>. DEFINE a == row[p].amount
           U == {p} \X (1..a)
<1>0. a \in Nat /\ a <= MaxMoney
  BY MoneyAssumption DEF Money
<1>1. IsFiniteSet(1..a) /\ Cardinality(1..a) = a
  <2>1. IsFiniteSet(1..a) /\ Cardinality(1..a) = IF 1 > a THEN 0 ELSE a - 1 + 1
    BY SMTT(30), <1>0, FS_Interval
  <2>2. (IF 1 > a THEN 0 ELSE a - 1 + 1) = a
    BY <1>0
  <2>. QED
    BY <2>1, <2>2
<1>2. IsFiniteSet({p}) /\ Cardinality({p}) = 1
  BY FS_Singleton
<1>3. IsFiniteSet(U) /\ Cardinality(U) = 1 * a
  <2>1. IsFiniteSet(U) /\ Cardinality(U) = Cardinality({p}) * Cardinality(1..a)
    <3>. HIDE DEF a
    <3>. QED
      BY <1>1, <1>2, FS_Product
  <2>2. Cardinality({p}) * Cardinality(1..a) = 1 * a
    <3>. HIDE DEF a, U
    <3>. QED
      BY <1>1, <1>2
  <2>. QED
    BY <2>1, <2>2
<1>4. Cardinality(U) = a
  BY <1>0, <1>3
<1>5. Units(row, {p}) = U
  <2>1. ASSUME NEW n \in 1..MaxMoney PROVE n <= a <=> n \in 1..a
    BY <1>0, MoneyAssumption
  <2>2. \A n \in 1..a : n \in 1..MaxMoney
    BY <1>0, MoneyAssumption
  <2>. QED
    BY <2>1, <2>2 DEF Units
<1>6. Units(row, S \cup {p}) = Units(row, S) \cup Units(row, {p})
  BY DEF Units
<1>7. Units(row, S) \cap Units(row, {p}) = {}
  BY DEF Units
<1>8. IsFiniteSet(Units(row, S)) /\ Cardinality(Units(row, S)) \in Nat
  BY SumIsNatural DEF Sum
<1>9. Cardinality(Units(row, S) \cup U)
        = Cardinality(Units(row, S)) + Cardinality(U) - Cardinality(Units(row, S) \cap U)
  BY <1>3, <1>8, FS_Union
<1>10. Cardinality({}) = 0
  BY FS_EmptySet
<1>11. Cardinality(Units(row, S) \cap U) = 0
  BY <1>5, <1>7, <1>10
<1>12. Cardinality(Units(row, S \cup {p})) = Cardinality(Units(row, S) \cup U)
  BY <1>5, <1>6
<1>13. Cardinality(Units(row, S \cup {p})) = Cardinality(Units(row, S)) + a
  <2>. HIDE DEF U, a
  <2>. QED
    BY <1>0, <1>4, <1>8, <1>9, <1>11, <1>12
<1>. QED
  BY <1>13 DEF Sum

-----------------------------------------------------------------------------
(* What the rows written by a command do to the position. *)

LEMMA RowsAreFinite ==
  ASSUME NEW S \in SUBSET PaymentIds, NEW T \in SUBSET RefundIds
  PROVE  IsFiniteSet(S) /\ IsFiniteSet(T)
BY IdsAssumption, FS_Subset

LEMMA SumsAreNatural == Paid \in Nat /\ Refunded \in Nat /\ Pending \in Nat
<1>1. Settlements \in SUBSET PaymentIds
  BY DEF Settlements
<1>2. RefundsIn("COMPLETED") \in SUBSET RefundIds /\ RefundsIn("REQUESTED") \in SUBSET RefundIds
  BY DEF RefundsIn
<1>. QED
  BY <1>1, <1>2, RowsAreFinite, SumIsNatural DEF Paid, Refunded, Pending

LEMMA SumsAreNaturalNext == Paid' \in Nat /\ Refunded' \in Nat /\ Pending' \in Nat
<1>1. Settlements' \in SUBSET PaymentIds
  BY DEF Settlements
<1>2. RefundsIn("COMPLETED")' \in SUBSET RefundIds /\ RefundsIn("REQUESTED")' \in SUBSET RefundIds
  BY DEF RefundsIn
<1>. QED
  BY <1>1, <1>2, RowsAreFinite, SumIsNatural DEF Paid, Refunded, Pending

LEMMA PaymentsKept ==
  ASSUME UNCHANGED payment
  PROVE  Paid' = Paid /\ Settlements' = Settlements /\ CourierCharges' = CourierCharges
BY DEF Paid, Settlements, CourierCharges, Sum, Units

LEMMA RefundsKept ==
  ASSUME UNCHANGED refund
  PROVE  Refunded' = Refunded /\ Pending' = Pending
BY DEF Refunded, Pending, RefundsIn, Sum, Units

\* Settlements that gain the one row p, which the others do not change with.
LEMMA PaidGrows ==
  ASSUME NEW p \in PaymentIds, p \notin Settlements, payment'[p].amount \in Money,
         Settlements' = Settlements \cup {p},
         \A q \in Settlements : payment'[q].amount = payment[q].amount
  PROVE  Paid' = Paid + payment'[p].amount
<1>1. Settlements \in SUBSET PaymentIds
  BY DEF Settlements
<1>2. IsFiniteSet(Settlements)
  BY <1>1, RowsAreFinite
<1>3. Sum(payment', Settlements \cup {p}) = Sum(payment', Settlements) + payment'[p].amount
  BY <1>2, SumAdds
<1>4. Sum(payment', Settlements) = Sum(payment, Settlements)
  BY SumKept
<1>5. Paid' = Sum(payment', Settlements')
  BY DEF Paid, Sum, Units
<1>. QED
  BY <1>3, <1>4, <1>5 DEF Paid

\* Settlements that lose the one row p.
LEMMA PaidShrinks ==
  ASSUME NEW p \in Settlements, payment[p].amount \in Money,
         Settlements' = Settlements \ {p},
         \A q \in Settlements : payment'[q].amount = payment[q].amount
  PROVE  Paid = Paid' + payment[p].amount
<1>. DEFINE S == Settlements \ {p}
<1>1. Settlements \in SUBSET PaymentIds /\ S \in SUBSET PaymentIds
  BY DEF Settlements
<1>2. IsFiniteSet(S)
  BY <1>1, RowsAreFinite
<1>3. Sum(payment, S \cup {p}) = Sum(payment, S) + payment[p].amount
  BY <1>2, SumAdds
<1>4. Sum(payment', S) = Sum(payment, S)
  BY SumKept
<1>5. Paid' = Sum(payment', Settlements')
  BY DEF Paid, Sum, Units
<1>6. S \cup {p} = Settlements
  OBVIOUS
<1>7. Paid = Sum(payment, S \cup {p})
  BY <1>6 DEF Paid
<1>. QED
  BY <1>3, <1>4, <1>5, <1>7

LEMMA SettlementWritten ==
  ASSUME TypeOK, NEW p \in PaymentIds, NEW amount \in Money,
         NEW provider \in {"GATEWAY", "COD", "MANUAL"},
         Write(p, Row(provider, "ORDER", amount))
  PROVE  /\ Paid' = Paid + amount
         /\ Settlements' # {}
         /\ payment' \in [PaymentIds -> PaymentRows]
         /\ CourierCharges' = CourierCharges
         /\ \A q \in CourierCharges : payment'[q] = payment[q]
<1>. payment \in [PaymentIds -> PaymentRows]
  BY DEF TypeOK
<1>. ~Present(p) /\ payment' = [payment EXCEPT ![p] = Row(provider, "ORDER", amount)]
  BY DEF Write
<1>0. Row(provider, "ORDER", amount) \in PaymentRows
  BY DEF Row, PaymentRows
<1>1. payment' \in [PaymentIds -> PaymentRows]
  BY <1>0
<1>2. payment'[p] = Row(provider, "ORDER", amount)
  OBVIOUS
<1>3. \A q \in PaymentIds : q # p => payment'[q] = payment[q]
  OBVIOUS
<1>4. p \notin Settlements /\ p \notin CourierCharges
  BY DEF Settlements, CourierCharges, Present
<1>5. Settlements' = Settlements \cup {p}
  BY <1>2, <1>3, <1>4 DEF Settlements, Row
<1>6. CourierCharges' = CourierCharges
  BY <1>2, <1>3, <1>4 DEF CourierCharges, Row
<1>7. payment'[p].amount = amount
  BY <1>2 DEF Row
<1>8. Paid' = Paid + amount
  BY <1>3, <1>4, <1>5, <1>7, PaidGrows DEF Settlements
<1>. QED
  BY <1>1, <1>3, <1>4, <1>5, <1>6, <1>8 DEF CourierCharges

LEMMA ChargeWritten ==
  ASSUME TypeOK, NEW p \in PaymentIds, NEW amount \in Money,
         NEW provider \in {"COD", "MANUAL"},
         Write(p, Row(provider, "RETURN_CHARGE", amount))
  PROVE  /\ Paid' = Paid /\ Settlements' = Settlements
         /\ payment' \in [PaymentIds -> PaymentRows]
         /\ CourierCharges' = IF provider = "COD" THEN CourierCharges \cup {p} ELSE CourierCharges
         /\ \A q \in CourierCharges : payment'[q] = payment[q]
<1>. payment \in [PaymentIds -> PaymentRows]
  BY DEF TypeOK
<1>. ~Present(p) /\ payment' = [payment EXCEPT ![p] = Row(provider, "RETURN_CHARGE", amount)]
  BY DEF Write
<1>0. Row(provider, "RETURN_CHARGE", amount) \in PaymentRows
  BY DEF Row, PaymentRows
<1>1. payment' \in [PaymentIds -> PaymentRows]
  BY <1>0
<1>2. payment'[p] = Row(provider, "RETURN_CHARGE", amount)
  OBVIOUS
<1>3. \A q \in PaymentIds : q # p => payment'[q] = payment[q]
  OBVIOUS
<1>4. p \notin Settlements /\ p \notin CourierCharges
  BY DEF Settlements, CourierCharges, Present
<1>5. Settlements' = Settlements
  BY <1>2, <1>3, <1>4 DEF Settlements, Row
<1>6. CourierCharges' = IF provider = "COD" THEN CourierCharges \cup {p} ELSE CourierCharges
  BY <1>2, <1>3, <1>4 DEF CourierCharges, Row
<1>7. Sum(payment', Settlements) = Sum(payment, Settlements)
  <2>1. \A q \in Settlements : payment'[q].amount = payment[q].amount
    BY <1>3, <1>4 DEF Settlements
  <2>2. Units(payment', Settlements) = Units(payment, Settlements)
    BY <2>1 DEF Units
  <2>. QED
    BY <2>2 DEF Sum
<1>8. Paid' = Sum(payment', Settlements')
  BY DEF Paid, Sum, Units
<1>9. Paid' = Paid
  BY <1>5, <1>7, <1>8 DEF Paid
<1>. QED
  BY <1>1, <1>3, <1>4, <1>5, <1>6, <1>9 DEF CourierCharges

LEMMA PaymentRemarked ==
  ASSUME TypeOK, NEW p \in PaymentIds, payment[p].provider \in {"COD", "MANUAL"},
         NEW purpose \in {"ORDER", "RETURN_CHARGE"}, payment[p].purpose # purpose,
         payment' = [payment EXCEPT ![p].purpose = purpose]
  PROVE  /\ Paid' = IF purpose = "ORDER" THEN Paid + payment[p].amount
                    ELSE Paid - payment[p].amount
         /\ payment[p].amount \in Money
         /\ payment' \in [PaymentIds -> PaymentRows]
         /\ CourierCharges' \subseteq IF purpose = "ORDER" THEN CourierCharges
                                      ELSE CourierCharges \cup {p}
         /\ payment[p].provider = "MANUAL" => CourierCharges' = CourierCharges
         /\ \A q \in PaymentIds : payment'[q].amount = payment[q].amount
<1>. payment \in [PaymentIds -> PaymentRows] /\ payment[p] \in PaymentRows
  BY DEF TypeOK
<1>0. [payment[p] EXCEPT !.purpose = purpose] \in PaymentRows
  BY DEF PaymentRows
<1>1. payment' \in [PaymentIds -> PaymentRows]
  BY <1>0
<1>2. /\ payment'[p].purpose = purpose
      /\ payment'[p].provider = payment[p].provider
      /\ payment'[p].amount = payment[p].amount
  BY DEF PaymentRows
<1>3. \A q \in PaymentIds : q # p => payment'[q] = payment[q]
  OBVIOUS
<1>4. payment[p].amount \in Money /\ payment[p].purpose \in {"ORDER", "RETURN_CHARGE"}
  BY DEF PaymentRows
<1>5. \A q \in PaymentIds : payment'[q].amount = payment[q].amount
  BY <1>2, <1>3
<1>6. CourierCharges' \subseteq IF purpose = "ORDER" THEN CourierCharges
                               ELSE CourierCharges \cup {p}
  BY <1>2, <1>3 DEF CourierCharges
<1>7. payment[p].provider = "MANUAL" => CourierCharges' = CourierCharges
  BY <1>2, <1>3 DEF CourierCharges
<1>8. CASE purpose = "ORDER"
  <2>1. p \notin Settlements
    BY <1>8 DEF Settlements
  <2>2. Settlements' = Settlements \cup {p}
    BY <1>2, <1>3, <1>8 DEF Settlements
  <2>3. \A q \in Settlements : payment'[q].amount = payment[q].amount
    BY <1>5 DEF Settlements
  <2>4. Paid' = Paid + payment'[p].amount
    BY <1>2, <1>4, <2>1, <2>2, <2>3, PaidGrows
  <2>. QED
    BY <1>1, <1>2, <1>4, <1>5, <1>6, <1>7, <1>8, <2>4
<1>9. CASE purpose = "RETURN_CHARGE"
  <2>1. p \in Settlements
    BY <1>4, <1>9 DEF Settlements
  <2>2. Settlements' = Settlements \ {p}
    BY <1>2, <1>3, <1>9 DEF Settlements
  <2>3. \A q \in Settlements : payment'[q].amount = payment[q].amount
    BY <1>5 DEF Settlements
  <2>4. Paid = Paid' + payment[p].amount
    BY <1>4, <2>1, <2>2, <2>3, PaidShrinks
  <2>5. Paid' = Paid - payment[p].amount
    BY <1>4, <2>4, SumsAreNatural, SumsAreNaturalNext, MoneyAssumption DEF Money
  <2>. QED
    BY <1>1, <1>4, <1>5, <1>6, <1>7, <1>9, <2>5
<1>. QED
  BY <1>8, <1>9

\* A refund row r takes a status and an amount: the sum of a status gains or
\* loses the row.
LEMMA RefundsGrow ==
  ASSUME NEW status, NEW r \in RefundIds, r \notin RefundsIn(status),
         refund'[r].status = status, refund'[r].amount \in Money,
         \A q \in RefundIds : q # r => refund'[q] = refund[q]
  PROVE  Sum(refund', RefundsIn(status)') = Sum(refund, RefundsIn(status)) + refund'[r].amount
<1>. DEFINE S == RefundsIn(status)
<1>1. S \in SUBSET RefundIds
  BY DEF RefundsIn
<1>2. IsFiniteSet(S)
  BY <1>1, RowsAreFinite
<1>3. RefundsIn(status)' = S \cup {r}
  BY DEF RefundsIn
<1>4. \A q \in S : refund'[q].amount = refund[q].amount
  BY <1>1
<1>5. Sum(refund', S) = Sum(refund, S)
  BY <1>4, SumKept
<1>6. Sum(refund', S \cup {r}) = Sum(refund', S) + refund'[r].amount
  BY <1>2, SumAdds
<1>. QED
  BY <1>3, <1>5, <1>6

LEMMA RefundsShrink ==
  ASSUME NEW status, NEW r \in RefundsIn(status),
         refund'[r].status # status, refund[r].amount \in Money,
         \A q \in RefundIds : q # r => refund'[q] = refund[q]
  PROVE  Sum(refund, RefundsIn(status)) = Sum(refund', RefundsIn(status)') + refund[r].amount
<1>. DEFINE S == RefundsIn(status) \ {r}
<1>1. S \in SUBSET RefundIds /\ r \in RefundIds
  BY DEF RefundsIn
<1>2. IsFiniteSet(S)
  BY <1>1, RowsAreFinite
<1>3. RefundsIn(status)' = S
  BY <1>1 DEF RefundsIn
<1>4. \A q \in S : refund'[q].amount = refund[q].amount
  BY <1>1
<1>5. Sum(refund', S) = Sum(refund, S)
  BY <1>4, SumKept
<1>6. Sum(refund, S \cup {r}) = Sum(refund, S) + refund[r].amount
  BY <1>2, SumAdds
<1>7. S \cup {r} = RefundsIn(status)
  OBVIOUS
<1>. QED
  BY <1>3, <1>5, <1>6, <1>7

LEMMA RefundsOfStatusKept ==
  ASSUME NEW status, NEW r \in RefundIds, refund[r].status # status, refund'[r].status # status,
         \A q \in RefundIds : q # r => refund'[q] = refund[q]
  PROVE  Sum(refund', RefundsIn(status)') = Sum(refund, RefundsIn(status))
<1>1. RefundsIn(status)' = RefundsIn(status)
  BY DEF RefundsIn
<1>2. \A q \in RefundsIn(status) : refund'[q].amount = refund[q].amount
  BY DEF RefundsIn
<1>. QED
  BY <1>1, <1>2, SumKept

LEMMA PrimedSums ==
  /\ Refunded' = Sum(refund', RefundsIn("COMPLETED")')
  /\ Pending' = Sum(refund', RefundsIn("REQUESTED")')
BY DEF Refunded, Pending, Sum, Units, RefundsIn

LEMMA RefundWritten ==
  ASSUME TypeOK, NEW r \in RefundIds, NEW amount \in Money, refund[r].status = "NONE",
         NEW status \in {"REQUESTED", "COMPLETED"},
         refund' = [refund EXCEPT ![r] = [status |-> status, amount |-> amount]]
  PROVE  /\ Refunded' = IF status = "COMPLETED" THEN Refunded + amount ELSE Refunded
         /\ Pending' = IF status = "REQUESTED" THEN Pending + amount ELSE Pending
         /\ refund' \in [RefundIds -> RefundRows]
<1>. refund \in [RefundIds -> RefundRows]
  BY DEF TypeOK
<1>0. [status |-> status, amount |-> amount] \in RefundRows
  BY DEF RefundRows
<1>1. refund' \in [RefundIds -> RefundRows]
  BY <1>0
<1>2. refund'[r].status = status /\ refund'[r].amount = amount
  OBVIOUS
<1>3. \A q \in RefundIds : q # r => refund'[q] = refund[q]
  OBVIOUS
<1>4. r \notin RefundsIn(status)
  BY DEF RefundsIn
<1>5. Sum(refund', RefundsIn(status)') = Sum(refund, RefundsIn(status)) + amount
  BY <1>2, <1>3, <1>4, RefundsGrow
<1>6. ASSUME NEW other \in {"REQUESTED", "COMPLETED"}, other # status
      PROVE  Sum(refund', RefundsIn(other)') = Sum(refund, RefundsIn(other))
  BY <1>2, <1>3, <1>6, RefundsOfStatusKept
<1>7. CASE status = "COMPLETED"
  BY <1>1, <1>5, <1>6, <1>7, PrimedSums DEF Refunded, Pending
<1>8. CASE status = "REQUESTED"
  BY <1>1, <1>5, <1>6, <1>8, PrimedSums DEF Refunded, Pending
<1>. QED
  BY <1>7, <1>8

LEMMA RequestWritten ==
  ASSUME TypeOK, NEW r \in RefundIds, NEW amount, Request(r, amount)
  PROVE  /\ amount \in Money /\ Refunded' = Refunded /\ Pending' = Pending + amount
         /\ refund' \in [RefundIds -> RefundRows]
<1>1. amount \in Money
  BY MoneyAssumption DEF Request, Money
<1>. QED
  BY <1>1, RefundWritten DEF Request

LEMMA RefundCompleted ==
  ASSUME TypeOK, NEW r \in RefundIds, refund[r].status = "REQUESTED",
         refund' = [refund EXCEPT ![r].status = "COMPLETED"]
  PROVE  /\ Refunded' = Refunded + refund[r].amount
         /\ Pending = Pending' + refund[r].amount
         /\ refund[r].amount \in Money
         /\ refund' \in [RefundIds -> RefundRows]
<1>. refund \in [RefundIds -> RefundRows] /\ refund[r] \in RefundRows
  BY DEF TypeOK
<1>0. [refund[r] EXCEPT !.status = "COMPLETED"] \in RefundRows
  BY DEF RefundRows
<1>1. refund' \in [RefundIds -> RefundRows]
  BY <1>0
<1>2. refund'[r].status = "COMPLETED" /\ refund'[r].amount = refund[r].amount
  BY DEF RefundRows
<1>3. \A q \in RefundIds : q # r => refund'[q] = refund[q]
  OBVIOUS
<1>4. refund[r].amount \in Money
  BY DEF RefundRows
<1>5. r \notin RefundsIn("COMPLETED") /\ r \in RefundsIn("REQUESTED")
  BY DEF RefundsIn
<1>6. Sum(refund', RefundsIn("COMPLETED")') = Sum(refund, RefundsIn("COMPLETED")) + refund[r].amount
  BY <1>2, <1>3, <1>4, <1>5, RefundsGrow
<1>7. Sum(refund, RefundsIn("REQUESTED")) = Sum(refund', RefundsIn("REQUESTED")') + refund[r].amount
  BY <1>2, <1>3, <1>4, <1>5, RefundsShrink
<1>. QED
  BY <1>1, <1>4, <1>6, <1>7, PrimedSums DEF Refunded, Pending

-----------------------------------------------------------------------------
(* The invariant. *)

\* What DeliveredCodIsSettled says, as sums.
Settled ==
  order.cod /\ order.status = "DELIVERED" =>
    Settlements # {} /\ EffectiveTotal(order) + credit.all <= Paid + credit.exchange

\* A stored REFUNDED is never out of date, though other values may be.
RefundedIsTrue == paymentStatus = "REFUNDED" => Refunded > 0 /\ Refunded >= Paid

Inv ==
  /\ TypeOK
  /\ NeverGivesBackMoreThanPaid
  /\ Settled
  /\ OneCourierCharge
  /\ RefundedIsTrue

LEMMA RefreshIsTrue ==
  ASSUME Refresh
  PROVE  RefundedIsTrue' /\ paymentStatus' \in PaymentStatuses
BY DEF Refresh, RefundedIsTrue, DerivedStatus, PaymentStatuses

LEMMA EffectiveTotals ==
  ASSUME NEW o \in OrderRows
  PROVE  EffectiveTotal(o) \in Money /\ o.total \in Money /\ o.returned \in Money
BY MoneyAssumption DEF OrderRows, Money, EffectiveTotal, Max0

LEMMA Credits ==
  ASSUME TypeOK
  PROVE  credit.all \in Nat /\ credit.exchange \in Nat
BY DEF TypeOK

\* What is owed back is held, and of a delivered order beyond its price.
LEMMA OwedIsHeld ==
  ASSUME TypeOK, NEW o \in OrderRows, NEW paid \in Nat,
         Refunded + Pending + credit.all <= paid
  PROVE  /\ RefundDue(o, paid) \in Nat
         /\ Refunded + Pending + credit.all + RefundDue(o, paid) <= paid
         /\ o.status \notin Closed /\ RefundDue(o, paid) > 0
              => EffectiveTotal(o) + credit.all + RefundDue(o, paid) <= paid
<1>1. EffectiveTotal(o) \in Nat
  BY EffectiveTotals, MoneyAssumption DEF Money
<1>2. /\ Refunded \in Nat /\ Pending \in Nat /\ credit.all \in Nat
  BY SumsAreNatural, Credits
<1>3. NetPaid(paid) = paid - Refunded - credit.all
  BY <1>2 DEF NetPaid, Max0
<1>4. /\ Overpaid(o, paid) \in Nat
      /\ Overpaid(o, paid) <= NetPaid(paid)
      /\ Overpaid(o, paid) > 0 => Overpaid(o, paid) + EffectiveTotal(o) = NetPaid(paid)
  BY <1>1, <1>2, <1>3 DEF Overpaid, Max0
<1>. DEFINE owed == IF o.status \in {"CANCELLED", "RETURNED"} THEN NetPaid(paid)
                    ELSE Overpaid(o, paid)
<1>5. owed \in Nat /\ owed <= NetPaid(paid)
  BY <1>2, <1>3, <1>4
<1>6. RefundDue(o, paid) = Max0(owed - Pending)
  BY DEF RefundDue
<1>7. o.status \notin Closed => owed = Overpaid(o, paid)
  BY DEF Closed
<1>. QED
  <2>. HIDE DEF owed
  <2>. QED
    BY <1>1, <1>2, <1>3, <1>4, <1>5, <1>6, <1>7 DEF Max0

LEMMA RefundableIsHeld ==
  ASSUME TypeOK, NeverGivesBackMoreThanPaid
  PROVE  Refundable \in Nat /\ Refunded + Pending + credit.all + Refundable = Paid
BY SumsAreNatural, Credits DEF Refundable, Max0, NeverGivesBackMoreThanPaid

LEMMA DueIsMoney ==
  ASSUME TypeOK, NeverGivesBackMoreThanPaid
  PROVE  /\ AmountDue(order, Paid) \in Money
         /\ order.status \notin Closed =>
              EffectiveTotal(order) + credit.all <= Paid + AmountDue(order, Paid)
<1>1. order \in OrderRows
  BY DEF TypeOK
<1>2. EffectiveTotal(order) \in Money
  BY <1>1, EffectiveTotals
<1>. QED
  BY <1>2, SumsAreNatural, Credits, MoneyAssumption
  DEF AmountDue, Max0, Money, NeverGivesBackMoreThanPaid

-----------------------------------------------------------------------------
(* What commands share. *)

Credit == [all : Nat, exchange : Nat]

LEMMA Issued ==
  ASSUME TypeOK, NEW amount \in Nat, Issue(amount)
  PROVE  /\ credit' \in Credit
         /\ credit'.all = credit.all + amount /\ credit'.exchange = credit.exchange
BY DEF TypeOK, Issue, Credit

\* A change's overpayment is given back out of what is held.
LEMMA ChangeSettled ==
  ASSUME TypeOK, NeverGivesBackMoreThanPaid, NEW o \in OrderRows, SettleChange(o)
  PROVE  /\ credit' \in Credit /\ refund' \in [RefundIds -> RefundRows]
         /\ Refunded' = Refunded /\ Refunded + Pending' + credit'.all <= Paid
<1>. DEFINE owed == RefundDue(o, Paid)
<1>1. /\ Refunded \in Nat /\ Pending \in Nat /\ Paid \in Nat /\ credit.all \in Nat
  BY SumsAreNatural, Credits
<1>2. owed \in Nat /\ Refunded + Pending + credit.all + owed <= Paid
  BY <1>1, OwedIsHeld DEF NeverGivesBackMoreThanPaid
<1>3. credit \in Credit /\ refund \in [RefundIds -> RefundRows]
  BY DEF TypeOK, Credit
<1>4. CASE UNCHANGED <<refund, credit>>
  BY <1>1, <1>3, <1>4, RefundsKept DEF NeverGivesBackMoreThanPaid
<1>5. CASE Issue(owed) /\ UNCHANGED refund
  BY <1>1, <1>2, <1>3, <1>5, RefundsKept, Issued
<1>6. ASSUME UNCHANGED credit, NEW r \in RefundIds, Request(r, owed)
      PROVE  /\ credit' \in Credit /\ refund' \in [RefundIds -> RefundRows]
             /\ Refunded' = Refunded /\ Refunded + Pending' + credit'.all <= Paid
  BY <1>1, <1>2, <1>3, <1>6, RequestWritten
<1>. QED
  BY <1>4, <1>5, <1>6 DEF SettleChange

-----------------------------------------------------------------------------
(* Steps that leave every row of money alone. *)

\* The order steps on to o: its money, and what was settled of it, stay.
LEMMA RowsAlone ==
  ASSUME Inv, UNCHANGED <<payment, refund, credit>>,
         order' \in OrderRows, attempt' \in [Attempts -> AttemptRows],
         \/ UNCHANGED paymentStatus
         \/ Refresh,
         order'.cod /\ order'.status = "DELIVERED" =>
           /\ order.cod /\ order.status = "DELIVERED"
           /\ EffectiveTotal(order') <= EffectiveTotal(order)
  PROVE  Inv'
<1>1. /\ Paid' = Paid /\ Settlements' = Settlements /\ CourierCharges' = CourierCharges
      /\ Refunded' = Refunded /\ Pending' = Pending
  BY PaymentsKept, RefundsKept
<1>2. paymentStatus' \in PaymentStatuses /\ RefundedIsTrue'
  <2>1. CASE UNCHANGED paymentStatus
    BY <1>1, <2>1 DEF Inv, TypeOK, RefundedIsTrue
  <2>2. CASE Refresh
    BY <2>2, RefreshIsTrue
  <2>. QED
    BY <2>1, <2>2
<1>3. TypeOK'
  BY <1>2 DEF Inv, TypeOK
<1>4. NeverGivesBackMoreThanPaid'
  BY <1>1 DEF Inv, NeverGivesBackMoreThanPaid
<1>5. OneCourierCharge'
  BY <1>1 DEF Inv, OneCourierCharge, CourierCharges
<1>6. EffectiveTotal(order)' = EffectiveTotal(order')
  BY DEF EffectiveTotal
<1>7. EffectiveTotal(order) \in Int /\ EffectiveTotal(order') \in Int
  BY EffectiveTotals, MoneyAssumption DEF Inv, TypeOK, Money
<1>8. Settled'
  BY <1>1, <1>6, <1>7, SumsAreNatural, Credits DEF Inv, Settled
<1>. QED
  BY <1>2, <1>3, <1>4, <1>5, <1>8 DEF Inv

\* The step writes no row of money and keeps what the price is made of.
LEMMA OrderAlone ==
  ASSUME Inv, UNCHANGED <<payment, refund, credit, attempt>>,
         order' \in OrderRows, UNCHANGED paymentStatus \/ Refresh,
         order'.status = "DELIVERED" => order.status = "DELIVERED",
         order'.cod = order.cod, order'.total = order.total, order'.returned >= order.returned
  PROVE  Inv'
<1>1. EffectiveTotal(order') <= EffectiveTotal(order)
  <2>1. /\ order.total \in Money /\ order.returned \in Money
        /\ order'.total \in Money /\ order'.returned \in Money
    BY EffectiveTotals DEF Inv, TypeOK
  <2>. QED
    BY <2>1, MoneyAssumption DEF EffectiveTotal, Max0, Money
<1>2. attempt' \in [Attempts -> AttemptRows]
  BY DEF Inv, TypeOK
<1>. QED
  BY <1>1, <1>2, RowsAlone

LEMMA StepsWithoutMoney ==
  ASSUME Inv
  PROVE  /\ RecordFailedAttempt => Inv'
         /\ (\E to \in Statuses : ChangeStatus(to)) => Inv'
         /\ TrashOrRestore => Inv'
         /\ BookOrUnlink => Inv'
         /\ (\E amount \in Amounts : CourierReports(amount)) => Inv'
         /\ (\E value \in Money, all \in BOOLEAN : Reconcile(value, all)) => Inv'
         /\ RepairProjection => Inv'
<1>0. order \in OrderRows
  BY DEF Inv, TypeOK
<1>. DEFINE Kept == /\ order'.status = "DELIVERED" => order.status = "DELIVERED"
                    /\ order'.cod = order.cod /\ order'.total = order.total
                    /\ order'.returned >= order.returned
<1>1. ASSUME RecordFailedAttempt PROVE Inv'
  <2>1. order' \in OrderRows
    BY <1>0, <1>1 DEF RecordFailedAttempt, OrderRows
  <2>2. Kept
    BY <1>0, <1>1, MoneyAssumption DEF RecordFailedAttempt, OrderRows, Money
  <2>. QED
    BY <1>1, <2>1, <2>2, OrderAlone DEF RecordFailedAttempt
<1>2. ASSUME NEW to \in Statuses, ChangeStatus(to) PROVE Inv'
  <2>1. order' \in OrderRows /\ Kept
    BY <1>0, <1>2, MoneyAssumption DEF ChangeStatus, MoveOn, OrderRows, Money
  <2>. QED
    BY <1>2, <2>1, OrderAlone DEF ChangeStatus
<1>3. ASSUME TrashOrRestore PROVE Inv'
  <2>1. order' \in OrderRows
    BY <1>0, <1>3 DEF TrashOrRestore, OrderRows
  <2>2. Kept
    BY <1>0, <1>3, MoneyAssumption DEF TrashOrRestore, OrderRows, Money
  <2>. QED
    BY <1>3, <2>1, <2>2, OrderAlone DEF TrashOrRestore
<1>4. ASSUME BookOrUnlink PROVE Inv'
  <2>1. order' \in OrderRows
    BY <1>0, <1>4 DEF BookOrUnlink, OrderRows
  <2>2. Kept
    BY <1>0, <1>4, MoneyAssumption DEF BookOrUnlink, OrderRows, Money
  <2>. QED
    BY <1>4, <2>1, <2>2, OrderAlone DEF BookOrUnlink
<1>5. ASSUME NEW amount \in Amounts, CourierReports(amount) PROVE Inv'
  <2>1. order' \in OrderRows /\ Kept
    BY <1>0, <1>5, MoneyAssumption DEF CourierReports, OrderRows, Money, Amounts
  <2>. QED
    BY <1>5, <2>1, OrderAlone DEF CourierReports
<1>6. ASSUME NEW value \in Money, NEW all \in BOOLEAN, Reconcile(value, all) PROVE Inv'
  <2>. DEFINE returned == IF order.customer THEN order.returned + value ELSE order.returned
              decided == IF all THEN "NOTHING_KEPT" ELSE "KEPT"
  <2>1. returned \in Money /\ returned >= order.returned
    BY <1>0, <1>6, MoneyAssumption DEF Reconcile, OrderRows, Money
  <2>2. order' = [order EXCEPT !.decided = decided, !.returned = returned]
    BY <1>6 DEF Reconcile
  <2>3. order' \in OrderRows
    <3>. HIDE DEF returned
    <3>. QED
      BY <1>0, <2>1, <2>2 DEF OrderRows
  <2>4. Kept
    <3>. HIDE DEF returned
    <3>. QED
      BY <1>0, <2>1, <2>2 DEF OrderRows
  <2>. QED
    BY <1>6, <2>3, <2>4, OrderAlone DEF Reconcile
<1>7. ASSUME RepairProjection PROVE Inv'
  <2>1. order' \in OrderRows /\ Kept
    BY <1>0, <1>7, MoneyAssumption DEF RepairProjection, OrderRows, Money
  <2>. QED
    BY <1>7, <2>1, OrderAlone DEF RepairProjection
<1>. QED
  BY <1>1, <1>2, <1>3, <1>4, <1>5, <1>6, <1>7

LEMMA EndedRows ==
  ASSUME attempt \in [Attempts -> AttemptRows], NEW s \in Attempts
  PROVE  Ended(s) \in AttemptRows /\ Outdated(s) \in AttemptRows
<1>0. 0 \in Money
  BY MoneyAssumption DEF Money
<1>1. [attempt[s] EXCEPT !.change = "ENDED", !.total = 0, !.current = FALSE] \in AttemptRows
  BY <1>0 DEF AttemptRows
<1>2. [attempt[s] EXCEPT !.current = FALSE] \in AttemptRows
  BY DEF AttemptRows
<1>. QED
  BY <1>1, <1>2 DEF Ended, Outdated

LEMMA StepsOfAttempts ==
  ASSUME Inv, NEW s \in Attempts
  PROVE  /\ AskForBalance(s) => Inv'
         /\ ExpireChange(s) => Inv'
         /\ \A total \in Money : AwaitPayment(s, total) => Inv'
<1>0. order \in OrderRows /\ attempt \in [Attempts -> AttemptRows]
  BY DEF Inv, TypeOK
<1>. DEFINE Alone == UNCHANGED <<order, payment, refund, credit, paymentStatus>>
<1>1. ASSUME Alone, attempt' \in [Attempts -> AttemptRows] PROVE Inv'
  <2>1. EffectiveTotal(order') <= EffectiveTotal(order)
    BY <1>0, <1>1, EffectiveTotals, MoneyAssumption DEF Money
  <2>. QED
    BY <1>0, <1>1, <2>1, RowsAlone
<1>2. NoAttempt \in AttemptRows
  BY MoneyAssumption DEF NoAttempt, AttemptRows, Money
<1>3. ASSUME AskForBalance(s) PROVE Inv'
  <2>1. AmountDue(order, Paid) \in Money
    BY DueIsMoney DEF Inv
  <2>2. [NoAttempt EXCEPT !.state = "ASKED", !.amount = AmountDue(order, Paid)] \in AttemptRows
    BY <1>2, <2>1 DEF AttemptRows
  <2>. QED
    BY <1>0, <1>1, <1>3, <2>2 DEF AskForBalance
<1>4. ASSUME ExpireChange(s) PROVE Inv'
  <2>1. [attempt[s] EXCEPT !.change = "EXPIRED"] \in AttemptRows
    BY <1>0 DEF AttemptRows
  <2>. QED
    BY <1>0, <1>1, <1>4, <2>1 DEF ExpireChange
<1>5. ASSUME NEW total \in Money, AwaitPayment(s, total) PROVE Inv'
  <2>. DEFINE difference == Max0(total - NetPaid(Paid))
  <2>1. NetPaid(Paid) \in Nat
    BY SumsAreNatural, Credits DEF NetPaid, Max0, Inv
  <2>2. difference \in Money
    BY <2>1, MoneyAssumption DEF Max0, Money
  <2>3. [state |-> "ASKED", amount |-> difference, change |-> "AWAITING",
         total |-> total, current |-> TRUE] \in AttemptRows
    BY <2>2 DEF AttemptRows
  <2>4. \A q \in Attempts : Ended(q) \in AttemptRows
    BY <1>0, EndedRows
  <2>5. attempt' \in [Attempts -> AttemptRows]
    BY <1>5, <2>3, <2>4 DEF AwaitPayment
  <2>. QED
    BY <1>1, <1>5, <2>5 DEF AwaitPayment
<1>. QED
  BY <1>3, <1>4, <1>5

-----------------------------------------------------------------------------
(* Steps that write a payment. *)

\* A settlement is written and the stored status refreshed; what is given back
\* in the same step stays within what was paid.
LEMMA AfterSettlement ==
  ASSUME Inv, NEW p \in PaymentIds, NEW amount \in Money,
         NEW provider \in {"GATEWAY", "COD", "MANUAL"},
         Write(p, Row(provider, "ORDER", amount)), Refresh,
         order' \in OrderRows, refund' \in [RefundIds -> RefundRows], credit' \in Credit,
         attempt' \in [Attempts -> AttemptRows],
         Refunded' + Pending' + credit'.all <= Paid + amount,
         order'.cod /\ order'.status = "DELIVERED" =>
           EffectiveTotal(order') + credit'.all <= Paid + amount + credit'.exchange
  PROVE  Inv'
<1>1. TypeOK
  BY DEF Inv
<1>2. /\ Paid' = Paid + amount /\ Settlements' # {}
      /\ payment' \in [PaymentIds -> PaymentRows]
      /\ CourierCharges' = CourierCharges
      /\ \A q \in CourierCharges : payment'[q] = payment[q]
  BY <1>1, SettlementWritten
<1>3. paymentStatus' \in PaymentStatuses /\ RefundedIsTrue'
  BY RefreshIsTrue
<1>4. TypeOK'
  BY <1>2, <1>3 DEF TypeOK, Credit
<1>5. NeverGivesBackMoreThanPaid'
  BY <1>2 DEF NeverGivesBackMoreThanPaid
<1>6. Settled'
  BY <1>2 DEF Settled, EffectiveTotal
<1>7. OneCourierCharge'
  BY <1>2 DEF Inv, OneCourierCharge
<1>. QED
  BY <1>3, <1>4, <1>5, <1>6, <1>7 DEF Inv

\* The same with nothing else given back and the price as it was.
LEMMA AfterPlainSettlement ==
  ASSUME Inv, NEW p \in PaymentIds, NEW amount \in Money,
         NEW provider \in {"GATEWAY", "COD", "MANUAL"},
         Write(p, Row(provider, "ORDER", amount)), Refresh,
         UNCHANGED <<order, refund, credit>>,
         attempt' \in [Attempts -> AttemptRows]
  PROVE  Inv'
<1>1. /\ order \in OrderRows /\ credit \in Credit /\ refund \in [RefundIds -> RefundRows]
  BY DEF Inv, TypeOK, Credit
<1>2. Refunded' = Refunded /\ Pending' = Pending
  BY RefundsKept
<1>3. /\ Refunded \in Nat /\ Pending \in Nat /\ Paid \in Nat
      /\ credit.all \in Nat /\ credit.exchange \in Nat /\ amount \in Nat
  BY SumsAreNatural, Credits, MoneyAssumption DEF Inv, Money
<1>4. EffectiveTotal(order) \in Nat
  BY <1>1, EffectiveTotals, MoneyAssumption DEF Money
<1>5. Refunded' + Pending' + credit'.all <= Paid + amount
  BY <1>2, <1>3 DEF Inv, NeverGivesBackMoreThanPaid
<1>6. order'.cod /\ order'.status = "DELIVERED" =>
        EffectiveTotal(order') + credit'.all <= Paid + amount + credit'.exchange
  BY <1>3, <1>4 DEF Inv, Settled
<1>. QED
  BY <1>1, <1>5, <1>6, AfterSettlement

LEMMA OverRow ==
  ASSUME NEW state \in {"SETTLED", "BOUNCED"}
  PROVE  Over(state) \in AttemptRows
<1>1. NoAttempt \in AttemptRows
  BY MoneyAssumption DEF NoAttempt, AttemptRows, Money
<1>. QED
  BY <1>1 DEF Over, AttemptRows

LEMMA PlainSettlements ==
  ASSUME Inv, NEW p \in PaymentIds
  PROVE  /\ \A amount \in Amounts : RecordManualPayment(p, amount) => Inv'
         /\ \A s \in Attempts : SettleBalance(s, p) => Inv'
<1>0. attempt \in [Attempts -> AttemptRows]
  BY DEF Inv, TypeOK
<1>1. ASSUME NEW amount \in Amounts, RecordManualPayment(p, amount) PROVE Inv'
  <2>1. amount \in Money
    BY MoneyAssumption DEF Amounts, Money
  <2>2. Write(p, Row("MANUAL", "ORDER", amount)) \/ Write(p, Row("COD", "ORDER", amount))
    BY <1>1 DEF RecordManualPayment
  <2>3. UNCHANGED <<order, refund, credit, attempt>> /\ Refresh
    BY <1>1 DEF RecordManualPayment
  <2>. QED
    BY <1>0, <2>1, <2>2, <2>3, AfterPlainSettlement
<1>2. ASSUME NEW s \in Attempts, SettleBalance(s, p) PROVE Inv'
  <2>1. attempt[s].amount \in Money
    BY <1>0 DEF AttemptRows
  <2>2. attempt' \in [Attempts -> AttemptRows]
    BY <1>0, <1>2, OverRow DEF SettleBalance
  <2>. QED
    BY <1>2, <2>1, <2>2, AfterPlainSettlement DEF SettleBalance
<1>. QED
  BY <1>1, <1>2

LEMMA SettlementsOfChanges ==
  ASSUME Inv, NEW p \in PaymentIds, NEW s \in Attempts
  PROVE  /\ SettleApplied(s, p) => Inv'
         /\ SettleUnapplied(s, p) => Inv'
<1>0. /\ order \in OrderRows /\ attempt \in [Attempts -> AttemptRows]
      /\ credit \in Credit /\ refund \in [RefundIds -> RefundRows]
  BY DEF Inv, TypeOK, Credit
<1>1. /\ attempt[s].amount \in Money /\ attempt[s].amount \in Nat /\ attempt[s].total \in Money
  BY <1>0, MoneyAssumption DEF AttemptRows, Money
<1>2. /\ Refunded \in Nat /\ Pending \in Nat /\ Paid \in Nat
      /\ credit.all \in Nat /\ credit.exchange \in Nat
  BY SumsAreNatural, Credits DEF Inv
<1>3. TypeOK /\ NeverGivesBackMoreThanPaid
  BY DEF Inv
<1>4. ASSUME SettleApplied(s, p) PROVE Inv'
  <2>. DEFINE changed == [order EXCEPT !.total = attempt[s].total]
  <2>1. changed \in OrderRows /\ changed.status = order.status
    BY <1>0, <1>1 DEF OrderRows
  <2>2. order' = changed /\ SettleChange(changed) /\ order.status = "OPEN"
    BY <1>4 DEF SettleApplied, Applicable, Editable
  <2>3. /\ credit' \in Credit /\ refund' \in [RefundIds -> RefundRows]
        /\ Refunded' = Refunded /\ Refunded + Pending' + credit'.all <= Paid
    BY <1>3, <2>1, <2>2, ChangeSettled
  <2>4. Refunded' + Pending' + credit'.all <= Paid + attempt[s].amount
    BY <1>1, <1>2, <2>3, SumsAreNaturalNext DEF Credit
  <2>5. attempt' \in [Attempts -> AttemptRows]
    <3>1. \A q \in Attempts : Outdated(q) \in AttemptRows
      BY <1>0, EndedRows
    <3>2. attempt' = [q \in Attempts |-> IF q = s THEN Over("SETTLED") ELSE Outdated(q)]
      BY <1>4 DEF SettleApplied
    <3>. QED
      BY <3>1, <3>2, OverRow
  <2>6. order'.status # "DELIVERED"
    BY <2>1, <2>2
  <2>7. Write(p, Row("GATEWAY", "ORDER", attempt[s].amount)) /\ Refresh
    BY <1>4 DEF SettleApplied
  <2>. QED
    BY <1>1, <2>1, <2>2, <2>3, <2>4, <2>5, <2>6, <2>7, AfterSettlement
<1>5. ASSUME SettleUnapplied(s, p) PROVE Inv'
  <2>. DEFINE paid == Paid + attempt[s].amount
              owed == RefundDue(order, paid)
              credits == order.customer /\ Overpaid(order, paid) > 0
  <2>1. UNCHANGED <<order, refund>>
    BY <1>5 DEF SettleUnapplied
  <2>2. attempt' \in [Attempts -> AttemptRows]
    BY <1>0, <1>5, OverRow DEF SettleUnapplied
  <2>3. CASE UNCHANGED <<payment, credit, paymentStatus>>
    <3>1. EffectiveTotal(order') <= EffectiveTotal(order)
      BY <1>0, <2>1, EffectiveTotals, MoneyAssumption DEF Money
    <3>. QED
      BY <1>0, <2>1, <2>2, <2>3, <3>1, RowsAlone
  <2>4. CASE /\ Write(p, Row("GATEWAY", "ORDER", attempt[s].amount)) /\ Refresh
             /\ UNCHANGED credit
    BY <1>1, <2>1, <2>2, <2>4, AfterPlainSettlement
  <2>5. CASE /\ Write(p, Row("GATEWAY", "ORDER", attempt[s].amount)) /\ Refresh
             /\ Issue(owed) /\ owed # 0
    <3>1. paid \in Nat /\ Refunded + Pending + credit.all <= paid
      BY <1>1, <1>2, <1>3 DEF NeverGivesBackMoreThanPaid
    <3>2. /\ owed \in Nat /\ Refunded + Pending + credit.all + owed <= paid
          /\ order.status \notin Closed /\ owed > 0
               => EffectiveTotal(order) + credit.all + owed <= paid
      <4>. HIDE DEF paid
      <4>. QED
        BY <1>0, <1>3, <3>1, OwedIsHeld
    <3>3. /\ credit' \in Credit
          /\ credit'.all = credit.all + owed /\ credit'.exchange = credit.exchange
      BY <1>3, <2>5, <3>2, Issued
    <3>4. Refunded' = Refunded /\ Pending' = Pending
      BY <2>1, RefundsKept
    <3>. HIDE DEF owed
    <3>5. Refunded' + Pending' + credit'.all <= Paid + attempt[s].amount
      BY <1>2, <3>2, <3>3, <3>4
    <3>6. EffectiveTotal(order) \in Nat
      BY <1>0, EffectiveTotals, MoneyAssumption DEF Money
    <3>7. order'.cod /\ order'.status = "DELIVERED" =>
            EffectiveTotal(order') + credit'.all <= Paid + attempt[s].amount + credit'.exchange
      <4>1. order'.status = "DELIVERED" => order.status \notin Closed
        BY <2>1 DEF Closed
      <4>2. owed > 0
        BY <2>5, <3>2
      <4>. QED
        BY <1>1, <1>2, <2>1, <3>2, <3>3, <3>6, <4>1, <4>2
    <3>. QED
      BY <1>0, <1>1, <2>1, <2>2, <2>5, <3>3, <3>5, <3>7, AfterSettlement
  <2>. QED
    BY <1>5, <2>3, <2>4, <2>5 DEF SettleUnapplied
<1>. QED
  BY <1>4, <1>5

LEMMA Delivery ==
  ASSUME Inv, Deliver
  PROVE  Inv'
<1>0. /\ order \in OrderRows /\ attempt \in [Attempts -> AttemptRows]
      /\ credit \in Credit /\ refund \in [RefundIds -> RefundRows] /\ credit' = credit
  BY DEF Inv, TypeOK, Credit, Deliver
<1>1. order' \in OrderRows /\ order'.cod = order.cod /\ order.status \notin Closed
  BY <1>0 DEF Deliver, OrderRows, Statuses, Closed
<1>2. EffectiveTotal(order') = EffectiveTotal(order) /\ EffectiveTotal(order) \in Nat
  <2>1. EffectiveTotal(order') = EffectiveTotal(order)
    BY <1>0 DEF Deliver, OrderRows, EffectiveTotal
  <2>. QED
    BY <1>0, <2>1, EffectiveTotals, MoneyAssumption DEF Money
<1>3. /\ Refunded \in Nat /\ Pending \in Nat /\ Paid \in Nat
      /\ credit.all \in Nat /\ credit.exchange \in Nat
  BY SumsAreNatural, Credits DEF Inv
<1>4. /\ AmountDue(order, Paid) \in Money /\ AmountDue(order, Paid) \in Nat
      /\ EffectiveTotal(order) + credit.all <= Paid + AmountDue(order, Paid)
  BY <1>1, DueIsMoney, MoneyAssumption DEF Inv, Money
<1>5. Refunded' = Refunded /\ Pending' = Pending
  BY RefundsKept DEF Deliver
<1>6. CASE UNCHANGED <<payment, paymentStatus>> /\ (~order.cod \/ SettledInFull)
  <2>1. /\ Paid' = Paid /\ Settlements' = Settlements /\ CourierCharges' = CourierCharges
    BY <1>6, PaymentsKept
  <2>2. TypeOK'
    BY <1>0, <1>1, <1>6 DEF Inv, TypeOK, Deliver
  <2>3. NeverGivesBackMoreThanPaid' /\ RefundedIsTrue'
    BY <1>0, <1>5, <1>6, <2>1 DEF Inv, NeverGivesBackMoreThanPaid, RefundedIsTrue
  <2>4. OneCourierCharge'
    BY <1>6, <2>1 DEF Inv, OneCourierCharge
  <2>5. EffectiveTotal(order)' = EffectiveTotal(order')
    BY DEF EffectiveTotal
  <2>6. Settled'
    BY <1>0, <1>1, <1>2, <1>3, <1>4, <1>6, <2>1, <2>5 DEF Settled, SettledInFull
  <2>. QED
    BY <2>2, <2>3, <2>4, <2>6 DEF Inv
<1>7. ASSUME NEW p \in PaymentIds, Write(p, Row("COD", "ORDER", AmountDue(order, Paid))), Refresh
      PROVE  Inv'
  <2>1. Refunded' + Pending' + credit'.all <= Paid + AmountDue(order, Paid)
    BY <1>0, <1>3, <1>4, <1>5 DEF Inv, NeverGivesBackMoreThanPaid
  <2>2. EffectiveTotal(order') + credit'.all <= Paid + AmountDue(order, Paid) + credit'.exchange
    BY <1>0, <1>2, <1>3, <1>4
  <2>3. attempt' \in [Attempts -> AttemptRows] /\ refund' \in [RefundIds -> RefundRows]
    BY <1>0 DEF Deliver
  <2>. QED
    BY <1>0, <1>1, <1>4, <1>7, <2>1, <2>2, <2>3, AfterSettlement
<1>. QED
  BY <1>6, <1>7 DEF Deliver, CollectCod

-----------------------------------------------------------------------------
(* Steps that write or re-mark a return charge. *)

\* A charge is no settlement; a courier charge is the first one with money.
LEMMA AfterCharge ==
  ASSUME Inv, NEW p \in PaymentIds, NEW amount \in Money, NEW provider \in {"COD", "MANUAL"},
         Write(p, Row(provider, "RETURN_CHARGE", amount)), Refresh,
         UNCHANGED <<order, refund, credit, attempt>>,
         provider = "COD" => \A q \in CourierCharges : ~(payment[q].amount > 0)
  PROVE  Inv'
<1>1. TypeOK
  BY DEF Inv
<1>2. /\ Paid' = Paid /\ Settlements' = Settlements
      /\ payment' \in [PaymentIds -> PaymentRows]
      /\ CourierCharges' = IF provider = "COD" THEN CourierCharges \cup {p} ELSE CourierCharges
      /\ \A q \in CourierCharges : payment'[q] = payment[q]
  BY <1>1, ChargeWritten
<1>3. paymentStatus' \in PaymentStatuses /\ RefundedIsTrue'
  BY RefreshIsTrue
<1>4. TypeOK'
  BY <1>2, <1>3 DEF Inv, TypeOK
<1>5. Refunded' = Refunded /\ Pending' = Pending
  BY RefundsKept
<1>6. NeverGivesBackMoreThanPaid' /\ Settled'
  BY <1>2, <1>5 DEF Inv, NeverGivesBackMoreThanPaid, Settled, EffectiveTotal
<1>7. OneCourierCharge'
  BY <1>2 DEF Inv, OneCourierCharge
<1>. QED
  BY <1>3, <1>4, <1>6, <1>7 DEF Inv

LEMMA Charges ==
  ASSUME Inv, NEW p \in PaymentIds
  PROVE  /\ SettleCourierCollected(p) => Inv'
         /\ \A provider \in {"COD", "MANUAL"}, amount \in Amounts :
              RecordReturnCharge(p, provider, amount) => Inv'
<1>1. ASSUME SettleCourierCollected(p) PROVE Inv'
  <2>1. order.collected \in Money
    BY DEF Inv, TypeOK, OrderRows
  <2>2. \A q \in CourierCharges : ~(payment[q].amount > 0)
    BY <1>1 DEF SettleCourierCollected, CashOnRecord, CourierCharges
  <2>. QED
    BY <1>1, <2>1, <2>2, AfterCharge DEF SettleCourierCollected
<1>2. ASSUME NEW provider \in {"COD", "MANUAL"}, NEW amount \in Amounts,
             RecordReturnCharge(p, provider, amount)
      PROVE  Inv'
  <2>1. amount \in Money
    BY MoneyAssumption DEF Amounts, Money
  <2>. QED
    BY <1>2, <2>1, AfterCharge DEF RecordReturnCharge
<1>. QED
  BY <1>1, <1>2

LEMMA Remarks ==
  ASSUME Inv, NEW p \in PaymentIds, ReclassifyPayment(p)
  PROVE  Inv'
<1>1. TypeOK /\ payment[p].provider \in {"COD", "MANUAL"}
  BY DEF Inv, ReclassifyPayment
<1>2. UNCHANGED <<order, refund, credit, attempt>> /\ Refresh
  BY DEF ReclassifyPayment, Remark
<1>3. paymentStatus' \in PaymentStatuses /\ RefundedIsTrue'
  BY <1>2, RefreshIsTrue
<1>4. Refunded' = Refunded /\ Pending' = Pending
  BY <1>2, RefundsKept
<1>5. /\ Refunded \in Nat /\ Pending \in Nat /\ Paid \in Nat
      /\ credit.all \in Nat /\ credit.exchange \in Nat
  BY <1>1, SumsAreNatural, Credits
<1>6. EffectiveTotal(order)' = EffectiveTotal(order) /\ EffectiveTotal(order) \in Nat
  BY <1>1, <1>2, EffectiveTotals, MoneyAssumption DEF EffectiveTotal, TypeOK, Money
<1>7. CASE payment[p].purpose = "ORDER" /\ order.status \in RefusedParcel
           /\ (payment[p].provider = "COD" => CourierCharges = {})
           /\ payment[p].amount <= Refundable /\ Remark(p, "RETURN_CHARGE")
  <2>1. /\ Paid' = Paid - payment[p].amount /\ payment[p].amount \in Money
        /\ payment' \in [PaymentIds -> PaymentRows]
        /\ CourierCharges' \subseteq CourierCharges \cup {p}
        /\ payment[p].provider = "MANUAL" => CourierCharges' = CourierCharges
        /\ \A q \in PaymentIds : payment'[q].amount = payment[q].amount
    BY <1>1, <1>7, PaymentRemarked DEF Remark
  <2>2. Refundable \in Nat /\ Refunded + Pending + credit.all + Refundable = Paid
    BY RefundableIsHeld DEF Inv
  <2>3. TypeOK'
    BY <1>2, <1>3, <2>1 DEF Inv, TypeOK
  <2>4. NeverGivesBackMoreThanPaid'
    BY <1>2, <1>4, <1>5, <1>7, <2>1, <2>2, MoneyAssumption DEF NeverGivesBackMoreThanPaid, Money
  <2>5. Settled'
    BY <1>2, <1>7 DEF Settled, RefusedParcel
  <2>6. OneCourierCharge'
    BY <1>1, <1>7, <2>1 DEF Inv, OneCourierCharge, CourierCharges
  <2>. QED
    BY <1>3, <2>3, <2>4, <2>5, <2>6 DEF Inv
<1>8. CASE payment[p].purpose = "RETURN_CHARGE" /\ Remark(p, "ORDER")
  <2>1. /\ Paid' = Paid + payment[p].amount /\ payment[p].amount \in Nat
        /\ payment' \in [PaymentIds -> PaymentRows]
        /\ CourierCharges' \subseteq CourierCharges
        /\ \A q \in PaymentIds : payment'[q].amount = payment[q].amount
    <3>1. /\ Paid' = Paid + payment[p].amount /\ payment[p].amount \in Money
          /\ payment' \in [PaymentIds -> PaymentRows]
          /\ CourierCharges' \subseteq CourierCharges
          /\ \A q \in PaymentIds : payment'[q].amount = payment[q].amount
      BY <1>1, <1>8, PaymentRemarked DEF Remark
    <3>2. payment[p].amount \in Nat
      BY <3>1, MoneyAssumption DEF Money
    <3>. QED
      BY <3>1, <3>2
  <2>2. Settlements \subseteq Settlements'
    BY <1>1, <1>8 DEF Remark, Settlements, TypeOK, PaymentRows
  <2>3. TypeOK'
    BY <1>2, <1>3, <2>1 DEF Inv, TypeOK
  <2>4. NeverGivesBackMoreThanPaid'
    BY <1>2, <1>4, <1>5, <2>1 DEF Inv, NeverGivesBackMoreThanPaid
  <2>5. Settled'
    BY <1>2, <1>5, <1>6, <2>1, <2>2 DEF Inv, Settled
  <2>6. OneCourierCharge'
    BY <2>1 DEF Inv, OneCourierCharge, CourierCharges
  <2>. QED
    BY <1>3, <2>3, <2>4, <2>5, <2>6 DEF Inv
<1>. QED
  BY <1>7, <1>8 DEF ReclassifyPayment

-----------------------------------------------------------------------------
(* Steps that give money back. *)

\* Refunds and credits change within what is held, and the stored status is
\* refreshed or was right and stays.
LEMMA AfterGivingBack ==
  ASSUME Inv, UNCHANGED payment,
         order' \in OrderRows, refund' \in [RefundIds -> RefundRows], credit' \in Credit,
         attempt' \in [Attempts -> AttemptRows],
         Refresh \/ (UNCHANGED paymentStatus /\ Refunded' = Refunded),
         Refunded' + Pending' + credit'.all <= Paid,
         order'.cod /\ order'.status = "DELIVERED" =>
           /\ Settlements # {}
           /\ EffectiveTotal(order') + credit'.all <= Paid + credit'.exchange
  PROVE  Inv'
<1>1. Paid' = Paid /\ Settlements' = Settlements /\ CourierCharges' = CourierCharges
  BY PaymentsKept
<1>2. paymentStatus' \in PaymentStatuses /\ RefundedIsTrue'
  <2>1. CASE Refresh
    BY <2>1, RefreshIsTrue
  <2>2. CASE UNCHANGED paymentStatus /\ Refunded' = Refunded
    BY <1>1, <2>2 DEF Inv, TypeOK, RefundedIsTrue
  <2>. QED
    BY <2>1, <2>2
<1>3. TypeOK'
  BY <1>2 DEF Inv, TypeOK, Credit
<1>4. NeverGivesBackMoreThanPaid' /\ OneCourierCharge'
  BY <1>1 DEF Inv, NeverGivesBackMoreThanPaid, OneCourierCharge
<1>5. Settled'
  BY <1>1 DEF Settled, EffectiveTotal
<1>. QED
  BY <1>2, <1>3, <1>4, <1>5 DEF Inv

LEMMA Position ==
  ASSUME Inv
  PROVE  /\ TypeOK /\ order \in OrderRows /\ credit \in Credit
         /\ refund \in [RefundIds -> RefundRows] /\ attempt \in [Attempts -> AttemptRows]
         /\ Refunded \in Nat /\ Pending \in Nat /\ Paid \in Nat
         /\ credit.all \in Nat /\ credit.exchange \in Nat
         /\ Refunded + Pending + credit.all <= Paid
         /\ EffectiveTotal(order) \in Nat
         /\ order.cod /\ order.status = "DELIVERED" =>
              Settlements # {} /\ EffectiveTotal(order) + credit.all <= Paid + credit.exchange
<1>1. TypeOK /\ order \in OrderRows /\ credit \in Credit
      /\ refund \in [RefundIds -> RefundRows] /\ attempt \in [Attempts -> AttemptRows]
  BY DEF Inv, TypeOK, Credit
<1>2. EffectiveTotal(order) \in Nat
  BY <1>1, EffectiveTotals, MoneyAssumption DEF Money
<1>. QED
  BY <1>1, <1>2, SumsAreNatural, Credits DEF Inv, Settled, NeverGivesBackMoreThanPaid

LEMMA Refunds ==
  ASSUME Inv, NEW r \in RefundIds
  PROVE  /\ CompleteRefund(r) => Inv'
         /\ \A amount \in Amounts : RecordRefund(r, amount) => Inv'
<1>1. ASSUME CompleteRefund(r) PROVE Inv'
  <2>1. /\ Refunded' = Refunded + refund[r].amount
        /\ Pending = Pending' + refund[r].amount
        /\ refund[r].amount \in Nat
        /\ refund' \in [RefundIds -> RefundRows]
    <3>1. /\ Refunded' = Refunded + refund[r].amount
          /\ Pending = Pending' + refund[r].amount
          /\ refund[r].amount \in Money
          /\ refund' \in [RefundIds -> RefundRows]
      BY <1>1, RefundCompleted DEF Inv, CompleteRefund
    <3>2. refund[r].amount \in Nat
      BY <3>1, MoneyAssumption DEF Money
    <3>. QED
      BY <3>1, <3>2
  <2>2. UNCHANGED <<order, payment, credit, attempt>> /\ Refresh
    BY <1>1 DEF CompleteRefund
  <2>3. Refunded' + Pending' + credit'.all <= Paid
    BY <2>1, <2>2, Position, SumsAreNaturalNext
  <2>. QED
    BY <2>1, <2>2, <2>3, Position, AfterGivingBack
<1>2. ASSUME NEW amount \in Amounts, RecordRefund(r, amount) PROVE Inv'
  <2>1. amount \in Money /\ amount \in Nat /\ amount \in 1..Refundable
    BY <1>2, MoneyAssumption DEF RecordRefund, Amounts, Money
  <2>2. /\ Refunded' = Refunded + amount /\ Pending' = Pending
        /\ refund' \in [RefundIds -> RefundRows]
    BY <1>2, <2>1, RefundWritten DEF Inv, RecordRefund
  <2>3. Refundable \in Nat /\ Refunded + Pending + credit.all + Refundable = Paid
    BY RefundableIsHeld DEF Inv
  <2>4. UNCHANGED <<order, payment, credit, attempt>> /\ Refresh
    BY <1>2 DEF RecordRefund
  <2>5. Refunded' + Pending' + credit'.all <= Paid
    BY <2>1, <2>2, <2>3, <2>4, Position
  <2>. QED
    BY <2>2, <2>4, <2>5, Position, AfterGivingBack
<1>. QED
  BY <1>1, <1>2

\* Credit of what is owed back on the order as it becomes, o, keeps the rules.
LEMMA AfterCrediting ==
  ASSUME Inv, NEW o \in OrderRows, order' = o, NEW amount \in Nat, Issue(amount),
         amount <= RefundDue(o, Paid), amount > 0, Refresh,
         UNCHANGED <<payment, refund>>, attempt' \in [Attempts -> AttemptRows],
         o.status = "DELIVERED" => order.status = "DELIVERED",
         o.cod = order.cod
  PROVE  Inv'
<1>1. /\ credit' \in Credit
      /\ credit'.all = credit.all + amount /\ credit'.exchange = credit.exchange
  BY Position, Issued
<1>2. /\ RefundDue(o, Paid) \in Nat
      /\ Refunded + Pending + credit.all + RefundDue(o, Paid) <= Paid
      /\ o.status \notin Closed /\ RefundDue(o, Paid) > 0
           => EffectiveTotal(o) + credit.all + RefundDue(o, Paid) <= Paid
  BY Position, OwedIsHeld
<1>3. Refunded' = Refunded /\ Pending' = Pending
  BY RefundsKept
<1>4. EffectiveTotal(o) \in Nat
  BY EffectiveTotals, MoneyAssumption DEF Money
<1>5. Refunded' + Pending' + credit'.all <= Paid
  BY <1>1, <1>2, <1>3, Position
<1>6. ASSUME order'.cod, order'.status = "DELIVERED"
      PROVE  Settlements # {} /\ EffectiveTotal(order') + credit'.all <= Paid + credit'.exchange
  <2>1. o.status \notin Closed
    BY <1>6 DEF Closed
  <2>2. EffectiveTotal(o) + credit.all + RefundDue(o, Paid) <= Paid
    BY <1>2, <2>1
  <2>3. Settlements # {}
    BY <1>6, Position
  <2>. QED
    BY <1>1, <1>2, <1>4, <2>2, <2>3, Position
<1>7. refund' \in [RefundIds -> RefundRows]
  BY Position
<1>. QED
  BY <1>1, <1>5, <1>6, <1>7, AfterGivingBack

\* A request within what is refundable, of an order of no higher price.
LEMMA AfterRequesting ==
  ASSUME Inv, NEW o \in OrderRows, order' = o, NEW amount \in Nat, NEW r \in RefundIds,
         Request(r, amount), amount <= Refundable, Refresh,
         UNCHANGED <<payment, credit, attempt>>,
         o.status = "DELIVERED" => order.status = "DELIVERED",
         o.cod = order.cod, EffectiveTotal(o) <= EffectiveTotal(order)
  PROVE  Inv'
<1>1. /\ Refunded' = Refunded /\ Pending' = Pending + amount
      /\ refund' \in [RefundIds -> RefundRows]
  BY Position, RequestWritten
<1>2. Refundable \in Nat /\ Refunded + Pending + credit.all + Refundable = Paid
  BY RefundableIsHeld DEF Inv
<1>3. Refunded' + Pending' + credit'.all <= Paid
  BY <1>1, <1>2, Position
<1>4. EffectiveTotal(o) \in Nat
  BY EffectiveTotals, MoneyAssumption DEF Money
<1>5. order'.cod /\ order'.status = "DELIVERED" =>
        Settlements # {} /\ EffectiveTotal(order') + credit'.all <= Paid + credit'.exchange
  BY <1>4, Position
<1>6. credit' \in Credit /\ attempt' \in [Attempts -> AttemptRows]
  BY Position
<1>. QED
  BY <1>1, <1>3, <1>5, <1>6, AfterGivingBack

LEMMA LeastIsLeast ==
  ASSUME NEW m \in Nat, NEW n \in Nat
  PROVE  Least(m, n) \in Nat /\ Least(m, n) <= m /\ Least(m, n) <= n
BY DEF Least

LEMMA StaffCredits ==
  ASSUME Inv, NEW amount \in Amounts, CreditRefundDue(amount)
  PROVE  Inv'
<1>1. RefundDue(order, Paid) \in Nat
  BY Position, OwedIsHeld
<1>2. amount \in Nat /\ amount > 0 /\ amount <= RefundDue(order, Paid)
  BY <1>1, MoneyAssumption DEF CreditRefundDue, Amounts
<1>3. /\ Issue(amount) /\ Refresh /\ order' = order
      /\ UNCHANGED <<payment, refund>> /\ attempt' \in [Attempts -> AttemptRows]
  BY Position DEF CreditRefundDue
<1>. QED
  BY <1>2, <1>3, Position, AfterCrediting

LEMMA Exchanges ==
  ASSUME Inv, NEW amount \in Amounts, ApproveExchange(amount)
  PROVE  Inv'
<1>1. Refundable \in Nat /\ Refunded + Pending + credit.all + Refundable = Paid
  BY RefundableIsHeld DEF Inv
<1>2. amount \in Nat /\ amount > 0 /\ amount <= Refundable
  BY <1>1, MoneyAssumption DEF ApproveExchange, Amounts
<1>3. order' = order /\ UNCHANGED <<payment, attempt>> /\ Refresh
  BY DEF ApproveExchange
<1>4. CASE /\ credit' = [all |-> credit.all + amount, exchange |-> credit.exchange + amount]
           /\ UNCHANGED refund
  <2>1. /\ credit' \in Credit
        /\ credit'.all = credit.all + amount /\ credit'.exchange = credit.exchange + amount
    BY <1>2, <1>4, Position DEF Credit
  <2>2. Refunded' = Refunded /\ Pending' = Pending
    BY <1>4, RefundsKept
  <2>3. Refunded' + Pending' + credit'.all <= Paid
    BY <1>1, <1>2, <2>1, <2>2, Position
  <2>4. order'.cod /\ order'.status = "DELIVERED" =>
          Settlements # {} /\ EffectiveTotal(order') + credit'.all <= Paid + credit'.exchange
    BY <1>2, <1>3, <2>1, Position
  <2>. QED
    BY <1>3, <1>4, <2>1, <2>3, <2>4, Position, AfterGivingBack
<1>5. ASSUME UNCHANGED credit, NEW r \in RefundIds, Request(r, amount) PROVE Inv'
  BY <1>2, <1>3, <1>5, Position, AfterRequesting
<1>. QED
  BY <1>4, <1>5 DEF ApproveExchange

LEMMA ItemReturns ==
  ASSUME Inv, NEW value \in Money, NEW last \in BOOLEAN, RecordItemReturn(value, last)
  PROVE  Inv'
<1>. DEFINE returned == [order EXCEPT !.returned = @ + value]
            status == IF last /\ order.status = "DELIVERED" THEN "RETURNED" ELSE order.status
            decided == IF last /\ order.decided # "NO" THEN "NOTHING_KEPT" ELSE order.decided
<1>1. /\ order.returned + value \in Money /\ Compensate(returned, value)
      /\ UNCHANGED <<payment, attempt>>
      /\ order.status \in {"DELIVERED", "PARTIALLY_DELIVERED"}
  BY DEF RecordItemReturn
<1>2. returned \in OrderRows /\ returned.status = order.status /\ returned.cod = order.cod
      /\ returned.decided = order.decided
      /\ returned.total = order.total /\ returned.returned = order.returned + value
  BY <1>1, Position DEF OrderRows
<1>3. order' = [returned EXCEPT !.status = status, !.decided = decided]
  BY <1>2 DEF RecordItemReturn
<1>4. /\ order' \in OrderRows /\ order'.status = status /\ order'.cod = order.cod
      /\ order'.total = order.total /\ order'.returned = order.returned + value
  <2>1. status \in Statuses /\ decided \in {"NO", "KEPT", "NOTHING_KEPT"}
    BY <1>1, Position DEF OrderRows, Statuses, Closed
  <2>. HIDE DEF returned, status, decided
  <2>. QED
    BY <1>2, <1>3, <2>1 DEF OrderRows
<1>5. EffectiveTotal(order') = EffectiveTotal(returned)
      /\ EffectiveTotal(order') <= EffectiveTotal(order) /\ EffectiveTotal(order') \in Nat
  <2>1. order.total \in Nat /\ order.returned \in Nat /\ value \in Nat
    BY Position, MoneyAssumption DEF OrderRows, Money
  <2>. HIDE DEF returned
  <2>. QED
    BY <1>2, <1>4, <2>1 DEF EffectiveTotal, Max0
<1>6. order'.status = "DELIVERED" => order.status = "DELIVERED"
  BY <1>4
<1>. HIDE DEF returned, status, decided
<1>7. CASE LET amount == Least(value, RefundDue(returned, Paid)) IN
           /\ amount > 0 /\ Issue(amount) /\ UNCHANGED refund /\ Refresh
  <2>. DEFINE amount == Least(value, RefundDue(returned, Paid))
  <2>1. /\ RefundDue(returned, Paid) \in Nat
        /\ Refunded + Pending + credit.all + RefundDue(returned, Paid) <= Paid
        /\ returned.status \notin Closed /\ RefundDue(returned, Paid) > 0
             => EffectiveTotal(returned) + credit.all + RefundDue(returned, Paid) <= Paid
    BY <1>2, Position, OwedIsHeld
  <2>2. returned.status \notin Closed
    BY <1>1, <1>2 DEF Closed
  <2>3. value \in Nat
    BY MoneyAssumption DEF Money
  <2>4. amount \in Nat /\ amount <= RefundDue(returned, Paid) /\ amount > 0
    BY <1>7, <2>1, <2>3, LeastIsLeast
  <2>5. Issue(amount) /\ UNCHANGED refund /\ Refresh
    BY <1>7
  <2>. HIDE DEF amount
  <2>6. /\ credit' \in Credit
        /\ credit'.all = credit.all + amount /\ credit'.exchange = credit.exchange
    BY <2>4, <2>5, Position, Issued
  <2>7. Refunded' = Refunded /\ Pending' = Pending
    BY <2>5, RefundsKept
  <2>8. Refunded' + Pending' + credit'.all <= Paid
    BY <2>1, <2>4, <2>6, <2>7, Position
  <2>9. order'.cod /\ order'.status = "DELIVERED" =>
          Settlements # {} /\ EffectiveTotal(order') + credit'.all <= Paid + credit'.exchange
    BY <1>4, <1>5, <1>6, <2>1, <2>2, <2>4, <2>6, Position
  <2>. QED
    BY <1>1, <1>4, <2>5, <2>6, <2>8, <2>9, Position, AfterGivingBack
<1>8. ASSUME UNCHANGED credit, NEW r \in RefundIds, Request(r, Least(value, Refundable)), Refresh
      PROVE  Inv'
  <2>1. Refundable \in Nat /\ value \in Nat
    BY RefundableIsHeld, MoneyAssumption DEF Inv, Money
  <2>2. Least(value, Refundable) \in Nat /\ Least(value, Refundable) <= Refundable
    BY <2>1, LeastIsLeast
  <2>. QED
    BY <1>1, <1>4, <1>5, <1>6, <1>8, <2>2, AfterRequesting
<1>9. CASE UNCHANGED <<refund, credit, paymentStatus>>
  <2>1. attempt' \in [Attempts -> AttemptRows]
    BY <1>1, Position
  <2>. QED
    BY <1>1, <1>4, <1>5, <1>6, <1>9, <2>1, RowsAlone
<1>. QED
  BY <1>1, <1>7, <1>8, <1>9 DEF Compensate

\* The order becomes o and all that is owed on it is credited, or nothing is.
LEMMA AfterClosing ==
  ASSUME Inv, NEW o \in OrderRows, order' = o, UNCHANGED <<payment, refund>>,
         attempt' \in [Attempts -> AttemptRows], o.status # "DELIVERED", o.cod = order.cod,
         \/ RefundDue(o, Paid) > 0 /\ Issue(RefundDue(o, Paid)) /\ Refresh
         \/ UNCHANGED <<credit, paymentStatus>>
  PROVE  Inv'
<1>1. RefundDue(o, Paid) \in Nat
  BY Position, OwedIsHeld
<1>2. CASE RefundDue(o, Paid) > 0 /\ Issue(RefundDue(o, Paid)) /\ Refresh
  BY <1>1, <1>2, AfterCrediting
<1>3. CASE UNCHANGED <<credit, paymentStatus>>
  BY <1>3, RowsAlone
<1>. QED
  BY <1>2, <1>3

LEMMA ReturnsAndCancellations ==
  ASSUME Inv
  PROVE  /\ \A asCredit \in BOOLEAN : ApproveReturn(asCredit) => Inv'
         /\ CustomerCancels => Inv'
<1>1. ASSUME NEW asCredit \in BOOLEAN, ApproveReturn(asCredit) PROVE Inv'
  <2>. DEFINE o == [order EXCEPT !.status = "RETURNED"]
  <2>1. o \in OrderRows /\ o.status = "RETURNED" /\ o.cod = order.cod
    BY Position DEF OrderRows, Statuses, Closed
  <2>2. order' = o /\ UNCHANGED <<payment, refund, attempt>>
    BY <1>1 DEF ApproveReturn
  <2>3. \/ RefundDue(o, Paid) > 0 /\ Issue(RefundDue(o, Paid)) /\ Refresh
        \/ UNCHANGED <<credit, paymentStatus>>
    BY <1>1 DEF ApproveReturn
  <2>4. attempt' \in [Attempts -> AttemptRows]
    BY <2>2, Position
  <2>. HIDE DEF o
  <2>. QED
    BY <2>1, <2>2, <2>3, <2>4, AfterClosing
<1>2. ASSUME CustomerCancels PROVE Inv'
  <2>. DEFINE cancelled == [order EXCEPT !.status = "CANCELLED"]
              owed == RefundDue(cancelled, Paid)
              issues == owed > 0 /\ ~order.credited
              o == [cancelled EXCEPT !.credited = @ \/ issues]
  <2>1. cancelled \in OrderRows /\ cancelled.status = "CANCELLED" /\ cancelled.cod = order.cod
        /\ cancelled.total = order.total /\ cancelled.returned = order.returned
    BY Position DEF OrderRows, Statuses, Closed
  <2>2. order' = o /\ UNCHANGED <<payment, refund>>
    BY <1>2 DEF CustomerCancels
  <2>3. \/ owed > 0 /\ Issue(owed) /\ Refresh
        \/ UNCHANGED <<credit, paymentStatus>>
    BY <1>2 DEF CustomerCancels
  <2>4. attempt' \in [Attempts -> AttemptRows]
    BY <1>2, Position, EndedRows DEF CustomerCancels
  <2>. HIDE DEF cancelled
  <2>5. o \in OrderRows
    <3>1. (cancelled.credited \/ issues) \in BOOLEAN
      OBVIOUS
    <3>. HIDE DEF issues
    <3>. QED
      BY <2>1, <3>1 DEF OrderRows
  <2>6. o.status = "CANCELLED" /\ o.cod = order.cod
        /\ o.total = cancelled.total /\ o.returned = cancelled.returned
    <3>. HIDE DEF issues
    <3>. QED
      BY <2>1 DEF OrderRows
  <2>7. RefundDue(o, Paid) = owed
    <3>. HIDE DEF o
    <3>. QED
      BY <2>1, <2>6 DEF RefundDue, Overpaid, EffectiveTotal
  <2>. HIDE DEF o, owed
  <2>. QED
    BY <2>2, <2>3, <2>4, <2>5, <2>6, <2>7, AfterClosing
<1>. QED
  BY <1>1, <1>2

LEMMA Changes ==
  ASSUME Inv, NEW total \in Money, ApplyChange(total)
  PROVE  Inv'
<1>. DEFINE changed == [order EXCEPT !.total = total]
<1>1. changed \in OrderRows /\ changed.status = order.status
  BY Position DEF OrderRows
<1>2. /\ order' = changed /\ SettleChange(changed) /\ order.status = "OPEN"
      /\ UNCHANGED payment /\ Refresh
  BY DEF ApplyChange, Editable
<1>3. /\ credit' \in Credit /\ refund' \in [RefundIds -> RefundRows]
      /\ Refunded' = Refunded /\ Refunded + Pending' + credit'.all <= Paid
  BY <1>1, <1>2, ChangeSettled DEF Inv
<1>4. attempt' \in [Attempts -> AttemptRows]
  <2>1. \A q \in Attempts : Outdated(q) \in AttemptRows
    BY Position, EndedRows
  <2>. QED
    BY <2>1 DEF ApplyChange
<1>5. order'.status # "DELIVERED"
  BY <1>1, <1>2
<1>. HIDE DEF changed
<1>. QED
  BY <1>1, <1>2, <1>3, <1>4, <1>5, AfterGivingBack

-----------------------------------------------------------------------------
(* The theorems. *)

LEMMA InitHolds ==
  ASSUME Init
  PROVE  Inv
<1>0. 0 \in Money /\ 1..MaxMoney \subseteq Money
  BY MoneyAssumption DEF Money
<1>1. PICK cod \in BOOLEAN, customer \in BOOLEAN, total \in Money :
        order = [status |-> "OPEN", cod |-> cod, customer |-> customer, trashed |-> FALSE,
                 consignment |-> FALSE, total |-> total, returned |-> 0, decided |-> "NO",
                 collected |-> 0, failed |-> FALSE, credited |-> FALSE]
  BY DEF Init
<1>3. order \in OrderRows /\ order.status = "OPEN" /\ order.total \in Money
  BY <1>0, <1>1 DEF OrderRows, Statuses
<1>4. NoPayment \in PaymentRows /\ NoPayment.purpose = "ORDER"
  BY <1>0 DEF NoPayment, PaymentRows
<1>5. /\ payment \in [PaymentIds -> PaymentRows]
      /\ \A p \in PaymentIds : payment[p].purpose = "ORDER"
  <2>1. PICK p \in PaymentIds, a \in 1..MaxMoney :
          payment \in
            {[q \in PaymentIds |-> NoPayment],
             [q \in PaymentIds |-> IF q = p THEN Row("MANUAL", "ORDER", order.total)
                                   ELSE NoPayment]}
            \cup IF order.customer /\ a <= order.total
                 THEN {[q \in PaymentIds |-> IF q = p THEN Row("STORE_CREDIT", "ORDER", a)
                                             ELSE NoPayment]}
                 ELSE {}
    BY DEF Init
  <2>2. Row("MANUAL", "ORDER", order.total) \in PaymentRows
        /\ Row("MANUAL", "ORDER", order.total).purpose = "ORDER"
    BY <1>3 DEF Row, PaymentRows
  <2>3. Row("STORE_CREDIT", "ORDER", a) \in PaymentRows
        /\ Row("STORE_CREDIT", "ORDER", a).purpose = "ORDER"
    BY <1>0 DEF Row, PaymentRows
  <2>4. \/ payment = [q \in PaymentIds |-> NoPayment]
        \/ payment = [q \in PaymentIds |-> IF q = p THEN Row("MANUAL", "ORDER", order.total)
                                           ELSE NoPayment]
        \/ payment = [q \in PaymentIds |-> IF q = p THEN Row("STORE_CREDIT", "ORDER", a)
                                           ELSE NoPayment]
    BY <2>1
  <2>. QED
    BY <1>4, <2>2, <2>3, <2>4
<1>6. refund \in [RefundIds -> RefundRows] /\ \A r \in RefundIds : refund[r].status = "NONE"
  BY <1>0 DEF Init, NoRefund, RefundRows
<1>7. RefundsIn("COMPLETED") = {} /\ RefundsIn("REQUESTED") = {}
  BY <1>6 DEF RefundsIn
<1>8. Refunded = 0 /\ Pending = 0
  <2>1. Units(refund, {}) = {}
    BY DEF Units
  <2>. QED
    BY <1>7, <2>1, FS_EmptySet DEF Refunded, Pending, Sum
<1>9. credit = [all |-> 0, exchange |-> 0]
  BY DEF Init
<1>10. attempt \in [Attempts -> AttemptRows]
  BY <1>0 DEF Init, NoAttempt, AttemptRows
<1>11. paymentStatus \in PaymentStatuses
  BY DEF Init, DerivedStatus, PaymentStatuses
<1>12. TypeOK
  BY <1>3, <1>5, <1>6, <1>9, <1>10, <1>11 DEF TypeOK
<1>13. NeverGivesBackMoreThanPaid
  BY <1>8, <1>9, SumsAreNatural DEF NeverGivesBackMoreThanPaid
<1>14. CourierCharges = {}
  BY <1>5 DEF CourierCharges
<1>15. RefundedIsTrue
  BY <1>8, <1>9 DEF Init, RefundedIsTrue, DerivedStatus
<1>. QED
  BY <1>3, <1>12, <1>13, <1>14, <1>15 DEF Inv, Settled, OneCourierCharge

LEMMA NextKeeps ==
  ASSUME Inv, [Next]_vars
  PROVE  Inv'
<1>1. CASE OrderStep
  BY <1>1, Delivery, StepsWithoutMoney, ReturnsAndCancellations, ItemReturns, Exchanges, Changes
  DEF OrderStep
<1>2. CASE PaymentStep
  BY <1>2, StepsWithoutMoney, Charges, Remarks, PlainSettlements, StepsOfAttempts,
     SettlementsOfChanges
  DEF PaymentStep
<1>3. CASE RefundStep
  BY <1>3, StepsWithoutMoney, StaffCredits, Refunds DEF RefundStep
<1>4. CASE UNCHANGED vars
  <2>1. EffectiveTotal(order') <= EffectiveTotal(order)
    BY <1>4, Position DEF vars
  <2>. QED
    BY <1>4, <2>1, Position, RowsAlone DEF vars
<1>. QED
  BY <1>1, <1>2, <1>3, <1>4 DEF Next

LEMMA Invariant == Spec => []Inv
<1>. QED
  BY InitHolds, NextKeeps, PTL DEF Spec

\* Rows keep their shapes and bounded amounts under every command.
THEOREM TypeCorrect == Spec => []TypeOK
<1>1. Inv => TypeOK
  BY DEF Inv
<1>. QED
  BY <1>1, Invariant, PTL

\* For any number of payments, refunds and attempts of any amounts: what was
\* refunded, credited or promised never exceeds what was received.
THEOREM HeldMoneyCoversWhatIsGivenBack == Spec => []NeverGivesBackMoreThanPaid
<1>1. Inv => NeverGivesBackMoreThanPaid
  BY DEF Inv
<1>. QED
  BY <1>1, Invariant, PTL

\* A delivered COD order stays settled: its balance due never exceeds the credit
\* exchanges issued.
THEOREM DeliveredStaysSettled == Spec => []DeliveredCodIsSettled
<1>1. Inv => DeliveredCodIsSettled
  <2>. SUFFICES ASSUME Inv, order.cod, order.status = "DELIVERED"
                PROVE  Settlements # {} /\ AmountDue(order, Paid) <= credit.exchange
    BY DEF DeliveredCodIsSettled
  <2>. QED
    BY Position DEF AmountDue, Max0, Closed
<1>. QED
  BY <1>1, Invariant, PTL

\* The courier's cash is a return charge at most once, by any mix of staff, the
\* scanner, the courier's report and re-marking.
THEOREM ChargedOnce == Spec => []OneCourierCharge
<1>1. Inv => OneCourierCharge
  BY DEF Inv
<1>. QED
  BY <1>1, Invariant, PTL

\* An order becomes REFUNDED only when all its money has gone back, although the
\* rule reads the stored status and some commands leave that out of date.
THEOREM RefundedWhenAllIsBack == Spec => RefundedGaveAllBack
<1>1. Inv /\ [Next]_vars =>
        [order.status # "REFUNDED" /\ order'.status = "REFUNDED" =>
           Refunded > 0 /\ Refunded >= Paid]_vars
  <2>. SUFFICES ASSUME Inv, Next, order.status # "REFUNDED", order'.status = "REFUNDED"
                PROVE  Refunded > 0 /\ Refunded >= Paid
    OBVIOUS
  <2>1. order \in OrderRows
    BY Position
  <2>2. paymentStatus = "REFUNDED"
    <3>1. CASE OrderStep
      BY <2>1, <3>1
      DEF OrderStep, Deliver, TrashOrRestore, BookOrUnlink, CustomerCancels, ChangeStatus, MoveOn,
          CourierReports, Reconcile, RecordItemReturn, ApproveReturn, ApproveExchange, ApplyChange,
          OrderRows
    <3>2. CASE PaymentStep
      BY <2>1, <3>2
      DEF PaymentStep, RecordFailedAttempt, SettleCourierCollected, ReclassifyPayment,
          RecordManualPayment, RecordReturnCharge, AskForBalance, ExpireChange, AwaitPayment,
          SettleBalance, SettleApplied, SettleUnapplied, OrderRows
    <3>3. CASE RefundStep
      BY <2>1, <3>3
      DEF RefundStep, RepairProjection, CreditRefundDue, CompleteRefund, RecordRefund, OrderRows
    <3>. QED
      BY <3>1, <3>2, <3>3 DEF Next
  <2>. QED
    BY <2>2 DEF Inv, RefundedIsTrue
<1>. QED
  BY <1>1, Invariant, PTL DEF Spec, RefundedGaveAllBack
=============================================================================
