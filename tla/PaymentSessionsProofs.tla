----------------------- MODULE PaymentSessionsProofs -----------------------
(* Theorems about PaymentSessions, for any number of sessions, orders and  *)
(* handlers, any prices and balances, and all three entrances.             *)
EXTENDS PaymentSessions, TLAPS

(* What a process holds at each stage: the row its next statement names.   *)
NamesSession == {"gateway", "release", "retryExpire", "claim", "book", "link", "failRecord"}
NamesOrder == {"start", "retryExpire", "linkExpire", "link"}
GoodProcs == {r \in ProcStates :
  /\ r.at \in NamesSession => r.sess \in Sessions
  /\ r.at \in NamesOrder => r.order \in OrderIds}

(* A store never credits more of an order than it was paid.                *)
CreditedIsPaid == \A o \in OrderIds : order[o].credited <= order[o].paid

SessOK == sess \in [Sessions -> SessionRows]
LedgerOK ==
  /\ payment \in [Sessions -> PaymentRows]
  /\ entry \in [Sessions -> EntryRows]
  /\ balance \in Nat
  /\ order \in [OrderIds -> OrderRows]
  /\ coupon \in Int
  /\ CreditedIsPaid
ProcOK == proc \in [Procs -> GoodProcs]
WorldOK ==
  /\ gw \in [Sessions -> GatewayStates]
  /\ sweep \in [on : BOOLEAN, ask : SUBSET Sessions, ids : SUBSET Sessions]
  /\ retryLock \in SUBSET OrderIds
  /\ epsUp \in BOOLEAN
  /\ outages \in Nat
  /\ faults \in Nat
TypeInv == SessOK /\ LedgerOK /\ ProcOK /\ WorldOK

-----------------------------------------------------------------------------
(* Values the operators return.                                            *)

LEMMA MinOfPair ==
  ASSUME NEW a \in Nat, NEW b \in Nat
  PROVE  Min({a, b}) \in {a, b} /\ Min({a, b}) <= a /\ Min({a, b}) <= b
<1>1. \E x \in {a, b} : \A y \in {a, b} : x =< y OBVIOUS
<1>2. QED BY <1>1 DEF Min

LEMMA MinIsAmount ==
  ASSUME NEW a \in Nat, NEW b \in 0..Total
  PROVE  Min({a, b}) \in 0..Total /\ Min({b, a}) \in 0..Total
         /\ a - Min({a, b}) \in Nat /\ a - Min({b, a}) \in Nat /\ Min({b, a}) <= b
<1>0. b \in Nat BY AmountsAssumption
<1>1. Min({a, b}) \in {a, b} /\ Min({a, b}) <= a /\ Min({a, b}) <= b BY <1>0, MinOfPair
<1>2. Min({b, a}) \in {a, b} /\ Min({b, a}) <= a /\ Min({b, a}) <= b BY <1>0, MinOfPair
<1>3. QED BY <1>0, <1>1, <1>2, AmountsAssumption

LEMMA DueIsAmount ==
  ASSUME LedgerOK, NEW o \in OrderIds
  PROVE  AmountDue(o) \in 0..Total /\ HeldFor(o) \in Nat
<1>1. order[o].paid \in Nat /\ order[o].credited \in Nat /\ order[o].credited <= order[o].paid
  BY DEF LedgerOK, CreditedIsPaid, OrderRows
<1>2. QED BY <1>1, AmountsAssumption DEF AmountDue, HeldFor

(* The rows a checkout and an order's attempt create.                       *)
LEMMA NewSessions ==
  ASSUME NEW pr \in Providers, NEW a \in 0..Total, NEW c \in BOOLEAN, NEW o \in OrderIds \cup {None}
  PROVE  /\ [NoSession EXCEPT !.status = "ACTIVE", !.pre = TRUE, !.provider = pr, !.amount = a, !.coupon = c] \in SessionRows
         /\ [NoSession EXCEPT !.status = "ACTIVE", !.order = o, !.provider = pr, !.amount = a] \in SessionRows
<1>1. pr \in {"EPS_PG", "SSLCOMMERZ"} BY SetsAssumption
<1>2. NoSession \in SessionRows BY AmountsAssumption DEF NoSession, SessionRows, SessionStatuses, Ages
<1>3. PICK n \in SessionRows : n = NoSession BY <1>2
<1>4. [n EXCEPT !.status = "ACTIVE", !.pre = TRUE, !.provider = pr, !.amount = a, !.coupon = c] \in SessionRows
  BY <1>1 DEF SessionRows, SessionStatuses
<1>5. [n EXCEPT !.status = "ACTIVE", !.order = o, !.provider = pr, !.amount = a] \in SessionRows
  BY <1>1 DEF SessionRows, SessionStatuses
<1>6. QED BY <1>3, <1>4, <1>5

\* The row of a new order.
LEMMA NewOrders ==
  ASSUME NEW st \in {"PENDING", "CONFIRMED"}, NEW paid \in Nat, NEW c \in BOOLEAN
  PROVE  /\ NewOrderRow(st, paid, c) \in OrderRows
         /\ NewOrderRow(st, paid, c).status = st /\ NewOrderRow(st, paid, c).paid = paid
         /\ NewOrderRow(st, paid, c).credited = 0
         /\ NewOrderRow(st, paid, c).cash = 0 /\ NewOrderRow(st, paid, c).late = 0
         /\ ~NewOrderRow(st, paid, c).moved /\ NewOrderRow(st, paid, c).trash = "never"
<1>1. NoOrder \in OrderRows BY DEF NoOrder, OrderRows
<1>2. PICK n \in OrderRows : n = NoOrder BY <1>1
<1>3. [n EXCEPT !.status = st, !.paid = paid, !.coupon = c] \in OrderRows BY DEF OrderRows
<1>4. QED BY <1>2, <1>3 DEF NewOrderRow, NoOrder

LEMMA StatusWrite ==
  ASSUME SessOK, NEW s, NEW st \in SessionStatuses, SetStatus(s, st)
  PROVE  SessOK'
<1>1. \A t \in Sessions : [sess[t] EXCEPT !.status = st] \in SessionRows
  BY DEF SessOK, SessionRows
<1>2. sess' = [sess EXCEPT ![s] = [sess[s] EXCEPT !.status = st]] BY DEF SetStatus
<1>3. QED BY <1>1, <1>2 DEF SessOK

(* Where a process can be sent.                                            *)
LEMMA IdleIsGood == Idle \in GoodProcs
  BY AmountsAssumption DEF Idle, GoodProcs, ProcStates, Stages, NamesSession, NamesOrder

LEMMA HomeIsGood == ASSUME NEW p \in Procs PROVE Home(p) \in GoodProcs
<1>1. PICK r \in GoodProcs : r = Idle BY IdleIsGood
<1>2. [r EXCEPT !.at = "ask"] \in GoodProcs
  BY <1>1 DEF GoodProcs, ProcStates, Stages, NamesSession, NamesOrder
<1>3. QED BY <1>1, <1>2 DEF Home

LEMMA ReturnKeeps == ASSUME ProcOK, NEW p \in Procs, Return(p) PROVE ProcOK'
  BY HomeIsGood DEF ProcOK, Return

LEMMA MoveKeeps ==
  ASSUME ProcOK, NEW p \in Procs, NEW r \in GoodProcs, proc' = [proc EXCEPT ![p] = r]
  PROVE  ProcOK'
  BY DEF ProcOK

LEMMA ReleaseKeeps ==
  ASSUME LedgerOK, NEW s \in Sessions, ReleaseReservation(s)
  PROVE  entry' \in [Sessions -> EntryRows] /\ balance' \in Nat
<1>1. entry[s] \in EntryRows /\ entry[s].reserve \in 0..Total BY DEF LedgerOK, EntryRows
<1>2. CASE Unresolved(s)
  <2>1. [entry[s] EXCEPT !.released = TRUE] \in EntryRows BY <1>1 DEF EntryRows
  <2>2. entry' = [entry EXCEPT ![s] = [entry[s] EXCEPT !.released = TRUE]] /\ balance' = balance + entry[s].reserve
    BY <1>2 DEF ReleaseReservation
  <2>3. balance' \in Nat BY <1>1, <2>2, AmountsAssumption DEF LedgerOK
  <2>4. QED BY <2>1, <2>2, <2>3 DEF LedgerOK
<1>3. CASE ~Unresolved(s) BY <1>3 DEF ReleaseReservation, LedgerOK
<1>4. QED BY <1>2, <1>3

-----------------------------------------------------------------------------
(* Every action keeps TypeInv.                                             *)

LEMMA TypeInvInit == Init => TypeInv
<1> SUFFICES ASSUME Init PROVE TypeInv OBVIOUS
<1> USE AmountsAssumption, SetsAssumption, BoundsAssumption
<1>1. NoSession \in SessionRows BY DEF NoSession, SessionRows, SessionStatuses, Ages
<1>2. SessOK BY <1>1 DEF Init, SessOK
<1>3. NoEntry \in EntryRows BY DEF NoEntry, EntryRows
<1>4. NoPayment \in PaymentRows BY DEF NoPayment, PaymentRows
<1>5. NoOrder \in OrderRows BY DEF NoOrder, OrderRows
<1>6. \A n \in 0..(Total - 1) : [NoOrder EXCEPT !.status = "PENDING", !.paid = n] \in OrderRows
  <2>1. PICK r \in OrderRows : r = NoOrder BY <1>5
  <2>2. \A n \in Nat : [r EXCEPT !.status = "PENDING", !.paid = n] \in OrderRows BY DEF OrderRows
  <2>3. TAKE n \in 0..(Total - 1)
  <2>4. n \in Nat OBVIOUS
  <2>5. QED BY <2>1, <2>2, <2>4
<1>7. PICK advance \in [Existing -> 0..(Total - 1)] :
        order = [o \in OrderIds |-> IF o \in Existing
                                      THEN [NoOrder EXCEPT !.status = "PENDING", !.paid = advance[o]]
                                      ELSE NoOrder]
  BY DEF Init
<1>8. order \in [OrderIds -> OrderRows] BY <1>5, <1>6, <1>7
<1>9. CreditedIsPaid
  <2> SUFFICES ASSUME NEW o \in OrderIds PROVE order[o].credited <= order[o].paid BY DEF CreditedIsPaid
  <2>1. CASE o \in Existing
    <3>1. advance[o] \in Nat BY <2>1
    <3>2. order[o].credited = 0 /\ order[o].paid = advance[o] BY <1>7, <2>1 DEF NoOrder
    <3>3. QED BY <3>1, <3>2
  <2>2. CASE o \notin Existing
    <3>1. order[o] = NoOrder BY <1>7, <2>2
    <3>2. QED BY <3>1 DEF NoOrder
  <2>3. QED BY <2>1, <2>2
<1>10. LedgerOK
  <2>1. payment \in [Sessions -> PaymentRows] /\ entry \in [Sessions -> EntryRows] BY <1>3, <1>4 DEF Init
  <2>2. balance = Opening /\ coupon = 0 BY DEF Init
  <2>3. QED BY <1>8, <1>9, <2>1, <2>2 DEF LedgerOK
<1>11. ProcOK BY IdleIsGood DEF Init, ProcOK
<1>12. WorldOK BY DEF Init, WorldOK, GatewayStates, NoSweep
<1>13. QED BY <1>2, <1>10, <1>11, <1>12 DEF TypeInv

LEMMA CheckoutKeepsTypes ==
  ASSUME TypeInv, NEW p \in Procs, BeginCheckout(p) \/ PlaceFromBalance(p) \/ ReserveAndCreate(p)
  PROVE  TypeInv'
<1> USE DEF TypeInv, ledger, outside
<1>0. balance \in Nat /\ Total \in 0..Total /\ 0 \in 0..Total BY AmountsAssumption DEF LedgerOK
<1>1. CASE BeginCheckout(p)
  <2>1. PICK useBalance, useCoupon \in BOOLEAN :
          LET covered == IF useBalance THEN Min({balance, Total}) ELSE 0 IN
          proc' = [proc EXCEPT ![p] = [Idle EXCEPT !.at = IF covered = Total THEN "placeOrder" ELSE "reserve",
                                                   !.amount = covered, !.coupon = useCoupon]]
    BY <1>1 DEF BeginCheckout
  <2>2. (IF useBalance THEN Min({balance, Total}) ELSE 0) \in 0..Total BY <1>0, MinIsAmount
  <2>3. ProcOK'
    <3> DEFINE covered == IF useBalance THEN Min({balance, Total}) ELSE 0
               stop == IF covered = Total THEN "placeOrder" ELSE "reserve"
    <3>1. PICK r \in GoodProcs : r = Idle BY IdleIsGood
    <3>2. stop \in {"reserve", "placeOrder"} OBVIOUS
    <3>3. covered \in 0..Total BY <2>2
    <3>4. proc' = [proc EXCEPT ![p] = [r EXCEPT !.at = stop, !.amount = covered, !.coupon = useCoupon]] BY <2>1, <3>1
    <3> HIDE DEF covered, stop
    <3>5. [r EXCEPT !.at = stop, !.amount = covered, !.coupon = useCoupon] \in GoodProcs
      BY <3>2, <3>3 DEF GoodProcs, ProcStates, Stages, NamesSession, NamesOrder
    <3>6. QED BY <3>4, <3>5, MoveKeeps
  <2>4. QED BY <1>1, <2>3 DEF BeginCheckout, SessOK, LedgerOK, CreditedIsPaid, WorldOK
<1>2. CASE PlaceFromBalance(p)
  <2>1. ProcOK' BY <1>2, ReturnKeeps DEF PlaceFromBalance
  <2>2. proc[p].coupon \in BOOLEAN BY DEF ProcOK, GoodProcs, ProcStates
  <2>3. Min({balance, Total}) \in Nat /\ balance - Min({balance, Total}) \in Nat BY <1>0, MinIsAmount
  <2>4. LedgerOK'
    <3>1. PICK o \in OrderIds :
            LET pays == Min({balance, Total}) IN
              IF proc[p].coupon /\ coupon >= CouponLimit
                THEN UNCHANGED <<order, balance, coupon>>
                ELSE /\ order' = [order EXCEPT ![o] = NewOrderRow(IF pays = Total THEN "CONFIRMED" ELSE "PENDING", pays, proc[p].coupon)]
                     /\ balance' = balance - pays
                     /\ coupon' = IF proc[p].coupon THEN coupon + 1 ELSE coupon
      BY <1>2 DEF PlaceFromBalance
    <3>2. CASE UNCHANGED <<order, balance, coupon>>
      BY <1>2, <3>2 DEF PlaceFromBalance, LedgerOK, CreditedIsPaid
    <3>3. CASE ~UNCHANGED <<order, balance, coupon>>
      <4> DEFINE pays == Min({balance, Total})
                 placed == NewOrderRow(IF pays = Total THEN "CONFIRMED" ELSE "PENDING", pays, proc[p].coupon)
      <4>1. placed \in OrderRows /\ placed.credited <= placed.paid
        <5>1. PICK st \in {"PENDING", "CONFIRMED"} : st = IF pays = Total THEN "CONFIRMED" ELSE "PENDING" OBVIOUS
        <5>2. pays \in Nat BY <2>3
        <5> HIDE DEF pays
        <5>3. placed = NewOrderRow(st, pays, proc[p].coupon) BY <5>1
        <5> HIDE DEF placed
        <5>4. QED BY <2>2, <5>2, <5>3, NewOrders
      <4>2. order' = [order EXCEPT ![o] = placed] /\ balance' = balance - pays
            /\ coupon' = IF proc[p].coupon THEN coupon + 1 ELSE coupon
        BY <3>1, <3>3
      <4> HIDE DEF placed
      <4>3. order' \in [OrderIds -> OrderRows] /\ CreditedIsPaid' BY <4>1, <4>2 DEF LedgerOK, CreditedIsPaid
      <4>4. balance' \in Nat /\ coupon' \in Int BY <2>3, <4>2 DEF LedgerOK
      <4>5. QED BY <1>2, <4>3, <4>4 DEF PlaceFromBalance, LedgerOK
    <3>4. QED BY <3>2, <3>3
  <2>5. QED BY <1>2, <2>1, <2>4 DEF PlaceFromBalance, SessOK, WorldOK
<1>3. CASE ReserveAndCreate(p)
  <2>1. CASE ~Covers(proc[p].amount)
    <3>1. ProcOK' BY <1>3, <2>1, ReturnKeeps DEF ReserveAndCreate
    <3>2. QED BY <1>3, <2>1, <3>1 DEF ReserveAndCreate, SessOK, LedgerOK, CreditedIsPaid, WorldOK
  <2>2. CASE Covers(proc[p].amount)
    <3>0. proc[p] \in GoodProcs /\ proc[p].coupon \in BOOLEAN /\ proc[p].amount \in 0..Total
          /\ Total - proc[p].amount \in 0..Total
      BY AmountsAssumption DEF ProcOK, GoodProcs, ProcStates
    <3>1. PICK s \in Sessions, provider \in Providers :
              /\ sess' = [sess EXCEPT ![s] = [NoSession EXCEPT !.status = "ACTIVE", !.pre = TRUE, !.provider = provider,
                                         !.amount = Total - proc[p].amount, !.coupon = proc[p].coupon]]
              /\ entry' = [entry EXCEPT ![s].reserve = proc[p].amount]
              /\ balance' = balance - proc[p].amount
              /\ proc' = [proc EXCEPT ![p].at = "gateway", ![p].sess = s]
      BY <1>3, <2>2 DEF ReserveAndCreate
    <3>2. [NoSession EXCEPT !.status = "ACTIVE", !.pre = TRUE, !.provider = provider,
             !.amount = Total - proc[p].amount, !.coupon = proc[p].coupon] \in SessionRows
      BY <3>0, NewSessions
    <3>3. SessOK' BY <3>1, <3>2 DEF SessOK
    <3>4. entry[s] \in EntryRows /\ entry' = [entry EXCEPT ![s] = [entry[s] EXCEPT !.reserve = proc[p].amount]]
      BY <3>1 DEF LedgerOK
    <3>5. [entry[s] EXCEPT !.reserve = proc[p].amount] \in EntryRows BY <3>0, <3>4 DEF EntryRows
    <3>6. entry' \in [Sessions -> EntryRows] BY <3>4, <3>5 DEF LedgerOK
    <3>7. balance' \in Nat BY <1>0, <2>2, <3>0, <3>1 DEF Covers
    <3>8. LedgerOK' BY <1>3, <3>6, <3>7 DEF ReserveAndCreate, LedgerOK, CreditedIsPaid
    <3>9. proc' = [proc EXCEPT ![p] = [proc[p] EXCEPT !.at = "gateway", !.sess = s]] BY <3>1 DEF ProcOK
    <3>10. [proc[p] EXCEPT !.at = "gateway", !.sess = s] \in GoodProcs
      BY <3>0 DEF GoodProcs, ProcStates, Stages, NamesSession, NamesOrder
    <3>11. ProcOK' BY <3>9, <3>10, MoveKeeps
    <3>12. QED BY <1>3, <3>3, <3>8, <3>11 DEF ReserveAndCreate, WorldOK
  <2>3. QED BY <2>1, <2>2
<1>4. QED BY <1>1, <1>2, <1>3

LEMMA AttemptKeepsTypes ==
  ASSUME TypeInv, NEW p \in Procs,
         \/ \E o \in OrderIds : BeginRetry(p, o) \/ BeginLink(p, o)
         \/ RetryExpire(p) \/ LinkExpire(p) \/ StartSession(p)
         \/ GatewayOpens(p) \/ GatewayRefuses(p) \/ ReleaseStep(p)
  PROVE  TypeInv'
<1> USE DEF TypeInv, ledger, outside
<1>0. proc[p] \in GoodProcs BY DEF ProcOK
<1>i. PICK idle \in GoodProcs : idle = Idle BY IdleIsGood
<1>1. ASSUME NEW o \in OrderIds, BeginRetry(p, o) PROVE TypeInv'
  <2>1. AmountDue(o) \in 0..Total BY DueIsAmount
  <2>2. ActiveOf(o) # {} => (CHOOSE s \in ActiveOf(o) : TRUE) \in Sessions BY DEF ActiveOf
  <2>3. ProcOK'
    <3>1. CASE ActiveOf(o) = {}
      <4>1. proc' = [proc EXCEPT ![p] = [idle EXCEPT !.at = "start", !.order = o, !.amount = AmountDue(o)]]
        BY <1>1, <1>i, <3>1 DEF BeginRetry
      <4>2. [idle EXCEPT !.at = "start", !.order = o, !.amount = AmountDue(o)] \in GoodProcs
        BY <2>1 DEF GoodProcs, ProcStates, Stages, NamesSession, NamesOrder
      <4>3. QED BY <4>1, <4>2, MoveKeeps
    <3>2. CASE ActiveOf(o) # {}
      <4>1. PICK s \in Sessions : s = CHOOSE x \in ActiveOf(o) : TRUE BY <2>2, <3>2
      <4>2. proc' = [proc EXCEPT ![p] = [idle EXCEPT !.at = "retryExpire", !.order = o, !.sess = s]]
        BY <1>1, <1>i, <3>2, <4>1 DEF BeginRetry
      <4>3. [idle EXCEPT !.at = "retryExpire", !.order = o, !.sess = s] \in GoodProcs
        BY DEF GoodProcs, ProcStates, Stages, NamesSession, NamesOrder
      <4>4. QED BY <4>2, <4>3, MoveKeeps
    <3>3. QED BY <3>1, <3>2
  <2>4. QED BY <1>1, <2>3 DEF BeginRetry, SessOK, LedgerOK, CreditedIsPaid, WorldOK
<1>2. ASSUME NEW o \in OrderIds, BeginLink(p, o) PROVE TypeInv'
  <2>1. AmountDue(o) \in 0..Total BY DueIsAmount
  <2>2. ActiveOf(o) # {} => (CHOOSE s \in ActiveOf(o) : TRUE) \in Sessions BY DEF ActiveOf
  <2>3. PICK t \in Sessions \cup {None} : t = IF ActiveOf(o) = {} THEN None ELSE CHOOSE s \in ActiveOf(o) : TRUE
    BY <2>2
  <2>4. proc' = [proc EXCEPT ![p] = [idle EXCEPT !.at = "linkExpire", !.order = o, !.amount = AmountDue(o), !.sess = t]]
    BY <1>2, <1>i, <2>3 DEF BeginLink
  <2>5. [idle EXCEPT !.at = "linkExpire", !.order = o, !.amount = AmountDue(o), !.sess = t] \in GoodProcs
    BY <2>1 DEF GoodProcs, ProcStates, Stages, NamesSession, NamesOrder
  <2>6. ProcOK' BY <2>4, <2>5, MoveKeeps
  <2>7. QED BY <1>2, <2>6 DEF BeginLink, SessOK, LedgerOK, CreditedIsPaid, WorldOK
<1>3. CASE RetryExpire(p)
  <2>1. proc[p].order \in OrderIds /\ proc[p].sess \in Sessions
    BY <1>0, <1>3 DEF RetryExpire, GoodProcs, NamesSession, NamesOrder
  <2>2. AmountDue(proc[p].order) \in 0..Total BY <2>1, DueIsAmount
  <2>3. SessOK' BY <1>3, StatusWrite DEF RetryExpire, SessionStatuses
  <2>4. proc' = [proc EXCEPT ![p] = [proc[p] EXCEPT !.at = "start", !.sess = None, !.amount = AmountDue(proc[p].order)]]
    BY <1>3 DEF RetryExpire, ProcOK
  <2>5. [proc[p] EXCEPT !.at = "start", !.sess = None, !.amount = AmountDue(proc[p].order)] \in GoodProcs
    BY <1>0, <2>1, <2>2 DEF GoodProcs, ProcStates, Stages, NamesSession, NamesOrder
  <2>6. ProcOK' BY <2>4, <2>5, MoveKeeps
  <2>7. QED BY <1>3, <2>3, <2>6 DEF RetryExpire, LedgerOK, CreditedIsPaid, WorldOK
<1>4. CASE LinkExpire(p)
  <2>1. proc[p].order \in OrderIds BY <1>0, <1>4 DEF LinkExpire, GoodProcs, NamesOrder
  <2>2. SessOK'
    <3>1. CASE UNCHANGED sess BY <3>1 DEF SessOK
    <3>2. CASE SetStatus(proc[p].sess, "EXPIRED") BY <3>2, StatusWrite DEF SessionStatuses
    <3>3. QED BY <1>4, <3>1, <3>2 DEF LinkExpire
  <2>3. proc' = [proc EXCEPT ![p] = [proc[p] EXCEPT !.at = "start", !.sess = None]]
    BY <1>4 DEF LinkExpire, ProcOK
  <2>4. [proc[p] EXCEPT !.at = "start", !.sess = None] \in GoodProcs
    BY <1>0, <2>1 DEF GoodProcs, ProcStates, Stages, NamesSession, NamesOrder
  <2>5. ProcOK' BY <2>3, <2>4, MoveKeeps
  <2>6. QED BY <1>4, <2>2, <2>5 DEF LinkExpire, LedgerOK, CreditedIsPaid, WorldOK
<1>5. CASE StartSession(p)
  <2>1. proc[p].order \in OrderIds /\ proc[p].amount \in 0..Total
    BY <1>0, <1>5 DEF StartSession, GoodProcs, ProcStates, NamesOrder
  <2>2. WorldOK' BY <1>5 DEF StartSession, WorldOK
  <2>3. LedgerOK' BY <1>5 DEF StartSession, LedgerOK, CreditedIsPaid
  <2>4. CASE Return(p) /\ UNCHANGED sess BY <2>2, <2>3, <2>4, ReturnKeeps DEF SessOK
  <2>5. CASE ~(Return(p) /\ UNCHANGED sess)
    <3>1. PICK s \in Sessions, provider \in Providers :
              /\ sess' = [sess EXCEPT ![s] = [NoSession EXCEPT !.status = "ACTIVE", !.order = proc[p].order,
                                                               !.provider = provider, !.amount = proc[p].amount]]
              /\ proc' = [proc EXCEPT ![p].at = "gateway", ![p].sess = s]
      BY <1>5, <2>5 DEF StartSession
    <3>2. SessOK' BY <2>1, <3>1, NewSessions DEF SessOK
    <3>3. proc' = [proc EXCEPT ![p] = [proc[p] EXCEPT !.at = "gateway", !.sess = s]] BY <3>1 DEF ProcOK
    <3>4. [proc[p] EXCEPT !.at = "gateway", !.sess = s] \in GoodProcs
      BY <1>0 DEF GoodProcs, ProcStates, Stages, NamesSession, NamesOrder
    <3>5. ProcOK' BY <3>3, <3>4, MoveKeeps
    <3>6. QED BY <2>2, <2>3, <3>2, <3>5
  <2>6. QED BY <2>4, <2>5
<1>6. CASE GatewayOpens(p)
  <2>1. ProcOK' BY <1>6, ReturnKeeps DEF GatewayOpens
  <2>2. gw' \in [Sessions -> GatewayStates] BY <1>6 DEF GatewayOpens, GatewayStates, WorldOK
  <2>3. QED BY <1>6, <2>1, <2>2 DEF GatewayOpens, SessOK, LedgerOK, CreditedIsPaid, WorldOK
<1>7. CASE GatewayRefuses(p)
  <2>1. proc[p].sess \in Sessions BY <1>0, <1>7 DEF GatewayRefuses, GoodProcs, NamesSession
  <2>2. SessOK' BY <1>7, StatusWrite DEF GatewayRefuses, SessionStatuses
  <2>3. ProcOK'
    <3>1. CASE Return(p) BY <3>1, ReturnKeeps
    <3>2. CASE Go(p, "release")
      <4>1. proc' = [proc EXCEPT ![p] = [proc[p] EXCEPT !.at = "release"]] BY <3>2 DEF Go, ProcOK
      <4>2. [proc[p] EXCEPT !.at = "release"] \in GoodProcs
        BY <1>0, <2>1 DEF GoodProcs, ProcStates, Stages, NamesSession, NamesOrder
      <4>3. QED BY <4>1, <4>2, MoveKeeps
    <3>3. QED BY <1>7, <3>1, <3>2 DEF GatewayRefuses
  <2>4. QED BY <1>7, <2>2, <2>3 DEF GatewayRefuses, LedgerOK, CreditedIsPaid, WorldOK
<1>8. CASE ReleaseStep(p)
  <2>1. proc[p].sess \in Sessions BY <1>0, <1>8 DEF ReleaseStep, GoodProcs, NamesSession
  <2>2. entry' \in [Sessions -> EntryRows] /\ balance' \in Nat BY <1>8, <2>1, ReleaseKeeps DEF ReleaseStep
  <2>3. ProcOK' BY <1>8, ReturnKeeps DEF ReleaseStep
  <2>4. QED BY <1>8, <2>2, <2>3 DEF ReleaseStep, SessOK, LedgerOK, CreditedIsPaid, WorldOK
<1>9. QED BY <1>1, <1>2, <1>3, <1>4, <1>5, <1>6, <1>7, <1>8

LEMMA PaymentWrite ==
  ASSUME LedgerOK, NEW s \in Sessions, NEW o \in OrderIds \cup {None}, NEW st \in {"SUCCEEDED", "FAILED"},
         payment' = [payment EXCEPT ![s] = [status |-> st, order |-> o]]
  PROVE  payment' \in [Sessions -> PaymentRows]
  BY DEF LedgerOK, PaymentRows

LEMMA ReadForSettleKeeps ==
  ASSUME SessOK, ProcOK, NEW p \in Procs, NEW s \in Sessions, ReadForSettle(p, s)
  PROVE  ProcOK'
<1>1. PICK idle \in GoodProcs : idle = Idle BY IdleIsGood
<1>2. sess[s].order \in OrderIds \cup {None} BY DEF SessOK, SessionRows
<1>3. proc' = [proc EXCEPT ![p] = [idle EXCEPT !.at = "claim", !.sess = s, !.order = sess[s].order]]
  BY <1>1 DEF ReadForSettle
<1>4. [idle EXCEPT !.at = "claim", !.sess = s, !.order = sess[s].order] \in GoodProcs
  BY <1>2 DEF GoodProcs, ProcStates, Stages, NamesSession, NamesOrder
<1>5. QED BY <1>3, <1>4, MoveKeeps

LEMMA SettleKeepsTypes ==
  ASSUME TypeInv, NEW p \in Procs,
         ClaimSession(p) \/ BookCheckout(p) \/ LinkOrder(p) \/ BookOrder(p) \/ RecordFailure(p)
  PROVE  TypeInv'
<1> USE DEF TypeInv, ledger, outside
<1>0. proc[p] \in GoodProcs BY DEF ProcOK
<1>s. proc[p].at \in {"claim", "book", "link", "failRecord"} => proc[p].sess \in Sessions
  BY <1>0 DEF GoodProcs, NamesSession
<1>1. CASE ClaimSession(p)
  <2>1. SessOK'
    <3>1. CASE UNCHANGED sess BY <3>1 DEF SessOK
    <3>2. CASE SetStatus(proc[p].sess, "SUCCEEDED") BY <3>2, StatusWrite DEF SessionStatuses
    <3>3. QED BY <1>1, <3>1, <3>2 DEF ClaimSession
  <2>2. ProcOK'
    <3>1. CASE Return(p) BY <3>1, ReturnKeeps
    <3>2. CASE Go(p, "book")
      <4>1. proc' = [proc EXCEPT ![p] = [proc[p] EXCEPT !.at = "book"]] BY <3>2 DEF Go, ProcOK
      <4>2. [proc[p] EXCEPT !.at = "book"] \in GoodProcs
        BY <1>0, <1>s, <1>1 DEF ClaimSession, GoodProcs, ProcStates, Stages, NamesSession, NamesOrder
      <4>3. QED BY <4>1, <4>2, MoveKeeps
    <3>3. QED BY <1>1, <3>1, <3>2 DEF ClaimSession
  <2>3. QED BY <1>1, <2>1, <2>2 DEF ClaimSession, LedgerOK, CreditedIsPaid, WorldOK
<1>2. CASE BookCheckout(p)
  <2> DEFINE s == proc[p].sess
  <2>1. s \in Sessions BY <1>s, <1>2 DEF BookCheckout
  <2>2. SessOK' /\ WorldOK' BY <1>2 DEF BookCheckout, SessOK, WorldOK
  <2>3. CASE BookingThrows(s)
    <3>1. ProcOK' BY <1>2, <2>3, ReturnKeeps DEF BookCheckout
    <3>2. LedgerOK' BY <1>2, <2>3 DEF BookCheckout, LedgerOK, CreditedIsPaid
    <3>3. QED BY <2>2, <3>1, <3>2
  <2>4. CASE ~BookingThrows(s)
    <3>1. PICK o \in OrderIds :
              /\ order[o].status = "NONE"
              /\ order' = [order EXCEPT ![o] = NewOrderRow("CONFIRMED", sess[s].amount + FromBalance(s), sess[s].coupon)]
              /\ payment' = [payment EXCEPT ![s] = [status |-> "SUCCEEDED", order |-> o]]
              /\ IF Unresolved(s)
                   THEN entry' = [entry EXCEPT ![s].consumed = TRUE] /\ UNCHANGED balance
                   ELSE entry' = [entry EXCEPT ![s].respent = FromBalance(s)] /\ balance' = balance - FromBalance(s)
              /\ coupon' = IF sess[s].coupon THEN coupon + 1 ELSE coupon
              /\ proc' = [proc EXCEPT ![p].at = "link", ![p].order = o]
      BY <1>2, <2>4 DEF BookCheckout
    <3>2. sess[s].amount \in Nat /\ sess[s].coupon \in BOOLEAN
      BY <2>1, AmountsAssumption DEF SessOK, SessionRows
    <3>3. entry[s] \in EntryRows /\ entry[s].reserve \in 0..Total /\ balance \in Nat
      BY <2>1 DEF LedgerOK, EntryRows
    <3>4. FromBalance(s) \in 0..Total /\ (~Unresolved(s) => balance - FromBalance(s) \in Nat)
      BY <3>3, MinIsAmount DEF FromBalance
    <3>5. sess[s].amount + FromBalance(s) \in Nat BY <3>2, <3>4, AmountsAssumption
    <3>6. order' \in [OrderIds -> OrderRows] /\ CreditedIsPaid'
      <4> DEFINE booked == NewOrderRow("CONFIRMED", sess[s].amount + FromBalance(s), sess[s].coupon)
      <4>1. booked \in OrderRows /\ booked.credited <= booked.paid
        <5> DEFINE paid == sess[s].amount + FromBalance(s)
        <5>1. paid \in Nat /\ booked = NewOrderRow("CONFIRMED", paid, sess[s].coupon) BY <3>5
        <5> HIDE DEF paid, booked
        <5>2. QED BY <3>2, <5>1, NewOrders
      <4>2. order' = [order EXCEPT ![o] = booked] BY <3>1
      <4> HIDE DEF booked
      <4>3. QED BY <4>1, <4>2 DEF LedgerOK, CreditedIsPaid
    <3>7. payment' \in [Sessions -> PaymentRows] BY <2>1, <3>1, PaymentWrite
    <3>8. entry' \in [Sessions -> EntryRows] /\ balance' \in Nat
      <4>1. CASE Unresolved(s)
        <5>1. entry' = [entry EXCEPT ![s] = [entry[s] EXCEPT !.consumed = TRUE]] /\ balance' = balance
          BY <3>1, <4>1 DEF LedgerOK
        <5>2. [entry[s] EXCEPT !.consumed = TRUE] \in EntryRows BY <3>3 DEF EntryRows
        <5>3. QED BY <3>3, <5>1, <5>2 DEF LedgerOK
      <4>2. CASE ~Unresolved(s)
        <5>1. entry' = [entry EXCEPT ![s] = [entry[s] EXCEPT !.respent = FromBalance(s)]]
              /\ balance' = balance - FromBalance(s)
          BY <3>1, <4>2 DEF LedgerOK
        <5>2. [entry[s] EXCEPT !.respent = FromBalance(s)] \in EntryRows BY <3>3, <3>4 DEF EntryRows
        <5>3. QED BY <3>4, <4>2, <5>1, <5>2 DEF LedgerOK
      <4>3. QED BY <4>1, <4>2
    <3>9. coupon' \in Int BY <3>1 DEF LedgerOK
    <3>10. LedgerOK' BY <3>6, <3>7, <3>8, <3>9 DEF LedgerOK
    <3>11. proc' = [proc EXCEPT ![p] = [proc[p] EXCEPT !.at = "link", !.order = o]] BY <3>1 DEF ProcOK
    <3>12. [proc[p] EXCEPT !.at = "link", !.order = o] \in GoodProcs
      BY <1>0, <2>1 DEF GoodProcs, ProcStates, Stages, NamesSession, NamesOrder
    <3>13. ProcOK' BY <3>11, <3>12, MoveKeeps
    <3>14. QED BY <2>2, <3>10, <3>13
  <2>5. QED BY <2>3, <2>4
<1>3. CASE LinkOrder(p)
  <2>1. proc[p].sess \in Sessions /\ proc[p].order \in OrderIds
    BY <1>0, <1>3 DEF LinkOrder, GoodProcs, NamesSession, NamesOrder
  <2>2. sess[proc[p].sess] \in SessionRows
        /\ sess' = [sess EXCEPT ![proc[p].sess] = [sess[proc[p].sess] EXCEPT !.order = proc[p].order]]
    BY <1>3, <2>1 DEF LinkOrder, SessOK
  <2>3. [sess[proc[p].sess] EXCEPT !.order = proc[p].order] \in SessionRows BY <2>1, <2>2 DEF SessionRows
  <2>4. SessOK' BY <2>2, <2>3 DEF SessOK
  <2>5. ProcOK' BY <1>3, ReturnKeeps DEF LinkOrder
  <2>6. QED BY <1>3, <2>4, <2>5 DEF LinkOrder, LedgerOK, CreditedIsPaid, WorldOK
<1>4. CASE BookOrder(p)
  <2> DEFINE s == proc[p].sess
             o == proc[p].order
  <2>1. s \in Sessions /\ o \in OrderIds
    BY <1>0, <1>s, <1>4 DEF BookOrder, GoodProcs, ProcStates
  <2>2. ProcOK' BY <1>4, ReturnKeeps DEF BookOrder
  <2>3. LedgerOK'
    <3>1. CASE UNCHANGED <<payment, order>> BY <1>4, <3>1 DEF BookOrder, LedgerOK, CreditedIsPaid
    <3>2. CASE ~UNCHANGED <<payment, order>>
      <4> DEFINE status == IF Confirms(o, sess[s].amount) THEN "CONFIRMED" ELSE order[o].status
                 booked == [order[o] EXCEPT !.paid = order[o].paid + sess[s].amount, !.status = status]
      <4>1. payment' = [payment EXCEPT ![s] = [status |-> "SUCCEEDED", order |-> o]]
            /\ order' = [order EXCEPT ![o] = booked]
        BY <1>4, <2>1, <3>2 DEF BookOrder, LedgerOK
      <4>2. sess[s].amount \in Nat BY <2>1, AmountsAssumption DEF SessOK, SessionRows
      <4>3. order[o] \in OrderRows /\ order[o].credited \in Nat /\ order[o].paid \in Nat
            /\ order[o].credited <= order[o].paid
        BY <2>1 DEF LedgerOK, CreditedIsPaid, OrderRows
      <4>4. status \in {"NONE", "PENDING", "CONFIRMED", "CANCELLED"} BY <4>3 DEF OrderRows
      <4>5. order[o].paid + sess[s].amount \in Nat BY <4>2, <4>3
      <4> HIDE DEF status
      <4>r. PICK r \in OrderRows : r = order[o] BY <4>3
      <4>6. booked \in OrderRows /\ booked.credited <= booked.paid
        <5>1. [r EXCEPT !.paid = order[o].paid + sess[s].amount, !.status = status] \in OrderRows
          BY <4>4, <4>5 DEF OrderRows
        <5>2. booked.credited = order[o].credited /\ booked.paid = order[o].paid + sess[s].amount
          BY <4>3 DEF OrderRows
        <5>3. QED BY <4>2, <4>3, <4>r, <5>1, <5>2
      <4>7. payment' \in [Sessions -> PaymentRows] BY <2>1, <4>1, PaymentWrite
      <4> HIDE DEF booked
      <4>8. order' \in [OrderIds -> OrderRows] /\ CreditedIsPaid' BY <4>1, <4>6 DEF LedgerOK, CreditedIsPaid
      <4>9. QED BY <1>4, <4>7, <4>8 DEF BookOrder, LedgerOK
    <3>3. QED BY <3>1, <3>2
  <2>4. QED BY <1>4, <2>2, <2>3 DEF BookOrder, SessOK, WorldOK
<1>5. CASE RecordFailure(p)
  <2> DEFINE s == proc[p].sess
  <2>1. s \in Sessions BY <1>s, <1>5 DEF RecordFailure
  <2>2. ProcOK' BY <1>5, ReturnKeeps DEF RecordFailure
  <2>3. LedgerOK'
    <3>1. CASE payment[s].status # "none" BY <1>5, <3>1 DEF RecordFailure, LedgerOK, CreditedIsPaid
    <3>2. CASE payment[s].status = "none"
      <4>1. payment' = [payment EXCEPT ![s] = [status |-> "FAILED", order |-> sess[s].order]] /\ ReleaseReservation(s)
        BY <1>5, <3>2 DEF RecordFailure
      <4>2. sess[s].order \in OrderIds \cup {None} BY <2>1 DEF SessOK, SessionRows
      <4>3. payment' \in [Sessions -> PaymentRows] BY <2>1, <4>1, <4>2, PaymentWrite
      <4>4. entry' \in [Sessions -> EntryRows] /\ balance' \in Nat BY <2>1, <4>1, ReleaseKeeps
      <4>5. QED BY <1>5, <4>3, <4>4 DEF RecordFailure, LedgerOK, CreditedIsPaid
    <3>3. QED BY <3>1, <3>2
  <2>4. QED BY <1>5, <2>2, <2>3 DEF RecordFailure, SessOK, WorldOK
<1>6. QED BY <1>1, <1>2, <1>3, <1>4, <1>5

LEMMA CallbackKeepsTypes ==
  ASSUME TypeInv, NEW p \in Procs, NEW s \in Sessions,
         SuccessCallback(p, s) \/ FailCallback(p, s) \/ CancelCallback(p, s)
  PROVE  TypeInv'
<1> USE DEF TypeInv, ledger, outside
<1>i. PICK idle \in GoodProcs : idle = Idle BY IdleIsGood
<1>g. \A st \in {"failRecord", "release"} : [idle EXCEPT !.at = st, !.sess = s] \in GoodProcs
  BY DEF GoodProcs, ProcStates, Stages, NamesSession, NamesOrder
<1>1. CASE SuccessCallback(p, s)
  <2>1. ProcOK' BY <1>1, ReadForSettleKeeps DEF SuccessCallback
  <2>2. QED BY <1>1, <2>1 DEF SuccessCallback, SessOK, LedgerOK, CreditedIsPaid, WorldOK
<1>2. CASE FailCallback(p, s)
  <2>1. SessOK' BY <1>2, StatusWrite DEF FailCallback, SessionStatuses
  <2>2. ProcOK' BY <1>2, <1>i, <1>g, MoveKeeps DEF FailCallback
  <2>3. QED BY <1>2, <2>1, <2>2 DEF FailCallback, LedgerOK, CreditedIsPaid, WorldOK
<1>3. CASE CancelCallback(p, s)
  <2>1. SessOK' BY <1>3, StatusWrite DEF CancelCallback, SessionStatuses
  <2>2. ProcOK' BY <1>3, <1>i, <1>g, MoveKeeps DEF CancelCallback
  <2>3. QED BY <1>3, <2>1, <2>2 DEF CancelCallback, LedgerOK, CreditedIsPaid, WorldOK
<1>4. QED BY <1>1, <1>2, <1>3

LEMMA CronKeepsTypes ==
  ASSUME TypeInv, CronStep
  PROVE  TypeInv'
<1> USE DEF TypeInv, ledger, outside
<1>c. Cron \in Procs /\ proc[Cron] \in GoodProcs BY DEF Procs, ProcOK
<1>m. ASSUME NEW st \in {"idle", "ask", "sweepRelease"}, Go(Cron, st) PROVE ProcOK'
  <2>1. proc' = [proc EXCEPT ![Cron] = [proc[Cron] EXCEPT !.at = st]] BY <1>c, <1>m DEF Go, ProcOK
  <2>2. [proc[Cron] EXCEPT !.at = st] \in GoodProcs
    BY <1>c DEF GoodProcs, ProcStates, Stages, NamesSession, NamesOrder
  <2>3. QED BY <1>c, <2>1, <2>2, MoveKeeps
<1>1. ASSUME NEW s \in Sessions, Reconcile(s) PROVE TypeInv'
  <2>1. ProcOK' BY <1>1, <1>c, ReadForSettleKeeps DEF Reconcile
  <2>2. QED BY <1>1, <2>1 DEF Reconcile, SessOK, LedgerOK, CreditedIsPaid, WorldOK
<1>2. ASSUME NEW s \in Sessions, SweepAsk(s) PROVE TypeInv'
  <2>1. ProcOK'
    <3>1. CASE ReadForSettle(Cron, s) BY <1>c, <3>1, ReadForSettleKeeps
    <3>2. CASE UNCHANGED proc BY <3>2 DEF ProcOK
    <3>3. QED BY <1>2, <3>1, <3>2 DEF SweepAsk
  <2>2. WorldOK'
    <3>1. sweep \in [on : BOOLEAN, ask : SUBSET Sessions, ids : SUBSET Sessions] BY DEF WorldOK
    <3>2. PICK keep \in BOOLEAN :
            sweep' = [sweep EXCEPT !.ask = @ \ {s}, !.ids = IF keep THEN @ ELSE @ \cup {s}]
      BY <1>2 DEF SweepAsk, EpsConfirms, Verified
    <3>3. sweep.ask \ {s} \in SUBSET Sessions
          /\ (IF keep THEN sweep.ids ELSE sweep.ids \cup {s}) \in SUBSET Sessions
      BY <3>1
    <3>4. sweep' \in [on : BOOLEAN, ask : SUBSET Sessions, ids : SUBSET Sessions] BY <3>1, <3>2, <3>3
    <3>5. QED BY <1>2, <3>4 DEF SweepAsk, WorldOK
  <2>3. QED BY <1>2, <2>1, <2>2 DEF SweepAsk, SessOK, LedgerOK, CreditedIsPaid
<1>3. ASSUME NEW s \in Sessions, SweepRelease(s) PROVE TypeInv'
  <2>1. entry' \in [Sessions -> EntryRows] /\ balance' \in Nat BY <1>3, ReleaseKeeps DEF SweepRelease
  <2>2. sweep' \in [on : BOOLEAN, ask : SUBSET Sessions, ids : SUBSET Sessions] BY <1>3 DEF SweepRelease, WorldOK
  <2>3. QED BY <1>3, <2>1, <2>2 DEF SweepRelease, SessOK, LedgerOK, CreditedIsPaid, ProcOK, WorldOK
<1>4. ASSUME BeginSweep PROVE TypeInv'
  <2>1. ProcOK' BY <1>4, <1>m DEF BeginSweep
  <2>2. {s \in Sessions : Stale(s)} \in SUBSET Sessions OBVIOUS
  <2>3. sweep' \in [on : BOOLEAN, ask : SUBSET Sessions, ids : SUBSET Sessions] BY <1>4, <2>2 DEF BeginSweep
  <2>4. QED BY <1>4, <2>1, <2>3 DEF BeginSweep, SessOK, LedgerOK, CreditedIsPaid, WorldOK
<1>5. ASSUME SweepExpire PROVE TypeInv'
  <2>1. ProcOK' BY <1>5, <1>m DEF SweepExpire
  <2>2. \A s \in Sessions : [sess[s] EXCEPT !.status = "EXPIRED"] \in SessionRows
    BY DEF SessOK, SessionRows, SessionStatuses
  <2>3. SessOK' BY <1>5, <2>2 DEF SweepExpire, SessOK
  <2>4. QED BY <1>5, <2>1, <2>3 DEF SweepExpire, LedgerOK, CreditedIsPaid, WorldOK
<1>6. ASSUME EndSweep PROVE TypeInv'
  <2>1. ProcOK' BY <1>6, <1>m DEF EndSweep
  <2>2. QED BY <1>6, <2>1 DEF EndSweep, NoSweep, SessOK, LedgerOK, CreditedIsPaid, WorldOK
<1>7. QED BY <1>1, <1>2, <1>3, <1>4, <1>5, <1>6 DEF CronStep

(* What staff do at the desk writes one row, and takes no money from it.   *)
DeskAct(o) == RecordManualPayment(o) \/ StaffMoves(o) \/ TrashOrRestore(o)
Received(o, amount, late) ==
  [order[o] EXCEPT !.paid = order[o].paid + amount, !.cash = order[o].cash + amount, !.late = order[o].late + late]
Moved(o) ==
  [order[o] EXCEPT !.moved = TRUE, !.status = IF order[o].status = "PENDING" THEN "CONFIRMED" ELSE "PENDING"]
Trashed(o) == [order[o] EXCEPT !.trash = IF order[o].trash = "in" THEN "out" ELSE "in"]

LEMMA DeskWrites ==
  ASSUME LedgerOK, NEW o \in OrderIds, DeskAct(o)
  PROVE  \/ /\ \E amount \in 1..AmountDue(o) :
                   order' = [order EXCEPT ![o] = Received(o, amount, IF AttemptIsOut(o) THEN amount ELSE 0)]
            /\ order[o].status \in {"PENDING", "CONFIRMED"}
         \/ order' = [order EXCEPT ![o] = Moved(o)] /\ order[o].status \in {"PENDING", "CONFIRMED"}
         \/ order' = [order EXCEPT ![o] = Trashed(o)] /\ order[o].status # "NONE"
<1>0. order[o] \in OrderRows /\ order[o].late \in Nat BY DEF LedgerOK, OrderRows
<1>n. \A n \in Nat : n = n + 0 OBVIOUS
<1>1. CASE RecordManualPayment(o)
  <2>1. PICK amount \in 1..AmountDue(o) :
          order' = [order EXCEPT ![o].paid = @ + amount, ![o].cash = @ + amount,
                                 ![o].late = IF AttemptIsOut(o) THEN @ + amount ELSE @]
    BY <1>1 DEF RecordManualPayment
  <2>2. order' = [order EXCEPT ![o] = Received(o, amount, IF AttemptIsOut(o) THEN amount ELSE 0)]
    <3>1. CASE AttemptIsOut(o) BY <2>1, <3>1 DEF LedgerOK, Received
    <3>2. CASE ~AttemptIsOut(o) BY <1>0, <1>n, <2>1, <3>2 DEF LedgerOK, Received
    <3>3. QED BY <3>1, <3>2
  <2>3. QED BY <1>1, <2>2 DEF RecordManualPayment
<1>2. CASE StaffMoves(o) BY <1>2 DEF StaffMoves, Moved, LedgerOK
<1>3. CASE TrashOrRestore(o) BY <1>3 DEF TrashOrRestore, Trashed, LedgerOK
<1>4. QED BY <1>1, <1>2, <1>3 DEF DeskAct

LEMMA DeskRows ==
  ASSUME LedgerOK, NEW o \in OrderIds, DeskAct(o)
  PROVE  \E row \in OrderRows : order' = [order EXCEPT ![o] = row] /\ row.credited <= row.paid
<1>1. order[o] \in OrderRows /\ order[o].paid \in Nat /\ order[o].credited \in Nat /\ order[o].credited <= order[o].paid
      /\ AmountDue(o) \in Nat
  BY DueIsAmount, AmountsAssumption DEF LedgerOK, CreditedIsPaid, OrderRows
<1>2. PICK r \in OrderRows : r = order[o] BY <1>1
<1>3. ASSUME NEW amount \in Nat, NEW late \in Nat
      PROVE  Received(o, amount, late) \in OrderRows
             /\ Received(o, amount, late).credited <= Received(o, amount, late).paid
  <2>0. r.paid + amount \in Nat /\ r.cash + amount \in Nat /\ r.late + late \in Nat BY DEF OrderRows
  <2>1. [r EXCEPT !.paid = r.paid + amount, !.cash = r.cash + amount, !.late = r.late + late] \in OrderRows
    BY <2>0 DEF OrderRows
  <2>2. Received(o, amount, late).credited = order[o].credited /\ Received(o, amount, late).paid = order[o].paid + amount
    BY <1>1 DEF Received, OrderRows
  <2>3. QED BY <1>1, <1>2, <2>1, <2>2 DEF Received
<1>4. Moved(o) \in OrderRows /\ Moved(o).credited <= Moved(o).paid BY <1>1 DEF Moved, OrderRows
<1>5. Trashed(o) \in OrderRows /\ Trashed(o).credited <= Trashed(o).paid BY <1>1 DEF Trashed, OrderRows
<1>6. QED BY <1>1, <1>3, <1>4, <1>5, DeskWrites

LEMMA WorldKeepsTypes ==
  ASSUME TypeInv, World
  PROVE  TypeInv'
<1> USE DEF TypeInv, ledger, outside
<1>1. ASSUME NEW s \in Sessions, GatewayAnswers(s) PROVE TypeInv'
  <2>1. gw' \in [Sessions -> GatewayStates] BY <1>1 DEF GatewayAnswers, GatewayStates, WorldOK
  <2>2. QED BY <1>1, <2>1 DEF GatewayAnswers, SessOK, LedgerOK, CreditedIsPaid, ProcOK, WorldOK
<1>2. ASSUME NEW s \in Sessions, TimePasses(s) PROVE TypeInv'
  <2>1. sess[s] \in SessionRows /\ sess' = [sess EXCEPT ![s] = [sess[s] EXCEPT !.age = sess[s].age + 1]]
    BY <1>2 DEF TimePasses, SessOK
  <2>2. sess[s].age + 1 \in Ages BY <1>2, <2>1, BoundsAssumption DEF TimePasses, SessionRows, Ages
  <2>3. [sess[s] EXCEPT !.age = sess[s].age + 1] \in SessionRows BY <2>1, <2>2 DEF SessionRows
  <2>4. SessOK' BY <2>1, <2>3 DEF SessOK
  <2>5. QED BY <1>2, <2>4 DEF TimePasses, LedgerOK, CreditedIsPaid, ProcOK, WorldOK
<1>3. ASSUME NEW o \in OrderIds, CustomerCancels(o) PROVE TypeInv'
  <2> DEFINE credit == IF order[o].credited = 0 THEN order[o].paid ELSE 0
             written == [order[o] EXCEPT !.status = "CANCELLED", !.credited = order[o].credited + credit]
  <2>1. order[o] \in OrderRows /\ order[o].paid \in Nat /\ order[o].credited \in Nat
        /\ order[o].credited <= order[o].paid
    BY DEF LedgerOK, CreditedIsPaid, OrderRows
  <2>2. credit \in Nat /\ order[o].credited + credit \in Nat /\ order[o].credited + credit <= order[o].paid
    BY <2>1
  <2>3. order' = [order EXCEPT ![o] = written] /\ balance' = balance + credit
    BY <1>3 DEF CustomerCancels, CancellationCredit, LedgerOK
  <2> HIDE DEF credit
  <2>4. written \in OrderRows /\ written.credited <= written.paid
    BY <2>1, <2>2 DEF OrderRows
  <2> HIDE DEF written
  <2>5. order' \in [OrderIds -> OrderRows] /\ CreditedIsPaid' BY <2>3, <2>4 DEF LedgerOK, CreditedIsPaid
  <2>6. balance' \in Nat BY <2>2, <2>3 DEF LedgerOK
  <2>7. coupon' \in Int BY <1>3 DEF CustomerCancels, GivesCouponBack, LedgerOK
  <2>8. LedgerOK' BY <1>3, <2>5, <2>6, <2>7 DEF CustomerCancels, LedgerOK
  <2>9. \A s \in Sessions : [sess[s] EXCEPT !.status = "EXPIRED"] \in SessionRows
    BY DEF SessOK, SessionRows, SessionStatuses
  <2>10. SessOK' BY <1>3, <2>9 DEF CustomerCancels, SessOK
  <2>11. QED BY <1>3, <2>8, <2>10 DEF CustomerCancels, ProcOK, WorldOK
<1>4. ASSUME NEW o \in OrderIds, StaffCancels(o) PROVE TypeInv'
  <2>1. order[o] \in OrderRows /\ order' = [order EXCEPT ![o] = [order[o] EXCEPT !.status = "CANCELLED"]]
    BY <1>4 DEF StaffCancels, LedgerOK
  <2>2. [order[o] EXCEPT !.status = "CANCELLED"] \in OrderRows BY <2>1 DEF OrderRows
  <2>3. order' \in [OrderIds -> OrderRows] /\ CreditedIsPaid'
    BY <2>1, <2>2 DEF LedgerOK, CreditedIsPaid, OrderRows
  <2>4. coupon' \in Int BY <1>4 DEF StaffCancels, GivesCouponBack, LedgerOK
  <2>5. QED BY <1>4, <2>3, <2>4 DEF StaffCancels, SessOK, LedgerOK, ProcOK, WorldOK
<1>5. ASSUME NEW o \in OrderIds, RetryLockTimesOut(o) PROVE TypeInv'
  BY <1>5 DEF RetryLockTimesOut, SessOK, LedgerOK, CreditedIsPaid, ProcOK, WorldOK
<1>6. CASE EpsGoesDown
  <2>1. outages \in Nat /\ outages' = outages + 1 /\ epsUp' = FALSE BY <1>6 DEF EpsGoesDown, WorldOK
  <2>2. outages + 1 \in Nat BY <2>1
  <2>3. WorldOK'
    <3>1. outages' \in Nat BY <2>1, <2>2
    <3>2. epsUp' \in BOOLEAN BY <2>1
    <3>3. QED BY <1>6, <3>1, <3>2 DEF EpsGoesDown, WorldOK
  <2>4. QED BY <1>6, <2>3 DEF EpsGoesDown, SessOK, LedgerOK, CreditedIsPaid, ProcOK
<1>7. CASE EpsComesBack
  BY <1>7 DEF EpsComesBack, SessOK, LedgerOK, CreditedIsPaid, ProcOK, WorldOK
<1>8. ASSUME NEW p \in Procs, ProcessFails(p) PROVE TypeInv'
  <2>1. ProcOK' BY <1>8, IdleIsGood, MoveKeeps DEF ProcessFails
  <2>2. sweep' \in [on : BOOLEAN, ask : SUBSET Sessions, ids : SUBSET Sessions]
    BY <1>8 DEF ProcessFails, NoSweep, WorldOK
  <2>3. QED BY <1>8, <2>1, <2>2 DEF ProcessFails, SessOK, LedgerOK, CreditedIsPaid, WorldOK
<1>9. ASSUME NEW o \in OrderIds, DeskAct(o) PROVE TypeInv'
  <2>1. order[o] \in OrderRows /\ order[o].paid \in Nat /\ order[o].credited <= order[o].paid
        /\ order[o].credited \in Nat
    BY DEF LedgerOK, CreditedIsPaid, OrderRows
  <2>2. PICK row \in OrderRows : order' = [order EXCEPT ![o] = row] /\ row.credited <= row.paid
    BY <1>9, <2>1, DeskRows
  <2>3. order' \in [OrderIds -> OrderRows] /\ CreditedIsPaid' BY <2>2 DEF LedgerOK, CreditedIsPaid
  <2>4. LedgerOK' BY <1>9, <2>3 DEF DeskAct, RecordManualPayment, StaffMoves, TrashOrRestore, LedgerOK
  <2>5. QED BY <1>9, <2>4 DEF DeskAct, RecordManualPayment, StaffMoves, TrashOrRestore, SessOK, ProcOK, WorldOK
<1>10. QED BY <1>1, <1>2, <1>3, <1>4, <1>5, <1>6, <1>7, <1>8, <1>9 DEF World, DeskAct

LEMMA TypeInvNext == TypeInv /\ [Next]_vars => TypeInv'
<1> SUFFICES ASSUME TypeInv, [Next]_vars PROVE TypeInv' OBVIOUS
<1>1. ASSUME NEW p \in Procs, Request(p) PROVE TypeInv'
  BY <1>1, CheckoutKeepsTypes, AttemptKeepsTypes, CallbackKeepsTypes DEF Request
<1>2. ASSUME NEW p \in Procs, HandlerStep(p) PROVE TypeInv'
  BY <1>2, CheckoutKeepsTypes, AttemptKeepsTypes, SettleKeepsTypes DEF HandlerStep
<1>3. CASE CronStep BY <1>3, CronKeepsTypes
<1>4. CASE World BY <1>4, WorldKeepsTypes
<1>5. CASE UNCHANGED vars
  BY <1>5 DEF vars, ledger, TypeInv, SessOK, LedgerOK, CreditedIsPaid, ProcOK, WorldOK
<1>6. QED BY <1>1, <1>2, <1>3, <1>4, <1>5 DEF Next

LEMMA TypeInvImplies == TypeInv => TypeOK
  BY DEF TypeInv, SessOK, LedgerOK, ProcOK, WorldOK, TypeOK, GoodProcs

LEMMA TypeInvAlways == Spec => []TypeInv
<1>1. QED BY TypeInvInit, TypeInvNext, PTL DEF Spec

(* Sessions, payments, entries, orders and processes keep their shapes,    *)
(* and the store balance never goes below zero, however many checkouts,    *)
(* settlements, releases and cancellations spend it and give it back.      *)
THEOREM TypeCorrect == Spec => []TypeOK
<1>1. QED BY TypeInvAlways, TypeInvImplies, PTL

-----------------------------------------------------------------------------
(* One charge per checkout.  A reservation is spent afresh only when the   *)
(* session has no Payment yet; a consumed one always has; and a session    *)
(* that does not exist yet holds nothing.                                  *)
Fresh == \A s \in Sessions : sess[s].status = "NONE" => entry[s].reserve = 0 /\ entry[s].respent = 0
ConsumedIsBooked == \A s \in Sessions : entry[s].consumed => payment[s].status # "none"
ChargeInv == Fresh /\ ConsumedIsBooked /\ NeverChargedTwice

(* Sessions are created, never uncreated; payments are written once.       *)
NoneIsNew == \A s \in Sessions : sess'[s].status = "NONE" => sess[s].status = "NONE"
PaymentsStay == \A s \in Sessions : payment[s].status # "none" => payment'[s] = payment[s]

LEMMA StatusIsNew ==
  ASSUME SessOK, NEW s, NEW st \in {"ACTIVE", "SUCCEEDED", "FAILED", "CANCELLED", "EXPIRED"}, SetStatus(s, st)
  PROVE  NoneIsNew
  BY DEF SessOK, SessionRows, SetStatus, NoneIsNew

LEMMA QuietStep ==
  ASSUME ChargeInv, NoneIsNew, UNCHANGED entry, PaymentsStay
  PROVE  ChargeInv'
  BY DEF ChargeInv, Fresh, ConsumedIsBooked, NeverChargedTwice, NoneIsNew, PaymentsStay

LEMMA ReleaseCharges ==
  ASSUME LedgerOK, ChargeInv, NoneIsNew, PaymentsStay, NEW s \in Sessions, ReleaseReservation(s)
  PROVE  ChargeInv'
<1>1. CASE Unresolved(s)
  <2>1. /\ ~entry[s].consumed
        /\ entry' = [entry EXCEPT ![s].released = TRUE]
    BY <1>1 DEF ReleaseReservation, Unresolved
  <2>2. \A t \in Sessions : /\ entry'[t].reserve = entry[t].reserve /\ entry'[t].respent = entry[t].respent
                            /\ entry'[t].consumed = entry[t].consumed
                            /\ entry'[t].released = IF t = s THEN TRUE ELSE entry[t].released
    BY <2>1 DEF LedgerOK, EntryRows
  <2>3. Fresh' BY <2>2 DEF ChargeInv, Fresh, NoneIsNew
  <2>4. ConsumedIsBooked' BY <2>2 DEF ChargeInv, ConsumedIsBooked, PaymentsStay
  <2>5. NeverChargedTwice' BY <2>1, <2>2 DEF ChargeInv, NeverChargedTwice
  <2>6. QED BY <2>3, <2>4, <2>5 DEF ChargeInv
<1>2. CASE ~Unresolved(s)
  <2>1. UNCHANGED entry BY <1>2 DEF ReleaseReservation
  <2>2. QED BY <2>1, QuietStep
<1>3. QED BY <1>1, <1>2

LEMMA ReserveCharges ==
  ASSUME TypeInv, ChargeInv, NEW p \in Procs, ReserveAndCreate(p)
  PROVE  ChargeInv'
<1>0. UNCHANGED payment BY DEF ReserveAndCreate, ledger
<1>1. CASE ~Covers(proc[p].amount)
  <2>1. NoneIsNew /\ UNCHANGED entry /\ PaymentsStay BY <1>0, <1>1 DEF ReserveAndCreate, NoneIsNew, PaymentsStay
  <2>2. QED BY <2>1, QuietStep
<1>2. CASE Covers(proc[p].amount)
  <2>1. PICK s \in Sessions, provider \in Providers :
            /\ sess[s].status = "NONE"
            /\ sess' = [sess EXCEPT ![s] = [NoSession EXCEPT !.status = "ACTIVE", !.pre = TRUE, !.provider = provider,
                                       !.amount = Total - proc[p].amount, !.coupon = proc[p].coupon]]
            /\ entry' = [entry EXCEPT ![s].reserve = proc[p].amount]
    BY <1>2 DEF ReserveAndCreate
  <2>2. \A t \in Sessions : /\ entry'[t].reserve = IF t = s THEN proc[p].amount ELSE entry[t].reserve
                            /\ entry'[t].respent = entry[t].respent
                            /\ entry'[t].consumed = entry[t].consumed
                            /\ entry'[t].released = entry[t].released
    BY <2>1 DEF TypeInv, LedgerOK, EntryRows
  <2>3. sess'[s].status = "ACTIVE" /\ \A t \in Sessions : t # s => sess'[t] = sess[t]
    BY <2>1 DEF TypeInv, SessOK, NoSession
  <2>4. entry[s].respent = 0 BY <2>1 DEF ChargeInv, Fresh
  <2>5. proc[p].amount \in Nat BY AmountsAssumption DEF TypeInv, ProcOK, GoodProcs, ProcStates
  <2>6. Fresh' BY <2>2, <2>3 DEF ChargeInv, Fresh
  <2>7. ConsumedIsBooked' BY <1>0, <2>2 DEF ChargeInv, ConsumedIsBooked
  <2>8. NeverChargedTwice' BY <2>2, <2>4, <2>5 DEF ChargeInv, NeverChargedTwice
  <2>9. QED BY <2>6, <2>7, <2>8 DEF ChargeInv
<1>3. QED BY <1>1, <1>2

LEMMA BookCharges ==
  ASSUME TypeInv, ChargeInv, NEW p \in Procs, BookCheckout(p)
  PROVE  ChargeInv'
<1> DEFINE s == proc[p].sess
<1>0. s \in Sessions BY DEF BookCheckout, TypeInv, ProcOK, GoodProcs, NamesSession
<1>n. NoneIsNew BY DEF BookCheckout, NoneIsNew
<1>1. CASE BookingThrows(s)
  <2>1. UNCHANGED entry /\ PaymentsStay BY <1>1 DEF BookCheckout, ledger, PaymentsStay
  <2>2. QED BY <1>n, <2>1, QuietStep
<1>2. CASE ~BookingThrows(s)
  <2>1. payment[s].status = "none" BY <1>2 DEF BookingThrows
  <2>2. ~entry[s].consumed BY <1>0, <2>1 DEF ChargeInv, ConsumedIsBooked
  <2>3. PICK o \in OrderIds :
            /\ payment' = [payment EXCEPT ![s] = [status |-> "SUCCEEDED", order |-> o]]
            /\ IF Unresolved(s)
                 THEN entry' = [entry EXCEPT ![s].consumed = TRUE]
                 ELSE entry' = [entry EXCEPT ![s].respent = FromBalance(s)]
    BY <1>2 DEF BookCheckout
  <2>4. payment'[s].status # "none" /\ \A t \in Sessions : t # s => payment'[t] = payment[t]
    BY <1>0, <2>3 DEF TypeInv, LedgerOK
  <2>5. entry[s].reserve \in 0..Total /\ entry[s].reserve \in Nat /\ balance \in Nat
    BY <1>0, AmountsAssumption DEF TypeInv, LedgerOK, EntryRows
  <2>6. CASE Unresolved(s)
    <3>1. ~entry[s].released BY <2>6 DEF Unresolved
    <3>u. entry' = [entry EXCEPT ![s].consumed = TRUE] BY <2>3, <2>6
    <3>2. \A t \in Sessions : /\ entry'[t].reserve = entry[t].reserve
                              /\ entry'[t].respent = entry[t].respent
                              /\ entry'[t].consumed = IF t = s THEN TRUE ELSE entry[t].consumed
                              /\ entry'[t].released = entry[t].released
      BY <3>u DEF TypeInv, LedgerOK, EntryRows
    <3>3. Fresh' BY <1>n, <3>2 DEF ChargeInv, Fresh, NoneIsNew
    <3>4. ConsumedIsBooked' BY <2>4, <3>2 DEF ChargeInv, ConsumedIsBooked
    <3>5. NeverChargedTwice' BY <3>1, <3>2 DEF ChargeInv, NeverChargedTwice
    <3>6. QED BY <3>3, <3>4, <3>5 DEF ChargeInv
  <2>7. CASE ~Unresolved(s)
    <3>1. entry[s].reserve > 0 => entry[s].released BY <2>2, <2>7 DEF Unresolved
    <3>2. FromBalance(s) \in Nat /\ FromBalance(s) <= entry[s].reserve
      BY <2>5, <2>7, MinOfPair DEF FromBalance
    <3>3. \A t \in Sessions : /\ entry'[t].reserve = entry[t].reserve
                              /\ entry'[t].respent = IF t = s THEN FromBalance(s) ELSE entry[t].respent
                              /\ entry'[t].consumed = entry[t].consumed
                              /\ entry'[t].released = entry[t].released
      BY <2>3, <2>7 DEF TypeInv, LedgerOK, EntryRows
    <3>4. Fresh' BY <1>n, <2>5, <3>2, <3>3 DEF ChargeInv, Fresh, NoneIsNew
    <3>5. ConsumedIsBooked' BY <2>4, <3>3 DEF ChargeInv, ConsumedIsBooked
    <3>6. NeverChargedTwice' BY <2>5, <3>1, <3>2, <3>3 DEF ChargeInv, NeverChargedTwice
    <3>7. QED BY <3>4, <3>5, <3>6 DEF ChargeInv
  <2>8. QED BY <2>6, <2>7
<1>3. QED BY <1>1, <1>2

LEMMA HandlerCharges ==
  ASSUME TypeInv, ChargeInv, NEW p \in Procs, HandlerStep(p)
  PROVE  ChargeInv'
<1> USE DEF TypeInv, ledger, outside
<1>s. proc[p].at \in {"release", "failRecord", "book"} => proc[p].sess \in Sessions
  BY DEF ProcOK, GoodProcs, NamesSession
<1>1. CASE PlaceFromBalance(p)
  BY <1>1, QuietStep DEF PlaceFromBalance, NoneIsNew, PaymentsStay
<1>2. CASE ReserveAndCreate(p) BY <1>2, ReserveCharges
<1>3. CASE RetryExpire(p)
  <2>1. NoneIsNew BY <1>3, StatusIsNew DEF RetryExpire
  <2>2. QED BY <1>3, <2>1, QuietStep DEF RetryExpire, PaymentsStay
<1>4. CASE LinkExpire(p)
  <2>1. NoneIsNew
    <3>1. CASE UNCHANGED sess BY <3>1 DEF NoneIsNew
    <3>2. CASE SetStatus(proc[p].sess, "EXPIRED") BY <3>2, StatusIsNew
    <3>3. QED BY <1>4, <3>1, <3>2 DEF LinkExpire
  <2>2. QED BY <1>4, <2>1, QuietStep DEF LinkExpire, PaymentsStay
<1>5. CASE StartSession(p)
  <2>1. NoneIsNew
    <3>1. CASE UNCHANGED sess BY <3>1 DEF NoneIsNew
    <3>2. CASE ~UNCHANGED sess
      <4>1. PICK s \in Sessions, provider \in Providers :
              sess' = [sess EXCEPT ![s] = [NoSession EXCEPT !.status = "ACTIVE", !.order = proc[p].order,
                                                           !.provider = provider, !.amount = proc[p].amount]]
        BY <1>5, <3>2 DEF StartSession
      <4>2. QED BY <4>1 DEF NoneIsNew, SessOK, NoSession
    <3>3. QED BY <3>1, <3>2
  <2>2. QED BY <1>5, <2>1, QuietStep DEF StartSession, PaymentsStay
<1>6. CASE GatewayOpens(p)
  BY <1>6, QuietStep DEF GatewayOpens, NoneIsNew, PaymentsStay
<1>7. CASE GatewayRefuses(p)
  <2>1. NoneIsNew BY <1>7, StatusIsNew DEF GatewayRefuses
  <2>2. QED BY <1>7, <2>1, QuietStep DEF GatewayRefuses, PaymentsStay
<1>8. CASE ReleaseStep(p)
  <2>1. NoneIsNew /\ PaymentsStay BY <1>8 DEF ReleaseStep, NoneIsNew, PaymentsStay
  <2>2. QED BY <1>8, <1>s, <2>1, ReleaseCharges DEF ReleaseStep
<1>9. CASE ClaimSession(p)
  <2>1. NoneIsNew
    <3>1. CASE UNCHANGED sess BY <3>1 DEF NoneIsNew
    <3>2. CASE SetStatus(proc[p].sess, "SUCCEEDED") BY <3>2, StatusIsNew
    <3>3. QED BY <1>9, <3>1, <3>2 DEF ClaimSession
  <2>2. QED BY <1>9, <2>1, QuietStep DEF ClaimSession, PaymentsStay
<1>10. CASE BookCheckout(p) BY <1>10, BookCharges
<1>11. CASE BookOrder(p)
  <2>1. PaymentsStay
    <3>1. CASE UNCHANGED payment BY <3>1 DEF PaymentsStay
    <3>2. CASE ~UNCHANGED payment
      <4>1. payment[proc[p].sess].status = "none"
            /\ payment' = [payment EXCEPT ![proc[p].sess] = [status |-> "SUCCEEDED", order |-> proc[p].order]]
        BY <1>11, <3>2 DEF BookOrder, SettlementThrows
      <4>2. QED BY <4>1 DEF PaymentsStay, LedgerOK
    <3>3. QED BY <3>1, <3>2
  <2>2. QED BY <1>11, <2>1, QuietStep DEF BookOrder, NoneIsNew
<1>12. CASE LinkOrder(p)
  <2>1. NoneIsNew BY <1>12 DEF LinkOrder, NoneIsNew, SessOK, SessionRows
  <2>2. QED BY <1>12, <2>1, QuietStep DEF LinkOrder, PaymentsStay
<1>13. CASE RecordFailure(p)
  <2>1. NoneIsNew BY <1>13 DEF RecordFailure, NoneIsNew
  <2>2. CASE payment[proc[p].sess].status # "none"
    BY <1>13, <2>1, <2>2, QuietStep DEF RecordFailure, PaymentsStay
  <2>3. CASE payment[proc[p].sess].status = "none"
    <3>1. payment' = [payment EXCEPT ![proc[p].sess] = [status |-> "FAILED", order |-> sess[proc[p].sess].order]]
          /\ ReleaseReservation(proc[p].sess)
      BY <1>13, <2>3 DEF RecordFailure
    <3>2. PaymentsStay BY <2>3, <3>1 DEF PaymentsStay, LedgerOK
    <3>3. QED BY <1>13, <1>s, <2>1, <3>1, <3>2, ReleaseCharges DEF RecordFailure
  <2>4. QED BY <2>2, <2>3
<1>14. QED
  BY <1>1, <1>2, <1>3, <1>4, <1>5, <1>6, <1>7, <1>8, <1>9, <1>10, <1>11, <1>12, <1>13 DEF HandlerStep

LEMMA RequestCharges ==
  ASSUME TypeInv, ChargeInv, NEW p \in Procs, Request(p)
  PROVE  ChargeInv'
<1> USE DEF TypeInv, ledger, outside
<1>1. UNCHANGED <<entry, payment>>
  BY DEF Request, BeginCheckout, BeginRetry, BeginLink, SuccessCallback, FailCallback, CancelCallback
<1>2. PaymentsStay BY <1>1 DEF PaymentsStay
<1>3. NoneIsNew
  <2>1. CASE UNCHANGED sess BY <2>1 DEF NoneIsNew
  <2>2. ASSUME NEW s \in Sessions, FailCallback(p, s) PROVE NoneIsNew BY <2>2, StatusIsNew DEF FailCallback
  <2>3. ASSUME NEW s \in Sessions, CancelCallback(p, s) PROVE NoneIsNew BY <2>3, StatusIsNew DEF CancelCallback
  <2>4. QED BY <2>1, <2>2, <2>3 DEF Request, BeginCheckout, BeginRetry, BeginLink, SuccessCallback
<1>4. QED BY <1>1, <1>2, <1>3, QuietStep

LEMMA CronCharges ==
  ASSUME TypeInv, ChargeInv, CronStep
  PROVE  ChargeInv'
<1> USE DEF TypeInv, ledger, outside
<1>1. PaymentsStay
  BY DEF CronStep, Reconcile, SweepAsk, SweepRelease, BeginSweep, SweepExpire, EndSweep, PaymentsStay
<1>2. NoneIsNew
  <2>1. CASE UNCHANGED sess BY <2>1 DEF NoneIsNew
  <2>2. CASE SweepExpire BY <2>2 DEF SweepExpire, NoneIsNew, SessOK, SessionRows
  <2>3. QED BY <2>1, <2>2 DEF CronStep, Reconcile, SweepAsk, SweepRelease, BeginSweep, EndSweep
<1>3. CASE UNCHANGED entry BY <1>1, <1>2, <1>3, QuietStep
<1>4. ASSUME NEW s \in Sessions, SweepRelease(s) PROVE ChargeInv'
  BY <1>1, <1>2, <1>4, ReleaseCharges DEF SweepRelease
<1>5. QED BY <1>3, <1>4 DEF CronStep, Reconcile, SweepAsk, BeginSweep, SweepExpire, EndSweep

LEMMA WorldCharges ==
  ASSUME TypeInv, ChargeInv, World
  PROVE  ChargeInv'
<1> USE DEF TypeInv, ledger, outside
<1>1. UNCHANGED <<entry, payment>>
  BY DEF World, GatewayAnswers, TimePasses, CustomerCancels, StaffCancels, RetryLockTimesOut,
         EpsGoesDown, EpsComesBack, ProcessFails, RecordManualPayment, StaffMoves, TrashOrRestore
<1>2. NoneIsNew
  <2>1. CASE UNCHANGED sess BY <2>1 DEF NoneIsNew
  <2>2. ASSUME NEW s \in Sessions, TimePasses(s) PROVE NoneIsNew
    BY <2>2 DEF TimePasses, NoneIsNew, SessOK, SessionRows
  <2>3. ASSUME NEW o \in OrderIds, CustomerCancels(o) PROVE NoneIsNew
    BY <2>3 DEF CustomerCancels, NoneIsNew, SessOK, SessionRows
  <2>4. QED BY <2>1, <2>2, <2>3
    DEF World, GatewayAnswers, StaffCancels, RetryLockTimesOut, EpsGoesDown, EpsComesBack, ProcessFails,
        RecordManualPayment, StaffMoves, TrashOrRestore
<1>3. QED BY <1>1, <1>2, QuietStep DEF PaymentsStay

LEMMA ChargeInvInit == Init => ChargeInv
<1> SUFFICES ASSUME Init PROVE ChargeInv OBVIOUS
<1>1. entry = [s \in Sessions |-> NoEntry] BY Zenon DEF Init
<1>2. \A s \in Sessions : entry[s].reserve = 0 /\ entry[s].respent = 0 /\ ~entry[s].consumed
  BY <1>1 DEF NoEntry
<1>3. QED BY <1>2 DEF ChargeInv, Fresh, ConsumedIsBooked, NeverChargedTwice

LEMMA ChargeInvNext == TypeInv /\ ChargeInv /\ [Next]_vars => ChargeInv'
<1> SUFFICES ASSUME TypeInv, ChargeInv, [Next]_vars PROVE ChargeInv' OBVIOUS
<1>1. CASE UNCHANGED vars BY <1>1, QuietStep DEF vars, ledger, NoneIsNew, PaymentsStay
<1>2. QED BY <1>1, HandlerCharges, RequestCharges, CronCharges, WorldCharges DEF Next

(* A checkout takes its reserved balance from the customer at most once:   *)
(* whatever number of redirects, IPNs, sweeps, failures and crashes meet   *)
(* on a session, its reservation is paid to the order or given back, and   *)
(* is spent afresh only after it was given back.                           *)
THEOREM ChargedOnce == Spec => []NeverChargedTwice
<1>1. ChargeInv => NeverChargedTwice BY DEF ChargeInv
<1>2. QED BY <1>1, TypeInvAlways, ChargeInvInit, ChargeInvNext, PTL DEF Spec

-----------------------------------------------------------------------------
(* What one step can do to an order: nothing, place it, add one payment of *)
(* an attempt to it, cancel it, or what staff do at the desk.              *)
Placed(o) ==
  /\ order[o].status = "NONE" /\ order'[o].status \in {"PENDING", "CONFIRMED"}
  /\ order'[o].credited = 0
  /\ order'[o].cash = 0 /\ order'[o].late = 0 /\ ~order'[o].moved /\ order'[o].trash = "never"
Paid(o, amount) ==
  order'[o] = [order[o] EXCEPT !.paid = order[o].paid + amount,
                               !.status = IF Confirms(o, amount) THEN "CONFIRMED" ELSE order[o].status]
Cancelled(o) ==
  \E credit \in Nat :
    order'[o] = [order[o] EXCEPT !.status = "CANCELLED", !.credited = order[o].credited + credit]
AtDesk(o) ==
  \/ /\ order[o].status \in {"PENDING", "CONFIRMED"}
     /\ \/ \E amount \in 1..AmountDue(o) :
             order'[o] = Received(o, amount, IF AttemptIsOut(o) THEN amount ELSE 0)
        \/ order'[o] = Moved(o)
  \/ order[o].status # "NONE" /\ order'[o] = Trashed(o)
OrderMove(o) ==
  \/ order'[o] = order[o]
  \/ Placed(o)
  \/ \E amount \in Nat : Paid(o, amount)
  \/ order[o].status # "NONE" /\ Cancelled(o)
  \/ AtDesk(o)

LEMMA OrderMoves ==
  ASSUME TypeInv, [Next]_vars, NEW o \in OrderIds
  PROVE  OrderMove(o)
<1> USE DEF TypeInv, ledger, outside
<1>1. CASE UNCHANGED order BY <1>1 DEF OrderMove
<1>2. ASSUME NEW p \in Procs, PlaceFromBalance(p) PROVE OrderMove(o)
  <2>0. balance \in Nat /\ Total \in Nat BY AmountsAssumption DEF LedgerOK
  <2>1. CASE UNCHANGED order BY <2>1 DEF OrderMove
  <2>2. CASE ~UNCHANGED order
    <3> DEFINE pays == Min({balance, Total})
    <3>1. PICK n \in OrderIds :
            /\ order[n].status = "NONE"
            /\ order' = [order EXCEPT ![n] = NewOrderRow(IF pays = Total THEN "CONFIRMED" ELSE "PENDING", pays, proc[p].coupon)]
      BY <1>2, <2>2 DEF PlaceFromBalance
    <3>2. pays \in Nat /\ pays <= Total BY <2>0, MinOfPair
    <3> HIDE DEF pays
    <3>3. CASE n = o
      <4>1. order'[o] = NewOrderRow(IF pays = Total THEN "CONFIRMED" ELSE "PENDING", pays, proc[p].coupon)
        BY <3>1, <3>3 DEF LedgerOK
      <4>2. proc[p].coupon \in BOOLEAN BY DEF ProcOK, GoodProcs, ProcStates
      <4>3. PICK st \in {"PENDING", "CONFIRMED"} : st = IF pays = Total THEN "CONFIRMED" ELSE "PENDING" OBVIOUS
      <4>s. order'[o] = NewOrderRow(st, pays, proc[p].coupon) BY <4>1, <4>3
      <4>n. Placed(o) BY <3>1, <3>2, <3>3, <4>2, <4>s, NewOrders DEF Placed
      <4>4. QED BY <4>n DEF OrderMove
    <3>4. CASE n # o BY <3>1, <3>4 DEF LedgerOK, OrderMove
    <3>5. QED BY <3>3, <3>4
  <2>3. QED BY <2>1, <2>2
<1>3. ASSUME NEW p \in Procs, BookCheckout(p) PROVE OrderMove(o)
  <2>1. CASE UNCHANGED order BY <2>1 DEF OrderMove
  <2>2. CASE ~UNCHANGED order
    <3> DEFINE s == proc[p].sess
    <3>1. PICK n \in OrderIds :
            /\ order[n].status = "NONE"
            /\ order' = [order EXCEPT ![n] = NewOrderRow("CONFIRMED", sess[s].amount + FromBalance(s), sess[s].coupon)]
      BY <1>3, <2>2 DEF BookCheckout
    <3>2. CASE n = o
      <4>1. order'[o] = NewOrderRow("CONFIRMED", sess[s].amount + FromBalance(s), sess[s].coupon)
        BY <3>1, <3>2 DEF LedgerOK
      <4>2. s \in Sessions BY <1>3 DEF BookCheckout, ProcOK, GoodProcs, NamesSession
      <4>3. sess[s].amount + FromBalance(s) \in Nat /\ sess[s].coupon \in BOOLEAN
        <5>1. sess[s].amount \in Nat /\ sess[s].coupon \in BOOLEAN
          BY <4>2, AmountsAssumption DEF SessOK, SessionRows
        <5>2. entry[s].reserve \in 0..Total /\ balance \in Nat BY <4>2 DEF LedgerOK, EntryRows
        <5>3. FromBalance(s) \in 0..Total BY <5>2, MinIsAmount DEF FromBalance
        <5>4. QED BY <5>1, <5>3, AmountsAssumption
      <4>4. Placed(o)
        <5> DEFINE paid == sess[s].amount + FromBalance(s)
        <5>1. paid \in Nat /\ order'[o] = NewOrderRow("CONFIRMED", paid, sess[s].coupon) BY <4>1, <4>3
        <5> HIDE DEF paid
        <5>2. QED BY <3>1, <3>2, <4>3, <5>1, NewOrders DEF Placed
      <4>5. QED BY <4>4 DEF OrderMove
    <3>3. CASE n # o BY <3>1, <3>3 DEF LedgerOK, OrderMove
    <3>4. QED BY <3>2, <3>3
  <2>3. QED BY <2>1, <2>2
<1>4. ASSUME NEW p \in Procs, BookOrder(p) PROVE OrderMove(o)
  <2>1. CASE UNCHANGED order BY <2>1 DEF OrderMove
  <2>2. CASE ~UNCHANGED order
    <3> DEFINE amount == sess[proc[p].sess].amount
               n == proc[p].order
    <3>1. proc[p].sess \in Sessions /\ n \in OrderIds
      BY <1>4 DEF BookOrder, ProcOK, GoodProcs, ProcStates, NamesSession
    <3>2. amount \in Nat BY <3>1, AmountsAssumption DEF SessOK, SessionRows
    <3>3. order' = [order EXCEPT ![n].paid = @ + amount, ![n].status = IF Confirms(n, amount) THEN "CONFIRMED" ELSE @]
      BY <1>4, <2>2 DEF BookOrder
    <3> HIDE DEF amount, n
    <3>4. CASE n = o
      <4>1. Paid(o, amount) BY <3>3, <3>4 DEF Paid, LedgerOK, OrderRows
      <4>2. QED BY <3>2, <4>1 DEF OrderMove
    <3>5. CASE n # o BY <3>3, <3>5 DEF LedgerOK, OrderMove
    <3>6. QED BY <3>4, <3>5
  <2>3. QED BY <2>1, <2>2
<1>5. ASSUME NEW n \in OrderIds, CustomerCancels(n) \/ StaffCancels(n) PROVE OrderMove(o)
  <2>1. CASE n = o
    <3>0. order[o] \in OrderRows /\ order[o].paid \in Nat /\ order[o].credited \in Nat BY DEF LedgerOK, OrderRows
    <3>1. CASE CustomerCancels(o)
      <4>1. CancellationCredit(o) \in Nat BY <3>0 DEF CancellationCredit
      <4>2. order'[o] = [order[o] EXCEPT !.status = "CANCELLED", !.credited = order[o].credited + CancellationCredit(o)]
        BY <3>1 DEF CustomerCancels, LedgerOK
      <4>3. QED BY <3>1, <4>1, <4>2 DEF OrderMove, Cancelled, CustomerCancels
    <3>2. CASE StaffCancels(o)
      <4>1. order'[o] = [order[o] EXCEPT !.status = "CANCELLED"] BY <3>2 DEF StaffCancels, LedgerOK
      <4>2. [order[o] EXCEPT !.status = "CANCELLED"]
              = [order[o] EXCEPT !.status = "CANCELLED", !.credited = order[o].credited + 0]
        <5>1. order[o].credited + 0 = order[o].credited BY <3>0
        <5>2. PICK r \in OrderRows : r = order[o] BY <3>0
        <5>3. [r EXCEPT !.status = "CANCELLED"] = [r EXCEPT !.status = "CANCELLED", !.credited = r.credited]
          BY DEF OrderRows
        <5>4. QED BY <5>1, <5>2, <5>3
      <4>3. QED BY <3>2, <4>1, <4>2 DEF OrderMove, Cancelled, StaffCancels
    <3>3. QED BY <1>5, <2>1, <3>1, <3>2
  <2>2. CASE n # o BY <1>5, <2>2 DEF CustomerCancels, StaffCancels, LedgerOK, OrderMove
  <2>3. QED BY <2>1, <2>2
<1>6. ASSUME NEW p \in Procs, Request(p) PROVE UNCHANGED order
  BY <1>6 DEF Request, BeginCheckout, BeginRetry, BeginLink, SuccessCallback, FailCallback, CancelCallback
<1>7. ASSUME NEW p \in Procs, HandlerStep(p) PROVE OrderMove(o)
  BY <1>1, <1>2, <1>3, <1>4, <1>7
  DEF HandlerStep, ReserveAndCreate, RetryExpire, LinkExpire, StartSession, GatewayOpens, GatewayRefuses,
      ReleaseStep, ClaimSession, LinkOrder, RecordFailure
<1>8. CronStep => UNCHANGED order
  BY DEF CronStep, Reconcile, SweepAsk, SweepRelease, BeginSweep, SweepExpire, EndSweep
<1>d. ASSUME NEW n \in OrderIds, DeskAct(n) PROVE OrderMove(o)
  <2>1. CASE n = o BY <1>d, <2>1, DeskWrites DEF OrderMove, AtDesk, LedgerOK
  <2>2. CASE n # o
    <3>1. PICK row \in OrderRows : order' = [order EXCEPT ![n] = row] BY <1>d, DeskRows
    <3>2. QED BY <2>2, <3>1 DEF LedgerOK, OrderMove
  <2>3. QED BY <2>1, <2>2
<1>9. CASE World
  BY <1>1, <1>5, <1>d, <1>9
  DEF World, DeskAct, GatewayAnswers, TimePasses, RetryLockTimesOut, EpsGoesDown, EpsComesBack, ProcessFails
<1>10. QED BY <1>1, <1>6, <1>7, <1>8, <1>9 DEF Next, vars

(* No late success, retry, link or cron pass brings a cancelled order back.*)
THEOREM CancelledForGood == Spec => CancelledStays
<1>1. TypeInv /\ [Next]_vars => [\A o \in OrderIds : order[o].status = "CANCELLED" => order'[o].status = "CANCELLED"]_vars
  <2> SUFFICES ASSUME TypeInv, [Next]_vars, NEW o \in OrderIds, order[o].status = "CANCELLED"
               PROVE  order'[o].status = "CANCELLED"
    OBVIOUS
  <2>0. order[o] \in OrderRows BY DEF TypeInv, LedgerOK
  <2>1. ASSUME NEW amount \in Nat, Paid(o, amount) PROVE order'[o].status = "CANCELLED"
    BY <2>0, <2>1 DEF Paid, Confirms, OrderRows
  <2>2. Cancelled(o) => order'[o].status = "CANCELLED" BY <2>0 DEF Cancelled, OrderRows
  <2>3. AtDesk(o) => order'[o].status = "CANCELLED" BY <2>0 DEF AtDesk, Trashed, OrderRows
  <2>4. QED BY <2>1, <2>2, <2>3, OrderMoves DEF OrderMove, Placed
<1>2. QED BY <1>1, TypeInvAlways, PTL DEF Spec, CancelledStays

(* A cancelled order is credited at most once, and never more than it was  *)
(* paid, whatever payments arrive before, between and after.               *)
THEOREM NeverOverCredited == Spec => []CreditedIsPaid
<1>1. TypeInv => CreditedIsPaid BY DEF TypeInv, LedgerOK
<1>2. QED BY <1>1, TypeInvAlways, PTL
=============================================================================
