------------------------ MODULE CourierBookingProofs ------------------------
(***************************************************************************)
(* Theorems about CourierBooking, for any number of calls, parcels, leases *)
(* that run out and unlinks.                                               *)
(***************************************************************************)
EXTENDS CourierBooking, FiniteSetTheorems, SequenceTheorems, TLAPS

\* The right to have a parcel made is a token: the order offers one while it can
\* be claimed, a call holds one from its claim to the courier's answer, and each
\* parcel has used one up.
Holders == {s \in Staff : call[s].step \in {"CLAIMED", "REFUSED"}}
Offered == IF Claimable THEN 1 ELSE 0
Tokens == Len(parcel) + Cardinality(Holders) + Offered

\* What a call or a report names is a parcel, and so is the order's consignment.
NamesAreParcels ==
  /\ order.consignment <= Len(parcel)
  /\ \A s \in Staff : call[s].step = "CREATED" => call[s].consignment \in 1..Len(parcel)
  /\ \A r \in Reporters :
       /\ report[r].step = "READ" => report[r].consignment \in 1..Len(parcel)
       /\ report[r].step \in {"ANSWERED", "NOTED"} => report[r].answer # "none"

TokensAreBounded == Tokens <= 1 + disturbed

IInv == TypeOK /\ NamesAreParcels /\ TokensAreBounded

ParcelStatuses == {"pending"} \cup Final

-----------------------------------------------------------------------------
(* Types. *)

\* Each write to the order leaves an order row.
LEMMA OrderWrites ==
  ASSUME NEW o \in OrderRows, NEW st \in Statuses, NEW n \in 0..MaxParcels,
         NEW c \in CourierStatuses, NEW t \in BOOLEAN, NEW b \in {"no", "new", "recent", "old"}
  PROVE  /\ [o EXCEPT !.claimed = TRUE] \in OrderRows
         /\ [o EXCEPT !.claimed = FALSE] \in OrderRows
         /\ [o EXCEPT !.consignment = n, !.courierStatus = c, !.claimed = FALSE, !.booked = b] \in OrderRows
         /\ [o EXCEPT !.booked = b] \in OrderRows
         /\ [o EXCEPT !.status = st] \in OrderRows
         /\ [o EXCEPT !.courierStatus = c] \in OrderRows
         /\ [o EXCEPT !.trashed = t] \in OrderRows
<1>. USE DEF OrderRows
<1>1. [o EXCEPT !.claimed = TRUE] \in OrderRows /\ [o EXCEPT !.claimed = FALSE] \in OrderRows
  OBVIOUS
<1>2. [o EXCEPT !.consignment = n, !.courierStatus = c, !.claimed = FALSE, !.booked = b] \in OrderRows
  OBVIOUS
<1>6. [o EXCEPT !.booked = b] \in OrderRows
  OBVIOUS
<1>3. [o EXCEPT !.status = st] \in OrderRows
  OBVIOUS
<1>4. [o EXCEPT !.courierStatus = c] \in OrderRows
  OBVIOUS
<1>5. [o EXCEPT !.trashed = t] \in OrderRows
  OBVIOUS
<1>. HIDE DEF OrderRows
<1>. QED
  BY <1>1, <1>2, <1>3, <1>4, <1>5, <1>6

\* Each write to a call leaves a call.
LEMMA CallWrites ==
  ASSUME NEW c \in Calls, NEW st \in Statuses, NEW n \in 0..MaxParcels
  PROVE  /\ NoCall \in Calls
         /\ [step |-> "READ", seen |-> st, consignment |-> 0] \in Calls
         /\ [NoCall EXCEPT !.step = "REFUSED"] \in Calls
         /\ [NoCall EXCEPT !.step = "UNLINKING"] \in Calls
         /\ [c EXCEPT !.step = "CLAIMED"] \in Calls
         /\ [c EXCEPT !.step = "CREATED", !.consignment = n] \in Calls
         /\ [c EXCEPT !.step = "SAVED", !.consignment = 0] \in Calls
<1>. USE DEF Calls, NoCall, Statuses, Closed
<1>0. 0 \in 0..MaxParcels
  BY BoundsAssumption
<1>1. NoCall \in Calls /\ [step |-> "READ", seen |-> st, consignment |-> 0] \in Calls
  BY <1>0
<1>2. [NoCall EXCEPT !.step = "REFUSED"] \in Calls /\ [NoCall EXCEPT !.step = "UNLINKING"] \in Calls
  BY <1>0
<1>3. [c EXCEPT !.step = "CLAIMED"] \in Calls
  BY <1>0
<1>4. [c EXCEPT !.step = "CREATED", !.consignment = n] \in Calls
  BY <1>0
<1>5. [c EXCEPT !.step = "SAVED", !.consignment = 0] \in Calls
  BY <1>0
<1>. HIDE DEF Calls, NoCall
<1>. QED
  BY <1>1, <1>2, <1>3, <1>4, <1>5

\* Each write to a report leaves a report.
LEMMA ReportWrites ==
  ASSUME NEW p \in Reports, NEW b \in BOOLEAN, NEW n \in 0..MaxParcels,
         NEW c \in CourierStatuses, NEW a \in CourierStatuses
  PROVE  /\ NoReport \in Reports
         /\ [step |-> "READ", open |-> b, answer |-> "none", noted |-> c, consignment |-> n] \in Reports
         /\ [p EXCEPT !.step = "REPAIR"] \in Reports
         /\ [p EXCEPT !.step = "POLL"] \in Reports
         /\ [p EXCEPT !.step = "NOTED"] \in Reports
         /\ [p EXCEPT !.step = "ANSWERED", !.answer = a, !.consignment = 0] \in Reports
<1>. USE DEF Reports, NoReport, CourierStatuses, Final
<1>0. 0 \in 0..MaxParcels
  BY BoundsAssumption
<1>1. NoReport \in Reports
  BY <1>0
<1>2. [step |-> "READ", open |-> b, answer |-> "none", noted |-> c, consignment |-> n] \in Reports
  BY <1>0
<1>3. [p EXCEPT !.step = "REPAIR"] \in Reports /\ [p EXCEPT !.step = "POLL"] \in Reports
  BY <1>0
<1>4. [p EXCEPT !.step = "NOTED"] \in Reports
  BY <1>0
<1>5. [p EXCEPT !.step = "ANSWERED", !.answer = a, !.consignment = 0] \in Reports
  BY <1>0
<1>. HIDE DEF Reports, NoReport
<1>. QED
  BY <1>1, <1>2, <1>3, <1>4, <1>5

LEMMA InitInv == Init => IInv
<1>. SUFFICES ASSUME Init PROVE IInv
  OBVIOUS
<1>1. order \in OrderRows
  BY BoundsAssumption DEF Init, OrderRows, Statuses, Closed, CourierStatuses
<1>2. call \in [Staff -> Calls] /\ report \in [Reporters -> Reports]
  <2>1. NoCall \in Calls /\ [NoCall EXCEPT !.step = "AWAY"] \in Calls
    BY BoundsAssumption DEF NoCall, Calls, Statuses
  <2>2. NoReport \in Reports
    BY BoundsAssumption DEF NoReport, Reports, CourierStatuses
  <2>3. [NoReport EXCEPT !.step = "AWAY"] \in Reports
    BY <2>2 DEF Reports
  <2>. QED
    BY <2>1, <2>2, <2>3 DEF Init
<1>3. TypeOK
  <2>1. order.consignment = 0 /\ parcel = <<>> /\ disturbed = 0 /\ dropped = FALSE
    BY DEF Init
  <2>2. parcel \in Seq({"pending"} \cup Final) /\ Len(parcel) <= MaxParcels /\ disturbed \in 0..MaxDisturbed
    BY <2>1, BoundsAssumption
  <2>. QED
    BY <1>1, <1>2, <2>1, <2>2 DEF TypeOK
<1>4. NamesAreParcels
  BY DEF Init, NamesAreParcels, NoCall, NoReport
<1>5. Holders = {}
  BY DEF Init, Holders, NoCall
<1>6. Cardinality(Holders) = 0
  BY <1>5, FS_EmptySet
<1>7. Len(parcel) = 0 /\ disturbed = 0 /\ Offered = 1
  BY DEF Init, Offered, Claimable
<1>8. TokensAreBounded
  BY <1>6, <1>7 DEF TokensAreBounded, Tokens
<1>. QED
  BY <1>3, <1>4, <1>8 DEF IInv

-----------------------------------------------------------------------------
(* Tokens. *)

LEMMA TokenFacts ==
  ASSUME TypeOK
  PROVE  /\ Cardinality(Holders) \in Nat /\ Len(parcel) \in Nat /\ disturbed \in Nat
         /\ Offered \in {0, 1}
         /\ \A s \in Holders : Cardinality(Holders \ {s}) = Cardinality(Holders) - 1
         /\ \A s \in Staff \ Holders : Cardinality(Holders \cup {s}) = Cardinality(Holders) + 1
<1>1. Holders \in SUBSET Staff
  BY DEF Holders
<1>2. IsFiniteSet(Holders)
  BY <1>1, StaffAssumption, FS_Subset
<1>3. Cardinality(Holders) \in Nat
  BY <1>2, FS_CardinalityType
<1>4. Len(parcel) \in Nat /\ disturbed \in Nat
  BY BoundsAssumption, LenProperties DEF TypeOK
<1>5. \A s \in Holders : Cardinality(Holders \ {s}) = Cardinality(Holders) - 1
  BY <1>2, FS_RemoveElement
<1>6. \A s \in Staff \ Holders : Cardinality(Holders \cup {s}) = Cardinality(Holders) + 1
  BY <1>2, FS_AddElement
<1>. QED
  BY <1>3, <1>4, <1>5, <1>6 DEF Offered

\* A step that neither moves a call to or from a holding step nor changes what can
\* be claimed leaves the tokens as they were.
LEMMA TokensKept ==
  ASSUME TokensAreBounded, UNCHANGED <<parcel, disturbed>>, Holders' = Holders,
         order'.consignment = order.consignment, order'.claimed = order.claimed
  PROVE  TokensAreBounded'
<1>1. Offered' = Offered
  BY DEF Offered, Claimable
<1>. QED
  BY <1>1 DEF TokensAreBounded, Tokens

LEMMA OfferedNext == Offered' \in {0, 1}
  BY DEF Offered

\* A call that gives up its token, to a parcel at most.
LEMMA TokenSpent ==
  ASSUME TypeOK, TokensAreBounded, NEW s \in Holders, Holders' = Holders \ {s},
         Len(parcel') + Offered' <= Len(parcel) + Offered + 1, disturbed' = disturbed,
         Len(parcel') \in Nat
  PROVE  TokensAreBounded'
<1>1. Cardinality(Holders)' = Cardinality(Holders) - 1
  BY TokenFacts
<1>. QED
  BY <1>1, TokenFacts, OfferedNext DEF TokensAreBounded, Tokens

-----------------------------------------------------------------------------
(* Bookings and unlinks. *)

LEMMA CallSteps ==
  ASSUME TypeOK, NEW s \in Staff, NEW c \in Calls, call' = [call EXCEPT ![s] = c]
  PROVE  /\ call' \in [Staff -> Calls]
         /\ c.step \in {"CLAIMED", "REFUSED"} => Holders' = Holders \cup {s}
         /\ c.step \notin {"CLAIMED", "REFUSED"} => Holders' = Holders \ {s}
<1>. call \in [Staff -> Calls]
  BY DEF TypeOK
<1>1. call' \in [Staff -> Calls]
  OBVIOUS
<1>2. \A q \in Staff : call'[q] = IF q = s THEN c ELSE call[q]
  OBVIOUS
<1>. QED
  BY <1>1, <1>2 DEF Holders

\* A step of one call that leaves parcels and reports alone keeps the names.
LEMMA NamesKept ==
  ASSUME TypeOK, NamesAreParcels, NEW s \in Staff, NEW c \in Calls, UNCHANGED <<parcel, report>>,
         call' = [call EXCEPT ![s] = c], c.step # "CREATED", order'.consignment <= Len(parcel)
  PROVE  NamesAreParcels'
<1>1. \A q \in Staff : call'[q] = IF q = s THEN c ELSE call[q]
  BY DEF TypeOK
<1>. QED
  BY <1>1 DEF NamesAreParcels

LEMMA BookingKeeps ==
  ASSUME IInv, NEW s \in Staff, Booking(s)
  PROVE  IInv'
<1>. USE DEF IInv, outside
<1>0. /\ call[s] \in Calls /\ order \in OrderRows /\ order.consignment \in 0..MaxParcels
      /\ order.status \in Statuses /\ 0 \in 0..MaxParcels
      /\ call \in [Staff -> Calls]
  BY BoundsAssumption DEF TypeOK, OrderRows
<1>1. CASE ReadForBooking(s)
  <2>. DEFINE c == [step |-> "READ", seen |-> order.status, consignment |-> 0]
  <2>1. c \in Calls /\ c.step = "READ"
    BY <1>0, CallWrites
  <2>2. call' = [call EXCEPT ![s] = c] /\ UNCHANGED <<order, report, parcel, disturbed, dropped>>
    BY <1>1 DEF ReadForBooking
  <2>3. Holders' = Holders \ {s} /\ call' \in [Staff -> Calls]
    BY <2>1, <2>2, CallSteps
  <2>4. s \notin Holders
    BY <1>1 DEF ReadForBooking, Holders
  <2>5. TypeOK'
    BY <2>2, <2>3 DEF TypeOK
  <2>6. NamesAreParcels'
    <3>. HIDE DEF c
    <3>. QED
      BY <2>1, <2>2, NamesKept DEF NamesAreParcels
  <2>7. TokensAreBounded'
    BY <2>2, <2>3, <2>4, TokensKept
  <2>. QED
    BY <2>5, <2>6, <2>7
<1>2. CASE ClaimBooking(s)
  <2>0. UNCHANGED <<report, parcel, disturbed, dropped>> /\ s \notin Holders
    BY <1>2 DEF ClaimBooking, Holders
  <2>1. CASE Claimable
    <3>. DEFINE c == [call[s] EXCEPT !.step = "CLAIMED"]
    <3>1. c \in Calls /\ c.step = "CLAIMED"
      BY <1>0, CallWrites DEF Calls
    <3>2. call' = [call EXCEPT ![s] = c] /\ order' = [order EXCEPT !.claimed = TRUE]
      BY <1>2, <2>1 DEF ClaimBooking
    <3>. HIDE DEF c
    <3>3. Holders' = Holders \cup {s} /\ call' \in [Staff -> Calls]
      BY <3>1, <3>2, CallSteps
    <3>4. order' \in OrderRows
      BY <1>0, <3>2, OrderWrites DEF TypeOK, OrderRows
    <3>5. order'.consignment = order.consignment /\ order'.courierStatus = order.courierStatus
          /\ order'.claimed = TRUE
      BY <1>0, <3>2 DEF OrderRows
    <3>6. TypeOK'
      BY <2>0, <3>3, <3>4, <3>5 DEF TypeOK
    <3>7. NamesAreParcels'
      BY <2>0, <3>1, <3>2, <3>5, NamesKept DEF NamesAreParcels
    <3>8. Offered = 1 /\ Offered' = 0
      BY <2>1, <3>5 DEF Offered, Claimable
    <3>9. Cardinality(Holders)' = Cardinality(Holders) + 1
      BY <2>0, <3>3, TokenFacts
    <3>10. TokensAreBounded'
      BY <2>0, <3>8, <3>9, TokenFacts DEF TokensAreBounded, Tokens
    <3>. QED
      BY <3>6, <3>7, <3>10
  <2>2. CASE ~Claimable
    <3>1. NoCall \in Calls /\ NoCall.step = "IDLE"
      BY <1>0, CallWrites DEF NoCall
    <3>2. call' = [call EXCEPT ![s] = NoCall] /\ order' = order
      BY <1>2, <2>2 DEF ClaimBooking, EndCall
    <3>3. Holders' = Holders \ {s} /\ call' \in [Staff -> Calls]
      BY <3>1, <3>2, CallSteps
    <3>4. TypeOK'
      BY <2>0, <3>2, <3>3 DEF TypeOK
    <3>5. NamesAreParcels'
      BY <2>0, <3>1, <3>2, NamesKept DEF NamesAreParcels
    <3>6. TokensAreBounded'
      BY <2>0, <3>2, <3>3, TokensKept
    <3>. QED
      BY <3>4, <3>5, <3>6
  <2>. QED
    BY <2>1, <2>2
<1>3. CASE CreateShipment(s)
  <2>. DEFINE c == [call[s] EXCEPT !.step = "CREATED", !.consignment = Len(parcel')]
  <2>1. parcel' = Append(parcel, "pending") /\ Len(parcel) < MaxParcels
        /\ UNCHANGED <<order, report, disturbed, dropped>> /\ s \in Holders
    BY <1>3 DEF CreateShipment, Created, Holders
  <2>2. parcel' \in Seq(ParcelStatuses) /\ Len(parcel') = Len(parcel) + 1 /\ Len(parcel) \in Nat
    BY <2>1, AppendProperties, LenProperties DEF TypeOK, ParcelStatuses
  <2>3. Len(parcel') \in 0..MaxParcels /\ Len(parcel') \in 1..Len(parcel')
    BY <2>1, <2>2, BoundsAssumption
  <2>4. c \in Calls /\ c.step = "CREATED" /\ c.consignment = Len(parcel')
    <3>1. c \in Calls
      BY <1>0, <2>3, CallWrites
    <3>. QED
      BY <1>0, <3>1 DEF Calls
  <2>5. call' = [call EXCEPT ![s] = c]
    <3>1. call' = [call EXCEPT ![s] = [[call[s] EXCEPT !.step = "CREATED"] EXCEPT !.consignment = Len(parcel')]]
      BY <1>0, <1>3 DEF CreateShipment
    <3>. QED
      BY <1>0, <3>1 DEF Calls
  <2>. HIDE DEF c
  <2>6. Holders' = Holders \ {s} /\ call' \in [Staff -> Calls]
    BY <2>4, <2>5, CallSteps
  <2>7. TypeOK'
    BY <2>1, <2>2, <2>3, <2>6 DEF TypeOK, ParcelStatuses
  <2>8. \A q \in Staff : call'[q] = IF q = s THEN c ELSE call[q]
    BY <1>0, <2>5
  <2>9. order'.consignment <= Len(parcel')
    BY <1>0, <2>1, <2>2 DEF NamesAreParcels
  <2>10. 1..Len(parcel) \subseteq 1..Len(parcel')
    BY <2>2
  <2>11. NamesAreParcels'
    BY <2>1, <2>3, <2>4, <2>8, <2>9, <2>10 DEF NamesAreParcels
  <2>12. Offered' = Offered
    BY <2>1 DEF Offered, Claimable
  <2>13. TokensAreBounded'
    <3>1. Len(parcel') \in Nat /\ Len(parcel') + Offered' <= Len(parcel) + Offered + 1
      BY <2>2, <2>12, TokenFacts
    <3>. QED
      BY <2>1, <2>6, <3>1, TokenSpent
  <2>. QED
    BY <2>7, <2>11, <2>13
<1>4. CASE CourierRefuses(s)
  <2>. DEFINE c == [NoCall EXCEPT !.step = "REFUSED"]
  <2>1. c \in Calls /\ c.step = "REFUSED"
    BY <1>0, CallWrites DEF NoCall
  <2>2. call' = [call EXCEPT ![s] = c] /\ UNCHANGED <<order, report, parcel, disturbed, dropped>>
        /\ s \in Holders
    BY <1>4 DEF CourierRefuses, CallAt, Holders
  <2>. HIDE DEF c
  <2>3. Holders' = Holders /\ call' \in [Staff -> Calls]
    <3>1. Holders' = Holders \cup {s} /\ call' \in [Staff -> Calls]
      BY <2>1, <2>2, CallSteps
    <3>. QED
      BY <2>2, <3>1
  <2>4. TypeOK'
    BY <2>2, <2>3 DEF TypeOK
  <2>5. NamesAreParcels'
    BY <2>1, <2>2, NamesKept DEF NamesAreParcels
  <2>6. TokensAreBounded'
    BY <2>2, <2>3, TokensKept
  <2>. QED
    BY <2>4, <2>5, <2>6
<1>5. NoCall \in Calls /\ NoCall.step = "IDLE"
  BY <1>0, CallWrites DEF NoCall
<1>6. CASE OutcomeUnknown(s)
  <2>1. call' = [call EXCEPT ![s] = NoCall] /\ UNCHANGED <<order, report, disturbed, dropped>>
        /\ s \in Holders /\ (UNCHANGED parcel \/ (parcel' = Append(parcel, "pending") /\ Len(parcel) < MaxParcels))
    BY <1>6 DEF OutcomeUnknown, Created, EndCall, Holders
  <2>2. parcel' \in Seq(ParcelStatuses) /\ Len(parcel) \in Nat
        /\ Len(parcel') \in {Len(parcel), Len(parcel) + 1} /\ Len(parcel') <= MaxParcels
    BY <2>1, AppendProperties, LenProperties, BoundsAssumption DEF TypeOK, ParcelStatuses
  <2>3. Holders' = Holders \ {s} /\ call' \in [Staff -> Calls]
    BY <1>5, <2>1, CallSteps
  <2>4. TypeOK'
    BY <2>1, <2>2, <2>3 DEF TypeOK, ParcelStatuses
  <2>5. \A q \in Staff : call'[q] = IF q = s THEN NoCall ELSE call[q]
    BY <1>0, <2>1
  <2>6. order'.consignment <= Len(parcel') /\ 1..Len(parcel) \subseteq 1..Len(parcel')
    BY <1>0, <2>1, <2>2 DEF NamesAreParcels
  <2>7. NamesAreParcels'
    BY <1>5, <2>1, <2>5, <2>6 DEF NamesAreParcels
  <2>8. Offered' = Offered
    BY <2>1 DEF Offered, Claimable
  <2>9. Len(parcel') \in Nat /\ Len(parcel') + Offered' <= Len(parcel) + Offered + 1
    BY <2>2, <2>8, TokenFacts
  <2>10. TokensAreBounded'
    BY <2>1, <2>3, <2>9, TokenSpent
  <2>. QED
    BY <2>4, <2>7, <2>10
<1>7. CASE ReleaseClaim(s)
  <2>1. call' = [call EXCEPT ![s] = NoCall] /\ UNCHANGED <<report, parcel, disturbed, dropped>>
        /\ s \in Holders /\ order' \in {order, [order EXCEPT !.claimed = FALSE]}
    BY <1>7 DEF ReleaseClaim, EndCall, Holders
  <2>2. order' \in OrderRows
    <3>1. "none" \in CourierStatuses
      BY DEF CourierStatuses
    <3>2. [order EXCEPT !.claimed = FALSE] \in OrderRows
      BY <1>0, <3>1, OrderWrites
    <3>. QED
      BY <1>0, <2>1, <3>2
  <2>3. order'.consignment = order.consignment /\ order'.courierStatus = order.courierStatus
    BY <1>0, <2>1 DEF OrderRows
  <2>4. Holders' = Holders \ {s} /\ call' \in [Staff -> Calls]
    BY <1>5, <2>1, CallSteps
  <2>5. TypeOK'
    BY <2>1, <2>2, <2>3, <2>4 DEF TypeOK
  <2>6. NamesAreParcels'
    BY <1>5, <2>1, <2>3, NamesKept DEF NamesAreParcels
  <2>7. Len(parcel') \in Nat /\ Len(parcel') + Offered' <= Len(parcel) + Offered + 1
    BY <2>1, TokenFacts, OfferedNext
  <2>8. TokensAreBounded'
    BY <2>1, <2>4, <2>7, TokenSpent
  <2>. QED
    BY <2>5, <2>6, <2>8
<1>8. CASE SaveConsignment(s)
  <2>. DEFINE c == [call[s] EXCEPT !.step = "SAVED", !.consignment = 0]
              n == call[s].consignment
  <2>1. c \in Calls /\ c.step = "SAVED"
    <3>1. c \in Calls
      BY <1>0, CallWrites
    <3>. QED
      BY <1>0, <3>1 DEF Calls
  <2>2. order' = [order EXCEPT !.consignment = n, !.courierStatus = "pending", !.claimed = FALSE,
                               !.booked = "new"]
        /\ UNCHANGED <<report, parcel, disturbed, dropped>> /\ s \notin Holders
        /\ call[s].step = "CREATED"
    BY <1>8 DEF SaveConsignment, Saved, Holders
  <2>3. call' = [call EXCEPT ![s] = c]
    <3>1. call' = [call EXCEPT ![s] = [[call[s] EXCEPT !.step = "SAVED"] EXCEPT !.consignment = 0]]
      BY <1>0, <1>8 DEF SaveConsignment
    <3>. QED
      BY <1>0, <3>1 DEF Calls
  <2>4. n \in 1..Len(parcel) /\ n \in 0..MaxParcels
    BY <1>0, <2>2 DEF NamesAreParcels, Calls
  <2>. HIDE DEF c, n
  <2>5. order' \in OrderRows
    BY <1>0, <2>2, <2>4, OrderWrites DEF CourierStatuses
  <2>6. order'.consignment = n /\ order'.courierStatus = "pending"
    BY <1>0, <2>2 DEF OrderRows
  <2>7. Holders' = Holders /\ call' \in [Staff -> Calls]
    BY ZenonT(40), <2>1, <2>2, <2>3, CallSteps
  <2>8. TypeOK'
    BY <2>2, <2>5, <2>6, <2>7 DEF TypeOK
  <2>9. n <= Len(parcel)
    BY <2>4
  <2>10. NamesAreParcels'
    BY <2>1, <2>2, <2>3, <2>6, <2>9, NamesKept
  <2>11. Offered' = 0
    BY <2>4, <2>6 DEF Offered, Claimable
  <2>12. TokensAreBounded'
    BY <2>2, <2>7, <2>11, TokenFacts DEF TokensAreBounded, Tokens
  <2>. QED
    BY <2>8, <2>10, <2>12
<1>9. CASE ShipOnBooking(s)
  <2>1. call' = [call EXCEPT ![s] = NoCall] /\ UNCHANGED <<report, parcel, disturbed, dropped>>
        /\ s \notin Holders /\ order' \in {order, [order EXCEPT !.status = "SHIPPED"]}
    BY <1>9 DEF ShipOnBooking, Shipped, EndCall, Holders
  <2>2. order' \in OrderRows
    <3>1. "SHIPPED" \in Statuses /\ "none" \in CourierStatuses
      BY DEF Statuses, CourierStatuses
    <3>2. [order EXCEPT !.status = "SHIPPED"] \in OrderRows
      BY <1>0, <3>1, OrderWrites
    <3>. QED
      BY <1>0, <2>1, <3>2
  <2>3. order'.consignment = order.consignment /\ order'.courierStatus = order.courierStatus
        /\ order'.claimed = order.claimed
    BY <1>0, <2>1 DEF OrderRows
  <2>4. Holders' = Holders /\ call' \in [Staff -> Calls]
    <3>1. Holders' = Holders \ {s} /\ call' \in [Staff -> Calls]
      BY <1>5, <2>1, CallSteps
    <3>. QED
      BY <2>1, <3>1
  <2>5. TypeOK'
    BY <2>1, <2>2, <2>3, <2>4 DEF TypeOK
  <2>6. NamesAreParcels'
    BY <1>5, <2>1, <2>3, NamesKept DEF NamesAreParcels
  <2>7. TokensAreBounded'
    BY <2>1, <2>3, <2>4, TokensKept
  <2>. QED
    BY <2>5, <2>6, <2>7
<1>10. CASE ReadForUnlink(s)
  <2>. DEFINE c == [NoCall EXCEPT !.step = "UNLINKING"]
  <2>1. c \in Calls /\ c.step = "UNLINKING"
    BY <1>0, CallWrites DEF NoCall
  <2>2. call' = [call EXCEPT ![s] = c] /\ UNCHANGED <<order, report, parcel, disturbed, dropped>>
        /\ s \notin Holders
    BY <1>10 DEF ReadForUnlink, CallAt, Holders
  <2>. HIDE DEF c
  <2>3. Holders' = Holders /\ call' \in [Staff -> Calls]
    BY ZenonT(40), <2>1, <2>2, CallSteps
  <2>4. TypeOK'
    BY <2>2, <2>3 DEF TypeOK
  <2>5. NamesAreParcels'
    BY <2>1, <2>2, NamesKept DEF NamesAreParcels
  <2>6. TokensAreBounded'
    BY <2>2, <2>3, TokensKept
  <2>. QED
    BY <2>4, <2>5, <2>6
<1>11. CASE Unlink(s)
  <2>1. call' = [call EXCEPT ![s] = NoCall] /\ UNCHANGED <<report, parcel, dropped>>
        /\ s \notin Holders /\ disturbed' = disturbed + 1 /\ disturbed < MaxDisturbed
        /\ order' = [order EXCEPT !.consignment = 0, !.courierStatus = "none", !.claimed = FALSE,
                                  !.booked = "no"]
    BY <1>11 DEF Unlink, EndCall, Holders
  <2>2. order' \in OrderRows
    BY <1>0, <2>1, OrderWrites DEF TypeOK, CourierStatuses
  <2>3. order'.consignment = 0
    BY <1>0, <2>1 DEF OrderRows
  <2>4. Holders' = Holders /\ call' \in [Staff -> Calls]
    BY ZenonT(40), <1>5, <2>1, CallSteps
  <2>5. disturbed' \in 0..MaxDisturbed
    BY <2>1, BoundsAssumption DEF TypeOK
  <2>6. TypeOK'
    BY <2>1, <2>2, <2>3, <2>4, <2>5 DEF TypeOK
  <2>7. order'.consignment <= Len(parcel)
    BY <2>3, TokenFacts
  <2>8. NamesAreParcels'
    BY <1>5, <2>1, <2>7, NamesKept
  <2>9. TokensAreBounded'
    BY <2>1, <2>4, TokenFacts, OfferedNext DEF TokensAreBounded, Tokens
  <2>. QED
    BY <2>6, <2>8, <2>9
<1>. QED
  BY <1>1, <1>2, <1>3, <1>4, <1>6, <1>7, <1>8, <1>9, <1>10, <1>11 DEF Booking

-----------------------------------------------------------------------------
(* Reports, and everything else: no token moves, and no call. *)

LEMMA CallsAside ==
  ASSUME IInv, UNCHANGED <<call, disturbed>>, parcel' \in Seq(ParcelStatuses), Len(parcel') = Len(parcel),
         order' \in OrderRows, order'.consignment = order.consignment,
         order'.claimed = order.claimed, order'.consignment # 0 => order'.courierStatus # "none",
         report' \in [Reporters -> Reports], dropped' \in BOOLEAN,
         \A r \in Reporters :
           /\ report'[r].step = "READ" => report'[r].consignment \in 1..Len(parcel)
           /\ report'[r].step \in {"ANSWERED", "NOTED"} => report'[r].answer # "none"
  PROVE  IInv'
<1>1. TypeOK'
  BY DEF IInv, TypeOK, ParcelStatuses
<1>2. NamesAreParcels'
  BY DEF IInv, NamesAreParcels
<1>3. Holders' = Holders /\ Offered' = Offered
  BY DEF Holders, Offered, Claimable
<1>4. TokensAreBounded'
  BY <1>3 DEF IInv, TokensAreBounded, Tokens
<1>. QED
  BY <1>1, <1>2, <1>4 DEF IInv

\* One report that takes its next step.
LEMMA ReportSteps ==
  ASSUME IInv, NEW r \in Reporters, NEW p \in Reports, report' = [report EXCEPT ![r] = p],
         p.step = "READ" => p.consignment \in 1..Len(parcel),
         p.step \in {"ANSWERED", "NOTED"} => p.answer # "none"
  PROVE  /\ report' \in [Reporters -> Reports]
         /\ \A q \in Reporters :
              /\ report'[q].step = "READ" => report'[q].consignment \in 1..Len(parcel)
              /\ report'[q].step \in {"ANSWERED", "NOTED"} => report'[q].answer # "none"
<1>1. report \in [Reporters -> Reports]
  BY DEF IInv, TypeOK
<1>2. \A q \in Reporters : report'[q] = IF q = r THEN p ELSE report[q]
  BY <1>1
<1>3. report' \in [Reporters -> Reports]
  BY <1>1
<1>. QED
  BY <1>2, <1>3 DEF IInv, NamesAreParcels

LEMMA ReportsAside ==
  ASSUME IInv, UNCHANGED <<parcel, report>>
  PROVE  /\ report' \in [Reporters -> Reports]
         /\ parcel' \in Seq(ParcelStatuses) /\ Len(parcel') = Len(parcel)
         /\ \A q \in Reporters :
              /\ report'[q].step = "READ" => report'[q].consignment \in 1..Len(parcel)
              /\ report'[q].step \in {"ANSWERED", "NOTED"} => report'[q].answer # "none"
BY DEF IInv, TypeOK, NamesAreParcels, ParcelStatuses

LEMMA RowFacts ==
  ASSUME IInv
  PROVE  /\ order \in OrderRows /\ order.consignment \in 0..MaxParcels /\ order.status \in Statuses
         /\ order.courierStatus \in CourierStatuses /\ order.trashed \in BOOLEAN
         /\ order.consignment # 0 => order.courierStatus # "none"
         /\ order.consignment # 0 => order.consignment \in 1..Len(parcel)
         /\ parcel \in Seq(ParcelStatuses) /\ dropped \in BOOLEAN
         /\ 0 \in 0..MaxParcels /\ "none" \in CourierStatuses /\ "SHIPPED" \in Statuses
         /\ report \in [Reporters -> Reports] /\ Sweep \in Reporters
<1>1. order \in OrderRows /\ order.consignment \in 0..MaxParcels /\ order.status \in Statuses
      /\ order.courierStatus \in CourierStatuses
  BY DEF IInv, TypeOK, OrderRows
<1>2. order.trashed \in BOOLEAN
  <2>. USE DEF OrderRows
  <2>. QED
    BY <1>1, Zenon
<1>3. order.consignment # 0 => order.consignment \in 1..Len(parcel)
  BY <1>1, LenProperties, BoundsAssumption DEF IInv, TypeOK, NamesAreParcels
<1>4. 0 \in 0..MaxParcels /\ "none" \in CourierStatuses /\ "SHIPPED" \in Statuses
  BY BoundsAssumption DEF CourierStatuses, Statuses
<1>5. Sweep \in Reporters
  BY DEF Reporters
<1>. QED
  BY <1>1, <1>2, <1>3, <1>4, <1>5 DEF IInv, TypeOK, ParcelStatuses

LEMMA ReadingIsReport ==
  ASSUME IInv, NEW r \in Reporters
  PROVE  /\ Reading(r) \in Reports /\ Reading(r).step = "READ"
         /\ Reading(r).consignment = order.consignment
<1>1. (order.status \notin Closed) \in BOOLEAN
  OBVIOUS
<1>2. (IF r = Sweep THEN order.courierStatus ELSE "none") \in CourierStatuses
  BY RowFacts
<1>3. Reading(r) \in Reports
  BY <1>1, <1>2, RowFacts, ReportWrites DEF Reading
<1>. QED
  BY <1>3 DEF Reading

\* Steps that write a report and nothing else.
LEMMA ReadingKeeps ==
  ASSUME IInv,
         \/ \E r \in Handlers : BeginReport(r)
         \/ SweepPolls
         \/ \E r \in Reporters : CourierAnswers(r) \/ CourierFails(r)
  PROVE  IInv'
<1>1. ASSUME NEW r \in Reporters, NEW p \in Reports, report' = [report EXCEPT ![r] = p],
             p.step = "READ" => p.consignment \in 1..Len(parcel),
             p.step \in {"ANSWERED", "NOTED"} => p.answer # "none",
             UNCHANGED <<order, call, outside>>
      PROVE  IInv'
  BY <1>1, ReportSteps, CallsAside, RowFacts DEF outside
<1>2. ASSUME NEW r \in Reporters, report' = [report EXCEPT ![r] = Reading(r)], order.consignment # 0,
             UNCHANGED <<order, call, outside>>
      PROVE  IInv'
  <2>1. /\ Reading(r) \in Reports /\ Reading(r).step = "READ"
        /\ Reading(r).consignment \in 1..Len(parcel)
    BY <1>2, ReadingIsReport, RowFacts
  <2>. QED
    BY <1>1, <1>2, <2>1
<1>3. NoReport \in Reports /\ NoReport.step = "IDLE"
  BY RowFacts, ReportWrites DEF NoReport
<1>4. ASSUME NEW r \in Handlers, BeginReport(r) PROVE IInv'
  BY <1>2, <1>4 DEF BeginReport, Reporters
<1>6. CASE SweepPolls
  <2>1. CASE OpenParcel
    <3>1. order.consignment # 0 /\ report' = [report EXCEPT ![Sweep] = Reading(Sweep)]
          /\ UNCHANGED <<order, call, outside>>
      BY <1>6, <2>1 DEF SweepPolls, OpenParcel
    <3>. QED
      BY <1>2, <3>1, RowFacts
  <2>2. CASE ~OpenParcel
    <3>1. report' = [report EXCEPT ![Sweep] = NoReport] /\ UNCHANGED <<order, call, outside>>
      BY <1>6, <2>2 DEF SweepPolls
    <3>. QED
      BY <1>1, <1>3, <3>1, RowFacts
  <2>. QED
    BY <2>1, <2>2
<1>7. ASSUME NEW r \in Reporters, CourierAnswers(r) PROVE IInv'
  <2>. DEFINE a == parcel[report[r].consignment]
              p == [report[r] EXCEPT !.step = "ANSWERED", !.answer = a, !.consignment = 0]
  <2>1. report[r] \in Reports
    BY RowFacts
  <2>2. report[r].consignment \in 1..Len(parcel)
    BY <1>7 DEF CourierAnswers, IInv, NamesAreParcels
  <2>3. a \in ParcelStatuses
    BY <2>2, RowFacts, ElementOfSeq
  <2>4. a \in CourierStatuses /\ a # "none"
    BY <2>3 DEF ParcelStatuses, CourierStatuses, Final
  <2>5. report' = [report EXCEPT ![r] = p] /\ UNCHANGED <<order, call, outside>>
    <3>1. report' = [report EXCEPT ![r] =
             [[[report[r] EXCEPT !.step = "ANSWERED"] EXCEPT !.answer = a] EXCEPT !.consignment = 0]]
      BY <1>7, RowFacts DEF CourierAnswers
    <3>2. [[[report[r] EXCEPT !.step = "ANSWERED"] EXCEPT !.answer = a] EXCEPT !.consignment = 0] = p
      BY <2>1 DEF Reports
    <3>3. UNCHANGED <<order, call, outside>>
      BY <1>7 DEF CourierAnswers
    <3>. QED
      BY <3>1, <3>2, <3>3
  <2>. HIDE DEF a
  <2>6. p \in Reports
    BY <2>1, <2>4, RowFacts, ReportWrites
  <2>7. p.step = "ANSWERED" /\ p.answer = a
    BY <2>1 DEF Reports
  <2>. HIDE DEF p
  <2>. QED
    BY <1>1, <2>4, <2>5, <2>6, <2>7
<1>8. ASSUME NEW r \in Reporters, CourierFails(r) PROVE IInv'
  BY <1>1, <1>3, <1>8 DEF CourierFails, EndReport
<1>. QED
  BY <1>4, <1>6, <1>7, <1>8

\* Steps that write the order, except its consignment and its claim.
LEMMA OrderKeeps ==
  ASSUME IInv, UNCHANGED <<call, parcel, disturbed>>, dropped' \in BOOLEAN,
         \/ \E st \in Statuses : order' = [order EXCEPT !.status = st]
         \/ \E t \in BOOLEAN : order' = [order EXCEPT !.trashed = t]
         \/ \E b \in {"recent", "old"} : order' = [order EXCEPT !.booked = b]
         \/ \E c \in CourierStatuses \ {"none"} : order' = [order EXCEPT !.courierStatus = c]
         \/ UNCHANGED order,
         \/ UNCHANGED report
         \/ \E r \in Reporters, p \in Reports :
              /\ report' = [report EXCEPT ![r] = p] /\ p.step # "READ"
              /\ p.step \in {"ANSWERED", "NOTED"} => p.answer # "none"
  PROVE  IInv'
<1>1. order' \in OrderRows
  <2>0. order \in OrderRows
    BY RowFacts
  <2>1. CASE \E st \in Statuses : order' = [order EXCEPT !.status = st]
    <3>1. PICK st \in Statuses : order' = [order EXCEPT !.status = st]
      BY <2>1
    <3>2. [order EXCEPT !.status = st] \in OrderRows
      BY <2>0 DEF OrderRows
    <3>. QED
      BY <3>1, <3>2
  <2>2. CASE \E t \in BOOLEAN : order' = [order EXCEPT !.trashed = t]
    <3>1. PICK t \in BOOLEAN : order' = [order EXCEPT !.trashed = t]
      BY <2>2
    <3>2. [order EXCEPT !.trashed = t] \in OrderRows
      BY <2>0 DEF OrderRows
    <3>. QED
      BY <3>1, <3>2
  <2>4. CASE \E b \in {"recent", "old"} : order' = [order EXCEPT !.booked = b]
    <3>1. PICK b \in {"recent", "old"} : order' = [order EXCEPT !.booked = b]
      BY <2>4
    <3>2. [order EXCEPT !.booked = b] \in OrderRows
      BY <2>0 DEF OrderRows
    <3>. QED
      BY <3>1, <3>2
  <2>3. CASE \E c \in CourierStatuses \ {"none"} : order' = [order EXCEPT !.courierStatus = c]
    <3>1. PICK c \in CourierStatuses : order' = [order EXCEPT !.courierStatus = c]
      BY <2>3
    <3>2. [order EXCEPT !.courierStatus = c] \in OrderRows
      BY <2>0 DEF OrderRows
    <3>. QED
      BY <3>1, <3>2
  <2>. QED
    BY <2>0, <2>1, <2>2, <2>3, <2>4
<1>2. order'.consignment = order.consignment /\ order'.claimed = order.claimed
      /\ (order'.consignment # 0 => order'.courierStatus # "none")
  <2>. USE DEF OrderRows
  <2>1. CASE \E st \in Statuses : order' = [order EXCEPT !.status = st]
    BY <2>1, RowFacts
  <2>2. CASE \E t \in BOOLEAN : order' = [order EXCEPT !.trashed = t]
    BY <2>2, RowFacts
  <2>3. CASE \E c \in CourierStatuses \ {"none"} : order' = [order EXCEPT !.courierStatus = c]
    BY <2>3, RowFacts
  <2>4. CASE \E b \in {"recent", "old"} : order' = [order EXCEPT !.booked = b]
    BY <2>4, RowFacts
  <2>5. CASE UNCHANGED order
    BY <2>5, RowFacts
  <2>. QED
    BY <2>1, <2>2, <2>3, <2>4, <2>5
<1>3. /\ report' \in [Reporters -> Reports]
      /\ \A q \in Reporters :
           /\ report'[q].step = "READ" => report'[q].consignment \in 1..Len(parcel)
           /\ report'[q].step \in {"ANSWERED", "NOTED"} => report'[q].answer # "none"
  BY ReportSteps, ReportsAside
<1>. QED
  BY <1>1, <1>2, <1>3, CallsAside, RowFacts

LEMMA WritingKeeps ==
  ASSUME IInv,
         \/ SweepBegins \/ SweepRepairs
         \/ \E r \in Reporters : NoteStatus(r) \/ MoveOrder(r) \/ ReportDies(r)
         \/ \E to \in Statuses : ChangeStatus(to)
         \/ TrashOrRestore \/ BookingAges
  PROVE  IInv'
<1>0. /\ NoReport \in Reports /\ NoReport.step = "IDLE"
      /\ \A r \in Reporters : report[r] \in Reports
  BY RowFacts, ReportWrites DEF NoReport
<1>1. CASE SweepRepairs
  <2>. DEFINE p == [report[Sweep] EXCEPT !.step = "POLL"]
  <2>1. p \in Reports /\ p.step = "POLL"
    <3>1. p \in Reports
      BY <1>0, RowFacts, ReportWrites
    <3>. QED
      BY <1>0, <3>1, RowFacts DEF Reports
  <2>2. report' = [report EXCEPT ![Sweep] = p] /\ UNCHANGED <<call, parcel, disturbed, dropped>>
    BY <1>1 DEF SweepRepairs, outside
  <2>3. order' = [order EXCEPT !.status = "SHIPPED"] \/ UNCHANGED order
    BY <1>1 DEF SweepRepairs, Shipped
  <2>. HIDE DEF p
  <2>. QED
    BY <2>1, <2>2, <2>3, RowFacts, OrderKeeps
<1>2. ASSUME NEW r \in Reporters, NoteStatus(r) PROVE IInv'
  <2>. DEFINE p == [report[r] EXCEPT !.step = "NOTED"]
              a == report[r].answer
  <2>1. a \in CourierStatuses \ {"none"}
    <3>1. a \in CourierStatuses
      BY <1>0 DEF Reports
    <3>2. a # "none"
      BY <1>2 DEF NoteStatus, IInv, NamesAreParcels
    <3>. QED
      BY <3>1, <3>2
  <2>2. p \in Reports /\ p.step = "NOTED" /\ p.answer = a
    <3>1. p \in Reports
      BY <1>0, RowFacts, ReportWrites
    <3>. QED
      BY <1>0, <3>1 DEF Reports
  <2>3. UNCHANGED <<call, parcel, disturbed, dropped>>
    BY <1>2 DEF NoteStatus, outside
  <2>4. order' = [order EXCEPT !.courierStatus = a] \/ UNCHANGED order
    BY <1>2 DEF NoteStatus
  <2>5. report' = [report EXCEPT ![r] = p] \/ report' = [report EXCEPT ![r] = NoReport]
    BY <1>2 DEF NoteStatus, EndReport
  <2>. HIDE DEF p, a
  <2>6. \/ \E c \in CourierStatuses \ {"none"} : order' = [order EXCEPT !.courierStatus = c]
        \/ UNCHANGED order
    BY <2>1, <2>4
  <2>7. \E q \in Reporters, z \in Reports :
          /\ report' = [report EXCEPT ![q] = z] /\ z.step # "READ"
          /\ z.step \in {"ANSWERED", "NOTED"} => z.answer # "none"
    BY <1>0, <2>1, <2>2, <2>5
  <2>. QED
    BY <2>3, <2>6, <2>7, RowFacts, OrderKeeps
<1>3. ASSUME NEW r \in Reporters, MoveOrder(r) \/ ReportDies(r) PROVE IInv'
  <2>1. report' = [report EXCEPT ![r] = NoReport] /\ UNCHANGED <<call, parcel, disturbed>>
    BY <1>3 DEF MoveOrder, ReportDies, EndReport
  <2>2. dropped' \in BOOLEAN
    <3>1. dropped \in BOOLEAN
      BY RowFacts
    <3>2. CASE ReportDies(r)
      BY <3>2 DEF ReportDies
    <3>3. CASE MoveOrder(r)
      BY <3>1, <3>3 DEF MoveOrder
    <3>. QED
      BY <1>3, <3>2, <3>3
  <2>3. Mapped(report[r].answer) \in Statuses
    BY DEF Mapped, Statuses, Closed
  <2>4. order' = [order EXCEPT !.status = Mapped(report[r].answer)] \/ UNCHANGED order
    BY <1>3 DEF MoveOrder, ReportDies
  <2>. QED
    BY <1>0, <2>1, <2>2, <2>3, <2>4, OrderKeeps
<1>4. ASSUME NEW to \in Statuses, ChangeStatus(to) PROVE IInv'
  BY <1>4, RowFacts, OrderKeeps DEF ChangeStatus, outside
<1>5. CASE TrashOrRestore
  <2>1. order' = [order EXCEPT !.trashed = ~order.trashed] /\ UNCHANGED <<call, report, parcel, disturbed, dropped>>
    BY <1>5 DEF TrashOrRestore, outside
  <2>2. (~order.trashed) \in BOOLEAN
    OBVIOUS
  <2>. QED
    BY <2>1, <2>2, RowFacts, OrderKeeps
<1>6. CASE SweepBegins
  <2>. DEFINE p == [report[Sweep] EXCEPT !.step = IF BookedNotShipped THEN "REPAIR" ELSE "POLL"]
  <2>1. report[Sweep] \in Reports
    BY RowFacts
  <2>2. p \in {[report[Sweep] EXCEPT !.step = "REPAIR"], [report[Sweep] EXCEPT !.step = "POLL"]}
    OBVIOUS
  <2>3. p \in Reports
    <3>1. [report[Sweep] EXCEPT !.step = "REPAIR"] \in Reports
          /\ [report[Sweep] EXCEPT !.step = "POLL"] \in Reports
      BY <2>1, RowFacts, ReportWrites
    <3>. QED
      BY <2>2, <3>1
  <2>4. p.step \in {"REPAIR", "POLL"}
    BY <2>1 DEF Reports
  <2>5. report' = [report EXCEPT ![Sweep] = p] /\ UNCHANGED <<call, parcel, disturbed, dropped>>
    BY <1>6 DEF SweepBegins, outside
  <2>6. order' = [order EXCEPT !.booked = "recent"] \/ UNCHANGED order
    BY <1>6 DEF SweepBegins
  <2>. HIDE DEF p
  <2>. QED
    BY <2>3, <2>4, <2>5, <2>6, RowFacts, OrderKeeps
<1>7. CASE BookingAges
  <2>1. order' = [order EXCEPT !.booked = "old"] /\ UNCHANGED <<call, report, parcel, disturbed, dropped>>
    BY <1>7 DEF BookingAges, outside
  <2>. QED
    BY <2>1, RowFacts, OrderKeeps
<1>. QED
  BY <1>1, <1>2, <1>3, <1>4, <1>5, <1>6, <1>7

LEMMA ResolveKeeps ==
  ASSUME IInv, NEW id \in DOMAIN parcel, NEW status \in Final, Resolve(id, status)
  PROVE  IInv'
<1>1. parcel' = [parcel EXCEPT ![id] = status] /\ UNCHANGED <<order, call, report, disturbed, dropped>>
  BY DEF Resolve
<1>2. id \in 1..Len(parcel) /\ status \in ParcelStatuses
  BY RowFacts, LenProperties DEF ParcelStatuses
<1>3. parcel' \in Seq(ParcelStatuses) /\ Len(parcel') = Len(parcel)
  BY <1>1, <1>2, RowFacts, ExceptSeq
<1>. QED
  BY <1>1, <1>3, RowFacts, CallsAside DEF IInv, NamesAreParcels

LEMMA LeaseKeeps == ASSUME IInv, LeaseExpires PROVE IInv'
<1>1. order' = [order EXCEPT !.claimed = FALSE] /\ UNCHANGED <<call, report, parcel, dropped>>
      /\ disturbed' = disturbed + 1 /\ disturbed < MaxDisturbed
  BY DEF LeaseExpires
<1>2. order' \in OrderRows
  BY <1>1, RowFacts, OrderWrites
<1>3. order'.consignment = order.consignment /\ order'.courierStatus = order.courierStatus
  BY <1>1, RowFacts DEF OrderRows
<1>4. disturbed' \in 0..MaxDisturbed
  BY <1>1, BoundsAssumption DEF IInv, TypeOK
<1>5. TypeOK'
  BY <1>1, <1>2, <1>3, <1>4 DEF IInv, TypeOK
<1>6. NamesAreParcels'
  BY <1>1, <1>3 DEF IInv, NamesAreParcels
<1>7. Holders' = Holders
  BY <1>1 DEF Holders
<1>8. TokensAreBounded'
  BY <1>1, <1>7, TokenFacts, OfferedNext DEF IInv, TokensAreBounded, Tokens
<1>. QED
  BY <1>5, <1>6, <1>8 DEF IInv

LEMMA StutterKeeps == ASSUME IInv, UNCHANGED vars PROVE IInv'
BY CallsAside, ReportsAside, RowFacts DEF vars

LEMMA Invariance == Spec => []IInv
<1>1. IInv /\ [Next]_vars => IInv'
  BY BookingKeeps, ReadingKeeps, WritingKeeps, ResolveKeeps, LeaseKeeps, StutterKeeps
  DEF Next, Reporting, Sweeping, Around
<1>. QED
  BY <1>1, InitInv, PTL DEF Spec

-----------------------------------------------------------------------------
(* The theorems. *)

\* Rows, calls and reports keep their shapes, and a report never writes "no
\* status" on a booked order, for any number of calls and parcels.
THEOREM TypeCorrect == Spec => []TypeOK
BY Invariance, PTL DEF IInv

\* A parcel is made only with a token, and only a lease that runs out or an unlink
\* gives the order one back: claimCourierBooking keeps every other booking away
\* from the courier.
THEOREM ParcelsAccounted == Spec => []ParcelsAreAccountedFor
<1>1. IInv => ParcelsAreAccountedFor
  BY TokenFacts DEF IInv, TokensAreBounded, Tokens, ParcelsAreAccountedFor
<1>. QED
  BY <1>1, Invariance, PTL

\* Every write of the status looks at the row it writes: no report and no booking
\* begun before an order closed moves it afterwards.
THEOREM ClosedStays == Spec => ClosedStaysClosed
<1>1. ASSUME IInv, [Next]_vars, order.status \in Closed
      PROVE  order'.status = order.status
  <2>0. order \in OrderRows /\ order.status \notin {"OPEN", "SHIPPED"}
    BY <1>1, RowFacts DEF Closed
  <2>1. \A to \in Statuses : ~CanTransition(order.status, to)
    BY <2>0 DEF CanTransition
  <2>2. ASSUME NEW s \in Staff, Booking(s) PROVE order'.status = order.status
    BY <1>1, <2>0, <2>2
    DEF Booking, ReadForBooking, ClaimBooking, CreateShipment, CourierRefuses, OutcomeUnknown,
        ReleaseClaim, SaveConsignment, ShipOnBooking, ReadForUnlink, Unlink, Saved, Shipped, OrderRows
  <2>3. ASSUME NEW r \in Reporters, Reporting(r) PROVE order'.status = order.status
    <3>1. Mapped(report[r].answer) \in Statuses
      BY DEF Mapped, Statuses, Closed
    <3>. QED
      BY <2>0, <2>1, <2>3, <3>1
      DEF Reporting, CourierAnswers, CourierFails, NoteStatus, MoveOrder, ReportDies, OrderRows
  <2>4. CASE Sweeping
    BY <1>1, <2>0, <2>4 DEF Sweeping, SweepBegins, SweepRepairs, SweepPolls, Shipped, OrderRows
  <2>5. CASE Around
    BY <2>0, <2>1, <2>5 DEF Around, LeaseExpires, BookingAges, TrashOrRestore, ChangeStatus, Resolve, OrderRows
  <2>6. ASSUME NEW r \in Handlers, BeginReport(r) PROVE order'.status = order.status
    BY <2>6 DEF BeginReport
  <2>7. CASE UNCHANGED vars
    BY <2>7 DEF vars
  <2>. QED
    BY <1>1, <2>2, <2>3, <2>4, <2>5, <2>6, <2>7 DEF Next
<1>2. IInv /\ [Next]_vars => [order.status \in Closed => order'.status = order.status]_vars
  BY <1>1
<1>. QED
  BY <1>2, Invariance, PTL DEF Spec, ClosedStaysClosed
=============================================================================
