--------------------------- MODULE CourierBooking ---------------------------
(***************************************************************************)
(* One order and its courier: modules/courier/courier.service.ts.          *)
(*                                                                         *)
(* Staff book a parcel in five steps (read the order, claim it, call the   *)
(* courier, save the consignment, ship the order) with no transaction      *)
(* around them, so that another booking, a report, an unlink, a            *)
(* cancellation or the end of the process comes between any two. Reports   *)
(* of the parcel reach the order through webhook calls and staff's looks   *)
(* (Handlers) and through the sweep of jobs/courier-status-cron.ts, each   *)
(* in four steps of its own. An action is one statement, one transaction   *)
(* or one call of the courier.                                             *)
(*                                                                         *)
(* The statuses before SHIPPED are one, OPEN; partial deliveries stand     *)
(* with DELIVERED, and what follows a closed status is OrderStock's. Time  *)
(* is what the statements test of it: whether a claim has outlived its     *)
(* lease, and whether a booking is older than the 48 hours that the repair *)
(* of the sweep looks back.                                                *)
(***************************************************************************)
EXTENDS Integers, Sequences, FiniteSets

CONSTANTS
  Staff,          \* calls of staff: bookings and unlinks
  Handlers,       \* webhook calls and staff's looks at the status
  Sweep,          \* the sweep
  Casts,          \* bound: the sets of calls and handlers that take part together
  MaxParcels,     \* bound: consignments the courier creates
  MaxDisturbed    \* bound: leases that run out and unlinks

ASSUME StaffAssumption == IsFiniteSet(Staff)
ASSUME SweepAssumption == Sweep \notin Handlers
ASSUME BoundsAssumption == MaxParcels \in Nat /\ MaxDisturbed \in Nat

VARIABLES
  order,      \* the Order row
  call,       \* Staff -> the step a call of staff is at, and what it holds
  report,     \* Reporters -> the step a report is at, and what it read
  parcel,     \* the courier's consignments, in the order of their ids, and their statuses
  disturbed,  \* ghost: leases that ran out and unlinks so far
  dropped     \* ghost: a final status was noted on the order, and the report ended there

vars == <<order, call, report, parcel, disturbed, dropped>>
outside == <<parcel, disturbed, dropped>>

Reporters == Handlers \cup {Sweep}
Closed == {"DELIVERED", "CANCELLED"}
Statuses == {"OPEN", "SHIPPED"} \cup Closed
Final == {"delivered", "cancelled"}
CourierStatuses == {"none", "pending"} \cup Final
\* mapSteadfastStatusToOrderStatus
Mapped(status) == IF status = "delivered" THEN "DELIVERED" ELSE "CANCELLED"

\* consignment: 0 for none. claimed: courierBookingStartedAt is set and
\* within its lease. booked: courierBookedAt, "new" until the sweep has looked
\* since, "old" once it is out of the repair's 48 hours.
OrderRows ==
  [status : Statuses, trashed : BOOLEAN, consignment : 0..MaxParcels,
   courierStatus : CourierStatuses, claimed : BOOLEAN,
   booked : {"no", "new", "recent", "old"}]

\* AWAY: it is not of the cast, and never comes. seen: the order's status when
\* the call read it.
Calls ==
  [step : {"AWAY", "IDLE", "READ", "CLAIMED", "REFUSED", "CREATED", "SAVED", "UNLINKING"},
   seen : Statuses, consignment : 0..MaxParcels]
NoCall == [step |-> "IDLE", seen |-> "OPEN", consignment |-> 0]

\* open: the order was not closed when read; noted: its courier status then, for
\* the sweep; answer: the courier's.
Reports ==
  [step : {"AWAY", "IDLE", "REPAIR", "POLL", "READ", "ANSWERED", "NOTED"}, open : BOOLEAN,
   noted : CourierStatuses, answer : CourierStatuses, consignment : 0..MaxParcels]
NoReport ==
  [step |-> "IDLE", open |-> TRUE, noted |-> "none", answer |-> "none", consignment |-> 0]

\* The order state machine, as far as it goes here.
CanTransition(from, to) ==
  \/ from = "OPEN" /\ to \in {"SHIPPED"} \cup Closed
  \/ from = "SHIPPED" /\ to \in {"OPEN"} \cup Closed

Init ==
  /\ order = [status |-> "OPEN", trashed |-> FALSE, consignment |-> 0,
              courierStatus |-> "none", claimed |-> FALSE, booked |-> "no"]
  /\ \E cast \in Casts :
       /\ call = [s \in Staff |-> IF s \in cast THEN NoCall ELSE [NoCall EXCEPT !.step = "AWAY"]]
       /\ report = [r \in Reporters |->
            IF r \in cast \cup {Sweep} THEN NoReport ELSE [NoReport EXCEPT !.step = "AWAY"]]
  /\ parcel = <<>>
  /\ disturbed = 0 /\ dropped = FALSE

\* A step that needs nothing more of what the call read.
CallAt(s, step) == call' = [call EXCEPT ![s] = [NoCall EXCEPT !.step = step]]
EndCall(s) == call' = [call EXCEPT ![s] = NoCall]
EndReport(r) == report' = [report EXCEPT ![r] = NoReport]

-----------------------------------------------------------------------------
(* A booking. *)

ReadForBooking(s) ==
  /\ call[s].step = "IDLE"
  /\ ~order.trashed /\ order.consignment = 0 /\ order.status \notin Closed
  /\ call' = [call EXCEPT ![s] = [step |-> "READ", seen |-> order.status, consignment |-> 0]]
  /\ UNCHANGED <<order, report, outside>>

\* Faulty: a claim still within its lease does not stop another one.
Faulty_Claimable == order.consignment = 0
Claimable == order.consignment = 0 /\ ~order.claimed
\* Neither the status nor Trash is looked at again.
ClaimBooking(s) ==
  /\ call[s].step = "READ"
  /\ IF Claimable THEN /\ order' = [order EXCEPT !.claimed = TRUE]
                       /\ call' = [call EXCEPT ![s].step = "CLAIMED"]
     ELSE UNCHANGED order /\ EndCall(s)
  /\ UNCHANGED <<report, outside>>

Created == parcel' = Append(parcel, "pending") /\ Len(parcel) < MaxParcels
CreateShipment(s) ==
  /\ call[s].step = "CLAIMED"
  /\ Created
  /\ call' = [call EXCEPT ![s].step = "CREATED", ![s].consignment = Len(parcel')]
  /\ UNCHANGED <<order, report, disturbed, dropped>>
CourierRefuses(s) ==
  /\ call[s].step = "CLAIMED"
  /\ CallAt(s, "REFUSED")
  /\ UNCHANGED <<order, report, outside>>
\* A timeout or an error of the courier: there may be a parcel; the claim is kept.
OutcomeUnknown(s) ==
  /\ call[s].step = "CLAIMED"
  /\ Created \/ UNCHANGED parcel
  /\ EndCall(s)
  /\ UNCHANGED <<order, report, disturbed, dropped>>
\* The claim released may by now be another call's.
ReleaseClaim(s) ==
  /\ call[s].step = "REFUSED"
  /\ order' = IF order.consignment = 0 THEN [order EXCEPT !.claimed = FALSE] ELSE order
  /\ EndCall(s)
  /\ UNCHANGED <<report, outside>>

\* Faulty: the courier's first status is not saved.
Faulty_Saved(id) ==
  [order EXCEPT !.consignment = id, !.claimed = FALSE, !.booked = "new"]
Saved(id) ==
  [order EXCEPT !.consignment = id, !.courierStatus = "pending", !.claimed = FALSE, !.booked = "new"]
SaveConsignment(s) ==
  /\ call[s].step = "CREATED"
  /\ order' = Saved(call[s].consignment)
  /\ call' = [call EXCEPT ![s].step = "SAVED", ![s].consignment = 0]
  /\ UNCHANGED <<report, outside>>

\* Faulty: the status the call read decides, not the row's under its lock.
Faulty_Shipped(seen) ==
  IF seen = "OPEN" /\ ~order.trashed THEN [order EXCEPT !.status = "SHIPPED"] ELSE order
\* An order read before it shipped goes through PACKED, from SHIPPED too, to
\* SHIPPED; from a closed status the transaction fails as a whole.
Shipped(seen) ==
  IF seen = "OPEN" /\ ~order.trashed /\ order.status \notin Closed
  THEN [order EXCEPT !.status = "SHIPPED"] ELSE order
ShipOnBooking(s) ==
  /\ call[s].step = "SAVED"
  /\ order' = Shipped(call[s].seen)
  /\ EndCall(s)
  /\ UNCHANGED <<report, outside>>

ReadForUnlink(s) ==
  /\ call[s].step = "IDLE" /\ order.consignment # 0
  /\ CallAt(s, "UNLINKING")
  /\ UNCHANGED <<order, report, outside>>
Unlink(s) ==
  /\ call[s].step = "UNLINKING" /\ disturbed < MaxDisturbed
  /\ order' = [order EXCEPT !.consignment = 0, !.courierStatus = "none", !.claimed = FALSE, !.booked = "no"]
  /\ disturbed' = disturbed + 1
  /\ EndCall(s)
  /\ UNCHANGED <<report, parcel, dropped>>

LeaseExpires ==
  /\ order.claimed /\ disturbed < MaxDisturbed
  /\ order' = [order EXCEPT !.claimed = FALSE]
  /\ disturbed' = disturbed + 1
  /\ UNCHANGED <<call, report, parcel, dropped>>

-----------------------------------------------------------------------------
(* What the courier does with a parcel, and the reports of it. *)

Resolve(id, status) ==
  /\ parcel[id] = "pending"
  /\ parcel' = [parcel EXCEPT ![id] = status]
  /\ UNCHANGED <<order, call, report, disturbed, dropped>>

Reading(r) ==
  [step |-> "READ", open |-> order.status \notin Closed, answer |-> "none",
   noted |-> IF r = Sweep THEN order.courierStatus ELSE "none",
   consignment |-> order.consignment]
\* A webhook call names the consignment the order has, or staff look. Pushes may
\* be lost, repeated or late; a push that failed is a duplicate when it comes again.
BeginReport(r) ==
  /\ report[r].step = "IDLE" /\ order.consignment # 0
  /\ report' = [report EXCEPT ![r] = Reading(r)]
  /\ UNCHANGED <<order, call, outside>>

\* Faulty: only a booking without any courier status is repaired.
Faulty_BookedNotShipped ==
  /\ order.consignment # 0 /\ order.booked # "old" /\ ~order.trashed
  /\ order.status = "OPEN" /\ order.courierStatus = "none"
BookedNotShipped ==
  /\ order.consignment # 0 /\ order.booked # "old" /\ ~order.trashed
  /\ order.status = "OPEN" /\ order.courierStatus \notin Final
\* The sweep first looks for a recent booking left unshipped,
SweepBegins ==
  /\ report[Sweep].step = "IDLE"
  /\ report' = [report EXCEPT ![Sweep].step = IF BookedNotShipped THEN "REPAIR" ELSE "POLL"]
  /\ order' = IF order.booked = "new" THEN [order EXCEPT !.booked = "recent"] ELSE order
  /\ UNCHANGED <<call, outside>>
SweepRepairs ==
  /\ report[Sweep].step = "REPAIR"
  /\ order' = Shipped("OPEN")
  /\ report' = [report EXCEPT ![Sweep].step = "POLL"]
  /\ UNCHANGED <<call, outside>>
\* Faulty: an order moved back from SHIPPED is not asked for.
Faulty_OpenParcel ==
  /\ order.consignment # 0 /\ ~order.trashed /\ order.courierStatus \notin Final
  /\ order.status = "SHIPPED"
OpenParcel == order.consignment # 0 /\ ~order.trashed /\ order.courierStatus \notin Final
\* and then asks for every open parcel. (Each becomes due in time.)
SweepPolls ==
  /\ report[Sweep].step = "POLL"
  /\ report' = [report EXCEPT ![Sweep] = IF OpenParcel THEN Reading(Sweep) ELSE NoReport]
  /\ UNCHANGED <<order, call, outside>>

CourierAnswers(r) ==
  /\ report[r].step = "READ"
  /\ report' = [report EXCEPT ![r].step = "ANSWERED",
                              ![r].answer = parcel[report[r].consignment],
                              ![r].consignment = 0]
  /\ UNCHANGED <<order, call, outside>>
CourierFails(r) ==
  /\ report[r].step = "READ"
  /\ EndReport(r)
  /\ UNCHANGED <<order, call, outside>>

Moves(r) == report[r].answer \in Final /\ report[r].open
\* The answer is written on the order, whatever became of it meanwhile; the sweep
\* goes on only with a change.
NoteStatus(r) ==
  /\ report[r].step = "ANSWERED"
  /\ order' = IF r = Sweep /\ report[r].answer = report[r].noted THEN order
              ELSE [order EXCEPT !.courierStatus = report[r].answer]
  /\ IF Moves(r) THEN report' = [report EXCEPT ![r].step = "NOTED"] ELSE EndReport(r)
  /\ UNCHANGED <<call, outside>>

\* The order follows, in a transaction that looks at the row again and refuses an
\* order in Trash.
MoveOrder(r) ==
  LET to == Mapped(report[r].answer) IN
  /\ report[r].step = "NOTED"
  /\ order' = IF ~order.trashed /\ CanTransition(order.status, to)
              THEN [order EXCEPT !.status = to] ELSE order
  /\ dropped' = (dropped \/ order.trashed)
  /\ EndReport(r)
  /\ UNCHANGED <<call, parcel, disturbed>>

-----------------------------------------------------------------------------
(* Everything else. *)

\* Staff or the customer move the order; neither sees a booking under way.
ChangeStatus(to) ==
  /\ ~order.trashed /\ CanTransition(order.status, to)
  /\ order' = [order EXCEPT !.status = to]
  /\ UNCHANGED <<call, report, outside>>
TrashOrRestore ==
  /\ order' = [order EXCEPT !.trashed = ~@]
  /\ UNCHANGED <<call, report, outside>>

\* 48 hours after the booking. The sweep runs every 15 minutes: it has looked.
BookingAges ==
  /\ order.booked = "recent"
  /\ order' = [order EXCEPT !.booked = "old"]
  /\ UNCHANGED <<call, report, outside>>

\* The process of a report ends, or its transaction fails, once its answer is on
\* the order. (Earlier it is a report that never was, as a call of staff that
\* ends is one that takes no further step.)
ReportDies(r) ==
  /\ report[r].step = "NOTED"
  /\ dropped' = TRUE
  /\ EndReport(r)
  /\ UNCHANGED <<order, call, parcel, disturbed>>

Booking(s) ==
  \/ ReadForBooking(s) \/ ClaimBooking(s) \/ CreateShipment(s) \/ CourierRefuses(s)
  \/ OutcomeUnknown(s) \/ ReleaseClaim(s) \/ SaveConsignment(s) \/ ShipOnBooking(s)
  \/ ReadForUnlink(s) \/ Unlink(s)
Reporting(r) ==
  CourierAnswers(r) \/ CourierFails(r) \/ NoteStatus(r) \/ MoveOrder(r) \/ ReportDies(r)
Sweeping == SweepBegins \/ SweepRepairs \/ SweepPolls
Around ==
  \/ LeaseExpires \/ BookingAges \/ TrashOrRestore
  \/ \E to \in Statuses : ChangeStatus(to)
  \/ \E id \in DOMAIN parcel, status \in Final : Resolve(id, status)

Next ==
  \/ \E s \in Staff : Booking(s)
  \/ \E r \in Handlers : BeginReport(r)
  \/ \E r \in Reporters : Reporting(r)
  \/ Sweeping \/ Around

Spec == Init /\ [][Next]_vars

\* The sweep runs every 15 minutes and the courier answers it again and again;
\* a report once answered is written by the process that holds it. Nothing is
\* assumed of bookings, pushes or parcels.
SweepStep ==
  Sweeping \/ CourierAnswers(Sweep) \/ CourierFails(Sweep) \/ NoteStatus(Sweep) \/ MoveOrder(Sweep)
Fairness ==
  /\ WF_vars(SweepStep) /\ SF_vars(CourierAnswers(Sweep))
  /\ \A r \in Handlers : WF_vars(NoteStatus(r) \/ MoveOrder(r))
FairSpec == Spec /\ Fairness

-----------------------------------------------------------------------------
(* Properties. *)

\* Rows and calls keep their shapes, and a booked order has a courier status.
TypeOK ==
  /\ order \in OrderRows
  /\ order.consignment # 0 => order.courierStatus # "none"
  /\ call \in [Staff -> Calls]
  /\ report \in [Reporters -> Reports]
  /\ parcel \in Seq({"pending"} \cup Final) /\ Len(parcel) <= MaxParcels
  /\ disturbed \in 0..MaxDisturbed /\ dropped \in BOOLEAN

\* However many bookings race, fail or die, the courier has at most one parcel of
\* the order more than there were unlinks and claims that outlived their lease.
ParcelsAreAccountedFor == Len(parcel) <= 1 + disturbed

\* No late report and no booking begun earlier moves an order that is closed
\* ("it never rewinds or reopens the order").
ClosedStaysClosed == [][order.status \in Closed => order'.status = order.status]_vars

\* A booked order leaves the shelf: whatever becomes of the call that booked it,
\* the sweep ships the order, unless it is unlinked, trashed or the courier
\* already finished with it. The promise is of bookings the sweep has still to
\* look at: an order put back to PACKED, or restored, after 48 hours stays there.
BookedIsShipped ==
  order.consignment # 0 /\ order.status = "OPEN" /\ order.booked = "new" ~>
    \/ order.status # "OPEN" \/ order.consignment = 0
    \/ order.trashed \/ order.courierStatus \in Final

\* With every push lost, what the courier did with the order's parcel reaches the
\* order, unless the call that noted it died, or met the order in Trash, before
\* the order moved (the sweep does not ask again for a parcel it has a final
\* status of).
OutcomeReachesOrder ==
  \A id \in 1..MaxParcels :
    id \in DOMAIN parcel /\ parcel[id] \in Final /\ order.consignment = id ~>
      order.status \in Closed \/ order.consignment # id \/ order.trashed \/ dropped
=============================================================================
