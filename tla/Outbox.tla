------------------------------- MODULE Outbox -------------------------------
(***************************************************************************)
(* The transactional outbox: domain/outbox/{outbox,processor}.ts and the   *)
(* BullMQ transport of jobs/outbox-worker.ts.                              *)
(*                                                                         *)
(* A row of the OutboxEvent table carries the durable delivery state; the  *)
(* queue is only a transport.  Dispatch jobs reap expired claims, claim    *)
(* the due PENDING rows and enqueue one job per (event, attempt); deliver  *)
(* jobs claim a row, run its consumer, and write the outcome back.  Every  *)
(* action below is one SQL statement, one queue call or one consumer call, *)
(* because that is where other processes interleave.                       *)
(*                                                                         *)
(* Clock readings are abstracted to what the statements test: whether      *)
(* availableAt has come (due), whether claimedUntil has passed (lease) and *)
(* whether enqueuedAt is older than ENQUEUED_STALE_MS (stale).             *)
(***************************************************************************)
EXTENDS Integers, FiniteSets

CONSTANTS
    Events,         \* outbox rows, one per (consumer, eventKey)
    Dispatchers,    \* dispatch jobs that may run at the same time
    Workers,        \* deliver jobs that may run at the same time
    MaxAttempts,    \* OUTBOX_MAX_ATTEMPTS
    MaxFaults,      \* bound: crashes, overruns and failed database or queue calls in a behaviour
    MaxRedrives,    \* bound: operator retries of FAILED rows in a behaviour
    NoJob

ASSUME MaxAttemptsAssumption == MaxAttempts \in Nat \ {0}
ASSUME BoundsAssumption == MaxFaults \in Nat /\ MaxRedrives \in Nat
ASSUME WorkersAssumption == IsFiniteSet(Workers)
ASSUME NoJobAssumption == NoJob \notin Events \X Nat

VARIABLES
    row,        \* Events -> the OutboxEvent row (status "ABSENT": not recorded, "DELETED": cleaned up)
    disp,       \* Dispatchers -> claimed jobs still to enqueue, the job in hand and its enqueue result
    waiting,    \* jobs in the queue
    active,     \* jobs a worker has taken, until they complete, fail or stall
    kept,       \* failed jobs still retained under their id (removeOnFail: 7 days)
    stalledOnce,\* jobs already put back once after their worker died
    worker,     \* Workers -> the deliver job it runs
    sent,       \* ghost: times the external side effect of an event happened
    handled,    \* ghost: events whose consumer returned normally
    disturbed,  \* ghost: Events -> disturbances of a delivery (crash, overrun, lost answer, operator retry)
    faults,     \* faults so far
    redrives    \* operator retries so far

queueVars == <<waiting, active, kept, stalledOnce>>
ghostVars == <<sent, handled, disturbed>>
boundVars == <<faults, redrives>>
vars == <<row, disp, queueVars, worker, ghostVars, boundVars>>

Jobs == Events \X Nat
Statuses == {"ABSENT", "PENDING", "ENQUEUED", "PROCESSING", "PROCESSED", "FAILED", "DELETED"}
Outcomes == {"none", "ok", "retry", "fail"}

Rows == [status: Statuses, attempts: Nat, due: BOOLEAN,
         lease: {"none", "held", "expired"}, stale: BOOLEAN]
DispatcherStates == [todo: SUBSET Jobs, job: Jobs \cup {NoJob}, result: {"none", "added", "error"}]
WorkerStates == [pc: {"idle", "claim", "handle", "complete"}, job: Jobs \cup {NoJob},
                 owns: BOOLEAN, attempt: Nat, outcome: Outcomes, inLease: BOOLEAN]

IdleDispatcher == [todo |-> {}, job |-> NoJob, result |-> "none"]
IdleWorker == [pc |-> "idle", job |-> NoJob, owns |-> FALSE,
               attempt |-> 0, outcome |-> "none", inLease |-> FALSE]
AbsentRow == [status |-> "ABSENT", attempts |-> 0, due |-> FALSE, lease |-> "none", stale |-> FALSE]

TypeOK ==
    /\ row \in [Events -> Rows]
    /\ disp \in [Dispatchers -> DispatcherStates]
    /\ worker \in [Workers -> WorkerStates]
    /\ waiting \subseteq Jobs /\ active \subseteq Jobs /\ kept \subseteq Jobs /\ stalledOnce \subseteq Jobs
    /\ sent \in [Events -> Nat] /\ handled \subseteq Events /\ disturbed \in [Events -> Nat]
    /\ faults \in 0..MaxFaults /\ redrives \in 0..MaxRedrives

Init ==
    /\ row = [e \in Events |-> AbsentRow]
    /\ disp = [d \in Dispatchers |-> IdleDispatcher]
    /\ waiting = {} /\ active = {} /\ kept = {} /\ stalledOnce = {}
    /\ worker = [w \in Workers |-> IdleWorker]
    /\ sent = [e \in Events |-> 0] /\ handled = {} /\ disturbed = [e \in Events |-> 0]
    /\ faults = 0 /\ redrives = 0

-----------------------------------------------------------------------------
(* Helpers *)

EventOf(j) == j[1]
Faulty_JobId(e, attempts) == <<e, attempts - 1>>   \* the id of the attempt before
JobId(e, attempts) == <<e, attempts>>
Fault == faults < MaxFaults /\ faults' = faults + 1
Disturb(e) == disturbed' = [disturbed EXCEPT ![e] = @ + 1]

\* Workers running the consumer, or about to write its outcome, for event e.
Live(w, e) == worker[w].pc \in {"handle", "complete"} /\ EventOf(worker[w].job) = e

\* BullMQ's add under an id that still exists in any state is a no-op.
AddJob(j) == waiting' = IF j \in active \cup kept THEN waiting ELSE waiting \cup {j}

\* The job of worker w leaves the queue; a worker whose job vanished under it has no lock and removes nothing.
RemoveJob(w) ==
    LET gone == IF worker[w].owns THEN {worker[w].job} ELSE {}
    IN  active' = active \ gone /\ stalledOnce' = stalledOnce \ gone

\* The job of worker w throws: removeOnFail keeps it under its id.
FailJob(w) ==
    LET gone == IF worker[w].owns THEN {worker[w].job} ELSE {}
    IN  active' = active \ gone /\ stalledOnce' = stalledOnce \ gone /\ kept' = kept \cup gone

-----------------------------------------------------------------------------
(* The business transaction that records the intent, and the retention job *)

\* recordOutboxEvents: the row commits with the business change; an event key recorded before is ignored.
RecordIntent(e) ==
    /\ row[e].status = "ABSENT"
    /\ row' = [row EXCEPT ![e].status = "PENDING", ![e].due = TRUE]
    /\ UNCHANGED <<disp, queueVars, worker, ghostVars, boundVars>>

\* A faulty retention that sweeps FAILED rows too.
Faulty_CleanupRow(e) ==
    /\ row[e].status \in {"PROCESSED", "FAILED"}
    /\ row' = [row EXCEPT ![e] = [AbsentRow EXCEPT !.status = "DELETED"]]
    /\ UNCHANGED <<disp, queueVars, worker, ghostVars, boundVars>>

\* cleanupOutbox: a PROCESSED row older than the retention is deleted.
CleanupRow(e) ==
    /\ row[e].status = "PROCESSED"
    /\ row' = [row EXCEPT ![e] = [AbsentRow EXCEPT !.status = "DELETED"]]
    /\ UNCHANGED <<disp, queueVars, worker, ghostVars, boundVars>>

\* retryOutboxEvent: an operator sends a FAILED row round again.
RetryFailed(e) ==
    /\ redrives < MaxRedrives /\ redrives' = redrives + 1
    /\ row[e].status = "FAILED"
    /\ row' = [row EXCEPT ![e] = [AbsentRow EXCEPT !.status = "PENDING", !.due = TRUE]]
    /\ Disturb(e)
    /\ UNCHANGED <<disp, queueVars, worker, sent, handled, faults>>

-----------------------------------------------------------------------------
(* The passage of time, as the statements see it *)

BecomesDue(e) ==
    /\ row[e].status = "PENDING" /\ ~row[e].due
    /\ row' = [row EXCEPT ![e].due = TRUE]
    /\ UNCHANGED <<disp, queueVars, worker, ghostVars, boundVars>>

EnqueuedGoesStale(e) ==
    /\ row[e].status = "ENQUEUED" /\ ~row[e].stale
    /\ row' = [row EXCEPT ![e].stale = TRUE]
    /\ UNCHANGED <<disp, queueVars, worker, ghostVars, boundVars>>

\* claimedUntil passes.  For a PROCESSING row this is an overrun when its worker still runs; every earlier
\* worker of the row outlived its own lease too.
LeaseExpires(e) ==
    LET overrun == row[e].status = "PROCESSING" /\ \E w \in Workers : Live(w, e) /\ worker[w].inLease
    IN  /\ row[e].lease = "held"
        /\ row' = [row EXCEPT ![e].lease = "expired"]
        /\ IF overrun
             THEN /\ Fault /\ Disturb(e)
                  /\ worker' = [w \in Workers |->
                        IF Live(w, e) THEN [worker[w] EXCEPT !.inLease = FALSE] ELSE worker[w]]
             ELSE UNCHANGED <<faults, disturbed, worker>>
        /\ UNCHANGED <<disp, queueVars, sent, handled, redrives>>

-----------------------------------------------------------------------------
(* A dispatch job: reapStaleClaims, then dispatchOutbox *)

\* Faulty reapers: one ignores the lease, one forgets the ENQUEUED rows.
Faulty_ReapableProcessing == {e \in Events : row[e].status = "PROCESSING"}
Faulty_ReapableEnqueued == {}

ReapableProcessing == {e \in Events : row[e].status = "PROCESSING" /\ row[e].lease = "expired"}
ReapableEnqueued == {e \in Events : row[e].status = "ENQUEUED" /\ row[e].stale}

ReapProcessing ==
    /\ ReapableProcessing # {}
    /\ row' = [e \in Events |-> IF e \in ReapableProcessing
                                THEN [row[e] EXCEPT !.status = "PENDING", !.lease = "none"] ELSE row[e]]
    /\ UNCHANGED <<disp, queueVars, worker, ghostVars, boundVars>>

ReapEnqueued ==
    /\ ReapableEnqueued # {}
    /\ row' = [e \in Events |-> IF e \in ReapableEnqueued
                                THEN [row[e] EXCEPT !.status = "PENDING", !.lease = "none", !.stale = FALSE]
                                ELSE row[e]]
    /\ UNCHANGED <<disp, queueVars, worker, ghostVars, boundVars>>

Claimable(e) == row[e].status = "PENDING" /\ row[e].due /\ row[e].lease # "held"

\* The claiming UPDATE ... FOR UPDATE SKIP LOCKED: rows locked by a concurrent dispatcher are left out.
DispatchClaim(d, batch) ==
    /\ disp[d] = IdleDispatcher
    /\ batch # {} /\ \A e \in batch : Claimable(e)
    /\ row' = [e \in Events |-> IF e \in batch THEN [row[e] EXCEPT !.lease = "held"] ELSE row[e]]
    /\ disp' = [disp EXCEPT ![d].todo = {JobId(e, row[e].attempts) : e \in batch}]
    /\ UNCHANGED <<queueVars, worker, ghostVars, boundVars>>

EnqueueOk(d, j) ==
    /\ j \in disp[d].todo /\ disp[d].job = NoJob
    /\ AddJob(j)
    /\ disp' = [disp EXCEPT ![d] = [todo |-> disp[d].todo \ {j}, job |-> j, result |-> "added"]]
    /\ UNCHANGED <<row, active, kept, stalledOnce, worker, ghostVars, boundVars>>

\* The enqueue throws; the queue may have taken the job before the answer was lost.
EnqueueError(d, j) ==
    /\ j \in disp[d].todo /\ disp[d].job = NoJob
    /\ Fault
    /\ AddJob(j) \/ UNCHANGED waiting
    /\ disp' = [disp EXCEPT ![d] = [todo |-> disp[d].todo \ {j}, job |-> j, result |-> "error"]]
    /\ UNCHANGED <<row, active, kept, stalledOnce, worker, ghostVars, redrives>>

\* The statement after the enqueue: ENQUEUED when it was added, back to a later try when it was not, and
\* in both cases only a row that is still PENDING.
AfterEnqueue(d) ==
    LET e == EventOf(disp[d].job) IN
    /\ disp[d].job # NoJob
    /\ row' = IF row[e].status # "PENDING" THEN row
              ELSE IF disp[d].result = "added"
                   THEN [row EXCEPT ![e].status = "ENQUEUED", ![e].lease = "none", ![e].stale = FALSE]
                   ELSE [row EXCEPT ![e].lease = "none", ![e].due = FALSE]
    /\ disp' = [disp EXCEPT ![d].job = NoJob, ![d].result = "none"]
    /\ UNCHANGED <<queueVars, worker, ghostVars, boundVars>>

\* The process dies, or a statement of the dispatch job throws: the rest of the batch keeps its claim.
DispatcherCrash(d) ==
    /\ disp[d] # IdleDispatcher
    /\ Fault
    /\ disp' = [disp EXCEPT ![d] = IdleDispatcher]
    /\ UNCHANGED <<row, queueVars, worker, ghostVars, redrives>>

-----------------------------------------------------------------------------
(* A deliver job: processOutboxEvent *)

TakeJob(w, j) ==
    /\ worker[w].pc = "idle" /\ j \in waiting
    /\ waiting' = waiting \ {j} /\ active' = active \cup {j}
    /\ worker' = [worker EXCEPT ![w] = [IdleWorker EXCEPT !.pc = "claim", !.job = j, !.owns = TRUE]]
    /\ UNCHANGED <<row, disp, kept, stalledOnce, ghostVars, boundVars>>

Deliverable(e) == row[e].status \in {"PENDING", "ENQUEUED"} /\ row[e].due

ClaimRow(w) ==
    LET e == EventOf(worker[w].job) IN
    /\ worker[w].pc = "claim" /\ Deliverable(e)
    /\ row' = [row EXCEPT ![e].status = "PROCESSING", ![e].attempts = @ + 1,
                          ![e].lease = "held", ![e].stale = FALSE]
    /\ worker' = [worker EXCEPT ![w].pc = "handle", ![w].attempt = row[e].attempts + 1, ![w].inLease = TRUE]
    /\ UNCHANGED <<disp, queueVars, ghostVars, boundVars>>

\* The claim matched no row: already processed, processing, failed, not due or gone.
SkipRow(w) ==
    /\ worker[w].pc = "claim" /\ ~Deliverable(EventOf(worker[w].job))
    /\ worker' = [worker EXCEPT ![w] = IdleWorker]
    /\ RemoveJob(w)
    /\ UNCHANGED <<row, disp, waiting, kept, ghostVars, boundVars>>

HandlerReturns(w) ==
    LET e == EventOf(worker[w].job) IN
    /\ worker[w].pc = "handle"
    /\ sent' = [sent EXCEPT ![e] = @ + 1]
    /\ handled' = handled \cup {e}
    /\ worker' = [worker EXCEPT ![w].pc = "complete", ![w].outcome = "ok"]
    /\ UNCHANGED <<row, disp, queueVars, disturbed, boundVars>>

\* The consumer throws (or the payload is refused) before anything was sent.
HandlerThrows(w) ==
    /\ worker[w].pc = "handle"
    /\ \E retryable \in BOOLEAN :
         worker' = [worker EXCEPT ![w].pc = "complete",
            ![w].outcome = IF retryable /\ worker[w].attempt < MaxAttempts THEN "retry" ELSE "fail"]
    /\ UNCHANGED <<row, disp, queueVars, ghostVars, boundVars>>

\* The provider took the message but its answer was lost, which the consumer reports as a retryable error.
HandlerAnswerLost(w) ==
    LET e == EventOf(worker[w].job) IN
    /\ worker[w].pc = "handle"
    /\ Fault /\ Disturb(e)
    /\ sent' = [sent EXCEPT ![e] = @ + 1]
    /\ worker' = [worker EXCEPT ![w].pc = "complete",
            ![w].outcome = IF worker[w].attempt < MaxAttempts THEN "retry" ELSE "fail"]
    /\ UNCHANGED <<row, disp, queueVars, handled, redrives>>

Completed(r, outcome) ==
    CASE outcome = "ok"    -> [r EXCEPT !.status = "PROCESSED", !.lease = "none"]
      [] outcome = "retry" -> [r EXCEPT !.status = "PENDING", !.lease = "none", !.due = FALSE]
      [] OTHER             -> [r EXCEPT !.status = "FAILED", !.lease = "none"]

\* A faulty completion by id alone, without the status in its WHERE clause.
Faulty_CompleteRow(w) ==
    LET e == EventOf(worker[w].job) IN
    /\ worker[w].pc = "complete"
    /\ row' = [row EXCEPT ![e] = Completed(@, worker[w].outcome)]
    /\ worker' = [worker EXCEPT ![w] = IdleWorker]
    /\ RemoveJob(w)
    /\ UNCHANGED <<disp, waiting, kept, ghostVars, boundVars>>

\* The statement that writes the outcome: any PROCESSING row of this id matches, whoever claimed it.
CompleteRow(w) ==
    LET e == EventOf(worker[w].job) IN
    /\ worker[w].pc = "complete"
    /\ row' = IF row[e].status = "PROCESSING"
              THEN [row EXCEPT ![e] = Completed(@, worker[w].outcome)] ELSE row
    /\ worker' = [worker EXCEPT ![w] = IdleWorker]
    /\ RemoveJob(w)
    /\ UNCHANGED <<disp, waiting, kept, ghostVars, boundVars>>

\* The claiming or the completing statement throws: nothing is written and the job fails in the queue.
StatementThrows(w) ==
    /\ worker[w].pc \in {"claim", "complete"}
    /\ Fault
    /\ IF worker[w].pc = "complete" THEN Disturb(EventOf(worker[w].job)) ELSE UNCHANGED disturbed
    /\ worker' = [worker EXCEPT ![w] = IdleWorker]
    /\ FailJob(w)
    /\ UNCHANGED <<row, disp, waiting, sent, handled, redrives>>

WorkerCrash(w) ==
    /\ worker[w].pc # "idle"
    /\ Fault
    /\ IF worker[w].pc = "claim" THEN UNCHANGED disturbed ELSE Disturb(EventOf(worker[w].job))
    /\ worker' = [worker EXCEPT ![w] = IdleWorker]
    /\ UNCHANGED <<row, disp, queueVars, sent, handled, redrives>>

-----------------------------------------------------------------------------
(* The queue itself *)

\* An active job whose worker died is put back once, and failed the second time.
StalledJob(j) ==
    /\ j \in active /\ \A w \in Workers : ~(worker[w].owns /\ worker[w].job = j)
    /\ active' = active \ {j}
    /\ IF j \in stalledOnce
         THEN kept' = kept \cup {j} /\ stalledOnce' = stalledOnce \ {j} /\ UNCHANGED waiting
         ELSE waiting' = waiting \cup {j} /\ stalledOnce' = stalledOnce \cup {j} /\ UNCHANGED kept
    /\ UNCHANGED <<row, disp, worker, ghostVars, boundVars>>

\* Seven days later a failed job is removed and its id is free again.
KeptJobRemoved(j) ==
    /\ j \in kept /\ kept' = kept \ {j}
    /\ UNCHANGED <<row, disp, waiting, active, stalledOnce, worker, ghostVars, boundVars>>

\* Redis loses its data: every job is gone, also the ones being run.
RedisFlush ==
    /\ waiting \cup active \cup kept # {}
    /\ Fault
    /\ waiting' = {} /\ active' = {} /\ kept' = {} /\ stalledOnce' = {}
    /\ worker' = [w \in Workers |-> [worker[w] EXCEPT !.owns = FALSE]]
    /\ UNCHANGED <<row, disp, ghostVars, redrives>>

-----------------------------------------------------------------------------
DispatcherStep(d) ==
    \/ \E batch \in SUBSET Events : DispatchClaim(d, batch)
    \/ \E j \in disp[d].todo : EnqueueOk(d, j) \/ EnqueueError(d, j)
    \/ AfterEnqueue(d)
    \/ DispatcherCrash(d)

WorkerStep(w) ==
    \/ \E j \in waiting : TakeJob(w, j)
    \/ ClaimRow(w) \/ SkipRow(w)
    \/ HandlerReturns(w) \/ HandlerThrows(w) \/ HandlerAnswerLost(w)
    \/ CompleteRow(w) \/ StatementThrows(w) \/ WorkerCrash(w)

RowStep(e) ==
    \/ RecordIntent(e) \/ CleanupRow(e) \/ RetryFailed(e)
    \/ BecomesDue(e) \/ EnqueuedGoesStale(e) \/ LeaseExpires(e)

QueueStep ==
    \/ \E j \in active : StalledJob(j)
    \/ \E j \in kept : KeptJobRemoved(j)
    \/ RedisFlush

Next ==
    \/ \E e \in Events : RowStep(e)
    \/ ReapProcessing \/ ReapEnqueued
    \/ \E d \in Dispatchers : DispatcherStep(d)
    \/ \E w \in Workers : WorkerStep(w)
    \/ QueueStep

Spec == Init /\ [][Next]_vars

\* Time passes; dispatch jobs run every three seconds and take the oldest due rows first; BullMQ hands every waiting job
\* to a free worker, recovers stalled ones and expires failed ones; a running job keeps running unless it crashes.
Fairness ==
    /\ \A e \in Events : WF_vars(BecomesDue(e)) /\ WF_vars(EnqueuedGoesStale(e)) /\ WF_vars(LeaseExpires(e))
    /\ WF_vars(ReapProcessing) /\ WF_vars(ReapEnqueued)
    /\ \A e \in Events : WF_vars(\E d \in Dispatchers, batch \in SUBSET Events : e \in batch /\ DispatchClaim(d, batch))
    /\ \A d \in Dispatchers : WF_vars(AfterEnqueue(d) \/ \E j \in disp[d].todo : EnqueueOk(d, j))
    /\ WF_vars(\E w \in Workers, j \in waiting : TakeJob(w, j))
    /\ \A w \in Workers : WF_vars(ClaimRow(w) \/ SkipRow(w) \/ HandlerReturns(w) \/ HandlerThrows(w) \/ CompleteRow(w))
    /\ WF_vars(\E j \in active : StalledJob(j)) /\ WF_vars(\E j \in kept : KeptJobRemoved(j))

FairSpec == Spec /\ Fairness

-----------------------------------------------------------------------------
(* Properties *)

\* A row is only marked PROCESSED, and only ever deleted, after its consumer returned normally: a recorded intent
\* is never silently dropped, whatever crashes, lost answers and expired leases come between.
NoIntentLost ==
    \A e \in Events : row[e].status \in {"PROCESSED", "DELETED"} => e \in handled

\* A side effect happens at most once more than its deliveries were disturbed: with no crash, overrun, lost answer or
\* operator retry, an event is sent at most once (the at-least-once claim of processor.ts, made exact).
DuplicatesAreAccountedFor ==
    \A e \in Events : sent[e] <= 1 + disturbed[e]

\* Why: the right to send is a token.  The row holds it while it can be claimed (or will be, because no worker in its
\* lease is left to complete it); a worker holds it while it may still send, or hand the row back for a retry.  Every
\* disturbance adds at most one token, and sending uses one up.
Holders(e) ==
    {w \in Workers : Live(w, e) /\ (worker[w].pc = "handle" \/ worker[w].outcome = "retry")}

Attended(e) == row[e].lease = "held" /\ \E w \in Workers : Live(w, e) /\ worker[w].inLease

RowToken(e) ==
    IF \/ row[e].status \in {"ABSENT", "PENDING", "ENQUEUED"}
       \/ row[e].status = "PROCESSING" /\ ~Attended(e)
    THEN 1 ELSE 0

DeliveryTokens ==
    \A e \in Events : sent[e] + Cardinality(Holders(e)) + RowToken(e) <= 1 + disturbed[e]

\* Two workers run the consumer of one event at the same time only after a worker of that event outlived its lease,
\* or died and was replaced.
NoConcurrentHandlers ==
    \A e \in Events : disturbed[e] = 0 =>
        \A w1, w2 \in Workers : Live(w1, e) /\ Live(w2, e) => w1 = w2

\* A delivered row never goes round again, and a FAILED row only by an operator retry, which restarts its attempts; a
\* late worker, dispatcher or reaper cannot revive either.
TerminalRowsStay ==
    [][\A e \in Events :
        /\ row[e].status = "PROCESSED" => row'[e].status \in {"PROCESSED", "DELETED"}
        /\ row[e].status = "DELETED" => row'[e] = row[e]
        /\ row[e].status = "FAILED" /\ row'[e].status # "FAILED" => redrives' = redrives + 1 /\ row'[e].attempts = 0]_vars

\* Every recorded intent ends delivered or visibly FAILED, once faults and operator retries stop.
EventuallySettled ==
    \A e \in Events : row[e].status = "PENDING" ~> row[e].status \in {"PROCESSED", "FAILED", "DELETED"}

\* The outbox implements the abstract promise of module Delivery.
IntentOf(status) ==
    CASE status = "ABSENT"    -> "none"
      [] status = "PROCESSED" -> "done"
      [] status = "FAILED"    -> "dead"
      [] status = "DELETED"   -> "purged"
      [] OTHER                -> "open"

D == INSTANCE Delivery WITH intent <- [e \in Events |-> IntentOf(row[e].status)]

ImplementsDelivery == D!Spec

=============================================================================
