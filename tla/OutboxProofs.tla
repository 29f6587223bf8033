---------------------------- MODULE OutboxProofs ----------------------------
(* Theorems about Outbox, for any number of events, dispatchers, workers,  *)
(* attempts, faults and operator retries.                                  *)
EXTENDS Outbox, FiniteSetTheorems, TLAPS

\* Each write to a row leaves a row of the schema.
LEMMA RowWrites ==
    ASSUME NEW r \in Rows, NEW n \in Nat
    PROVE  /\ [r EXCEPT !.status = "PENDING", !.due = TRUE] \in Rows
           /\ [r EXCEPT !.due = TRUE] \in Rows
           /\ [r EXCEPT !.stale = TRUE] \in Rows
           /\ [r EXCEPT !.lease = "expired"] \in Rows
           /\ [r EXCEPT !.lease = "held"] \in Rows
           /\ [r EXCEPT !.status = "PENDING", !.lease = "none"] \in Rows
           /\ [r EXCEPT !.status = "PENDING", !.lease = "none", !.stale = FALSE] \in Rows
           /\ [r EXCEPT !.status = "ENQUEUED", !.lease = "none", !.stale = FALSE] \in Rows
           /\ [r EXCEPT !.lease = "none", !.due = FALSE] \in Rows
           /\ [r EXCEPT !.status = "PROCESSING", !.attempts = n, !.lease = "held", !.stale = FALSE] \in Rows
           /\ [AbsentRow EXCEPT !.status = "DELETED"] \in Rows
           /\ [AbsentRow EXCEPT !.status = "PENDING", !.due = TRUE] \in Rows
<1> USE DEF Rows, Statuses
<1>1. [r EXCEPT !.status = "PENDING", !.due = TRUE] \in Rows OBVIOUS
<1>2. [r EXCEPT !.due = TRUE] \in Rows OBVIOUS
<1>3. [r EXCEPT !.stale = TRUE] \in Rows OBVIOUS
<1>4. [r EXCEPT !.lease = "expired"] \in Rows OBVIOUS
<1>5. [r EXCEPT !.lease = "held"] \in Rows OBVIOUS
<1>6. [r EXCEPT !.status = "PENDING", !.lease = "none"] \in Rows OBVIOUS
<1>7. [r EXCEPT !.status = "PENDING", !.lease = "none", !.stale = FALSE] \in Rows OBVIOUS
<1>8. [r EXCEPT !.status = "ENQUEUED", !.lease = "none", !.stale = FALSE] \in Rows OBVIOUS
<1>9. [r EXCEPT !.lease = "none", !.due = FALSE] \in Rows OBVIOUS
<1>10. [r EXCEPT !.status = "PROCESSING", !.attempts = n, !.lease = "held", !.stale = FALSE] \in Rows
  OBVIOUS
<1>11. [AbsentRow EXCEPT !.status = "DELETED"] \in Rows BY DEF AbsentRow
<1>12. [AbsentRow EXCEPT !.status = "PENDING", !.due = TRUE] \in Rows BY DEF AbsentRow
<1> HIDE DEF Rows
<1>13. QED BY <1>1, <1>2, <1>3, <1>4, <1>5, <1>6, <1>7, <1>8, <1>9, <1>10, <1>11, <1>12

LEMMA CompletedIsRow == ASSUME NEW r \in Rows, NEW o \in Outcomes PROVE Completed(r, o) \in Rows
  BY DEF Rows, Statuses, Completed

\* Each write to a worker leaves a worker state.
LEMMA WorkerWrites ==
    ASSUME NEW s \in WorkerStates, NEW j \in Jobs, NEW n \in Nat, NEW o \in Outcomes
    PROVE  /\ [s EXCEPT !.inLease = FALSE] \in WorkerStates
           /\ [s EXCEPT !.owns = FALSE] \in WorkerStates
           /\ [IdleWorker EXCEPT !.pc = "claim", !.job = j, !.owns = TRUE] \in WorkerStates
           /\ [s EXCEPT !.pc = "handle", !.attempt = n, !.inLease = TRUE] \in WorkerStates
           /\ [s EXCEPT !.pc = "complete", !.outcome = o] \in WorkerStates
           /\ IdleWorker \in WorkerStates
  BY DEF WorkerStates, IdleWorker, Outcomes

\* A worker past its idle state holds a job.
WorkerHasJob == \A w \in Workers : worker[w].pc # "idle" => worker[w].job \in Jobs

TypeInv == TypeOK /\ WorkerHasJob

LEMMA JobFacts == ASSUME NEW j \in Jobs PROVE EventOf(j) \in Events
  BY DEF Jobs, EventOf

LEMMA TypeInvInit == Init => TypeInv
  BY NoJobAssumption, BoundsAssumption
  DEF Init, TypeInv, WorkerHasJob, TypeOK, AbsentRow, Rows, Statuses, IdleDispatcher, DispatcherStates,
      IdleWorker, WorkerStates, Outcomes, Jobs

LEMMA TypeInvRowStep ==
    ASSUME TypeInv, NEW e \in Events, RowStep(e)
    PROVE  TypeInv'
<1> USE DEF TypeInv, TypeOK, queueVars, ghostVars, boundVars
<1>0. row[e] \in Rows OBVIOUS
<1>1. CASE RecordIntent(e)
  <2>1. row' = [row EXCEPT ![e] = [row[e] EXCEPT !.status = "PENDING", !.due = TRUE]]
    BY <1>1 DEF RecordIntent
  <2>2. row' \in [Events -> Rows] BY <1>0, <2>1, RowWrites
  <2>3. QED BY <1>1, <2>2 DEF RecordIntent, WorkerHasJob
<1>2. CASE CleanupRow(e)
  <2>1. row' \in [Events -> Rows] BY <1>0, <1>2, RowWrites DEF CleanupRow
  <2>2. QED BY <1>2, <2>1 DEF CleanupRow, WorkerHasJob
<1>3. CASE RetryFailed(e)
  <2>1. row' \in [Events -> Rows] BY <1>0, <1>3, RowWrites DEF RetryFailed
  <2>2. redrives' \in 0..MaxRedrives BY <1>3, BoundsAssumption DEF RetryFailed
  <2>3. disturbed' \in [Events -> Nat] BY <1>3 DEF RetryFailed, Disturb
  <2>4. QED BY <1>3, <2>1, <2>2, <2>3 DEF RetryFailed, WorkerHasJob
<1>4. CASE BecomesDue(e)
  <2>1. row' \in [Events -> Rows] BY <1>0, <1>4, RowWrites DEF BecomesDue
  <2>2. QED BY <1>4, <2>1 DEF BecomesDue, WorkerHasJob
<1>5. CASE EnqueuedGoesStale(e)
  <2>1. row' \in [Events -> Rows] BY <1>0, <1>5, RowWrites DEF EnqueuedGoesStale
  <2>2. QED BY <1>5, <2>1 DEF EnqueuedGoesStale, WorkerHasJob
<1>6. CASE LeaseExpires(e)
  <2>1. row' \in [Events -> Rows] BY <1>0, <1>6, RowWrites DEF LeaseExpires
  <2>2. \A w \in Workers : worker'[w] \in {worker[w], [worker[w] EXCEPT !.inLease = FALSE]}
    BY <1>6 DEF LeaseExpires
  <2>3. \A w \in Workers : worker'[w] \in WorkerStates
    <3> TAKE w \in Workers
    <3>1. worker[w] \in WorkerStates OBVIOUS
    <3>2. [worker[w] EXCEPT !.inLease = FALSE] \in WorkerStates BY <3>1 DEF WorkerStates
    <3>3. QED BY <2>2, <3>1, <3>2
  <2>4. worker' \in [Workers -> WorkerStates] BY <1>6, <2>3 DEF LeaseExpires
  <2>5. \A w \in Workers : worker'[w].pc = worker[w].pc /\ worker'[w].job = worker[w].job
    BY <2>2 DEF WorkerStates
  <2>6. faults' \in 0..MaxFaults /\ disturbed' \in [Events -> Nat]
    BY <1>6, BoundsAssumption DEF LeaseExpires, Fault, Disturb
  <2>7. QED BY <1>6, <2>1, <2>4, <2>5, <2>6 DEF LeaseExpires, WorkerHasJob
<1>7. QED BY <1>1, <1>2, <1>3, <1>4, <1>5, <1>6 DEF RowStep

LEMMA TypeInvReap == ASSUME TypeInv, ReapProcessing \/ ReapEnqueued PROVE TypeInv'
<1> USE DEF TypeInv, TypeOK, queueVars, ghostVars, boundVars
<1>1. CASE ReapProcessing
  <2>1. \A e \in Events : row'[e] \in Rows
    BY <1>1, RowWrites DEF ReapProcessing
  <2>2. QED BY <1>1, <2>1 DEF ReapProcessing, WorkerHasJob
<1>2. CASE ReapEnqueued
  <2>1. \A e \in Events : row'[e] \in Rows
    BY <1>2, RowWrites DEF ReapEnqueued
  <2>2. QED BY <1>2, <2>1 DEF ReapEnqueued, WorkerHasJob
<1>3. QED BY <1>1, <1>2

LEMMA TypeInvDispatcherStep ==
    ASSUME TypeInv, NEW d \in Dispatchers, DispatcherStep(d)
    PROVE  TypeInv'
<1> USE DEF TypeInv, TypeOK, queueVars, ghostVars, boundVars
<1>1. ASSUME NEW batch \in SUBSET Events, DispatchClaim(d, batch) PROVE TypeInv'
  <2>1. \A e \in Events : row'[e] \in Rows BY <1>1, RowWrites DEF DispatchClaim
  <2>2. {JobId(e, row[e].attempts) : e \in batch} \in SUBSET Jobs BY DEF JobId, Jobs, Rows
  <2>3. disp' \in [Dispatchers -> DispatcherStates]
    BY <1>1, <2>2 DEF DispatchClaim, DispatcherStates, IdleDispatcher
  <2>4. QED BY <1>1, <2>1, <2>3 DEF DispatchClaim, WorkerHasJob
<1>2. ASSUME NEW j \in disp[d].todo, EnqueueOk(d, j) \/ EnqueueError(d, j) PROVE TypeInv'
  <2>1. j \in Jobs /\ disp[d].todo \ {j} \in SUBSET Jobs BY DEF DispatcherStates
  <2>2. disp' \in [Dispatchers -> DispatcherStates]
    BY <1>2, <2>1 DEF EnqueueOk, EnqueueError, DispatcherStates
  <2>3. waiting' \subseteq Jobs BY <1>2, <2>1 DEF EnqueueOk, EnqueueError, AddJob
  <2>4. faults' \in 0..MaxFaults BY <1>2, BoundsAssumption DEF EnqueueOk, EnqueueError, Fault
  <2>5. QED BY <1>2, <2>2, <2>3, <2>4 DEF EnqueueOk, EnqueueError, WorkerHasJob
<1>3. CASE AfterEnqueue(d)
  <2>1. disp[d].job \in Jobs BY <1>3 DEF AfterEnqueue, DispatcherStates
  <2> DEFINE e == EventOf(disp[d].job)
  <2>2. e \in Events BY <2>1, JobFacts
  <2>3. row' \in {row, [row EXCEPT ![e] = [row[e] EXCEPT !.status = "ENQUEUED", !.lease = "none", !.stale = FALSE]],
                   [row EXCEPT ![e] = [row[e] EXCEPT !.lease = "none", !.due = FALSE]]}
    BY <1>3 DEF AfterEnqueue
  <2> HIDE DEF e
  <2>4. row' \in [Events -> Rows]
    <3>1. row[e] \in Rows BY <2>2
    <3>2. QED BY <2>2, <2>3, <3>1, RowWrites
  <2>5. disp' \in [Dispatchers -> DispatcherStates] BY <1>3 DEF AfterEnqueue, DispatcherStates
  <2>6. QED BY <1>3, <2>4, <2>5 DEF AfterEnqueue, WorkerHasJob
<1>4. CASE DispatcherCrash(d)
  <2>1. disp' \in [Dispatchers -> DispatcherStates] BY <1>4 DEF DispatcherCrash, DispatcherStates, IdleDispatcher
  <2>2. QED BY <1>4, <2>1, BoundsAssumption DEF DispatcherCrash, Fault, WorkerHasJob
<1>5. QED BY <1>1, <1>2, <1>3, <1>4 DEF DispatcherStep

LEMMA TypeInvWorkerStep ==
    ASSUME TypeInv, NEW w \in Workers, WorkerStep(w)
    PROVE  TypeInv'
<1> USE DEF TypeInv, TypeOK, queueVars, ghostVars, boundVars
<1> DEFINE e == EventOf(worker[w].job)
<1>0. worker[w] \in WorkerStates OBVIOUS
<1>1. worker[w].pc # "idle" => worker[w].job \in Jobs /\ e \in Events
  BY JobFacts DEF WorkerHasJob
<1> HIDE DEF e
<1>2. ASSUME NEW j \in waiting, TakeJob(w, j) PROVE TypeInv'
  <2>1. worker' = [worker EXCEPT ![w] = [IdleWorker EXCEPT !.pc = "claim", !.job = j, !.owns = TRUE]]
    BY <1>2 DEF TakeJob
  <2>2. worker' \in [Workers -> WorkerStates] BY <1>0, <2>1, WorkerWrites DEF Outcomes
  <2>3. WorkerHasJob' BY <2>1 DEF WorkerHasJob, IdleWorker
  <2>4. QED BY <1>2, <2>2, <2>3 DEF TakeJob
<1>3. CASE ClaimRow(w)
  <2>0. e \in Events /\ row[e] \in Rows BY <1>1, <1>3 DEF ClaimRow
  <2>1. row[e].attempts + 1 \in Nat BY <2>0 DEF Rows
  <2>2. row' = [row EXCEPT ![e] = [row[e] EXCEPT !.status = "PROCESSING", !.attempts = row[e].attempts + 1,
                                                 !.lease = "held", !.stale = FALSE]]
    BY <1>3 DEF ClaimRow, e
  <2>3. worker' = [worker EXCEPT ![w] = [worker[w] EXCEPT !.pc = "handle", !.attempt = row[e].attempts + 1,
                                                          !.inLease = TRUE]]
    BY <1>3 DEF ClaimRow, e
  <2>4. row' \in [Events -> Rows] BY <2>0, <2>1, <2>2, RowWrites
  <2>5. worker[w].job \in Jobs /\ "ok" \in Outcomes BY <1>1, <1>3 DEF ClaimRow, Outcomes
  <2>6. worker' \in [Workers -> WorkerStates] BY <1>0, <2>1, <2>3, <2>5, WorkerWrites
  <2>7. WorkerHasJob' BY <1>0, <2>3, <2>5 DEF WorkerHasJob, WorkerStates
  <2>8. QED BY <1>3, <2>4, <2>6, <2>7 DEF ClaimRow
<1>4. ASSUME NEW o \in Outcomes, worker[w].pc = "handle",
             worker' = [worker EXCEPT ![w] = [worker[w] EXCEPT !.pc = "complete", !.outcome = o]]
      PROVE  worker' \in [Workers -> WorkerStates] /\ WorkerHasJob'
  <2>1. worker[w].job \in Jobs BY <1>1, <1>4
  <2>2. worker' \in [Workers -> WorkerStates] BY <1>0, <1>4, <2>1, WorkerWrites
  <2>3. QED BY <1>0, <1>4, <2>1, <2>2 DEF WorkerHasJob, WorkerStates
<1>5. CASE HandlerReturns(w)
  <2>1. worker' \in [Workers -> WorkerStates] /\ WorkerHasJob' BY <1>4, <1>5 DEF HandlerReturns, Outcomes
  <2>2. e \in Events BY <1>1, <1>5 DEF HandlerReturns
  <2>3. sent' \in [Events -> Nat] BY <1>5, <2>2 DEF HandlerReturns, e
  <2>4. QED BY <1>5, <2>1, <2>2, <2>3 DEF HandlerReturns, e
<1>6. CASE HandlerThrows(w)
  <2>1. worker' \in [Workers -> WorkerStates] /\ WorkerHasJob' BY <1>4, <1>6 DEF HandlerThrows, Outcomes
  <2>2. QED BY <1>6, <2>1 DEF HandlerThrows
<1>7. CASE HandlerAnswerLost(w)
  <2>1. worker' \in [Workers -> WorkerStates] /\ WorkerHasJob' BY <1>4, <1>7 DEF HandlerAnswerLost, Outcomes
  <2>2. e \in Events BY <1>1, <1>7 DEF HandlerAnswerLost
  <2>3. sent' \in [Events -> Nat] /\ disturbed' \in [Events -> Nat] BY <1>7, <2>2 DEF HandlerAnswerLost, Disturb, e
  <2>4. faults' \in 0..MaxFaults BY <1>7, BoundsAssumption DEF HandlerAnswerLost, Fault
  <2>5. QED BY <1>7, <2>1, <2>3, <2>4 DEF HandlerAnswerLost
<1>8. ASSUME worker' = [worker EXCEPT ![w] = IdleWorker]
      PROVE  worker' \in [Workers -> WorkerStates] /\ WorkerHasJob'
  <2>1. IdleWorker \in WorkerStates BY DEF IdleWorker, WorkerStates, Outcomes
  <2>2. QED BY <1>8, <2>1 DEF WorkerHasJob, IdleWorker
<1>9. CASE SkipRow(w)
  <2>1. active' \subseteq Jobs /\ stalledOnce' \subseteq Jobs BY <1>9 DEF SkipRow, RemoveJob
  <2>2. QED BY <1>8, <1>9, <2>1 DEF SkipRow
<1>10. CASE CompleteRow(w)
  <2>1. active' \subseteq Jobs /\ stalledOnce' \subseteq Jobs BY <1>10 DEF CompleteRow, RemoveJob
  <2>2. e \in Events /\ row[e] \in Rows BY <1>1, <1>10 DEF CompleteRow
  <2>3. Completed(row[e], worker[w].outcome) \in Rows BY <1>0, <2>2, CompletedIsRow DEF WorkerStates
  <2>4. row' \in {row, [row EXCEPT ![e] = Completed(row[e], worker[w].outcome)]} BY <1>10 DEF CompleteRow, e
  <2>5. row' \in [Events -> Rows] BY <2>2, <2>3, <2>4
  <2>6. QED BY <1>8, <1>10, <2>1, <2>5 DEF CompleteRow
<1>11. CASE StatementThrows(w)
  <2>1. worker[w].job \in Jobs /\ e \in Events BY <1>1, <1>11 DEF StatementThrows
  <2>2. active' \subseteq Jobs /\ stalledOnce' \subseteq Jobs /\ kept' \subseteq Jobs
    BY <1>11, <2>1 DEF StatementThrows, FailJob
  <2>3. disturbed' \in [Events -> Nat] BY <1>11, <2>1 DEF StatementThrows, Disturb, e
  <2>4. faults' \in 0..MaxFaults BY <1>11, BoundsAssumption DEF StatementThrows, Fault
  <2>5. QED BY <1>8, <1>11, <2>2, <2>3, <2>4 DEF StatementThrows
<1>12. CASE WorkerCrash(w)
  <2>1. e \in Events BY <1>1, <1>12 DEF WorkerCrash
  <2>2. disturbed' \in [Events -> Nat] BY <1>12, <2>1 DEF WorkerCrash, Disturb, e
  <2>3. faults' \in 0..MaxFaults BY <1>12, BoundsAssumption DEF WorkerCrash, Fault
  <2>4. QED BY <1>8, <1>12, <2>2, <2>3 DEF WorkerCrash
<1>13. QED BY <1>2, <1>3, <1>5, <1>6, <1>7, <1>9, <1>10, <1>11, <1>12 DEF WorkerStep

LEMMA TypeInvQueueStep == ASSUME TypeInv, QueueStep PROVE TypeInv'
<1> USE DEF TypeInv, TypeOK, queueVars, ghostVars, boundVars
<1>1. ASSUME NEW j \in active, StalledJob(j) PROVE TypeInv'
  <2>1. active' \subseteq Jobs /\ waiting' \subseteq Jobs /\ kept' \subseteq Jobs /\ stalledOnce' \subseteq Jobs
    BY <1>1 DEF StalledJob
  <2>2. QED BY <1>1, <2>1 DEF StalledJob, WorkerHasJob
<1>2. ASSUME NEW j \in kept, KeptJobRemoved(j) PROVE TypeInv'
  BY <1>2 DEF KeptJobRemoved, WorkerHasJob
<1>3. CASE RedisFlush
  <2>1. \A w \in Workers : /\ worker'[w] \in WorkerStates
                            /\ worker'[w].pc = worker[w].pc /\ worker'[w].job = worker[w].job
    <3> TAKE w \in Workers
    <3>1. worker[w] \in WorkerStates OBVIOUS
    <3>2. worker'[w] = [worker[w] EXCEPT !.owns = FALSE] BY <1>3 DEF RedisFlush
    <3>3. QED BY <3>1, <3>2 DEF WorkerStates
  <2>2. worker' \in [Workers -> WorkerStates] BY <1>3, <2>1 DEF RedisFlush
  <2>3. faults' \in 0..MaxFaults BY <1>3, BoundsAssumption DEF RedisFlush, Fault
  <2>4. QED BY <1>3, <2>1, <2>2, <2>3 DEF RedisFlush, WorkerHasJob
<1>4. QED BY <1>1, <1>2, <1>3 DEF QueueStep

LEMMA TypeInvStep == ASSUME TypeInv, [Next]_vars PROVE TypeInv'
<1>1. CASE Next
  BY <1>1, TypeInvRowStep, TypeInvReap, TypeInvDispatcherStep, TypeInvWorkerStep, TypeInvQueueStep DEF Next
<1>2. CASE UNCHANGED vars
  BY <1>2 DEF vars, queueVars, ghostVars, boundVars, TypeInv, TypeOK, WorkerHasJob
<1>3. QED BY <1>1, <1>2

\* The types are right in every reachable state: a state the code reaches is one the schema and the transport allow.
THEOREM TypeCorrect == Spec => []TypeOK
<1>1. TypeInv /\ [Next]_vars => TypeInv' BY TypeInvStep
<1>2. TypeInv => TypeOK BY DEF TypeInv
<1>3. QED BY TypeInvInit, <1>1, <1>2, PTL DEF Spec

-----------------------------------------------------------------------------
(* The delivery tokens *)

LEMMA WorkerSets ==
    ASSUME NEW S \in SUBSET Workers, NEW w \in Workers
    PROVE  /\ Cardinality(S) \in Nat
           /\ w \notin S => Cardinality(S \cup {w}) = Cardinality(S) + 1
           /\ w \in S => Cardinality(S \ {w}) = Cardinality(S) - 1
           /\ \A R \in SUBSET S : Cardinality(R) \in Nat /\ Cardinality(R) <= Cardinality(S)
<1>1. IsFiniteSet(S) BY WorkersAssumption, FS_Subset
<1>2. QED BY <1>1, FS_CardinalityType, FS_AddElement, FS_RemoveElement, FS_Subset

LEMMA HoldersAreWorkers == \A e \in Events : Holders(e) \in SUBSET Workers
  BY DEF Holders

LEMMA RowTokenRange == \A e \in Events : RowToken(e) \in {0, 1}
  BY DEF RowToken

\* Steps that change no worker's stage, outcome or lease move no holder.
LEMMA SameHolders ==
    ASSUME \A w \in Workers : /\ worker'[w].pc = worker[w].pc /\ worker'[w].job = worker[w].job
                              /\ worker'[w].outcome = worker[w].outcome
    PROVE  \A e \in Events : Holders(e)' = Holders(e)
  BY DEF Holders, Live

\* A step of one worker leaves the other workers' part in every set of holders.
LEMMA OneWorker ==
    ASSUME NEW w \in Workers, \A v \in Workers \ {w} : worker'[v] = worker[v]
    PROVE  \A e \in Events : /\ Holders(e)' \ {w} = Holders(e) \ {w}
                             /\ \A v \in Workers \ {w} : Live(v, e)' <=> Live(v, e)
  BY DEF Holders, Live

\* A worker that runs no consumer before or after its step disturbs neither holders nor attendance.
LEMMA IdleSteps ==
    ASSUME NEW w \in Workers, \A v \in Workers \ {w} : worker'[v] = worker[v],
           worker[w].pc \notin {"handle", "complete"}, worker'[w].pc \notin {"handle", "complete"},
           UNCHANGED row
    PROVE  \A e \in Events : Holders(e)' = Holders(e) /\ RowToken(e)' = RowToken(e)
<1>1. \A v \in Workers, e \in Events : Live(v, e)' <=> Live(v, e) BY DEF Live
<1>2. \A v \in Workers, e \in Events : Live(v, e) => worker'[v] = worker[v] BY DEF Live
<1>3. \A e \in Events : Holders(e)' = Holders(e) BY <1>1, <1>2 DEF Holders
<1>4. \A e \in Events : Attended(e)' <=> Attended(e) BY <1>1, <1>2 DEF Attended
<1>5. QED BY <1>3, <1>4 DEF RowToken

\* What each step must show of an event: its account does not grow by more than its disturbances.
Balanced(e) ==
    sent'[e] + Cardinality(Holders(e)') + RowToken(e)' - disturbed'[e]
        <= sent[e] + Cardinality(Holders(e)) + RowToken(e) - disturbed[e]

LEMMA BalanceSuffices ==
    ASSUME TypeInv, TypeInv', DeliveryTokens, \A e \in Events : Balanced(e)
    PROVE  DeliveryTokens'
<1> SUFFICES ASSUME NEW e \in Events
             PROVE  sent'[e] + Cardinality(Holders(e)') + RowToken(e)' <= 1 + disturbed'[e]
  BY DEF DeliveryTokens
<1>1. sent[e] \in Nat /\ disturbed[e] \in Nat /\ sent'[e] \in Nat /\ disturbed'[e] \in Nat
  BY DEF TypeInv, TypeOK
<1>2. Cardinality(Holders(e)) \in Nat BY HoldersAreWorkers, WorkersAssumption, FS_Subset, FS_CardinalityType
<1>3. Holders(e)' \in SUBSET Workers BY DEF Holders
<1>4. Cardinality(Holders(e)') \in Nat BY <1>3, WorkersAssumption, FS_Subset, FS_CardinalityType
<1>5. RowToken(e) \in {0, 1} /\ RowToken(e)' \in {0, 1} BY DEF RowToken
<1>6. sent[e] + Cardinality(Holders(e)) + RowToken(e) <= 1 + disturbed[e] BY DEF DeliveryTokens
<1>7. QED BY <1>1, <1>2, <1>4, <1>5, <1>6 DEF Balanced

\* The numbers in the account of an event.
LEMMA Numbers ==
    ASSUME TypeInv, NEW e \in Events
    PROVE  /\ sent[e] \in Nat /\ disturbed[e] \in Nat
           /\ Cardinality(Holders(e)) \in Nat
           /\ RowToken(e) \in {0, 1}
  BY HoldersAreWorkers, WorkerSets, RowTokenRange, WorkersAssumption, FS_Subset, FS_CardinalityType DEF TypeInv, TypeOK

LEMMA Quiet ==
    ASSUME TypeInv, NEW e \in Events, Holders(e)' = Holders(e), RowToken(e)' = RowToken(e),
           sent'[e] = sent[e], disturbed'[e] = disturbed[e]
    PROVE  Balanced(e)
<1>1. Cardinality(Holders(e)') = Cardinality(Holders(e)) OBVIOUS
<1>2. QED BY <1>1, Numbers DEF Balanced

\* A disturbance pays for the row becoming claimable again.
LEMMA PaidFor ==
    ASSUME TypeInv, NEW e \in Events, Holders(e)' \in SUBSET Holders(e),
           sent'[e] = sent[e], disturbed'[e] = disturbed[e] + 1
    PROVE  Balanced(e)
<1>1. Cardinality(Holders(e)') \in Nat /\ Cardinality(Holders(e)') <= Cardinality(Holders(e))
  BY HoldersAreWorkers, WorkersAssumption, FS_Subset, FS_CardinalityType
<1>2. RowToken(e)' \in {0, 1} BY DEF RowToken
<1>3. QED BY <1>1, <1>2, Numbers DEF Balanced

LEMMA RowStepBalanced ==
    ASSUME TypeInv, NEW e \in Events, RowStep(e)
    PROVE  \A f \in Events : Balanced(f)
<1> USE DEF queueVars, ghostVars, boundVars
<1>0. row \in [Events -> Rows] /\ worker \in [Workers -> WorkerStates] /\ disturbed \in [Events -> Nat]
  BY DEF TypeInv, TypeOK
<1>1. ASSUME UNCHANGED worker, UNCHANGED sent, UNCHANGED disturbed,
             NEW r, row' = [row EXCEPT ![e] = r],
             RowToken(e)' = RowToken(e)
      PROVE  \A f \in Events : Balanced(f)
  <2>1. \A f \in Events : Holders(f)' = Holders(f) BY <1>1, SameHolders
  <2>2. \A f \in Events : f # e => RowToken(f)' = RowToken(f)
    BY <1>0, <1>1 DEF RowToken, Attended, Live
  <2>3. QED BY <1>1, <2>1, <2>2, Quiet
<1>2. CASE RecordIntent(e)
  <2>1. row' = [row EXCEPT ![e] = [row[e] EXCEPT !.status = "PENDING", !.due = TRUE]] BY <1>2 DEF RecordIntent
  <2>2. row[e].status = "ABSENT" /\ row'[e].status = "PENDING" BY <1>0, <1>2, <2>1 DEF RecordIntent, Rows
  <2>3. RowToken(e)' = RowToken(e) BY <2>2 DEF RowToken
  <2>4. QED BY <1>1, <1>2, <2>1, <2>3 DEF RecordIntent
<1>3. CASE CleanupRow(e)
  <2>1. row[e].status = "PROCESSED" /\ row'[e].status = "DELETED" BY <1>0, <1>3 DEF CleanupRow, AbsentRow
  <2>2. RowToken(e)' = RowToken(e) BY <2>1 DEF RowToken
  <2>3. QED BY <1>1, <1>3, <2>2 DEF CleanupRow
<1>4. CASE RetryFailed(e)
  <2>1. \A f \in Events : Holders(f)' = Holders(f) BY <1>4, SameHolders DEF RetryFailed
  <2>2. \A f \in Events : f # e => RowToken(f)' = RowToken(f)
    BY <1>0, <1>4 DEF RetryFailed, RowToken, Attended, Live
  <2>3. \A f \in Events : f # e => disturbed'[f] = disturbed[f] BY <1>0, <1>4 DEF RetryFailed, Disturb
  <2>4. disturbed'[e] = disturbed[e] + 1 /\ sent' = sent BY <1>0, <1>4 DEF RetryFailed, Disturb
  <2>5. QED BY <2>1, <2>2, <2>3, <2>4, Quiet, PaidFor
<1>5. CASE BecomesDue(e)
  <2>1. row' = [row EXCEPT ![e] = [row[e] EXCEPT !.due = TRUE]] BY <1>5 DEF BecomesDue
  <2>2. row'[e].status = row[e].status /\ row[e].status = "PENDING" BY <1>0, <1>5, <2>1 DEF BecomesDue, Rows
  <2>3. RowToken(e)' = RowToken(e) BY <2>2 DEF RowToken
  <2>4. QED BY <1>1, <1>5, <2>1, <2>3 DEF BecomesDue
<1>6. CASE EnqueuedGoesStale(e)
  <2>1. row' = [row EXCEPT ![e] = [row[e] EXCEPT !.stale = TRUE]] BY <1>6 DEF EnqueuedGoesStale
  <2>2. row'[e].status = row[e].status /\ row[e].status = "ENQUEUED" BY <1>0, <1>6, <2>1 DEF EnqueuedGoesStale, Rows
  <2>3. RowToken(e)' = RowToken(e) BY <2>2 DEF RowToken
  <2>4. QED BY <1>1, <1>6, <2>1, <2>3 DEF EnqueuedGoesStale
<1>7. CASE LeaseExpires(e)
  <2>1. row' = [row EXCEPT ![e] = [row[e] EXCEPT !.lease = "expired"]] BY <1>7 DEF LeaseExpires
  <2>2. row'[e].status = row[e].status BY <1>0, <2>1 DEF Rows
  <2>3. sent' = sent BY <1>7 DEF LeaseExpires
  <2>4. CASE row[e].status = "PROCESSING" /\ \E w \in Workers : Live(w, e) /\ worker[w].inLease
    <3>1. \A w \in Workers : worker'[w] = IF Live(w, e) THEN [worker[w] EXCEPT !.inLease = FALSE] ELSE worker[w]
      BY <1>7, <2>4 DEF LeaseExpires
    <3>2. \A w \in Workers : /\ worker'[w].pc = worker[w].pc /\ worker'[w].job = worker[w].job
                              /\ worker'[w].outcome = worker[w].outcome
      BY <1>0, <3>1 DEF WorkerStates
    <3>3. \A f \in Events : Holders(f)' = Holders(f) BY <3>2, SameHolders
    <3>4. disturbed'[e] = disturbed[e] + 1 /\ \A f \in Events : f # e => disturbed'[f] = disturbed[f]
      BY <1>0, <1>7, <2>4 DEF LeaseExpires, Disturb
    <3>5. ASSUME NEW f \in Events, f # e PROVE RowToken(f)' = RowToken(f)
      <4>1. row'[f] = row[f] BY <1>0, <2>1, <3>5
      <4>2. \A w \in Workers : Live(w, f)' <=> Live(w, f) BY <3>2 DEF Live
      <4>3. \A w \in Workers : Live(w, f) => ~Live(w, e) BY <3>5 DEF Live
      <4>4. \A w \in Workers : Live(w, f) => worker'[w] = worker[w] BY <3>1, <4>3
      <4>5. Attended(f)' <=> Attended(f) BY <4>1, <4>2, <4>4 DEF Attended
      <4>6. QED BY <4>1, <4>5 DEF RowToken
    <3>6. QED BY <2>3, <3>3, <3>4, <3>5, Quiet, PaidFor
  <2>5. CASE ~(row[e].status = "PROCESSING" /\ \E w \in Workers : Live(w, e) /\ worker[w].inLease)
    <3>1. UNCHANGED <<worker, disturbed>> BY <1>7, <2>5 DEF LeaseExpires
    <3>2. row[e].status = "PROCESSING" => ~Attended(e) BY <2>5 DEF Attended
    <3>3. ~Attended(e)' BY <1>0, <2>1 DEF Attended, Rows
    <3>4. RowToken(e)' = RowToken(e) BY <2>2, <3>2, <3>3 DEF RowToken
    <3>5. QED BY <1>1, <2>1, <2>3, <3>1, <3>4
  <2>6. QED BY <2>4, <2>5
<1>8. QED BY <1>2, <1>3, <1>4, <1>5, <1>6, <1>7 DEF RowStep

\* Reaping and dispatching only move rows that any worker may already claim.
LEMMA ReapBalanced == ASSUME TypeInv, ReapProcessing \/ ReapEnqueued PROVE \A f \in Events : Balanced(f)
<1> USE DEF queueVars, ghostVars, boundVars
<1>0. row \in [Events -> Rows] BY DEF TypeInv, TypeOK
<1>1. UNCHANGED <<worker, sent, disturbed>> BY DEF ReapProcessing, ReapEnqueued
<1>2. \A f \in Events : Holders(f)' = Holders(f) BY <1>1, SameHolders
<1>3. \A f \in Events : RowToken(f)' = RowToken(f)
  <2> TAKE f \in Events
  <2>1. CASE row'[f] = row[f] BY <1>1, <2>1 DEF RowToken, Attended, Live
  <2>2. CASE ReapProcessing /\ f \in ReapableProcessing
    <3>1. row'[f].status = "PENDING" BY <1>0, <2>2 DEF ReapProcessing, Rows
    <3>2. row[f].status = "PROCESSING" /\ ~Attended(f) BY <2>2 DEF ReapableProcessing, Attended
    <3>3. QED BY <3>1, <3>2 DEF RowToken
  <2>3. CASE ReapEnqueued /\ f \in ReapableEnqueued
    <3>1. row'[f].status = "PENDING" BY <1>0, <2>3 DEF ReapEnqueued, Rows
    <3>2. row[f].status = "ENQUEUED" BY <2>3 DEF ReapableEnqueued
    <3>3. QED BY <3>1, <3>2 DEF RowToken
  <2>4. QED BY <2>1, <2>2, <2>3 DEF ReapProcessing, ReapEnqueued
<1>4. QED BY <1>1, <1>2, <1>3, Quiet

LEMMA DispatcherStepBalanced ==
    ASSUME TypeInv, NEW d \in Dispatchers, DispatcherStep(d)
    PROVE  \A f \in Events : Balanced(f)
<1> USE DEF queueVars, ghostVars, boundVars
<1>0. row \in [Events -> Rows] BY DEF TypeInv, TypeOK
<1>1. UNCHANGED <<worker, sent, disturbed>>
  BY DEF DispatcherStep, DispatchClaim, EnqueueOk, EnqueueError, AfterEnqueue, DispatcherCrash
<1>2. \A f \in Events : Holders(f)' = Holders(f) BY <1>1, SameHolders
<1>3. \A f \in Events : row'[f] = row[f] \/ (row[f].status = "PENDING" /\ row'[f].status \in {"PENDING", "ENQUEUED"})
  <2> TAKE f \in Events
  <2>1. ASSUME NEW batch \in SUBSET Events, DispatchClaim(d, batch)
        PROVE  row'[f] = row[f] \/ (row[f].status = "PENDING" /\ row'[f].status = "PENDING")
    BY <1>0, <2>1 DEF DispatchClaim, Claimable, Rows
  <2>2. CASE AfterEnqueue(d)
    <3> DEFINE e == EventOf(disp[d].job)
    <3>1. disp[d].job \in Jobs BY <2>2 DEF AfterEnqueue, TypeInv, TypeOK, DispatcherStates
    <3>2. e \in Events BY <3>1, JobFacts
    <3>3. \/ row' = row
          \/ /\ row[e].status = "PENDING"
             /\ row' \in {[row EXCEPT ![e] = [row[e] EXCEPT !.status = "ENQUEUED", !.lease = "none", !.stale = FALSE]],
                           [row EXCEPT ![e] = [row[e] EXCEPT !.lease = "none", !.due = FALSE]]}
      BY <2>2 DEF AfterEnqueue
    <3> HIDE DEF e
    <3>4. QED BY ZenonT(40), <1>0, <3>2, <3>3 DEF Rows
  <2>3. QED BY <2>1, <2>2 DEF DispatcherStep, EnqueueOk, EnqueueError, DispatcherCrash
<1>4. \A f \in Events : RowToken(f)' = RowToken(f) BY <1>1, <1>3 DEF RowToken, Attended, Live
<1>5. QED BY <1>1, <1>2, <1>4, Quiet

LEMMA QueueStepBalanced == ASSUME TypeInv, QueueStep PROVE \A f \in Events : Balanced(f)
<1> USE DEF queueVars, ghostVars, boundVars
<1>1. UNCHANGED <<row, sent, disturbed>> BY DEF QueueStep, StalledJob, KeptJobRemoved, RedisFlush
<1>2. \A w \in Workers : /\ worker'[w].pc = worker[w].pc /\ worker'[w].job = worker[w].job
                          /\ worker'[w].outcome = worker[w].outcome /\ worker'[w].inLease = worker[w].inLease
  <2>1. CASE RedisFlush BY <2>1 DEF RedisFlush, TypeInv, TypeOK, WorkerStates
  <2>2. QED BY <2>1 DEF QueueStep, StalledJob, KeptJobRemoved
<1>3. \A f \in Events : Holders(f)' = Holders(f) BY <1>2, SameHolders
<1>4. \A f \in Events : RowToken(f)' = RowToken(f) BY <1>1, <1>2 DEF RowToken, Attended, Live
<1>5. QED BY <1>1, <1>3, <1>4, Quiet

LEMMA WorkerStepBalanced ==
    ASSUME TypeInv, NEW w \in Workers, WorkerStep(w)
    PROVE  \A f \in Events : Balanced(f)
<1> USE DEF queueVars, ghostVars, boundVars
<1>e. PICK e : e = EventOf(worker[w].job) OBVIOUS
<1> USE <1>e
<1>0. /\ row \in [Events -> Rows] /\ worker \in [Workers -> WorkerStates]
      /\ sent \in [Events -> Nat] /\ disturbed \in [Events -> Nat]
  BY DEF TypeInv, TypeOK
<1>a. worker[w].pc # "idle" => e \in Events BY JobFacts DEF TypeInv, WorkerHasJob
<1>b. \A v \in Workers \ {w} : worker'[v] = worker[v]
  BY <1>0 DEF WorkerStep, TakeJob, ClaimRow, SkipRow, HandlerReturns, HandlerThrows, HandlerAnswerLost,
     CompleteRow, StatementThrows, WorkerCrash
<1>c. \A f \in Events : Holders(f)' \ {w} = Holders(f) \ {w} /\ Holders(f) \in SUBSET Workers
  BY <1>b, OneWorker, HoldersAreWorkers
<1>d. \A f \in Events : f # e => w \notin Holders(f) BY DEF Holders, Live
<1>1. CASE UNCHANGED <<row, sent, disturbed>> /\ worker[w].pc \notin {"handle", "complete"}
           /\ worker'[w].pc \notin {"handle", "complete"}
  BY <1>b, <1>1, IdleSteps, Quiet
<1>2. CASE \E j \in waiting : TakeJob(w, j)
  <2>1. PICK j \in waiting : TakeJob(w, j) BY <1>2
  <2>2. worker'[w].pc = "claim" BY <1>0, <2>1 DEF TakeJob, IdleWorker
  <2>3. QED BY <1>1, <2>1, <2>2 DEF TakeJob
<1>3. CASE SkipRow(w)
  BY <1>0, <1>1, <1>3 DEF SkipRow, IdleWorker
<1>4. CASE ClaimRow(w)
  <2>1. e \in Events BY <1>a, <1>4 DEF ClaimRow
  <2>2. UNCHANGED <<sent, disturbed>> BY <1>4 DEF ClaimRow
  <2>3. worker' = [worker EXCEPT ![w] = [worker[w] EXCEPT !.pc = "handle", !.attempt = row[e].attempts + 1,
                                                          !.inLease = TRUE]]
    BY <1>4 DEF ClaimRow
  <2>4. row' = [row EXCEPT ![e] = [row[e] EXCEPT !.status = "PROCESSING", !.attempts = row[e].attempts + 1,
                                                 !.lease = "held", !.stale = FALSE]]
    BY <1>4 DEF ClaimRow
  <2>5. worker'[w].pc = "handle" /\ worker'[w].job = worker[w].job /\ worker'[w].inLease = TRUE
    BY <1>0, <2>3 DEF WorkerStates
  <2>6. row[e].status \in {"PENDING", "ENQUEUED"} BY <1>4 DEF ClaimRow, Deliverable
  <2>7. row'[e].status = "PROCESSING" /\ row'[e].lease = "held" BY <1>0, <2>1, <2>4 DEF Rows
  <2>8. Live(w, e)' BY <2>5 DEF Live
  <2>9. RowToken(e) = 1 /\ RowToken(e)' = 0 BY <2>5, <2>6, <2>7, <2>8 DEF RowToken, Attended
  <2>10. w \notin Holders(e) BY <1>4 DEF ClaimRow, Holders, Live
  <2>11. Holders(e)' = Holders(e) \cup {w} BY <1>c, <2>1, <2>5, <2>8, <2>10 DEF Holders
  <2>12. Cardinality(Holders(e)') = Cardinality(Holders(e)) + 1 BY <1>c, <2>1, <2>10, <2>11, WorkerSets
  <2>13. Balanced(e) BY <2>1, <2>2, <2>9, <2>12, Numbers DEF Balanced
  <2>14. ASSUME NEW f \in Events, f # e PROVE Balanced(f)
    <3>1. row'[f] = row[f] BY <1>0, <2>4, <2>14
    <3>2. ~Live(w, f) /\ ~Live(w, f)' BY <2>5, <2>14 DEF Live
    <3>3. Attended(f)' <=> Attended(f) BY <1>b, <3>1, <3>2 DEF Attended, Live
    <3>4. w \notin Holders(f) /\ w \notin Holders(f)' BY <3>2 DEF Holders
    <3>5. Holders(f)' = Holders(f) BY <1>c, <3>4
    <3>6. RowToken(f)' = RowToken(f) BY <3>1, <3>3 DEF RowToken
    <3>7. QED BY <2>2, <3>5, <3>6, Quiet
  <2>15. QED BY <2>13, <2>14
\* The consumer returned or threw: the worker is still there, its row untouched.
<1>5. ASSUME NEW o \in Outcomes, worker[w].pc = "handle", row' = row,
             worker' = [worker EXCEPT ![w] = [worker[w] EXCEPT !.pc = "complete", !.outcome = o]]
      PROVE  /\ e \in Events /\ w \in Holders(e)
             /\ worker'[w].pc = "complete" /\ worker'[w].outcome = o
             /\ \A f \in Events : RowToken(f)' = RowToken(f) /\ Holders(f)' \in SUBSET Holders(f)
             /\ \A f \in Events : f # e => Holders(f)' = Holders(f)
  <2>1. /\ worker'[w].pc = "complete" /\ worker'[w].outcome = o /\ worker'[w].job = worker[w].job
        /\ worker'[w].inLease = worker[w].inLease
    BY <1>0, <1>5 DEF WorkerStates
  <2>2. \A v \in Workers, f \in Events : Live(v, f)' <=> Live(v, f) BY <1>b, <1>5, <2>1 DEF Live
  <2>3. \A v \in Workers : worker'[v].inLease = worker[v].inLease BY <1>b, <2>1
  <2>4. \A f \in Events : Attended(f)' <=> Attended(f) BY <1>5, <2>2, <2>3 DEF Attended
  <2>5. \A f \in Events : RowToken(f)' = RowToken(f) BY <1>5, <2>4 DEF RowToken
  <2>6. e \in Events /\ w \in Holders(e) BY <1>a, <1>5 DEF Holders, Live
  <2>7. \A f \in Events : f # e => w \notin Holders(f)' BY <2>1 DEF Holders, Live
  <2>8. \A f \in Events : Holders(f)' \in SUBSET Holders(f) /\ (f # e => Holders(f)' = Holders(f))
    BY <1>c, <1>d, <2>6, <2>7
  <2>9. QED BY <2>1, <2>5, <2>6, <2>8
<1>6. CASE HandlerReturns(w)
  <2>0. worker' = [worker EXCEPT ![w] = [worker[w] EXCEPT !.pc = "complete", !.outcome = "ok"]] BY <1>6 DEF HandlerReturns
  <2>1. "ok" \in Outcomes /\ worker[w].pc = "handle" /\ row' = row BY <1>6 DEF Outcomes, HandlerReturns
  <2>2. /\ e \in Events /\ w \in Holders(e) /\ worker'[w].pc = "complete" /\ worker'[w].outcome = "ok"
        /\ \A f \in Events : RowToken(f)' = RowToken(f) /\ Holders(f)' \in SUBSET Holders(f)
        /\ \A f \in Events : f # e => Holders(f)' = Holders(f)
    BY <1>5, <2>0, <2>1
  <2>3. w \notin Holders(e)' BY <2>2 DEF Holders
  <2>4. Holders(e)' = Holders(e) \ {w} BY <1>c, <2>2, <2>3
  <2>5. Cardinality(Holders(e)') = Cardinality(Holders(e)) - 1 BY <1>c, <2>2, <2>4, WorkerSets
  <2>6. sent' = [sent EXCEPT ![e] = @ + 1] /\ disturbed' = disturbed BY <1>6 DEF HandlerReturns
  <2>7. sent'[e] = sent[e] + 1 /\ \A f \in Events : f # e => sent'[f] = sent[f] BY <1>0, <2>2, <2>6
  <2>8. Balanced(e) BY <2>2, <2>5, <2>6, <2>7, Numbers DEF Balanced
  <2>9. QED BY <2>2, <2>6, <2>7, <2>8, Quiet
<1>7. CASE HandlerThrows(w)
  <2>1. PICK o \in {"retry", "fail"} :
          worker' = [worker EXCEPT ![w] = [worker[w] EXCEPT !.pc = "complete", !.outcome = o]]
    BY <1>7 DEF HandlerThrows
  <2>2. o \in Outcomes /\ worker[w].pc = "handle" /\ row' = row /\ UNCHANGED <<sent, disturbed>>
    BY <1>7 DEF Outcomes, HandlerThrows
  <2>3. \A f \in Events : RowToken(f)' = RowToken(f) /\ Holders(f)' \in SUBSET Holders(f)
    BY <1>5, <2>1, <2>2
  <2>4. \A f \in Events : Cardinality(Holders(f)') \in Nat /\ Cardinality(Holders(f)') <= Cardinality(Holders(f))
    BY <1>c, <2>3, WorkerSets
  <2>5. QED BY <2>2, <2>3, <2>4, Numbers DEF Balanced
<1>8. CASE HandlerAnswerLost(w)
  <2>1. PICK o \in {"retry", "fail"} :
          worker' = [worker EXCEPT ![w] = [worker[w] EXCEPT !.pc = "complete", !.outcome = o]]
    BY <1>8 DEF HandlerAnswerLost
  <2>2. o \in Outcomes /\ worker[w].pc = "handle" /\ row' = row BY <1>8 DEF Outcomes, HandlerAnswerLost
  <2>3. /\ e \in Events
        /\ \A f \in Events : RowToken(f)' = RowToken(f) /\ Holders(f)' \in SUBSET Holders(f)
    BY <1>5, <2>1, <2>2
  <2>4. \A f \in Events : Cardinality(Holders(f)') \in Nat /\ Cardinality(Holders(f)') <= Cardinality(Holders(f))
    BY <1>c, <2>3, WorkerSets
  <2>5. sent' = [sent EXCEPT ![e] = @ + 1] /\ disturbed' = [disturbed EXCEPT ![e] = @ + 1]
    BY <1>8 DEF HandlerAnswerLost, Disturb
  <2>6. \A f \in Events : sent'[f] - disturbed'[f] = sent[f] - disturbed[f] BY <1>0, <2>3, <2>5
  <2>7. \A f \in Events : sent'[f] \in Nat /\ disturbed'[f] \in Nat BY <1>0, <2>3, <2>5
  <2>8. QED BY <2>3, <2>4, <2>6, <2>7, Numbers DEF Balanced
\* The worker is gone, with no holder left in its place.
<1>9. ASSUME worker' = [worker EXCEPT ![w] = IdleWorker]
      PROVE  /\ \A f \in Events : w \notin Holders(f)' /\ Holders(f)' = Holders(f) \ {w}
             /\ \A f \in Events : f # e => Holders(f)' = Holders(f)
             /\ \A f \in Events : f # e /\ row'[f] = row[f] => RowToken(f)' = RowToken(f)
  <2>1. worker'[w].pc = "idle" BY <1>0, <1>9 DEF IdleWorker
  <2>2. \A f \in Events : w \notin Holders(f)' /\ ~Live(w, f)' BY <2>1 DEF Holders, Live
  <2>3. \A f \in Events : Holders(f)' = Holders(f) \ {w} BY <1>c, <2>2
  <2>4. \A f \in Events : f # e => Holders(f)' = Holders(f) BY <1>d, <2>3
  <2>5. \A f \in Events : f # e => ~Live(w, f) BY DEF Live
  <2>6. \A f \in Events : f # e /\ row'[f] = row[f] => (Attended(f)' <=> Attended(f))
    BY <1>b, <2>2, <2>5 DEF Attended, Live
  <2>7. QED BY <2>2, <2>3, <2>4, <2>6 DEF RowToken
<1>10. CASE CompleteRow(w)
  <2>1. worker' = [worker EXCEPT ![w] = IdleWorker] /\ UNCHANGED <<sent, disturbed>> BY <1>10 DEF CompleteRow
  <2>2. e \in Events /\ row[e] \in Rows BY <1>0, <1>a, <1>10 DEF CompleteRow
  <2>3. \/ row[e].status # "PROCESSING" /\ row' = row
        \/ row[e].status = "PROCESSING" /\ row' = [row EXCEPT ![e] = Completed(row[e], worker[w].outcome)]
    BY <1>10 DEF CompleteRow
  <2>4. \A f \in Events : Holders(f)' = Holders(f) \ {w} /\ (f # e => Holders(f)' = Holders(f))
    BY <1>9, <2>1
  <2>5. \A f \in Events : f # e => RowToken(f)' = RowToken(f) BY <1>0, <1>9, <2>1, <2>2, <2>3
  <2>6. \A f \in Events : f # e => Balanced(f) BY <2>1, <2>4, <2>5, Quiet
  <2>7. worker[w].outcome = "retry" => w \in Holders(e) BY <1>10 DEF CompleteRow, Holders, Live
  <2>8. Cardinality(Holders(e)') \in Nat /\ Cardinality(Holders(e)') <= Cardinality(Holders(e))
        /\ (worker[w].outcome = "retry" => Cardinality(Holders(e)') = Cardinality(Holders(e)) - 1)
    BY <1>c, <2>2, <2>4, <2>7, WorkerSets
  <2>9. CASE row[e].status # "PROCESSING"
    <3>1. row' = row BY <2>3, <2>9
    <3>2. RowToken(e)' = RowToken(e) BY <2>9, <3>1 DEF RowToken
    <3>3. QED BY <2>1, <2>2, <2>6, <2>8, <3>2, Numbers DEF Balanced
  <2>10. CASE row[e].status = "PROCESSING"
    <3>1. row' = [row EXCEPT ![e] = Completed(row[e], worker[w].outcome)] BY <2>3, <2>10
    <3>2. worker[w].outcome # "retry" => RowToken(e)' = 0
      <4>1. Completed(row[e], "ok").status = "PROCESSED" BY <2>2 DEF Completed, Rows
      <4>2. ASSUME NEW o, o \notin {"ok", "retry"} PROVE Completed(row[e], o).status = "FAILED"
        BY <2>2, <4>2 DEF Completed, Rows
      <4>3. worker[w].outcome # "retry" => row'[e].status \in {"PROCESSED", "FAILED"} BY <1>0, <2>2, <3>1, <4>1, <4>2
      <4>4. QED BY <4>3 DEF RowToken
    <3>3. RowToken(e)' \in {0, 1} BY DEF RowToken
    <3>4. Balanced(e) BY <2>1, <2>2, <2>8, <3>2, <3>3, Numbers DEF Balanced
    <3>5. QED BY <2>6, <3>4
  <2>11. QED BY <2>9, <2>10
<1>11. CASE (StatementThrows(w) \/ WorkerCrash(w)) /\ worker[w].pc # "claim"
  <2>1. /\ worker' = [worker EXCEPT ![w] = IdleWorker] /\ UNCHANGED <<row, sent>>
        /\ disturbed' = [disturbed EXCEPT ![e] = @ + 1] /\ worker[w].pc # "idle"
    BY <1>11 DEF StatementThrows, WorkerCrash, Disturb
  <2>2. e \in Events BY <1>a, <2>1
  <2>3. disturbed'[e] = disturbed[e] + 1 /\ \A f \in Events : f # e => disturbed'[f] = disturbed[f] BY <1>0, <2>1, <2>2
  <2>4. \A f \in Events : Holders(f)' = Holders(f) \ {w} /\ (f # e => Holders(f)' = Holders(f))
    BY <1>9, <2>1
  <2>5. \A f \in Events : f # e => RowToken(f)' = RowToken(f) BY <1>9, <2>1
  <2>6. \A f \in Events : f # e => Balanced(f) BY <2>1, <2>3, <2>4, <2>5, Quiet
  <2>7. Balanced(e) BY <2>1, <2>2, <2>3, <2>4, PaidFor
  <2>8. QED BY <2>6, <2>7
<1>12. CASE (StatementThrows(w) \/ WorkerCrash(w)) /\ worker[w].pc = "claim"
  BY <1>0, <1>1, <1>12 DEF StatementThrows, WorkerCrash, IdleWorker
<1>13. QED BY <1>2, <1>3, <1>4, <1>6, <1>7, <1>8, <1>10, <1>11, <1>12 DEF WorkerStep

\* The account of every event stays within its disturbances: the inductive form of the next theorem.
THEOREM TokensAccounted == Spec => []DeliveryTokens
<1>1. Init => DeliveryTokens
  <2> SUFFICES ASSUME Init, NEW e \in Events
               PROVE  sent[e] + Cardinality(Holders(e)) + RowToken(e) <= 1 + disturbed[e]
    BY DEF DeliveryTokens
  <2>1. Holders(e) = {} BY DEF Init, Holders, Live, IdleWorker
  <2>2. Cardinality(Holders(e)) = 0 BY <2>1, FS_EmptySet
  <2>3. RowToken(e) = 1 BY DEF Init, RowToken, AbsentRow
  <2>4. QED BY <2>2, <2>3 DEF Init
<1>2. TypeInv /\ TypeInv' /\ DeliveryTokens /\ [Next]_vars => DeliveryTokens'
  <2> SUFFICES ASSUME TypeInv, TypeInv', DeliveryTokens, [Next]_vars PROVE DeliveryTokens' OBVIOUS
  <2>1. CASE Next
    <3>1. \A f \in Events : Balanced(f)
      BY <2>1, RowStepBalanced, ReapBalanced, DispatcherStepBalanced, WorkerStepBalanced, QueueStepBalanced DEF Next
    <3>2. QED BY <3>1, BalanceSuffices
  <2>2. CASE UNCHANGED vars
    <3>1. UNCHANGED <<row, worker, sent, disturbed>> BY <2>2 DEF vars, ghostVars
    <3>2. QED BY <3>1 DEF DeliveryTokens, Holders, RowToken, Attended, Live
  <2>3. QED BY <2>1, <2>2
<1>3. TypeInv /\ [Next]_vars => TypeInv' BY TypeInvStep
<1>4. QED BY TypeInvInit, <1>1, <1>2, <1>3, PTL DEF Spec

\* The side effect of an event happens at most once more than its deliveries were disturbed by a crash, an expired lease
\* of a running worker, a lost answer or an operator retry; undisturbed, it happens at most once.
THEOREM AtMostOncePerDisturbance == Spec => []DuplicatesAreAccountedFor
<1>1. TypeInv /\ DeliveryTokens => DuplicatesAreAccountedFor
  <2> SUFFICES ASSUME TypeInv, DeliveryTokens, NEW e \in Events PROVE sent[e] <= 1 + disturbed[e]
    BY DEF DuplicatesAreAccountedFor
  <2>1. sent[e] + Cardinality(Holders(e)) + RowToken(e) <= 1 + disturbed[e] BY DEF DeliveryTokens
  <2>2. QED BY <2>1, Numbers
<1>2. TypeInv /\ [Next]_vars => TypeInv' BY TypeInvStep
<1>3. QED BY TypeInvInit, TokensAccounted, <1>1, <1>2, PTL DEF Spec
=============================================================================
