------------------------ MODULE OutboxDeliveryProofs ------------------------
(* The promise of module Delivery, kept by the outbox: for any number of   *)
(* events, dispatchers, workers, attempts, faults and operator retries.    *)
(* The argument follows the deliveries: what a worker that finished has    *)
(* done, and which row an undisturbed worker still owns.                   *)
EXTENDS OutboxProofs

\* A worker whose consumer returned normally has handled its event.
FinishedIsHandled ==
    \A w \in Workers : worker[w].pc = "complete" /\ worker[w].outcome = "ok" => EventOf(worker[w].job) \in handled

\* Nothing is delivered that was not recorded.
LiveIsRecorded ==
    \A w \in Workers, e \in Events : Live(w, e) => row[e].status # "ABSENT"

\* The workers of an undisturbed event still hold its claim.
UndisturbedIsClaimed ==
    \A w \in Workers, e \in Events : disturbed[e] = 0 /\ Live(w, e) =>
        row[e].status = "PROCESSING" /\ row[e].lease = "held" /\ worker[w].inLease

\* A deleted row has no lease that could still run out.
DeletedIsUnclaimed ==
    \A e \in Events : row[e].status = "DELETED" => row[e].lease # "held"

IInv ==
    /\ TypeInv
    /\ FinishedIsHandled /\ LiveIsRecorded /\ UndisturbedIsClaimed /\ DeletedIsUnclaimed
    /\ NoIntentLost /\ NoConcurrentHandlers

\* TerminalRowsStay, of one step.
TerminalStep ==
    \A e \in Events :
        /\ row[e].status = "PROCESSED" => row'[e].status \in {"PROCESSED", "DELETED"}
        /\ row[e].status = "DELETED" => row'[e] = row[e]
        /\ row[e].status = "FAILED" /\ row'[e].status # "FAILED" => redrives' = redrives + 1 /\ row'[e].attempts = 0

\* What a step must show.
Good == IInv' /\ TerminalStep /\ [D!Next]_(D!vars)

LEMMA InitGood == Init => IInv /\ D!Init
<1> SUFFICES ASSUME Init PROVE IInv /\ D!Init OBVIOUS
<1>1. TypeInv BY TypeInvInit
<1>2. \A e \in Events : row[e].status = "ABSENT" BY DEF Init, AbsentRow
<1>3. \A w \in Workers, e \in Events : ~Live(w, e) BY DEF Init, IdleWorker, Live
<1>4. FinishedIsHandled BY DEF Init, IdleWorker, FinishedIsHandled
<1>5. IInv
  BY <1>1, <1>2, <1>3, <1>4
  DEF IInv, LiveIsRecorded, UndisturbedIsClaimed, DeletedIsUnclaimed, NoIntentLost, NoConcurrentHandlers
<1>6. [e \in Events |-> IntentOf(row[e].status)] = [e \in Events |-> "none"] BY <1>2 DEF IntentOf
<1>7. D!Init BY <1>6 DEF Init, D!Init
<1>8. QED BY <1>5, <1>7

-----------------------------------------------------------------------------
(* Steps of rows alone *)

\* A row that no undisturbed worker holds may be written, as long as it is neither finished nor brought back by that.
Harmless(e) ==
    /\ row[e].status # "PROCESSING" \/ row[e].lease = "expired"
    /\ row[e].status \notin {"DELETED", "FAILED"} /\ row'[e].status # "ABSENT"
    /\ row[e].status # "PROCESSED" => row'[e].status \notin {"PROCESSED", "DELETED"}
    /\ row[e].status = "PROCESSED" => row'[e].status \in {"PROCESSED", "DELETED"}
    /\ row'[e].status = "DELETED" => row'[e].lease # "held"

LEMMA RowsAlone ==
    ASSUME IInv, TypeInv', UNCHANGED <<worker, handled, disturbed>>,
           \A e \in Events : row'[e] = row[e] \/ Harmless(e)
    PROVE  IInv' /\ TerminalStep
<1> USE DEF IInv
<1>1. \A w \in Workers, e \in Events : Live(w, e)' <=> Live(w, e) BY DEF Live
<1>2. FinishedIsHandled' BY DEF FinishedIsHandled
<1>3. LiveIsRecorded' BY <1>1 DEF LiveIsRecorded, Harmless
<1>4. UndisturbedIsClaimed' BY <1>1 DEF UndisturbedIsClaimed, Harmless
<1>5. DeletedIsUnclaimed' BY DEF DeletedIsUnclaimed, Harmless
<1>6. NoIntentLost' BY DEF NoIntentLost, Harmless
<1>7. NoConcurrentHandlers' BY <1>1 DEF NoConcurrentHandlers
<1>8. TerminalStep BY DEF TerminalStep, Harmless
<1>9. QED BY <1>2, <1>3, <1>4, <1>5, <1>6, <1>7, <1>8

\* A row that keeps its place in the abstract view moves nothing there.
LEMMA Unseen ==
    ASSUME UNCHANGED <<sent, handled, disturbed>>,
           \A e \in Events : IntentOf(row'[e].status) = IntentOf(row[e].status)
    PROVE  UNCHANGED D!vars
<1>1. [e \in Events |-> IntentOf(row[e].status)]' = [e \in Events |-> IntentOf(row[e].status)] OBVIOUS
<1>2. QED BY <1>1 DEF D!vars

\* A row that moves is a move of the abstract view.
LEMMA Moves ==
    ASSUME NEW e \in Events, NEW from, NEW to, IntentOf(row[e].status) = from, IntentOf(row'[e].status) = to,
           \A f \in Events \ {e} : row'[f] = row[f]
    PROVE  D!Move(e, from, to)
<1> DEFINE intent == [f \in Events |-> IntentOf(row[f].status)]
           intentNext == [f \in Events |-> IntentOf(row'[f].status)]
<1>1. intent[e] = from OBVIOUS
<1>2. intentNext = [intent EXCEPT ![e] = to]
  <2>1. \A f \in Events : intentNext[f] = [intent EXCEPT ![e] = to][f] OBVIOUS
  <2>2. QED BY <2>1
<1>3. QED BY <1>1, <1>2 DEF D!Move

LEMMA RowStepGood == ASSUME IInv, NEW e \in Events, RowStep(e) PROVE Good
<1> USE DEF IInv, Good
<1>0. TypeInv' BY TypeInvRowStep
<1>a. row \in [Events -> Rows] /\ row'[e] \in Rows BY <1>0 DEF TypeInv, TypeOK
<1>1. CASE RecordIntent(e)
  <2>1. /\ row' = [row EXCEPT ![e].status = "PENDING", ![e].due = TRUE] /\ row[e].status = "ABSENT"
        /\ UNCHANGED <<worker, sent, handled, disturbed>>
    BY <1>1 DEF RecordIntent, ghostVars
  <2>2. row'[e].status = "PENDING" /\ \A f \in Events \ {e} : row'[f] = row[f] BY <1>a, <2>1 DEF Rows
  <2>3. IInv' /\ TerminalStep BY <1>0, <2>1, <2>2, RowsAlone DEF Harmless
  <2>4. D!Move(e, "none", "open") BY <2>1, <2>2, Moves DEF IntentOf
  <2>5. D!Next BY <2>1, <2>4 DEF D!Next, D!Record
  <2>6. QED BY <2>3, <2>5
<1>2. CASE CleanupRow(e)
  <2>1. /\ row' = [row EXCEPT ![e] = [AbsentRow EXCEPT !.status = "DELETED"]] /\ row[e].status = "PROCESSED"
        /\ UNCHANGED <<worker, sent, handled, disturbed>>
    BY <1>2 DEF CleanupRow, ghostVars
  <2>2. /\ row'[e].status = "DELETED" /\ row'[e].lease = "none"
        /\ \A f \in Events \ {e} : row'[f] = row[f]
    BY <1>a, <2>1 DEF AbsentRow
  <2>3. IInv' /\ TerminalStep BY <1>0, <2>1, <2>2, RowsAlone DEF Harmless
  <2>4. D!Move(e, "done", "purged") BY <2>1, <2>2, Moves DEF IntentOf
  <2>5. D!Next BY <2>1, <2>4 DEF D!Next, D!Purge
  <2>6. QED BY <2>3, <2>5
<1>3. CASE RetryFailed(e)
  <2>1. /\ row' = [row EXCEPT ![e] = [AbsentRow EXCEPT !.status = "PENDING", !.due = TRUE]]
        /\ row[e].status = "FAILED" /\ redrives' = redrives + 1
        /\ disturbed' = [disturbed EXCEPT ![e] = @ + 1] /\ UNCHANGED <<worker, sent, handled>>
    BY <1>3 DEF RetryFailed, Disturb
  <2>2. /\ row'[e].status = "PENDING" /\ row'[e].attempts = 0
        /\ \A f \in Events \ {e} : row'[f] = row[f] /\ disturbed'[f] = disturbed[f]
    BY <1>a, <2>1 DEF AbsentRow, TypeInv, TypeOK
  <2>3. disturbed'[e] # 0 BY <2>1 DEF TypeInv, TypeOK
  <2>4. \A w \in Workers, f \in Events : Live(w, f)' <=> Live(w, f) BY <2>1 DEF Live
  <2>5. IInv'
    BY <1>0, <2>1, <2>2, <2>3, <2>4
    DEF FinishedIsHandled, LiveIsRecorded, UndisturbedIsClaimed, DeletedIsUnclaimed, NoIntentLost, NoConcurrentHandlers
  <2>6. TerminalStep BY <2>1, <2>2 DEF TerminalStep
  <2>7. D!Move(e, "dead", "open") BY <2>1, <2>2, Moves DEF IntentOf
  <2>8. D!Next BY <2>1, <2>7 DEF D!Next, D!Redrive
  <2>9. QED BY <2>5, <2>6, <2>8
<1>4. CASE BecomesDue(e) \/ EnqueuedGoesStale(e)
  <2>1. /\ UNCHANGED <<worker, sent, handled, disturbed>> /\ row[e].status \in {"PENDING", "ENQUEUED"}
        /\ row'[e].status = row[e].status /\ \A f \in Events \ {e} : row'[f] = row[f]
    BY <1>a, <1>4 DEF BecomesDue, EnqueuedGoesStale, ghostVars, Rows
  <2>2. IInv' /\ TerminalStep BY <1>0, <2>1, RowsAlone DEF Harmless
  <2>3. UNCHANGED D!vars BY <2>1, Unseen
  <2>4. QED BY <2>2, <2>3
<1>5. CASE LeaseExpires(e)
  <2> DEFINE overrun == row[e].status = "PROCESSING" /\ \E w \in Workers : Live(w, e) /\ worker[w].inLease
  <2>1. /\ row' = [row EXCEPT ![e].lease = "expired"] /\ row[e].lease = "held" /\ UNCHANGED <<sent, handled>>
        /\ row'[e].status = row[e].status /\ \A f \in Events \ {e} : row'[f] = row[f]
    BY <1>a, <1>5 DEF LeaseExpires, Rows
  <2>2. row'[e].lease = "expired" BY <1>a, <2>1 DEF Rows
  <2>3. \A w \in Workers : worker'[w].pc = worker[w].pc /\ worker'[w].job = worker[w].job
                           /\ worker'[w].outcome = worker[w].outcome
                           /\ (~Live(w, e) => worker'[w] = worker[w])
    BY <1>5 DEF LeaseExpires, TypeInv, TypeOK, WorkerStates
  <2>4. \A w \in Workers, f \in Events : Live(w, f)' <=> Live(w, f) BY <2>3 DEF Live
  <2>5. FinishedIsHandled' /\ LiveIsRecorded' /\ DeletedIsUnclaimed' /\ NoIntentLost'
    BY <2>1, <2>2, <2>3, <2>4 DEF FinishedIsHandled, LiveIsRecorded, DeletedIsUnclaimed, NoIntentLost
  <2>6. TerminalStep BY <2>1 DEF TerminalStep, DeletedIsUnclaimed
  <2>7. CASE overrun
    <3>1. disturbed' = [disturbed EXCEPT ![e] = @ + 1] BY <1>5, <2>7 DEF LeaseExpires, Disturb
    <3>2. disturbed'[e] # 0 /\ \A f \in Events \ {e} : disturbed'[f] = disturbed[f]
      BY <3>1 DEF TypeInv, TypeOK
    <3>3. \A w \in Workers, f \in Events \ {e} : Live(w, f) => worker'[w] = worker[w] BY <2>3 DEF Live
    <3>4. UndisturbedIsClaimed' /\ NoConcurrentHandlers'
      BY <2>1, <2>4, <3>2, <3>3 DEF UndisturbedIsClaimed, NoConcurrentHandlers
    <3>5. [f \in Events |-> IntentOf(row[f].status)]' = [f \in Events |-> IntentOf(row[f].status)] BY <2>1
    <3>6. D!Next BY <2>1, <3>1, <3>5 DEF D!Next, D!Disturb
    <3>7. QED BY <1>0, <2>5, <2>6, <3>4, <3>6
  <2>8. CASE ~overrun
    <3>1. UNCHANGED <<worker, disturbed>> BY <1>5, <2>8 DEF LeaseExpires
    <3>2. disturbed[e] = 0 => \A w \in Workers : ~Live(w, e) BY <2>8 DEF UndisturbedIsClaimed
    <3>3. UndisturbedIsClaimed' /\ NoConcurrentHandlers'
      BY <2>1, <2>4, <3>1, <3>2 DEF UndisturbedIsClaimed, NoConcurrentHandlers
    <3>4. UNCHANGED D!vars BY <2>1, <3>1, Unseen
    <3>5. QED BY <1>0, <2>5, <2>6, <3>3, <3>4
  <2>9. QED BY <2>7, <2>8
<1>6. QED BY <1>1, <1>2, <1>3, <1>4, <1>5 DEF RowStep

LEMMA ReapGood == ASSUME IInv, ReapProcessing \/ ReapEnqueued PROVE Good
<1> USE DEF IInv, Good
<1>0. TypeInv' BY TypeInvReap
<1>a. row \in [Events -> Rows] BY DEF TypeInv, TypeOK
<1>1. UNCHANGED <<worker, sent, handled, disturbed>> BY DEF ReapProcessing, ReapEnqueued, ghostVars
<1>2. \A e \in Events : row'[e] = row[e] \/ (Harmless(e) /\ IntentOf(row'[e].status) = IntentOf(row[e].status))
  <2> SUFFICES ASSUME NEW e \in Events, row'[e] # row[e]
               PROVE  Harmless(e) /\ IntentOf(row'[e].status) = IntentOf(row[e].status)
    OBVIOUS
  <2>1. /\ row[e].status = "ENQUEUED" \/ (row[e].status = "PROCESSING" /\ row[e].lease = "expired")
        /\ row'[e].status = "PENDING"
    <3>1. CASE ReapProcessing BY <1>a, <3>1 DEF ReapProcessing, ReapableProcessing, Rows
    <3>2. CASE ReapEnqueued BY <1>a, <3>2 DEF ReapEnqueued, ReapableEnqueued, Rows
    <3>3. QED BY <3>1, <3>2
  <2>2. QED BY <2>1 DEF Harmless, IntentOf
<1>3. IInv' /\ TerminalStep BY <1>0, <1>1, <1>2, RowsAlone
<1>4. UNCHANGED D!vars BY <1>1, <1>2, Unseen
<1>5. QED BY <1>3, <1>4

LEMMA DispatcherStepGood == ASSUME IInv, NEW d \in Dispatchers, DispatcherStep(d) PROVE Good
<1> USE DEF IInv, Good
<1>0. TypeInv' BY TypeInvDispatcherStep
<1>a. row \in [Events -> Rows] BY DEF TypeInv, TypeOK
<1>1. UNCHANGED <<worker, sent, handled, disturbed>>
  BY DEF DispatcherStep, DispatchClaim, EnqueueOk, EnqueueError, AfterEnqueue, DispatcherCrash, ghostVars
<1>2. \A e \in Events : row'[e] = row[e] \/ (Harmless(e) /\ IntentOf(row'[e].status) = IntentOf(row[e].status))
  <2>1. ASSUME NEW batch \in SUBSET Events, DispatchClaim(d, batch)
        PROVE  \A e \in Events : row'[e] = row[e] \/ (Harmless(e) /\ IntentOf(row'[e].status) = IntentOf(row[e].status))
    BY <1>a, <2>1 DEF DispatchClaim, Claimable, Harmless, Rows
  <2>2. ASSUME NEW j, EnqueueOk(d, j) \/ EnqueueError(d, j) PROVE row' = row
    BY <2>2 DEF EnqueueOk, EnqueueError
  <2>3. CASE AfterEnqueue(d)
    <3> DEFINE e == EventOf(disp[d].job)
    <3>1. e \in Events
      <4>1. disp[d].job \in Jobs BY <2>3 DEF AfterEnqueue, TypeInv, TypeOK, DispatcherStates
      <4>2. QED BY <4>1, JobFacts
    <3>2. row' = row \/ (row[e].status = "PENDING" /\ row'[e].status \in {"PENDING", "ENQUEUED"}
                         /\ \A f \in Events \ {e} : row'[f] = row[f])
      BY <1>a, <2>3, <3>1 DEF AfterEnqueue, Rows
    <3>3. QED BY <3>2 DEF Harmless, IntentOf
  <2>4. CASE DispatcherCrash(d) BY <2>4 DEF DispatcherCrash
  <2>5. QED BY <2>1, <2>2, <2>3, <2>4 DEF DispatcherStep
<1>3. IInv' /\ TerminalStep BY <1>0, <1>1, <1>2, RowsAlone
<1>4. UNCHANGED D!vars BY <1>1, <1>2, Unseen
<1>5. QED BY <1>3, <1>4

LEMMA QueueStepGood == ASSUME IInv, QueueStep PROVE Good
<1> USE DEF IInv, Good
<1>0. TypeInv' BY TypeInvQueueStep
<1>1. UNCHANGED <<row, sent, handled, disturbed>>
  BY DEF QueueStep, StalledJob, KeptJobRemoved, RedisFlush, ghostVars
<1>2. \A w \in Workers : /\ worker'[w].pc = worker[w].pc /\ worker'[w].job = worker[w].job
                         /\ worker'[w].outcome = worker[w].outcome /\ worker'[w].inLease = worker[w].inLease
  BY DEF QueueStep, StalledJob, KeptJobRemoved, RedisFlush, TypeInv, TypeOK, WorkerStates
<1>3. \A w \in Workers, e \in Events : Live(w, e)' <=> Live(w, e) BY <1>2 DEF Live
<1>4. IInv'
  BY <1>0, <1>1, <1>2, <1>3
  DEF FinishedIsHandled, LiveIsRecorded, UndisturbedIsClaimed, DeletedIsUnclaimed, NoIntentLost, NoConcurrentHandlers
<1>5. TerminalStep BY <1>1 DEF TerminalStep
<1>6. UNCHANGED D!vars BY <1>1, Unseen
<1>7. QED BY <1>4, <1>5, <1>6

-----------------------------------------------------------------------------
(* Steps of a worker *)

\* A step that ends one worker's delivery of a row it leaves alone.
LEMMA WorkerEnds ==
    ASSUME IInv, TypeInv', NEW w \in Workers, worker' = [worker EXCEPT ![w] = IdleWorker], UNCHANGED <<row, handled>>,
           \A e \in Events : disturbed'[e] >= disturbed[e]
    PROVE  IInv' /\ TerminalStep
<1> USE DEF IInv
<1>1. \A v \in Workers : v # w => worker'[v] = worker[v] BY DEF TypeInv, TypeOK
<1>2. worker'[w].pc = "idle" BY DEF IdleWorker, TypeInv, TypeOK
<1>3. \A v \in Workers, e \in Events : Live(v, e)' => Live(v, e) /\ worker'[v] = worker[v] BY <1>1, <1>2 DEF Live
<1>4. \A e \in Events : disturbed'[e] = 0 => disturbed[e] = 0 BY DEF TypeInv, TypeOK
<1>5. FinishedIsHandled' BY <1>1, <1>2 DEF FinishedIsHandled
<1>6. LiveIsRecorded' /\ DeletedIsUnclaimed' /\ NoIntentLost' BY <1>3 DEF LiveIsRecorded, DeletedIsUnclaimed, NoIntentLost
<1>7. UndisturbedIsClaimed' /\ NoConcurrentHandlers' BY <1>3, <1>4 DEF UndisturbedIsClaimed, NoConcurrentHandlers
<1>8. TerminalStep BY DEF TerminalStep
<1>9. QED BY <1>5, <1>6, <1>7, <1>8

\* A step of a worker that leaves its row alone and stays with its event.
LEMMA WorkerGoesOn ==
    ASSUME IInv, TypeInv', NEW w \in Workers, \A v \in Workers \ {w} : worker'[v] = worker[v], row' = row,
           worker[w].pc = "handle", worker'[w].pc = "complete", worker'[w].job = worker[w].job,
           worker'[w].inLease = worker[w].inLease,
           worker'[w].outcome = "ok" => EventOf(worker[w].job) \in handled',
           handled \subseteq handled', \A e \in Events : disturbed'[e] >= disturbed[e]
    PROVE  IInv' /\ TerminalStep
<1> USE DEF IInv
<1>1. \A v \in Workers, e \in Events : Live(v, e)' <=> Live(v, e) BY DEF Live
<1>2. \A e \in Events : disturbed'[e] = 0 => disturbed[e] = 0 BY DEF TypeInv, TypeOK
<1>3. FinishedIsHandled' BY DEF FinishedIsHandled
<1>4. LiveIsRecorded' /\ DeletedIsUnclaimed' /\ NoIntentLost' BY <1>1 DEF LiveIsRecorded, DeletedIsUnclaimed, NoIntentLost
<1>5. UndisturbedIsClaimed' /\ NoConcurrentHandlers'
  BY <1>1, <1>2 DEF UndisturbedIsClaimed, NoConcurrentHandlers
<1>6. TerminalStep BY DEF TerminalStep
<1>7. QED BY <1>3, <1>4, <1>5, <1>6

\* The message goes out: the account of AtMostOncePerDisturbance is the guard of the abstract step.
LEMMA SendIsAllowed ==
    ASSUME IInv, DuplicatesAreAccountedFor', NEW e \in Events, row[e].status # "ABSENT", row' = row,
           sent' = [sent EXCEPT ![e] = @ + 1],
           \/ handled' = handled \cup {e} /\ UNCHANGED disturbed
           \/ disturbed' = [disturbed EXCEPT ![e] = @ + 1] /\ UNCHANGED handled
    PROVE  D!Next
<1>1. row[e] \in Rows BY DEF IInv, TypeInv, TypeOK
<1>2. IntentOf(row[e].status) # "none" BY <1>1 DEF IntentOf, Rows, Statuses
<1>3. sent'[e] <= 1 + disturbed'[e] BY DEF DuplicatesAreAccountedFor
<1>4. D!Send(e) BY <1>2, <1>3 DEF D!Send
<1>5. QED BY <1>4 DEF D!Next

LEMMA WorkerStepGood ==
    ASSUME IInv, DuplicatesAreAccountedFor', NEW w \in Workers, WorkerStep(w) PROVE Good
<1> USE DEF IInv, Good
<1> DEFINE e == EventOf(worker[w].job)
<1>0. TypeInv' BY TypeInvWorkerStep
<1>a. /\ row \in [Events -> Rows] /\ worker \in [Workers -> WorkerStates] /\ disturbed \in [Events -> Nat]
      /\ worker[w] \in WorkerStates
  BY DEF TypeInv, TypeOK
<1>b. worker[w].pc # "idle" => e \in Events
  <2>1. worker[w].pc # "idle" => worker[w].job \in Jobs BY DEF TypeInv, WorkerHasJob
  <2>2. QED BY <2>1, JobFacts
<1>c. \A f \in Events : disturbed[f] >= disturbed[f] BY <1>a
<1>1. ASSUME NEW j \in waiting, TakeJob(w, j) PROVE Good
  <2>1. /\ worker' = [worker EXCEPT ![w] = [IdleWorker EXCEPT !.pc = "claim", !.job = j, !.owns = TRUE]]
        /\ UNCHANGED <<row, sent, handled, disturbed>> /\ worker[w].pc = "idle"
    BY <1>1 DEF TakeJob, ghostVars
  <2>2. worker'[w].pc = "claim" /\ \A v \in Workers \ {w} : worker'[v] = worker[v] BY <1>a, <2>1 DEF IdleWorker
  <2>3. \A v \in Workers, f \in Events : (Live(v, f)' <=> Live(v, f)) /\ (Live(v, f) => worker'[v] = worker[v])
    BY <2>1, <2>2 DEF Live
  <2>4. FinishedIsHandled' BY <2>1, <2>2 DEF FinishedIsHandled
  <2>5. LiveIsRecorded' /\ UndisturbedIsClaimed' /\ DeletedIsUnclaimed' /\ NoIntentLost' /\ NoConcurrentHandlers'
    BY <2>1, <2>3
    DEF LiveIsRecorded, UndisturbedIsClaimed, DeletedIsUnclaimed, NoIntentLost, NoConcurrentHandlers
  <2>6. TerminalStep BY <2>1 DEF TerminalStep
  <2>7. UNCHANGED D!vars BY <2>1, Unseen
  <2>8. QED BY <1>0, <2>4, <2>5, <2>6, <2>7
<1>2. CASE ClaimRow(w)
  <2>1. /\ row' = [row EXCEPT ![e].status = "PROCESSING", ![e].attempts = @ + 1,
                             ![e].lease = "held", ![e].stale = FALSE]
        /\ worker' = [worker EXCEPT ![w].pc = "handle", ![w].attempt = row[e].attempts + 1, ![w].inLease = TRUE]
        /\ worker[w].pc = "claim" /\ row[e].status \in {"PENDING", "ENQUEUED"}
        /\ UNCHANGED <<sent, handled, disturbed>>
    BY <1>2 DEF ClaimRow, Deliverable, ghostVars
  <2>2. /\ row'[e].status = "PROCESSING" /\ row'[e].lease = "held"
        /\ \A f \in Events \ {e} : row'[f] = row[f]
    BY <1>a, <1>b, <2>1 DEF Rows
  <2>3. /\ worker'[w].pc = "handle" /\ worker'[w].job = worker[w].job /\ worker'[w].inLease
        /\ \A v \in Workers \ {w} : worker'[v] = worker[v]
    BY <1>a, <2>1 DEF WorkerStates
  <2>4. \A v \in Workers \ {w}, f \in Events : Live(v, f)' <=> Live(v, f) BY <2>3 DEF Live
  <2>5. \A f \in Events : Live(w, f)' <=> f = e BY <2>3 DEF Live
  <2>6. disturbed[e] = 0 => \A v \in Workers : ~Live(v, e) BY <1>b, <2>1 DEF UndisturbedIsClaimed
  <2>7. FinishedIsHandled'
    <3>1. \A v \in Workers : worker'[v].pc = "complete" => worker'[v] = worker[v] BY <2>3
    <3>2. FinishedIsHandled /\ handled' = handled BY <2>1
    <3>3. QED BY <3>1, <3>2 DEF FinishedIsHandled
  <2>8. LiveIsRecorded' /\ DeletedIsUnclaimed' /\ NoIntentLost'
    BY <2>1, <2>2, <2>4, <2>5 DEF LiveIsRecorded, DeletedIsUnclaimed, NoIntentLost
  <2>9. UndisturbedIsClaimed'
    <3>1. \A v \in Workers, f \in Events \ {e} : Live(v, f)' => Live(v, f) /\ v # w BY <2>4, <2>5
    <3>2. \A v \in Workers, f \in Events : f = e /\ disturbed[f] = 0 /\ Live(v, f)' => v = w BY <2>4, <2>6
    <3>3. UndisturbedIsClaimed /\ disturbed' = disturbed BY <2>1
    <3>4. SUFFICES ASSUME NEW v \in Workers, NEW f \in Events, disturbed[f] = 0, Live(v, f)'
                   PROVE  row'[f].status = "PROCESSING" /\ row'[f].lease = "held" /\ worker'[v].inLease
      BY <3>3 DEF UndisturbedIsClaimed
    <3>5. CASE f = e BY <2>2, <2>3, <3>2, <3>4, <3>5
    <3>6. CASE f # e BY <2>2, <2>3, <3>1, <3>3, <3>4, <3>6 DEF UndisturbedIsClaimed
    <3>7. QED BY <3>5, <3>6
  <2>10. NoConcurrentHandlers' BY <2>1, <2>4, <2>5, <2>6 DEF NoConcurrentHandlers
  <2>11. TerminalStep BY <2>1, <2>2 DEF TerminalStep
  <2>12. \A f \in Events : IntentOf(row'[f].status) = IntentOf(row[f].status) BY <2>1, <2>2 DEF IntentOf
  <2>13. UNCHANGED D!vars BY <2>1, <2>12, Unseen
  <2>14. QED BY <1>0, <2>7, <2>8, <2>9, <2>10, <2>11, <2>13
<1>3. CASE SkipRow(w)
  <2>1. worker' = [worker EXCEPT ![w] = IdleWorker] /\ UNCHANGED <<row, sent, handled, disturbed>>
    BY <1>3 DEF SkipRow, ghostVars
  <2>2. IInv' /\ TerminalStep BY <1>0, <1>a, <1>c, <2>1, WorkerEnds
  <2>3. UNCHANGED D!vars BY <2>1, Unseen
  <2>4. QED BY <2>2, <2>3
<1>4. CASE HandlerReturns(w)
  <2>1. /\ worker' = [worker EXCEPT ![w].pc = "complete", ![w].outcome = "ok"] /\ worker[w].pc = "handle"
        /\ sent' = [sent EXCEPT ![e] = @ + 1] /\ handled' = handled \cup {e} /\ UNCHANGED <<row, disturbed>>
    BY <1>4 DEF HandlerReturns
  <2>2. /\ worker'[w].pc = "complete" /\ worker'[w].job = worker[w].job /\ worker'[w].inLease = worker[w].inLease
        /\ \A v \in Workers \ {w} : worker'[v] = worker[v]
    BY <1>a, <2>1 DEF WorkerStates
  <2>3. IInv' /\ TerminalStep BY <1>0, <1>a, <2>1, <2>2, WorkerGoesOn
  <2>4. row[e].status # "ABSENT" BY <1>b, <2>1 DEF LiveIsRecorded, Live
  <2>5. D!Next BY <1>b, <2>1, <2>4, SendIsAllowed
  <2>6. QED BY <2>3, <2>5
<1>5. CASE HandlerThrows(w)
  <2>1. PICK o \in {"retry", "fail"} : worker' = [worker EXCEPT ![w].pc = "complete", ![w].outcome = o]
    BY <1>5 DEF HandlerThrows
  <2>2. worker[w].pc = "handle" /\ UNCHANGED <<row, sent, handled, disturbed>> BY <1>5 DEF HandlerThrows, ghostVars
  <2>3. /\ worker'[w].pc = "complete" /\ worker'[w].job = worker[w].job /\ worker'[w].inLease = worker[w].inLease
        /\ worker'[w].outcome # "ok" /\ \A v \in Workers \ {w} : worker'[v] = worker[v]
    BY <1>a, <2>1 DEF WorkerStates
  <2>4. IInv' /\ TerminalStep BY <1>0, <1>a, <2>2, <2>3, WorkerGoesOn
  <2>5. UNCHANGED D!vars BY <2>2, Unseen
  <2>6. QED BY <2>4, <2>5
<1>6. CASE HandlerAnswerLost(w)
  <2>1. PICK o \in {"retry", "fail"} : worker' = [worker EXCEPT ![w].pc = "complete", ![w].outcome = o]
    BY <1>6 DEF HandlerAnswerLost
  <2>2. /\ worker[w].pc = "handle" /\ sent' = [sent EXCEPT ![e] = @ + 1]
        /\ disturbed' = [disturbed EXCEPT ![e] = @ + 1] /\ UNCHANGED <<row, handled>>
    BY <1>6 DEF HandlerAnswerLost, Disturb
  <2>3. /\ worker'[w].pc = "complete" /\ worker'[w].job = worker[w].job /\ worker'[w].inLease = worker[w].inLease
        /\ worker'[w].outcome # "ok" /\ \A v \in Workers \ {w} : worker'[v] = worker[v]
    BY <1>a, <2>1 DEF WorkerStates
  <2>4. \A f \in Events : disturbed'[f] >= disturbed[f] BY <1>a, <2>2
  <2>5. IInv' /\ TerminalStep BY <1>0, <2>2, <2>3, <2>4, WorkerGoesOn
  <2>6. row[e].status # "ABSENT" BY <1>b, <2>2 DEF LiveIsRecorded, Live
  <2>7. D!Next BY <1>b, <2>2, <2>6, SendIsAllowed
  <2>8. QED BY <2>5, <2>7
<1>7. CASE CompleteRow(w) /\ row[e].status # "PROCESSING"
  <2>1. worker' = [worker EXCEPT ![w] = IdleWorker] /\ UNCHANGED <<row, sent, handled, disturbed>>
    BY <1>7 DEF CompleteRow, ghostVars
  <2>2. IInv' /\ TerminalStep BY <1>0, <1>a, <1>c, <2>1, WorkerEnds
  <2>3. UNCHANGED D!vars BY <2>1, Unseen
  <2>4. QED BY <2>2, <2>3
<1>8. CASE CompleteRow(w) /\ row[e].status = "PROCESSING"
  <2>1. /\ row' = [row EXCEPT ![e] = Completed(row[e], worker[w].outcome)] /\ worker[w].pc = "complete"
        /\ worker' = [worker EXCEPT ![w] = IdleWorker] /\ UNCHANGED <<sent, handled, disturbed>>
    BY <1>8 DEF CompleteRow, ghostVars
  <2>2. e \in Events /\ row[e] \in Rows BY <1>a, <1>b, <2>1
  <2>3. \A f \in Events \ {e} : row'[f] = row[f] BY <2>1
  <2>4. /\ row'[e].status \in {"PROCESSED", "PENDING", "FAILED"} /\ row'[e].lease = "none"
        /\ (row'[e].status = "PROCESSED" => worker[w].outcome = "ok")
    <3>1. row'[e] = Completed(row[e], worker[w].outcome) BY <1>a, <2>1, <2>2
    <3>2. QED BY <2>2, <3>1 DEF Completed, Rows
  <2>5. worker'[w].pc = "idle" /\ \A v \in Workers \ {w} : worker'[v] = worker[v] BY <1>a, <2>1 DEF IdleWorker
  <2>6. \A v \in Workers, f \in Events : Live(v, f)' => Live(v, f) /\ worker'[v] = worker[v] /\ v # w
    BY <2>5 DEF Live
  <2>7. Live(w, e) BY <2>1 DEF Live
  <2>8. worker[w].outcome = "ok" => e \in handled BY <2>1 DEF FinishedIsHandled
  <2>9. FinishedIsHandled' BY <2>1, <2>5 DEF FinishedIsHandled
  <2>10. LiveIsRecorded' BY <2>3, <2>4, <2>6 DEF LiveIsRecorded
  <2>11. NoConcurrentHandlers' BY <2>1, <2>6 DEF NoConcurrentHandlers
  <2>12. UndisturbedIsClaimed'
    <3>1. \A v \in Workers, f \in Events : f = e /\ disturbed[f] = 0 => ~Live(v, f)'
      BY <2>6, <2>7 DEF NoConcurrentHandlers
    <3>2. QED BY <2>1, <2>3, <2>6, <3>1 DEF UndisturbedIsClaimed
  <2>13. DeletedIsUnclaimed' /\ NoIntentLost' BY <2>1, <2>3, <2>4, <2>8 DEF DeletedIsUnclaimed, NoIntentLost
  <2>14. TerminalStep BY <1>8, <2>3 DEF TerminalStep
  <2>15. [D!Next]_(D!vars)
    <3>1. CASE row'[e].status = "PENDING"
      <4>1. \A f \in Events : IntentOf(row'[f].status) = IntentOf(row[f].status) BY <1>8, <2>3, <3>1 DEF IntentOf
      <4>2. QED BY <2>1, <4>1, Unseen
    <3>2. CASE row'[e].status = "PROCESSED"
      <4>1. D!Move(e, "open", "done") BY <1>8, <2>2, <2>3, <3>2, Moves DEF IntentOf
      <4>2. D!Finish(e) BY <2>1, <2>4, <2>8, <3>2, <4>1 DEF D!Finish
      <4>3. QED BY <2>2, <4>2 DEF D!Next
    <3>3. CASE row'[e].status = "FAILED"
      <4>1. D!Move(e, "open", "dead") BY <1>8, <2>2, <2>3, <3>3, Moves DEF IntentOf
      <4>2. D!GiveUp(e) BY <2>1, <4>1 DEF D!GiveUp
      <4>3. QED BY <2>2, <4>2 DEF D!Next
    <3>4. QED BY <2>4, <3>1, <3>2, <3>3
  <2>16. QED BY <1>0, <2>9, <2>10, <2>11, <2>12, <2>13, <2>14, <2>15
<1>9. CASE StatementThrows(w) \/ WorkerCrash(w)
  <2>1. /\ worker' = [worker EXCEPT ![w] = IdleWorker] /\ UNCHANGED <<row, sent, handled>> /\ worker[w].pc # "idle"
        /\ UNCHANGED disturbed \/ disturbed' = [disturbed EXCEPT ![e] = @ + 1]
    BY <1>9 DEF StatementThrows, WorkerCrash, Disturb
  <2>2. \A f \in Events : disturbed'[f] >= disturbed[f] BY <1>a, <2>1
  <2>3. IInv' /\ TerminalStep BY <1>0, <2>1, <2>2, WorkerEnds
  <2>4. [D!Next]_(D!vars)
    <3>1. [f \in Events |-> IntentOf(row[f].status)]' = [f \in Events |-> IntentOf(row[f].status)] BY <2>1
    <3>2. CASE UNCHANGED disturbed BY <2>1, <3>1, <3>2 DEF D!vars
    <3>3. CASE disturbed' = [disturbed EXCEPT ![e] = @ + 1]
      <4>1. D!Disturb(e) BY <2>1, <3>1, <3>3 DEF D!Disturb
      <4>2. QED BY <1>b, <2>1, <4>1 DEF D!Next
    <3>4. QED BY <2>1, <3>2, <3>3
  <2>5. QED BY <2>3, <2>4
<1>10. QED BY <1>1, <1>2, <1>3, <1>4, <1>5, <1>6, <1>7, <1>8, <1>9 DEF WorkerStep

-----------------------------------------------------------------------------
(* The theorems *)

LEMMA StepGood == ASSUME IInv, DuplicatesAreAccountedFor', [Next]_vars PROVE Good
<1>1. CASE Next
  BY <1>1, RowStepGood, ReapGood, DispatcherStepGood, WorkerStepGood, QueueStepGood DEF Next
<1>2. CASE UNCHANGED vars
  <2>1. UNCHANGED <<row, worker, sent, handled, disturbed>> BY <1>2 DEF vars, ghostVars
  <2>2. TypeInv' BY <1>2, TypeInvStep DEF IInv
  <2>3. IInv'
    BY <2>1, <2>2
    DEF IInv, FinishedIsHandled, LiveIsRecorded, UndisturbedIsClaimed, DeletedIsUnclaimed, NoIntentLost,
        NoConcurrentHandlers, Live
  <2>4. TerminalStep BY <2>1 DEF TerminalStep
  <2>5. UNCHANGED D!vars BY <2>1, Unseen
  <2>6. QED BY <2>3, <2>4, <2>5 DEF Good
<1>3. QED BY <1>1, <1>2

\* The inductive invariant of the following theorems.
THEOREM DeliveriesAreOwned == Spec => []IInv
<1>1. Init => IInv BY InitGood
<1>2. IInv /\ DuplicatesAreAccountedFor' /\ [Next]_vars => IInv' BY StepGood DEF Good
<1>3. QED BY <1>1, <1>2, AtMostOncePerDisturbance, PTL DEF Spec

\* A row is marked PROCESSED or deleted only after its consumer returned normally (processor.ts, cleanupOutbox).
THEOREM IntentsAreKept == Spec => []NoIntentLost
<1>1. IInv => NoIntentLost BY DEF IInv
<1>2. QED BY <1>1, DeliveriesAreOwned, PTL

\* Without a disturbance of its delivery, an event is handled by one worker at a time (the claim of processOutboxEvent).
THEOREM OneHandlerAtATime == Spec => []NoConcurrentHandlers
<1>1. IInv => NoConcurrentHandlers BY DEF IInv
<1>2. QED BY <1>1, DeliveriesAreOwned, PTL

\* No late worker, dispatcher or reaper brings back a delivered row, and only an operator retry a FAILED one.
THEOREM SettledRowsStay == Spec => TerminalRowsStay
<1>1. IInv /\ DuplicatesAreAccountedFor' /\ [Next]_vars => TerminalStep BY StepGood DEF Good
<1>2. IInv /\ DuplicatesAreAccountedFor' /\ [Next]_vars
      => [\A e \in Events :
            /\ row[e].status = "PROCESSED" => row'[e].status \in {"PROCESSED", "DELETED"}
            /\ row[e].status = "DELETED" => row'[e] = row[e]
            /\ row[e].status = "FAILED" /\ row'[e].status # "FAILED"
                 => redrives' = redrives + 1 /\ row'[e].attempts = 0]_vars
  BY <1>1 DEF TerminalStep
<1>3. QED BY <1>2, DeliveriesAreOwned, AtMostOncePerDisturbance, PTL DEF Spec, TerminalRowsStay

\* Rows, leases, dispatch jobs, queue and workers implement the delivery promise: every step is a step of module
\* Delivery or invisible to it.
THEOREM OutboxDelivers == Spec => ImplementsDelivery
<1>1. Init => D!Init BY InitGood
<1>2. IInv /\ DuplicatesAreAccountedFor' /\ [Next]_vars => [D!Next]_(D!vars) BY StepGood DEF Good
<1>3. QED BY <1>1, <1>2, DeliveriesAreOwned, AtMostOncePerDisturbance, PTL DEF Spec, ImplementsDelivery, D!Spec
=============================================================================
