------------------------------ MODULE Delivery ------------------------------
(***************************************************************************)
(* What the outbox promises of each recorded intent (docs/PHASE_8_AUDIT.md *)
(* states it as: durable intent, at-least-once delivery, exactly-once not  *)
(* claimed), without rows, leases, queues or workers: a recorded intent    *)
(* stays open until its consumer has returned normally or the outbox gives *)
(* up visibly, and the side effect happens at most once more than its      *)
(* delivery was disturbed.                                                 *)
(***************************************************************************)
EXTENDS Integers

CONSTANT Events

VARIABLES
    intent,     \* Events -> where the intent stands
    sent,       \* Events -> times the side effect happened
    handled,    \* events whose consumer returned normally
    disturbed   \* Events -> disturbances of the delivery so far

vars == <<intent, sent, handled, disturbed>>

Init ==
    /\ intent = [e \in Events |-> "none"]
    /\ sent = [e \in Events |-> 0]
    /\ handled = {}
    /\ disturbed = [e \in Events |-> 0]

Move(e, from, to) == intent[e] = from /\ intent' = [intent EXCEPT ![e] = to]

Record(e) == Move(e, "none", "open") /\ UNCHANGED <<sent, handled, disturbed>>

Finish(e) == e \in handled /\ Move(e, "open", "done") /\ UNCHANGED <<sent, handled, disturbed>>

GiveUp(e) == Move(e, "open", "dead") /\ UNCHANGED <<sent, handled, disturbed>>

Redrive(e) ==
    /\ Move(e, "dead", "open")
    /\ disturbed' = [disturbed EXCEPT ![e] = @ + 1]
    /\ UNCHANGED <<sent, handled>>

Purge(e) == Move(e, "done", "purged") /\ UNCHANGED <<sent, handled, disturbed>>

Disturb(e) ==
    /\ disturbed' = [disturbed EXCEPT ![e] = @ + 1]
    /\ UNCHANGED <<intent, sent, handled>>

\* The effect happens, and the consumer either returns or loses the answer.
Send(e) ==
    /\ intent[e] # "none"
    /\ sent' = [sent EXCEPT ![e] = @ + 1]
    /\ \/ handled' = handled \cup {e} /\ UNCHANGED disturbed
       \/ disturbed' = [disturbed EXCEPT ![e] = @ + 1] /\ UNCHANGED handled
    /\ sent'[e] <= 1 + disturbed'[e]
    /\ UNCHANGED intent

Next == \E e \in Events :
    Record(e) \/ Finish(e) \/ GiveUp(e) \/ Redrive(e) \/ Purge(e) \/ Disturb(e) \/ Send(e)

Spec == Init /\ [][Next]_vars
=============================================================================
