\* Two events share the dispatcher, the queue and the workers; checked against the abstract promise, and settled
\* once faults stop.
CONSTANTS
    Events = {e1, e2}
    Dispatchers = {d1}
    Workers = {w1, w2}
    MaxAttempts = 1
    MaxFaults = 1
    MaxRedrives = 0
    NoJob = NoJob
SPECIFICATION FairSpec
PROPERTIES ImplementsDelivery EventuallySettled
CHECK_DEADLOCK FALSE
