\* One event, two dispatchers, and a third worker so that a late worker can release the claim of another.
\* Rows end in terminal statuses, so the system stops.
CONSTANTS
    Events = {e1}
    Dispatchers = {d1, d2}
    Workers = {w1, w2, w3}
    MaxAttempts = 2
    MaxFaults = 1
    MaxRedrives = 1
    NoJob = NoJob
SPECIFICATION Spec
SYMMETRY Symmetry
INVARIANTS TypeOK NoIntentLost DuplicatesAreAccountedFor NoConcurrentHandlers
PROPERTIES TerminalRowsStay
CHECK_DEADLOCK FALSE
