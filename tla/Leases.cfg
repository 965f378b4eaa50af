\* Two runners compete for one item; one may be stopped, and a renewal may
\* come so late that its lease has run out.
CONSTANTS
    r1 = r1
    r2 = r2
    Runner = {r1, r2}
    None = None
    Items = 1
    Workers = 1
    BatchSize = 1
    PollInterval = 1
    LeaseTTL = 3
    RetryBackoff = 1
    RetryMax = 3
    Lag = 2
    Stoppable = {r2}
    MaxFailures = 3
    Generations = 3

SPECIFICATION Spec
INVARIANTS TypeOK ExclusiveWork
PROPERTIES LeaseRespected BackoffExact
CHECK_DEADLOCK FALSE
