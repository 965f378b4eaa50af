\* One runner with one worker pages through two items, one to a page, that fail
\* and succeed, leave and come back; it is never stopped.
CONSTANTS
    r1 = r1
    r2 = r2
    Runner = {r1}
    None = None
    Items = 2
    Workers = 1
    BatchSize = 1
    PollInterval = 1
    LeaseTTL = 3
    RetryBackoff = 1
    RetryMax = 2
    Lag = 0
    Stoppable = {}
    MaxFailures = 2
    Generations = 2

SPECIFICATION LiveSpec
PROPERTIES EventuallyTakenUp FailuresForgotten
CHECK_DEADLOCK FALSE
