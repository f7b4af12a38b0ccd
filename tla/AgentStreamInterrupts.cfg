\* One request.
\* When every request is over nothing is left to do.
CONSTANTS
    Requests = {r1}
    Threads = {t1}
    None = None
    Limits = {1}
    QueueDepth = 1
    MaxEvents = 2
    MaxRetries = 1
    MaxGrants = 1
SPECIFICATION Spec
CHECK_DEADLOCK FALSE
INVARIANT InterruptsAreAsked
