\* Two requests, on one thread or two, share one or two slots.
\* When every request is over nothing is left to do.
CONSTANTS
    Requests = {r1, r2}
    Threads = {t1, t2}
    None = None
    Limits = {1, 2}
    QueueDepth = 1
    MaxEvents = 2
    MaxRetries = 1
    MaxGrants = 1
SPECIFICATION FairSpec
CHECK_DEADLOCK FALSE
INVARIANTS TypeOK ResourcesFollowTheStream EveryRequestAnswered
PROPERTIES UsesGuardOnce RequestsEnd
