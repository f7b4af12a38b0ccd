\* Two calls share a server through a reload; the breaker opens at the second failure.
CONSTANTS
    Callers = {p1, p2}
    Service = service
    None = None
    Threshold = 2
    MaxRetries = 2
    MaxReconnects = 2
    MaxReloads = 1
    MaxFaults = 2
SPECIFICATION FairSpec
INVARIANTS TypeOK SingleAttempt ErrorIsRetried
PROPERTIES ProbeIsReported
