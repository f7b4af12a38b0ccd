\* Two conversations with two prompts and two requests each at most, and a click:
\* a late answer, or a stop that arrives during the next request.  The system
\* rests when the bounds are used up.
CONSTANTS
    Waits = {w1, w2}
    Threads = {s, t}
    None = None
    MaxRuns = 2
    MaxRequests = 3
    MaxClicks = 1
SPECIFICATION FairSpec
CHECK_DEADLOCK FALSE
INVARIANTS TypeOK WaitHasItsStream
PROPERTIES StoppedRequestsEnd
