\* Four waits over two threads: several can queue behind each other in one thread
\* while the other thread waits too.
CONSTANTS
    Waits = {w1, w2, w3, w4}
    Threads = {s, t}
    None = None
SPECIFICATION ConsentFairSpec
INVARIANTS ConsentTypeOK WaitersInSync
PROPERTIES OldestIsGranted WaitsSettle
