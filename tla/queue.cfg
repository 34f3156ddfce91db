\* Three threads, each making any two calls, and two elements.
CONSTANTS
    Threads = {t1, t2, t3}
    None = None
    Elts = {e1, e2}
    MaxCalls = 2
SPECIFICATION FairSpec
INVARIANTS
    TypeOK
    LockMatchesCritical
    NoLostWakeup
PROPERTIES
    ImplementsFifoQueue
    StopReleasesSleepers
\* The calls are bounded, and a pop on a queue nobody fills waits for good.
CHECK_DEADLOCK FALSE
