CONSTANTS
    Threads = {t1, t2, t3}
    None = None
    k1 = k1  k2 = k2
    a = a  b = b
    Keys = {k1, k2}
    Vals = {a, b}
    Absent = Absent
    Requests <- AllRequests
    MaxCalls = 1
SPECIFICATION FairSpec
PROPERTIES
    CallsReturn
    ImplementsKvStore
\* The calls are bounded; whether they all return is a liveness property.
CHECK_DEADLOCK FALSE
