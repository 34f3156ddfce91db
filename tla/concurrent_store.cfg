CONSTANTS
    Threads = {t1, t2, t3}
    None = None
    k1 = k1  k2 = k2  k3 = k3
    a = a  b = b
    Keys = {k1, k2, k3}
    Vals = {a, b}
    Absent = Absent
    BucketCount = 2
    BucketOf <- MCBucketOf
    Requests <- AllRequests
    MaxCalls = 1
SPECIFICATION FairSpec
INVARIANTS
    NoDataRace
    AllKeysSound
PROPERTIES
    CallsReturn
    ImplementsKvStore
\* The calls are bounded; whether they all return is a liveness property.
CHECK_DEADLOCK FALSE
