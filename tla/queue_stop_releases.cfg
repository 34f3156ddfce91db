CONSTANTS
    Threads = {t1, t2}
    None = None
    Elts = {e1}
    MaxCalls = 1
SPECIFICATION FairSpec
PROPERTIES
    StopReleasesAll
CHECK_DEADLOCK FALSE
