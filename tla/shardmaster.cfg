CONSTANTS
    Clients = {c1, c2}
    None = None
    MaxRequests = 2
SPECIFICATION FairSpec
INVARIANTS
    TypeOK
    RemovalFindsConnection
    NoThreadOutlivesStop
PROPERTIES
    StopReturns
\* The program may stop: stop() returns, start() fails, or everyone waits for
\* clients.
CHECK_DEADLOCK FALSE
