CONSTANTS
    Workers = {w1, w2}
    Listener = Listener
    Main = Main
    None = None
    Clients = {c1, c2}
    HasShardmaster = TRUE
    MaxRequests = 1
    MaxCalls = 3
SPECIFICATION Spec
SYMMETRY Symmetry
INVARIANTS
    ExclusiveService
    StopReleasesConnections
\* The program may stop: stop() returns, start() fails, or everyone waits for
\* clients.
CHECK_DEADLOCK FALSE
