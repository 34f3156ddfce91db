CONSTANTS
    Workers = {w1, w2}
    Listener = Listener
    Main = Main
    None = None
    Clients = {c1}
    HasShardmaster = FALSE
    MaxRequests = 1
    MaxCalls = 3
SPECIFICATION CooperativeSpec
PROPERTIES
    StopReturns
    ConnectionsReleased
\* The program may stop: stop() returns, start() fails, or everyone waits for
\* clients.
CHECK_DEADLOCK FALSE
