CONSTANTS
    Jobs = {j1, j2}
    Requests = {r1, r2}
    MaxConns = 2
SPECIFICATION FairSpec
CHECK_DEADLOCK FALSE
INVARIANTS
    OrderlyShutdown
PROPERTIES
    Stops
