SPECIFICATION FairSpec
CONSTANTS
    Conn = {c1}
    Fast = {}
    Chunk = {k1, k2}
    Nil = Nil
    PeerMaxRequests = 2
    MaxReady = 1
    MaxChokes = 1
    MaxFailedChecks = 1
    Faults = {}
PROPERTIES RequestIsHandled
CHECK_DEADLOCK FALSE
