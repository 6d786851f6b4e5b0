SPECIFICATION FairSpec
CONSTANTS
    Conn = {c1}
    Fast = {c1}
    Chunk = {k1}
    Nil = Nil
    PeerMaxRequests = 2
    MaxReady = 1
    MaxChokes = 1
    MaxFailedChecks = 0
    Faults = {}
PROPERTIES NeverStalls
CHECK_DEADLOCK FALSE
