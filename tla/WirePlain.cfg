SPECIFICATION FairSpec
CONSTANTS
    Conn = {c1, c2}
    Fast = {}
    Chunk = {k1}
    Nil = Nil
    PeerMaxRequests = 2
    MaxReady = 1
    MaxChokes = 1
    MaxFailedChecks = 1
    Faults = {"read", "close"}
PROPERTIES NeverStalls
CHECK_DEADLOCK FALSE
