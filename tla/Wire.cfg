SPECIFICATION Spec
CONSTANTS
    Conn = {c1, c2}
    Fast = {c1}
    Chunk = {k1, k2}
    Nil = Nil
    PeerMaxRequests = 2
    MaxReady = 1
    MaxChokes = 1
    MaxFailedChecks = 0
    Faults = {"write", "close"}
INVARIANTS TypeOK OneRequester AnsweredOnce NoProtocolError
SYMMETRY Symmetry
CHECK_DEADLOCK FALSE
