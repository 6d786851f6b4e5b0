SPECIFICATION FairSpec
CONSTANTS
    NumPieces = 1
    NumChunks = 1
    LastChunks = 1
    NumFiles = 1
    Place <- Straddling
    NoFile = NoFile
    Peer = {c1}
    Hasher = {w1}
    Reverify = TRUE
    Preexisting = FALSE
    LateWork = FALSE
    MaxBad = 0
    Faults = {}
PROPERTIES DropEnds
CHECK_DEADLOCK FALSE
