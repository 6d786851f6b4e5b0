SPECIFICATION Spec
CONSTANTS
    NumPieces = 2
    NumChunks = 2
    LastChunks = 1
    NumFiles = 1
    Place <- Straddling
    NoFile = NoFile
    Peer = {c1, c2}
    Hasher = {w1, w2}
    Reverify = FALSE
    Preexisting = FALSE
    LateWork = FALSE
    MaxBad = 0
    Faults = {"disk", "read", "crash"}
INVARIANTS TypeOK FullPieceIsChecked DropIsUnblocked
SYMMETRY Symmetry
