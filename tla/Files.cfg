SPECIFICATION Spec
CONSTANTS
    NumPieces = 2
    NumChunks = 2
    LastChunks = 1
    NumFiles = 1
    Place <- Straddling
    NoFile = NoFile
    Peer = {c1, c2}
    Hasher = {w1, w2}
    Reverify = FALSE
    Preexisting = FALSE
    LateWork = FALSE
    MaxBad = 1
    Faults = {"database", "disk", "crash"}
INVARIANTS BelievedIsGood NoneBannedWrongly RenameIsExclusive
SYMMETRY Symmetry
