SPECIFICATION Spec
CONSTANTS
    Hash = {h1}
    Req = {r1, r2}
    Length = 2
    NoRow = NoRow
    Nil = Nil
    Overlap = {"pause", "resume", "remove"}
    ReAdd = TRUE
    Faults = {"crash"}
INVARIANTS UnpausedIsDownloading
SYMMETRY Symmetry
