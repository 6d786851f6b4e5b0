SPECIFICATION Spec
CONSTANTS
    Hash = {h1}
    Req = {r1, r2}
    Length = 2
    NoRow = NoRow
    Nil = Nil
    Overlap = {"resume", "remove"}
    ReAdd = FALSE
    Faults = {}
INVARIANTS KeepIsRespected
CHECK_DEADLOCK FALSE
