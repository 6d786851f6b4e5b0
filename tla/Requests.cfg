SPECIFICATION Spec
CONSTANTS
    Hash = {h1}
    Req = {r1, r2}
    Length = 2
    NoRow = NoRow
    Nil = Nil
    Overlap = {"pause", "remove"}
    ReAdd = FALSE
    Faults = {"cancel", "database", "disk", "crash"}
INVARIANTS TypeOK PausedIsStopped HaveIsOnDisk KeepIsRespected
PROPERTIES OrphansAreReported
