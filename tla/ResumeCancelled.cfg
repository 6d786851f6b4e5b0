SPECIFICATION Spec
CONSTANTS
    Hash = {h1}
    Req = {r1}
    Length = 2
    NoRow = NoRow
    Nil = Nil
    Overlap = {}
    ReAdd = FALSE
    Faults = {"cancel"}
PROPERTIES FailedResumeIsPaused
