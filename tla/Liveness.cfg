SPECIFICATION FairSpec
CONSTANTS
    Hash = {h1, h2}
    Req = {r1}
    Length = 1
    NoRow = NoRow
    Nil = Nil
    Overlap = {}
    ReAdd = FALSE
    Faults = {"cancel", "crash"}
PROPERTIES RequestReturns RestoreProceeds
