SPECIFICATION Spec
CONSTANTS
    Hash = {h1, h2}
    Index = {i1, i2}
    Hasher = {w1, w2}
    Nil = Nil
    Overlap = FALSE
    LateMarks = FALSE
    Faults = TRUE
INVARIANTS CacheIsBacked StartsFresh
PROPERTIES StoreIsAtomic
