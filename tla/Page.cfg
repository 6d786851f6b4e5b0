SPECIFICATION FairSpec
CONSTANTS
    NumTorrents = 2
    MaxBulks = 2
    MaxActions = 2
    MaxUpsets = 1
    ToggleInBulk = FALSE
INVARIANTS TypeOK BulkIsMarked
PROPERTIES DeletesWhatWasCounted PageCatchesUp
