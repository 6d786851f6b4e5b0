SPECIFICATION Spec
CONSTANTS
    NumTorrents = 2
    MaxBulks = 1
    MaxActions = 1
    MaxUpsets = 0
    ToggleInBulk = FALSE
PROPERTIES SelectionSurvives
