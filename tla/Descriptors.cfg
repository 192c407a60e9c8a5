SPECIFICATION FairSpec
CONSTANTS
    OpenMax = 3
    MaxPid = 2
    MaxFiles = 3
    MaxBytes = 1
    None = None
INVARIANT PipesMatchHolders
PROPERTIES EofOnlyWithoutWriters BlockedReadersWake
