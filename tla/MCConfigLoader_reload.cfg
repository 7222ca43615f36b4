\* A file that changes twice while it is being loaded, watched and read by callbacks.
SPECIFICATION FairSpec
CONSTANTS
    NCallback = 2
    Panicky = {1}
    MaxWrites = 2
    MaxRuns = 2
    CanReload = FALSE
INVARIANTS RestsUpToDate
PROPERTY NoChangeMissed
CHECK_DEADLOCK FALSE
