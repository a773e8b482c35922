SPECIFICATION FairSpec
CONSTANTS
    MaxWorkers = 2
    MaxUnusable = 4
    MaxCrashes = 1
    MaxCancels = 1
CHECK_DEADLOCK FALSE
PROPERTY TeamSettles
PROPERTY Concludes
