SPECIFICATION FairSpec
CONSTANTS
    MaxRetries = 2
    Hints <- SomeHints
    MaxSubmits = 2
CHECK_DEADLOCK FALSE
INVARIANT OneWorkloadPerCall
INVARIANT SleepBudget
PROPERTY CallEnds
