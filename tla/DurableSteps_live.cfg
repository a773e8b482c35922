SPECIFICATION FairSpec
CONSTANTS
    StepCount = 2
    Effect <- SafeEffects
    Recovery = TRUE
    MaxSessions = 3
    MaxCalls = 1
    MaxFaults = 2
CHECK_DEADLOCK FALSE
PROPERTY EverySessionEnds
PROPERTY RunCompletes
