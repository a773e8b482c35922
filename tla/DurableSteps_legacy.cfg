SPECIFICATION Spec
CONSTANTS
    StepCount = 2
    Effect <- MixedEffects
    Recovery = FALSE
    MaxSessions = 2
    MaxCalls = 3
    MaxFaults = 3
CHECK_DEADLOCK FALSE
INVARIANT TypeOK
INVARIANT GrantInv
INVARIANT ExternalOnce
