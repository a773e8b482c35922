SPECIFICATION Spec
CONSTANTS
    StepCount = 2
    Effect <- UncertainFirst
    Recovery = TRUE
    MaxSessions = 3
    MaxCalls = 2
    MaxFaults = 2
CHECK_DEADLOCK FALSE
INVARIANT ResultsAgree
INVARIANT ImageMatchesJournal
PROPERTY CompletedNotRerun
PROPERTY ImplementsRecordedSteps
