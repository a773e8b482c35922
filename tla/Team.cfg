SPECIFICATION Spec
CONSTANTS
    MaxWorkers = 3
    MaxUnusable = 0
    MaxCrashes = 1
    MaxCancels = 1
CHECK_DEADLOCK FALSE
INVARIANT AnswerIsWhole
INVARIANT ReviewsPeer
INVARIANT FailsForCancelledPeer
INVARIANT CancelsOnlyBroken
