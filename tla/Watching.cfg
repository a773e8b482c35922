SPECIFICATION FairSpec
CONSTANTS
    PageCap = 2
    PollSeconds = 2
    RequestTime = 31
    Deadlines <- SomeDeadlines
    RetryAfters <- SomeRetryAfters
    MaxEvents = 5
    MaxFailures = 5
CHECK_DEADLOCK FALSE
INVARIANT NoGapNoRepeat
INVARIANT IterIsComplete
INVARIANT ReturnsWhenOver
INVARIANT NeverOversleeps
PROPERTY EndsWithTheWorkload
PROPERTY DeadlineEnds
