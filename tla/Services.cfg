\* The client side of nineteen parts, each on its own.
SPECIFICATION Spec
CONSTANTS
    None = None
    Original = Original
    User = User
    MaxFrames = 5
    OutputPage = 2
    Timeouts = {50}
    LongPoll = 35
    PollTimes = {0, 20, 30, 35}
    Writers = {"w1", "w2"}
    Uploaders = {"w2"}
    FileChunks = 2
    MaxWrites = 2
    MaxFileEdits = 1
    Downloaders = {"p1", "p2"}
    FilePieces = 2
    MaxUser = 2
    Program <- BrokerAndModel
    JournalPages = 2
    MaxDrivers = 2
    BlobChunks = 2
    BlobSessions = 2
    MaxPuts = 2
    Logins = {"l1", "l2"}
    Lifetime = 16
    PollInterval = 4
    MaxInterval = 10
    RetryAfters = {2, 40}
    RequestTimes = {0, 3}
    MaxLaunches = 3
    MachineSessions = 2
    Items = {1, 2, 3}
    NamedItems = {1, 3}
    PageSize = 1
    MaxCommands = 3
    MaxObjects = 2
    MaxTreeEdits = 3
    PoolThreads = {"p"}
    PoolTasks = {"q"}
    Topics <- EachTopic
    ProposalLifetime = 2
    MaxPoolCalls = 1
    Day = 3
    Cycle = 4
    Hours = 4
    EntryPage = 1
    MaxEntries = 2
    MaxRounds = 2
    Packers = {"t1", "t2"}
    MaxCreations = 3
    MaxEvents = 1
    QueryWait = 20
    QueryHttp = 5
    QueryPoll = 2
    MaxChanges = 2
    MaxAttempts = 2
    Reporters = {"t1", "t2"}
    MaxReports = 2
    Texts <- ShortTexts
    Attempts = {1, 11}
    MaxBytes = 100
    Numbers <- Magnitudes
    MaxRetries = 1
    MaxRuns = 3
    Sizes = {1, 2, 5}
    MaxInput = 4
    MaxTurns = 1
    MaxTalks = 3
    MaxDeaths = 1
CHECK_DEADLOCK FALSE
INVARIANT ReadsComplete
INVARIANT DeadlinesKept
INVARIANT TransfersWhole
INVARIANT SnapshotTaken
INVARIANT PublishedWhole
INVARIANT PaidOnce
INVARIANT ReplaysAgree
INVARIANT KeyAccountedFor
 
PROPERTY NothingOverwritten
PROPERTY ListingEnds
