SPECIFICATION Spec
CONSTANTS
    MaxMutations = 2
    ListRows = {r1, r2}
    NoRow = NoRow
    MaxOpenings = 4
    Servers = {"s1", "s2"}
    Tokens = {"k1", "k2"}
    Blank = Blank
    TeamsOf <- MCTeamsOf
    MaxDialogSteps = 8
    MaxDials = 3
    NoConn = NoConn
    Calls = {a, b}
    Installs = {i1, i2}
    Quota = 1
    MaxWindow = 1
    MaxMinted = 2
    MaxSends = 2
    FirstListing <- MCPortal
    Arrivals <- MCPortalArrivals
    SyncTries = 2
    PageLimit = 1
    Guilds = {g1}
    MaxSockets = 2
    MaxTimers = 1
    Teams = {t1, t2}
    ReadsFail = TRUE
    MaxChanges = 2
    Pages <- MCPages
    Children = {c1, c2}
    PollDelays <- MCPollDelays
    SteadyDelay = 2
    EncryptionTime = 3
    RunTimeout = 5
    CursorRestarts = 1
    ActivityTries = 2
    Callers = {a, b}
    MaxTokens = 3
    ResourceIds <- MCResourceIds
    Crawls <- MCCrawls
    SegmentMaxRows = 2
    Cohorts = {c1}
    FetchAttempts = 2
    Absent = Absent
    Syncers = {s1, s2}
    EvmBlocks <- MCEvmBlocks
    CardanoLength = 5
    ProviderPage = 2
    PagesPerBatch = 2
    MaxSyncs = 3
    NoState = NoState
    MaxRows = 2
    MaxAdded = 3
    MaxDrops = 2
INVARIANTS
    FeedInv
    
    EncryptedRunInv
    SharedTokensInv
    
    SyncInv
    PortalInv
    WorkerInv
    PagesInv
PROPERTIES
    EncryptedRunEnds
    
CHECK_DEADLOCK FALSE
