SPECIFICATION Spec
CONSTANTS
    Undefined = Undefined
    MaxAttempts = 3
    PostChunkSize = 2
    Number <- MCNumber
    ValidDids = {"d1", "d2", "d3"}
    BatchSize = 2
    SessionTtl = 4
    RefreshLeeway = 1
    Alphabetical <- MCAlphabetical
    ProbeLimit = 2
    ListingPage = 2
    LookupChunk = 2
INVARIANTS
    
    PlatformLaws
    RunLaws
    ScoreLaws
    
    AccessLaws
CHECK_DEADLOCK FALSE
