SPECIFICATION MCSpec
CONSTANTS
    N = 3
    MaxRequests = 5
    MaxCalls = 2
    MaxOthers = 1
    Names = {"a", "b", "+"}
    Depth = 2
    UriHandlers = {"h1", "h2"}
    UriMaxCalls = 3
    Spellings = {"/a", "a", "/+"}
    Normal <- MCNormal
    Topics = {"/a", "/b"}
    Matches <- MCMatches
    Rank <- MCRank
    UrlHandlers = {"h"}
    Threads = {"t1", "t2"}
    UrlMaxCalls = 3
    MaxMessages = 2
INVARIANTS
    PiecesOnceInOrder
    NothingMissing
    UploadLosesOnlyCut
    SearchFindsFirst
    MapsServe
PROPERTIES
    DownloadEnds
    ImplementsTable
CHECK_DEADLOCK FALSE
