SPECIFICATION Spec
CONSTANTS
    m1 = m1
    m2 = m2
    m3 = m3
    m4 = m4
    ModelAxes   <- MCModelAxes
    Vocabulary  <- MCVocabulary
    MaxChunks   = 6
    Seed        <- MCSeed
    Groups      <- MCGroups
    Products    <- MCProducts
    Cards       <- MCCards
    TopGroups   = 1
    TopProducts = 2
    MaxCards    = 3
    Splits      <- MCSplits
    Sizes       <- MCSizes
    Queries     <- MCQueries
    Finds       <- MCFinds
    Covers      <- MCCovers
    Parents     <- MCParents
    Openings    <- MCOpenings
    MaxListed   = 2
    ToolCalls   <- MCToolCalls
    Listings    <- MCListings
    Longitudes  <- MCLongitudes
    Latitudes   <- MCLongitudes
    Indices     <- MCIndices
    FileLists   <- MCFileLists
    Reach       = 3
    LastDay     <- MCLastDay
INVARIANTS
    SplitIsExact
    SizeIsGrounded
    FoundIffInside
    ParentTellsWhole
    StoreOpens
    CallIsTold
    ListingIsExact
CHECK_DEADLOCK FALSE
