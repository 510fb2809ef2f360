SPECIFICATION FairSpec
CONSTANTS
    None = None
    Adapters <- AllAdapters
    MaxMarkets = 4
    MaxWindows = 3
    PageLimit = 2
    MaxPages = 2
    MaxCalls = 3
    Concurrency = 2
    MaxOld = 3
    MaxTrades = 3
    MaxEdge = 1
    Faults = {"venueFails", "noRows", "noCursor"}
INVARIANTS
    CallsBounded
    CompleteWhenDone
    DoublesExplained
    DustGoesWithout
PROPERTIES
    WalkEnds
CHECK_DEADLOCK FALSE
