SPECIFICATION FairSpec
CONSTANTS
    None = None
    Profile = {p1}
    Exchange = {"binance"}
    Asset = {"BTC", "ETH"}
    Link = {l1}
    Req = {r1}
    Terms <- AllTerms
    Orders <- AllOrders
    Faults = {"crash", "replyLost", "replyGarbled"}
    Window = 2
    MaxHandler = 1
    MaxInFlight = 1
    MaxTime = 2
INVARIANTS
    Provenance
PROPERTIES
    EveryRequestAnswered
    ExecutedGetsRecorded
    AuthorityIsFresh
    ImplementsLedger
CHECK_DEADLOCK FALSE
