SPECIFICATION Spec
CONSTANTS
    None = None
    Profile = {p1}
    Exchange = {"binance"}
    Asset = {"BTC", "ETH"}
    Link = {l1}
    Req = {r1, r2}
    Terms <- OneTerm
    Orders <- Buys
    Faults = {"replyLost"}
    Window = 1
    MaxHandler = 0
    MaxInFlight = 2
    MaxTime = 1
INVARIANT
    FailedMeansNotPlaced
CHECK_DEADLOCK FALSE
