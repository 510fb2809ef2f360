SPECIFICATION Spec
CONSTANTS
    None = None
    Profile = {p1}
    Exchange = {"binance"}
    Asset = {"BTC", "ETH"}
    Link = {l1}
    Req = {r1, r2, r3}
    Terms <- OneTerm
    Orders <- WholeLimit
    Faults = {}
    Window = 2
    MaxHandler = 1
    MaxInFlight = 2
    MaxTime = 4
SYMMETRY RequestSymmetry
INVARIANTS
    OverspendBound
CHECK_DEADLOCK FALSE
