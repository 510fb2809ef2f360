SPECIFICATION Spec
CONSTANTS
    None = None
    Raised = Raised
    Process = {s1}
    Req = {r1, r2}
    Assets <- Symbols
    Stable = {}
    Quoted = {"pair"}
    Pairs = {"pair"}
    Page <- PageOf
    Curated = {}
    ListMatch <- MatchOf
    Known = {"small"}
    Pages = 2
    SearchMax = 1
    BinanceTTL = 1
    PriceTTL = 1
    MapTTL = 2
    Faults = {"venue", "binance", "page", "list", "search", "price", "garbled"}
    MaxHandler = 1
SYMMETRY LookupSymmetry
INVARIANTS
    PricesAreRecent
    NamesakesFadeOut
PROPERTIES
    NoPriceIsLost
    NoCallIsRepeated
CHECK_DEADLOCK FALSE
