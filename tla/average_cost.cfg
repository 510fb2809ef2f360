SPECIFICATION Spec
CONSTANTS
    None = None
    Req = {r1, r2}
    Venues = {"binance", "binancetr", "bybit", "bybitClassic", "okx", "gateio", "kraken", "coinbase"}
    Amounts = {2}
    Prices = {1}
    Outside <- OutsideOnes
    CoverNum = 2
    CoverDen = 3
    MaxEvents = 3
    MaxBegun = 1
SYMMETRY BooksSymmetry
INVARIANTS
    TypeOK
    AverageIsOfBuys
    FullIsExplained
    PartialHasAReason
    MoneyAddsUp
    BooksAgree
CHECK_DEADLOCK FALSE
