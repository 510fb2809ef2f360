SPECIFICATION Spec
CONSTANTS
    None = None
    Req = {r1, r2, r3, r4}
    Name = {n1, n2}
    Exchange = {e1, e2, e3}
    MaxProfiles = 2
    MaxExchanges = 1
    MaxInFlight = 2
SYMMETRY AccountSymmetry
INVARIANTS
    Claims
    LimitsBounded
    NamesBounded
CHECK_DEADLOCK FALSE
