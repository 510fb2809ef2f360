SPECIFICATION Spec
CONSTANTS
    None = None
    Login = {l1, l2}
    Callback = {c1, c2}
    Request = {q1}
    Account = {a1, a2}
    Email = {e1, e2, e3}
    StateTTL = 1
    AccessTTL = 1
    RefreshTTL = 1
    Faults = {"redis", "google", "server"}
    MaxTime = 2
SYMMETRY SessionSymmetry
INVARIANTS
    StatesAreSpent
    TokensAreOnesOwn
    SessionsEnd
PROPERTIES
    GoodTokensStay
    ConflictsAreReal
CHECK_DEADLOCK FALSE
