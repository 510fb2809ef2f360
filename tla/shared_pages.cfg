SPECIFICATION Spec
CONSTANTS
    None = None
    Req = {r1, r2}
    Flag <- Flags
    Payloads <- Patches
    Follower = {u1}
    Email = {e1}
    Expiry = 2
    Faults = {"garbled", "costBasis", "crash"}
    MaxHandler = 2
    MaxTime = 3
SYMMETRY PagesSymmetry
INVARIANTS
    NoViewIsLost
    PageIsCurrent
    CountedIsShown
    EditsStick
    ErrorsNeedARace
CHECK_DEADLOCK FALSE
