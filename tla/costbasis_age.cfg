SPECIFICATION CacheSpec
CONSTANTS
    Nothing = Nothing
    Process = {s1, s2}
    Request = {r1, r2, r3}
    Faults = {"redisDown", "venueFails", "garbled", "restart"}
    FullTTL = 2
    DegradedTTL = 1
    MaxHandler = 1
    MaxInFlight = 2
    MaxTime = 7
SYMMETRY RequestSymmetry
INVARIANTS
    AgeInv
PROPERTIES
    AgeBounded
CHECK_DEADLOCK FALSE
