SPECIFICATION Spec
CONSTANTS
    None = None
    Venue = {v1}
    Req = {r1, r2, r3}
    Faults = {"redisDown", "venueFails", "garbled", "dbFails", "crash"}
    CacheTTL = 2
    Throttle = 2
    MaxHandler = 1
    MaxInFlight = 2
    MaxTime = 3
SYMMETRY VenueSymmetry
INVARIANTS
    Freshness
    SnapshotsBounded
    FaultsAreAbsorbed
PROPERTIES
    AnswersAreFresh
CHECK_DEADLOCK FALSE
