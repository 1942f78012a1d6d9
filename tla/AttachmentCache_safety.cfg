SPECIFICATION Spec
CONSTANTS
    Saves = {s1, s2}
    Readers = {d1}
    Sweeper = Sweeper
    Nobody = Nobody
    NoFile = NoFile
    Limit = 2
    MaxFiles = 2
    MaxCacheBytes = 3
    Lease = 2
    RenewAfter = 1
    Retention = 2
    TTL = 2
    UnlinkFaults = TRUE
    StoreFaults = FALSE
    MaxCrashes = 1
INVARIANTS
    TypeOK
    IndexedWithinQuota
    ReadyIsServable
    LinksServe
PROPERTIES
    TurnedAwayWhenExpired
SYMMETRY MCSymmetry
