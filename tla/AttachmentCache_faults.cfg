SPECIFICATION Spec
CONSTANTS
    Saves = {s1, s2, s3}
    Readers = {}
    Sweeper = Sweeper
    Nobody = Nobody
    NoFile = NoFile
    Limit = 2
    MaxFiles = 2
    MaxCacheBytes = 3
    Lease = 1
    RenewAfter = 1
    Retention = 1
    TTL = 1
    UnlinkFaults = TRUE
    StoreFaults = TRUE
    MaxCrashes = 0
INVARIANTS
    IndexedWithinQuota
PROPERTIES
    FilesAccountedFor
SYMMETRY MCSymmetry
