SPECIFICATION Spec
CONSTANTS
    Saves = {s1}
    Readers = {}
    Sweeper = Sweeper
    Nobody = Nobody
    NoFile = NoFile
    Limit = 1
    MaxFiles = 1
    MaxCacheBytes = 1
    Lease = 1
    RenewAfter = 1
    Retention = 1
    TTL = 1
    UnlinkFaults = FALSE
    StoreFaults = FALSE
    MaxCrashes = 1
INVARIANT CrashLeftoversIndexed
