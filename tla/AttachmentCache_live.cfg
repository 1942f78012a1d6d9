SPECIFICATION FairSpec
CONSTANTS
    Saves = {s1, s2}
    Readers = {}
    Sweeper = Sweeper
    Nobody = Nobody
    NoFile = NoFile
    Limit = 1
    MaxFiles = 2
    MaxCacheBytes = 2
    Lease = 2
    RenewAfter = 1
    Retention = 1
    TTL = 1
    UnlinkFaults = FALSE
    StoreFaults = FALSE
    MaxCrashes = 1
PROPERTIES
    RowsLeave
    FilesLeave
