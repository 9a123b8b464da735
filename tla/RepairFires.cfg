\* Fires while epochs come and snapshots are mended; one slow or failed call.
SPECIFICATION FairSpec
CONSTANTS
    Epoch = {48, 49, 50, 51}
    Depth = 4
    MaxAttempts = 3
    Cycle = 6
    CronWork = 270
    Discovery = 15
    Status = 12
    SnapshotFetch = 120
    ServiceCall = 15
    ShapePut = 30
    RepairWork = 90
    RepairAttempt = 40
    None = None
    MaxMishap = 1
INVARIANTS
    Accounted
    RepairsInTime
PROPERTIES
    NotStarved
