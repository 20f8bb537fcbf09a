SPECIFICATION MCFairSpec
CONSTANTS
    Stores <- MCSealedStore
    EventsAt <- MCEventsAt
    BatchSize = 2
    LiveEvery = 2
    SnapshotInterval = 3
    MaxStep = 2
    FastBatch = 2
    SlowBatch = 2
    Requests <- MCRunOnly
    NoValue = NoValue
    MaxTick = 4
    MaxCrashes = 1
    MaxStops = 0
    MaxRequests = 1
PROPERTY WorldResumes
