SPECIFICATION MCSpec
CONSTANTS
    Stores <- MCEveryStore
    EventsAt <- MCQuietStart
    BatchSize = 2
    LiveEvery = 4
    SnapshotInterval = 2
    MaxStep = 3
    FastBatch = 2
    SlowBatch = 5
    Requests <- MCRunScenario
    NoValue = NoValue
    MaxTick = 5
    MaxCrashes = 2
    MaxStops = 0
    MaxRequests = 3
INVARIANT RecoveryCovered
