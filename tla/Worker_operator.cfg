SPECIFICATION MCFairSpec
CONSTANTS
    Stores <- MCFileStores
    EventsAt <- MCEventsAt
    BatchSize = 2
    LiveEvery = 2
    SnapshotInterval = 3
    MaxStep = 2
    FastBatch = 2
    SlowBatch = 1
    Requests <- MCOperator
    NoValue = NoValue
    MaxTick = 5
    MaxCrashes = 0
    MaxStops = 1
    MaxRequests = 3
INVARIANT OrderlyRuns
INVARIANT StepCompleteIsTrue
PROPERTY AppendOnlyHistory
PROPERTY ScenarioTaken
PROPERTY StepServed
