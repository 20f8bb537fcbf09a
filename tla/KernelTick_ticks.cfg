SPECIFICATION MCFairSpec
CONSTANTS
    NSystems = 3
    Topics <- MCTopics
    FailureTopic = "failure"
    ScenarioTopics = {"incident"}
    Important <- MCImportant
    Cadence <- MCCadence
    Consumes <- MCConsumes
    StepEmits <- MCStepEmits
    HandlerEmits <- MCHandlerEmits
    Faulty = {2, 3}
    QuarantineAfter = 2
    StormLimit = 3
    CheckpointInterval = 1
    SnapshotInterval = 1
    MaxCheckpoints = 1
    MaxSnapshotTicks = 1
    MaxTick = 3
    MaxEmits = 1
    MaxTimers = 1
    Repeats = {0, 1}
    MaxScenarios = 1
INVARIANT LedgerInOrder
INVARIANT LedgerWhole
INVARIANT CausesAreTrue
INVARIANT TimerAccounting
PROPERTY QuarantineFreezes
PROPERTY TickFinishes
