CONSTANTS
    N = 1
    Significant = {}
    TicksPerHour = 2
    HoursPerDay = 4
    SleepAt <- MC_SleepAt
    WakeAt <- MC_WakeAt
    DormantAfter = 12
    Topics = {"env.power", "price.food"}
    Importance <- MC_Importance
    MaxInbox = 1
    PerceptionBatch = 1
    BrainBatch = 2
    LLM = FALSE
    DailyCalls = 2
    TokenBudget = 3
    MaxCallsPerTick = 1
    ReplyTokens = 2
    QuarantineAfter = 2
    MaxQuiet = 17
SPECIFICATION IdleSpec
INVARIANT IdleGoDormant
