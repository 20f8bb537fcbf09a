CONSTANTS
    N = 2
    Significant = {1}
    TicksPerHour = 2
    HoursPerDay = 4
    SleepAt <- MC_SleepAt
    WakeAt <- MC_WakeAt
    DormantAfter = 4
    Topics = {"env.power", "price.food"}
    Importance <- MC_Importance
    MaxInbox = 1
    PerceptionBatch = 1
    BrainBatch = 2
    LLM = TRUE
    DailyCalls = 2
    TokenBudget = 3
    MaxCallsPerTick = 1
    ReplyTokens = 2
    QuarantineAfter = 2
SPECIFICATION Spec
INVARIANT NightIsBounded
INVARIANT NothingSleptThrough
INVARIANT BudgetsKept
