\* Days 0 to 4 of a month of four days, elections every two days, policies of one
\* or three days, so that austerity can come twice while the benefits are raised.
SPECIFICATION SocietySpec
CONSTANTS
    People = {p1, p2, p3}
    Facts = {f}
    Outlets = {gazette}
    None = None
    HourUnits = 2
    PickupWindow = 2
    DayUnits = 3
    MaxFresh = 1
    Parties = {"civic", "order", "split"}
    Leader <- MCLeader
    Nobody = "nobody"
    FirstMayor = "maya"
    Strict = {"order"}
    Caring = {"civic"}
    PublicCohorts = 2
    Payroll <- MCPayroll
    OpeningTreasury = 20
    OpeningWelfare = 24
    Rates = {15}
    Costs = {8}
    Terms = {1, 3}
    Flows <- MCFlows
    DebtLimit = 5
    ProcurementPct = 4
    Warmup = 1
    DecisionGap = 1
    ElectionPeriod = 2
    MonthDays = 4
    LastDay = 4
SYMMETRY Alike
INVARIANT NoCircularRumour
INVARIANT AlteredIsTraceable
INVARIANT PublishedOnce
INVARIANT WelfareComesBack
INVARIANT PoliciesArePaid
INVARIANT OneGovernment
