\* Two days of four people and three firms; three months of three founders in two
\* households and of three cohorts, the last of which has no cohort of children.
SPECIFICATION PeopleSpec
CONSTANTS
    chief = chief
    clerk = clerk
    pupil = pupil
    baby = baby
    NoOne = NoOne
    People = {chief, clerk, pupil, baby}
    FirstPeople = {chief, clerk, pupil}
    Companies = {1, 2, 3}
    FirstFirms = {1, 2}
    FirstAge <- MCAge
    FirstEmployment <- MCEmployment
    FirstEmployer <- MCEmployer
    FirstLists <- MCLists
    FirstCohorts <- MCStaff
    LayOffPcts = {20}
    HiringPct = 70
    MaxDays = 2
    MaxOpenings = 1
    Founders = 3
    MaxPeople = 5
    Households = {"h1", "h2"}
    FirstHome <- MCFirstHome
    Mothers = {2}
    Friends <- MCFriends
    Nobody = "none"
    Rents = {10, 30}
    Cohorts <- MCCohorts
    FirstSize <- MCFirstSize
    BirthParts <- MCBirthParts
    DeathParts <- MCDeathParts
    Children <- MCChildren
    NextBand <- MCNextBand
    Alike <- MCAlike
    BandYears <- MCBandYears
    Unit = 3
    MoveShare = 2
    MonthsPerYear = 2
    LastMonth = 3
INVARIANT WorkersAreListed
INVARIANT OnePayroll
INVARIANT PaidOnce
INVARIANT NoStaleOpening
INVARIANT FamiliesAreTrue
INVARIANT EvictionIsEarned
INVARIANT NobodyIsLost
