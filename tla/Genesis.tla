------------------------------ MODULE Genesis ------------------------------
(***************************************************************************)
(* How a world comes to be (hydra.genesis): companies, the cohorts, the      *)
(* households with their members and homes, the persistent cast, the jobs  *)
(* of residents and of cohorts, the offices, the families' ties, the       *)
(* plants' operators, the companies' cash and the public payroll, in the   *)
(* order GenesisEngine.create builds them, until the world is sealed.      *)
(*                                                                         *)
(* Each draw from the seed is a choice: the module takes every outcome a   *)
(* seed could give.  Names, places and characters are left out.            *)
(***************************************************************************)
EXTENDS Integers, Sequences, FiniteSets, FiniteSetsExt, Rounding

CONSTANTS
    CompanyCount,       \* company ids, in order
    PowerCompanies,     \* those that sell electricity
    ResearchFirms,      \* those of the sectors that do research
    Discoveries,        \* the technologies 1..Discoveries of the seed graph
    Needs,              \* of each, its prerequisites: none for what is known
    MaxProjects,        \* 8 in the code
    Targets,            \* what staffing_target may come to
    Plants,
    CohortIds, Sizes,   \* Sizes: what a cohort's size may come to
    WorkPct,            \* of each cohort: employment_rate, in per cent
    MaxPeople,          \* persistent_agents + lightweight_agents
    MaxCast,            \* persistent_agents
    MaxSize,            \* of a household: 6 in the code
    Ages,
    Districts, Housing, Hall,   \* of each district: its homes, and another building
    Capacity,           \* of each building
    Offices,            \* the roles in the order they are filled
    PublicStaff,        \* headcount of the institutions
    Savings, OpeningCash,       \* of a purse, and of a firm
    NoOne

CompanyIds == 1..CompanyCount
PersonIds  == 1..MaxPeople
Buildings  == UNION {Housing[d] \cup {Hall[d]} : d \in Districts}

Employment == {"unemployed", "employed", "public", "student", "retired", "child"}
Roles      == {"official", "chief", "notable"}

ASSUME GenesisAssumption ==
    /\ {CompanyCount, MaxPeople, MaxCast, PublicStaff, Savings} \subseteq Nat
    /\ PowerCompanies \subseteq CompanyIds /\ ResearchFirms \subseteq CompanyIds
    /\ {Discoveries, MaxProjects} \subseteq Nat
    /\ Needs \in [1..Discoveries -> SUBSET (1..Discoveries)]
    /\ Targets \subseteq Nat \ {0} /\ OpeningCash \subseteq Nat /\ Sizes \subseteq Nat
    /\ IsFiniteSet(CohortIds) /\ WorkPct \in [CohortIds -> 0..99]
    /\ MaxSize \in Nat \ {0} /\ Ages \subseteq Nat
    /\ Housing \in [Districts -> SUBSET Buildings] /\ Capacity \in [Buildings -> Nat]
    /\ \A d, e \in Districts : d # e => Housing[d] \cap Housing[e] = {}
    /\ Hall \in [Districts -> Buildings]
    /\ \A d, e \in Districts : Housing[d] = {} => Hall[d] \notin Housing[e]
    /\ Offices \in Seq(Roles)
    /\ NoOne \notin CompanyIds /\ NoOne \notin Roles

VARIABLES
    stage, left,        \* what is being built, and what is left of its loop
    companies, target,  \* the companies, and Company.headcount_target
    employees, placed,  \* Company.employee_ids and cohort_employees
    size,               \* of each cohort
    people, age, employment, employer,  \* of each person
    households, home, building,     \* home: household_id; building: of each household
    members, occupancy, \* of each household and of each building
    cast, role, offices,    \* persistent_ids, Person.traits, the roles still to fill
    offer,              \* the cohort workers to place, and the vacancies, as counted once
    family,             \* FAMILY edges of the social graph
    operator,           \* of each plant
    project,            \* ResearchProject.tech_id of each company that has one
    publicJobs,         \* GovernmentState.public_jobs
    cash, supply        \* Account.balance_minor by owner, money_supply_minor

companyVars == <<companies, target, employees, placed, offer>>
peopleVars  == <<people, age, employment, employer>>
homeVars    == <<households, home, building, members, occupancy>>
castVars    == <<cast, role, offices>>
accountVars == <<cash, supply>>
restVars    == <<size, family, operator, project, publicJobs>>
genesisVars ==
    <<companyVars, peopleVars, homeVars, castVars, accountVars, restVars, stage, left>>

Stages == {"companies", "technology", "cohorts", "households", "jobs", "vacancies",
           "offices", "plants", "funding", "unsealed", "sealed"}
Total(f) == MapThenSumSet(LAMBDA i : f[i], DOMAIN f)

\* The types of what is built.
GenesisTypeOK ==
    /\ stage \in Stages /\ left \subseteq CompanyIds \cup PersonIds \cup CohortIds
    /\ companies \subseteq CompanyIds /\ target \in [CompanyIds -> {1} \cup Targets]
    /\ employees \in [CompanyIds -> SUBSET people]
    /\ placed \in [CompanyIds -> [CohortIds -> Nat]]
    /\ size \in [CohortIds -> Nat] /\ people \subseteq PersonIds
    /\ age \in [people -> Ages] /\ employment \in [people -> Employment]
    /\ employer \in [people -> companies \cup {NoOne}]
    /\ home \in [people -> households] /\ building \in [households -> Buildings]
    /\ members \in [households -> SUBSET people] /\ occupancy \in [Buildings -> Nat]
    /\ cast \subseteq people /\ role \in [people -> Roles \cup {NoOne}]
    /\ family \subseteq people \X people /\ operator \in [Plants -> companies \cup {NoOne}]
    /\ publicJobs \in [CohortIds -> Nat] /\ project \in [CompanyIds -> 0..Discoveries]
    /\ \A owner \in DOMAIN cash : cash[owner] \in Nat
    /\ supply \in Nat

Nothing == [i \in {} |-> 0]

GenesisInit ==
    /\ stage = "companies" /\ left = CompanyIds
    /\ companies = {} /\ target = [c \in CompanyIds |-> 1]
    /\ employees = [c \in CompanyIds |-> {}]
    /\ placed = [c \in CompanyIds |-> [k \in CohortIds |-> 0]]
    /\ offer = <<0, 0>>
    /\ size = [k \in CohortIds |-> 0]
    /\ people = {} /\ age = Nothing /\ employment = Nothing /\ employer = Nothing
    /\ households = {} /\ home = Nothing /\ building = Nothing /\ members = Nothing
    /\ occupancy = [b \in Buildings |-> 0]
    /\ cast = {} /\ role = Nothing /\ offices = Offices
    /\ family = {} /\ operator = [q \in Plants |-> NoOne]
    /\ project = [c \in CompanyIds |-> 0]
    /\ publicJobs = [k \in CohortIds |-> 0]
    /\ cash = Nothing /\ supply = 0
-----------------------------------------------------------------------------
IsTurn(i) == i \in left /\ \A j \in left : i =< j
Built(i)  == left' = left \ {i} /\ stage' = stage

Proceed(what, items)   == stage' = what /\ left' = items
Extend(f, S, value) == [i \in DOMAIN f \cup S |-> IF i \in S THEN value ELSE f[i]]

\* EconomyState.open_account.
OpenAccounts(owners, amount) ==
    /\ cash' = Extend(cash, owners, amount)
    /\ supply' = supply + amount * Cardinality(owners)
-----------------------------------------------------------------------------
(* Firms, the city and cohorts. *)

BuildCompany(c) ==
    /\ stage = "companies" /\ IsTurn(c)
    /\ companies' = companies \cup {c}
    /\ OpenAccounts({<<"firm", c>>}, 0)
    /\ Built(c)
    /\ UNCHANGED <<target, employees, placed, offer, peopleVars, homeVars, castVars,
                   restVars>>

\* build_government opens the treasury's account.
BuildGovernment ==
    /\ stage = "companies" /\ left = {}
    /\ OpenAccounts({<<"treasury">>}, Savings)
    /\ Proceed("technology", {})
    /\ UNCHANGED <<companyVars, peopleVars, homeVars, castVars, restVars>>

Before(x, S) == Cardinality({y \in S : y < x})

\* TechnologyState.available: what is not known, but all it needs is.
Ready ==
    LET known == {n \in 1..Discoveries : Needs[n] = {}}
    IN  {n \in (1..Discoveries) \ known : Needs[n] \subseteq known}

\* build_technology: the first companies that do research go round what is ready.
BuildTechnology ==
    LET doing == companies \cap ResearchFirms
        first == {c \in doing : Before(c, doing) < MaxProjects}
    IN  /\ stage = "technology"
        /\ project' = [c \in CompanyIds |->
              IF c \in first /\ Ready # {}
              THEN CHOOSE n \in Ready :
                     Before(n, Ready) = Before(c, first) % Cardinality(Ready)
              ELSE 0]
        /\ Proceed("cohorts", CohortIds)
        /\ UNCHANGED <<companyVars, peopleVars, homeVars, castVars, accountVars, size,
                       family,
                       operator, publicJobs>>

\* A cohort nobody belongs to is not kept.
BuildCohort(k, count) ==
    /\ stage = "cohorts" /\ k \in left
    /\ size' = [size EXCEPT ![k] = count]
    /\ OpenAccounts(IF count = 0 THEN {} ELSE {<<"cohort", k>>}, Savings)
    /\ Built(k)
    /\ UNCHANGED <<companyVars, peopleVars, homeVars, castVars, family, operator,
                   project, publicJobs>>

EndCohorts ==
    /\ stage = "cohorts" /\ left = {}
    /\ Proceed("households", {})
    /\ UNCHANGED <<companyVars, peopleVars, homeVars, castVars, accountVars, restVars>>
-----------------------------------------------------------------------------
(* Households, the cast. *)

\* _pick_home: a home with room if the district has one.
HomesFor(d) ==
    LET free == {b \in Housing[d] : occupancy[b] < Capacity[b]}
    IN  IF Housing[d] = {} THEN {Hall[d]} ELSE IF free = {} THEN Housing[d] ELSE free

\* _initial_employment.
FirstEmployments(years) ==
    IF years < 16 THEN {"child"}
    ELSE IF years < 24 THEN {"student", "unemployed"}
    ELSE IF years >= 66 THEN {"retired"} ELSE {"unemployed"}

\* A household of so many, its members one after the other, and the building
\* takes them in when all are there.
BuildHousehold(d, count) ==
    LET h   == Cardinality(households) + 1
        new == (Cardinality(people) + 1)..(Cardinality(people) + count)
    IN  /\ stage = "households"
        /\ Cardinality(people) + count =< MaxPeople
        /\ households' = households \cup {h}
        /\ \E b \in HomesFor(d) :
              /\ building' = Extend(building, {h}, b)
              /\ occupancy' = [occupancy EXCEPT ![b] = @ + count]
        /\ people' = people \cup new
        /\ \E years \in [new -> Ages], first \in [new -> Employment] :
              /\ \A p \in new : first[p] \in FirstEmployments(years[p])
              /\ age' = [p \in people' |-> IF p \in new THEN years[p] ELSE age[p]]
              /\ employment' =
                    [p \in people' |-> IF p \in new THEN first[p] ELSE employment[p]]
        /\ employer' = Extend(employer, new, NoOne)
        /\ home' = Extend(home, new, h)
        /\ members' = Extend(members, {h}, new)
        /\ role' = Extend(role, new, NoOne)
        /\ OpenAccounts({<<"household", h>>} \cup {<<"person", p>> : p \in new}, Savings)
        /\ UNCHANGED <<companyVars, cast, offices, restVars, stage, left>>

\* _promote_persistent, and the staffing targets _assign_jobs begins with.
Promote(chosen) ==
    LET adults == {p \in people : age[p] >= 22}
    IN  /\ stage = "households" /\ people = PersonIds
        /\ chosen \subseteq adults
        /\ Cardinality(chosen) = Smaller(MaxCast, Cardinality(adults))
        /\ cast' = chosen
        /\ target' \in [CompanyIds -> Targets]
        /\ Proceed("jobs", people)
        /\ UNCHANGED <<companies, employees, placed, offer, peopleVars, homeVars, role,
                       offices,
                       accountVars, restVars>>
-----------------------------------------------------------------------------
(* Jobs. *)

Headcount(c) == Cardinality(employees[c]) + Total(placed[c])
Hiring       == {c \in companies : Headcount(c) < target[c]}
Seeking(p)   == employment[p] = "unemployed" /\ age[p] \in 18..66

AssignJob(p, c) ==
    /\ stage = "jobs" /\ IsTurn(p) /\ Seeking(p) /\ c \in Hiring
    /\ employer' = [employer EXCEPT ![p] = c]
    /\ employment' = [employment EXCEPT ![p] = "employed"]
    /\ employees' = [employees EXCEPT ![c] = @ \cup {p}]
    /\ Built(p)
    /\ UNCHANGED <<companies, target, placed, offer, people, age, homeVars, castVars,
                   accountVars, restVars>>

\* Not looking for work, or one of the structurally unemployed.
PassOver(p) ==
    /\ stage = "jobs" /\ IsTurn(p)
    /\ Built(p)
    /\ UNCHANGED <<companyVars, peopleVars, homeVars, castVars, accountVars, restVars>>

Workers(k) == (size[k] * WorkPct[k]) \div 100
Gap(c)     == Larger(0, target[c] - Headcount(c))
TotalGap   == Total([c \in companies |-> Gap(c)])
Employed   == {p \in people : employer[p] # NoOne}

\* Mutant: there may be more to place than there are vacancies.
Mutant_AllWorkers == Total([k \in CohortIds |-> Workers(k)]) - Cardinality(Employed)

\* _fill_cohort_employment: those to be placed.
Unplaced ==
    Smaller(Total([k \in CohortIds |-> Workers(k)]) - Cardinality(Employed), TotalGap)

\* The end of the residents' jobs: all seen, or no firm hires any more.
EndJobs ==
    /\ stage = "jobs"
    /\ left = {} \/ (Hiring = {} /\ \E p \in left : IsTurn(p) /\ Seeking(p))
    /\ offer' = <<Unplaced, TotalGap>>
    /\ Proceed("vacancies", IF \E k \in CohortIds : Workers(k) > 0 THEN Hiring ELSE {})
    /\ UNCHANGED <<companies, target, employees, placed, peopleVars, homeVars, castVars,
                   accountVars, restVars>>

\* A firm's share of those to be placed, of any cohorts that work.
FillVacancies(c, taken) ==
    /\ stage = "vacancies" /\ IsTurn(c)
    /\ Total(taken) = Larger(0, Round(offer[1] * Gap(c), Larger(1, offer[2])))
    /\ \A k \in CohortIds : taken[k] > 0 => WorkPct[k] > 0 /\ size[k] > 0
    /\ placed' = [placed EXCEPT ![c] = taken]
    /\ Built(c)
    /\ UNCHANGED <<companies, target, employees, offer, peopleVars, homeVars, castVars,
                   accountVars, restVars>>

EndVacancies ==
    /\ stage = "vacancies" /\ left = {}
    /\ Proceed("offices", {})
    /\ UNCHANGED <<companyVars, peopleVars, homeVars, castVars, accountVars, restVars>>
-----------------------------------------------------------------------------
(* _appoint_notables: office by office, the next of the pool. *)

Pool    == {p \in cast : age[p] >= 28 /\ role[p] = NoOne}
IsUp(p) == stage = "offices" /\ offices # <<>> /\ p \in Pool /\ \A q \in Pool : p =< q
Led     == {employer[p] : p \in {q \in people : role[q] = "chief"}}

Fill(p) ==
    /\ role' = [role EXCEPT ![p] = Head(offices)]
    /\ offices' = Tail(offices)

\* The mayor and the heads of the institutions, who keep the employer they have.
AppointOfficial(p) ==
    /\ IsUp(p) /\ Head(offices) = "official"
    /\ Fill(p)
    /\ employment' = [employment EXCEPT ![p] = "public"]
    /\ UNCHANGED <<companyVars, people, age, employer, homeVars, cast, accountVars,
                   restVars,
                   stage, left>>

\* The chief of one of the largest companies, who stays on the list they are on.
AppointChief(p, c) ==
    /\ IsUp(p) /\ Head(offices) = "chief" /\ c \in companies \ Led
    /\ Fill(p)
    /\ employment' = [employment EXCEPT ![p] = "employed"]
    /\ employer' = [employer EXCEPT ![p] = c]
    /\ employees' = [employees EXCEPT ![c] = @ \cup {p}]
    /\ UNCHANGED <<companies, target, placed, offer, people, age, homeVars, cast,
                   accountVars,
                   restVars, stage, left>>

AppointNotable(p) ==
    /\ IsUp(p) /\ Head(offices) = "notable"
    /\ Fill(p)
    /\ UNCHANGED <<companyVars, peopleVars, homeVars, cast, accountVars, restVars,
                   stage, left>>

\* Nobody is left in the pool, or no firm to lead.
LeaveVacant ==
    /\ stage = "offices" /\ offices # <<>>
    /\ Pool = {} \/ (Head(offices) = "chief" /\ companies \subseteq Led)
    /\ offices' = Tail(offices)
    /\ UNCHANGED <<companyVars, peopleVars, homeVars, cast, role, accountVars, restVars,
                   stage, left>>
-----------------------------------------------------------------------------
(* Ties, plants, money and the public payroll. *)

WireFamilies ==
    /\ stage = "offices" /\ offices = <<>>
    /\ family' = {t \in people \X people : t[1] # t[2] /\
                    \E h \in households : {t[1], t[2]} \subseteq members[h]}
    /\ Proceed("plants", {})
    /\ UNCHANGED <<companyVars, peopleVars, homeVars, castVars, accountVars, size,
                   operator,
                   project, publicJobs>>

\* The plants go round the power companies.
AssignOperators ==
    /\ stage = "plants"
    /\ operator' \in
         IF companies \cap PowerCompanies = {} THEN {operator}
         ELSE {f \in [Plants -> companies \cap PowerCompanies] :
                 \A c, d \in companies \cap PowerCompanies :
                    Cardinality({q \in Plants : f[q] = c})
                        =< Cardinality({q \in Plants : f[q] = d}) + 1}
    /\ Proceed("funding", companies)
    /\ UNCHANGED <<companyVars, peopleVars, homeVars, castVars, accountVars, size,
                   family,
                   project, publicJobs>>

\* fund_companies sets the balance of an account that was opened empty.
FundCompany(c, amount) ==
    /\ stage = "funding" /\ IsTurn(c)
    /\ cash' = [cash EXCEPT ![<<"firm", c>>] = amount]
    /\ supply' = supply + amount
    /\ Built(c)
    /\ UNCHANGED <<companyVars, peopleVars, homeVars, castVars, restVars>>

\* assign_public_jobs: the institutions' employees, by the cohorts' sizes.
AssignPublicJobs ==
    LET working == {k \in CohortIds : WorkPct[k] > 0 /\ size[k] > 0}
        pool    == Total([k \in working |-> size[k]])
    IN  /\ stage = "funding" /\ left = {}
        /\ publicJobs' = [k \in CohortIds |->
              IF k \in working THEN Round(PublicStaff * size[k], pool) ELSE 0]
        /\ Proceed("unsealed", {})
        /\ UNCHANGED <<companyVars, peopleVars, homeVars, castVars, accountVars, size,
                       family,
                       operator, project>>

Seal ==
    /\ stage = "unsealed"
    /\ Proceed("sealed", {})
    /\ UNCHANGED <<companyVars, peopleVars, homeVars, castVars, accountVars, restVars>>

GenesisNext ==
    \/ \E c \in CompanyIds : BuildCompany(c)
    \/ BuildGovernment \/ BuildTechnology
    \/ \E k \in CohortIds, count \in Sizes : BuildCohort(k, count)
    \/ EndCohorts
    \/ \E d \in Districts, count \in 1..MaxSize : BuildHousehold(d, count)
    \/ \E chosen \in SUBSET people : Promote(chosen)
    \/ \E p \in people, c \in companies : AssignJob(p, c)
    \/ \E p \in people : PassOver(p)
    \/ EndJobs
    \/ \E c \in CompanyIds, taken \in [CohortIds -> 0..Total(target)] : FillVacancies(c, taken)
    \/ EndVacancies
    \/ \E p \in cast : AppointOfficial(p)
    \/ \E p \in cast, c \in companies : AppointChief(p, c)
    \/ \E p \in cast : AppointNotable(p)
    \/ LeaveVacant
    \/ WireFamilies
    \/ AssignOperators
    \/ \E c \in CompanyIds, amount \in OpeningCash : FundCompany(c, amount)
    \/ AssignPublicJobs
    \/ Seal

GenesisSpec == GenesisInit /\ [][GenesisNext]_genesisVars
-----------------------------------------------------------------------------
(* What the other modules start from.                                      *)

\* What Employment assumes of genesis: whoever has a job is on the list of the
\* firm they name, whoever has none names none, and only a chief is on a list
\* of another firm too.  No firm has more people than it wanted, but for its
\* chief, however the cohorts' workers were shared out in rounded parts.
JobsAreSound ==
    /\ \A p \in people :
        /\ employment[p] \notin {"employed", "public"} => employer[p] = NoOne
        /\ employment[p] = "employed" => employer[p] # NoOne
        /\ employer[p] # NoOne => p \in employees[employer[p]]
        /\ \A c \in companies \ {employer[p]} : p \in employees[c] => role[p] = "chief"
    /\ \A c \in companies : Headcount(c) =< target[c] + 1

\* What Residents starts from: a household lists those who live there, they are
\* tied to each other and to nobody else as a family, and a building counts
\* them.  A building is crowded by a whole household only in a district that
\* has no room left.
HomesAreSound ==
    /\ \A h \in households : members[h] = {p \in people : home[p] = h}
    /\ \A p, q \in people : <<p, q>> \in family <=> p # q /\ home[p] = home[q]
    /\ \A b \in Buildings : occupancy[b] = Cardinality({p \in people : building[home[p]] = b})
    /\ \A d \in Districts : \A b, c \in Housing[d] :
          occupancy[b] >= Capacity[b] + MaxSize => occupancy[c] >= Capacity[c]

\* What Economy starts from: whoever pays has an account, a firm's opening cash
\* included in the money there is said to be.
MoneyIsSound ==
    /\ {<<"firm", c>> : c \in companies} \cup {<<"person", p>> : p \in people}
         \cup {<<"household", h>> : h \in households}
         \cup {<<"cohort", k>> : k \in {j \in CohortIds : size[j] > 0}} \subseteq DOMAIN cash
    /\ supply = Total(cash)

\* What Economy's research starts from: a project is of a firm that does research
\* and works on what is not known yet but can be found, no project on what
\* another is already at while something is left for it.
ResearchIsSound ==
    /\ \A c \in CompanyIds :
          project[c] # 0 => c \in companies \cap ResearchFirms /\ project[c] \in Ready
    /\ \A c, d \in CompanyIds : c # d /\ project[c] = project[d] /\ project[c] # 0
            => Ready \subseteq {project[f] : f \in CompanyIds}

\* A sealed world is one the simulation may start from.
OpensSound ==
    stage = "sealed" => JobsAreSound /\ HomesAreSound /\ MoneyIsSound /\ ResearchIsSound
=============================================================================
