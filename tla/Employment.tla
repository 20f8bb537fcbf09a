----------------------------- MODULE Employment -----------------------------
(***************************************************************************)
(* Who works where.  A job is kept twice: a person names the employer      *)
(* (Person.employer_id, employment) and the firm lists its people          *)
(* (Company.employee_ids).  Both are edited by the agents' own actions     *)
(* (hydra.agents.actions), the firms' board meetings and the payroll       *)
(* (hydra.companies.systems), the labour market (hydra.economy.systems)    *)
(* and demography (hydra.demographics.systems), which run one after the    *)
(* other in a day.                                                         *)
(*                                                                         *)
(* Wages, skills and districts only decide which of the legal outcomes     *)
(* happens, and are left out; the residents of cohorts are a headcount.    *)
(***************************************************************************)
EXTENDS Integers, FiniteSets, FiniteSetsExt, Rounding

CONSTANTS
    People,             \* person ids, those of children to be born included
    Companies,          \* company ids, in the order they are founded
    NoOne,              \* an empty employer_id
    FirstPeople, FirstFirms,                \* what genesis creates
    FirstAge, FirstEmployment, FirstEmployer, FirstLists, FirstCohorts,
    LayOffPcts,         \* share of the headcount laid off: 12 and 20 in the code
    HiringPct,          \* share posted as openings: 5 in the code
    MaxDays, MaxOpenings                    \* bounds of the model

\* Under 14 (not yet an agent), under 18, under 67, and from 67 on.
Ages       == {"child", "youth", "adult", "old"}
Employment == {"employed", "unemployed", "student", "retired", "child",
               "self_employed", "public"}

\* Those a firm has on its list, and those view.employed is true of.
OnStaff == {"employed", "public"}
Working == OnStaff \cup {"self_employed"}

\* Whom genesis leaves on another list than the employer's: _appoint_notables
\* makes a CEO of somebody _assign_jobs gave a job elsewhere.
DoubleBooked ==
    {p \in People : \E c \in Companies :
        FirstLists[c][p] # (IF /\ FirstEmployer[p] = c
                               /\ FirstEmployment[p] \in OnStaff THEN 1 ELSE 0)}

ASSUME EmploymentAssumption ==
    /\ Companies \subseteq Nat /\ FirstFirms \subseteq Companies
    /\ NoOne \notin Companies
    /\ FirstPeople \subseteq People /\ IsFiniteSet(People)
    /\ FirstAge \in [People -> Ages]
    /\ FirstEmployment \in [People -> Employment \ {"self_employed"}]
    /\ FirstEmployer \in [People -> FirstFirms \cup {NoOne}]
    /\ FirstLists \in [Companies -> [People -> Nat]]
    /\ FirstCohorts \in [Companies -> Nat]
    /\ \A c \in Companies \ FirstFirms, p \in People : FirstLists[c][p] = 0
    /\ \A p \in People :
        /\ FirstEmployment[p] \notin OnStaff => FirstEmployer[p] = NoOne
        /\ FirstEmployment[p] = "employed" => FirstEmployer[p] # NoOne
        /\ FirstEmployer[p] # NoOne => FirstLists[FirstEmployer[p]][p] > 0
        /\ p \notin FirstPeople =>
            FirstEmployment[p] = "child" /\ \A c \in Companies : FirstLists[c][p] = 0
    /\ LayOffPcts \subseteq Nat
    /\ HiringPct \in 0..100 /\ {MaxDays, MaxOpenings} \subseteq Nat

VARIABLES
    born, alive,            \* AgentsState.people, and Person.alive
    age,                    \* Person.age_years
    employment, employer,   \* of each person
    employees,              \* how often Company.employee_ids names a person
    cohorts,                \* the headcount in Company.cohort_employees
    firms, bankrupt,        \* the companies there are, and the bankrupt ones
    openings, nextOpening,  \* CompaniesState.openings, next_opening_index
    phase, todo,            \* the system that runs, and what is left of its loop
    stage,                  \* where the board meeting is
    paid,                   \* payments to each person by the running payroll
    day                     \* days so far

personVars == <<born, alive, age>>
jobVars    == <<employment, employer, employees>>
firmVars   == <<firms, bankrupt>>
boardVars  == <<openings, nextOpening>>
vars == <<personVars, jobVars, firmVars, boardVars, cohorts, phase, todo, stage,
          paid, day>>

Opening == [id : Nat, company : Companies, positions : Nat, filled : Nat]
Phases  == {"agents", "decisions", "payroll", "benefits", "matching",
            "absorbing", "demography"}

PeopleTyped ==
    /\ born \in SUBSET People
    /\ alive \in SUBSET born
    /\ age \in [People -> Ages]
    /\ employment \in [People -> Employment]
    /\ employer \in [People -> firms \cup {NoOne}]
    /\ paid \in [People -> Nat]

FirmsTyped ==
    /\ firms \in SUBSET Companies
    /\ bankrupt \in SUBSET firms
    /\ employees \in [Companies -> [People -> Nat]]
    /\ cohorts \in [Companies -> Nat]
    /\ openings \in SUBSET Opening
    /\ nextOpening \in Nat

LoopTyped ==
    /\ phase \in Phases
    /\ phase \in {"decisions", "payroll"} => todo \in SUBSET (firms \ bankrupt)
    /\ phase = "matching" => todo \in SUBSET alive
    /\ phase = "absorbing" => todo \in SUBSET Nat
    /\ phase = "demography" => todo \in SUBSET alive
    /\ stage \in {"staffing", "strategy", "books"}
    /\ day \in Nat

TypeOK == PeopleTyped /\ FirmsTyped /\ LoopTyped

Init ==
    /\ born = FirstPeople
    /\ alive = FirstPeople
    /\ age = FirstAge
    /\ employment = FirstEmployment
    /\ employer = FirstEmployer
    /\ employees = FirstLists
    /\ cohorts = FirstCohorts
    /\ firms = FirstFirms
    /\ bankrupt = {}
    /\ openings = {}
    /\ nextOpening = 1
    /\ phase = "agents"
    /\ todo = {}
    /\ stage = "staffing"
    /\ paid = [p \in People |-> 0]
    /\ day = 0
-----------------------------------------------------------------------------
Active      == firms \ bankrupt
OnList(c)   == MapThenSumSet(LAMBDA p : employees[c][p], People)
Headcount(c) == OnList(c) + cohorts[c]

IsNext(i) == i \in todo /\ \A j \in todo : i =< j
Enter(system, items) == phase' = system /\ todo' = items

\* The lists after p was struck off the employer's, where it is on it.
StruckOff(p) ==
    [c \in Companies |-> [q \in People |->
        IF q = p /\ c = employer[p] /\ employees[c][q] > 0
        THEN employees[c][q] - 1 ELSE employees[c][q]]]

\* ApplyForJobHandler and LabourMarketSystem take somebody on.
Employ(p, c) ==
    /\ employment' = [employment EXCEPT ![p] = "employed"]
    /\ employer' = [employer EXCEPT ![p] = c]
    /\ employees' = [d \in Companies |-> [q \in People |->
                        IF q = p /\ d = c THEN employees[d][q] + 1
                        ELSE employees[d][q]]]

IsOpen(o) == o \in openings /\ o.filled < o.positions /\ o.company \in Active

\* A full opening is taken down.
Fill(o, taken) ==
    LET filled == o.filled + taken
        rest   == openings \ {o}
    IN  openings' = IF filled >= o.positions THEN rest
                    ELSE rest \cup {[id        |-> o.id,
                                     company   |-> o.company,
                                     positions |-> o.positions,
                                     filled    |-> filled]}
-----------------------------------------------------------------------------
(* The agents' own actions.  The brain offers them to those who do not     *)
(* work, and the language model may only choose among what it offers.      *)

\* UtilityBrain.options, of the actions that touch jobs.
Offered(p, action) ==
    /\ p \in alive /\ age[p] # "child"
    /\ employment[p] \notin Working
    /\ action = "apply_for_job" => age[p] # "old"

\* ApplyForJobHandler; an application turned down changes no job.
Apply(p, o) ==
    /\ phase = "agents" /\ Offered(p, "apply_for_job")
    /\ IsOpen(o)
    /\ Employ(p, o.company)
    /\ Fill(o, 1)
    /\ UNCHANGED <<personVars, firmVars, nextOpening, cohorts, phase, todo, stage,
                   paid, day>>

\* FoundCompanyHandler: the founder is not on the list of the new firm.
FoundCompany(p, c) ==
    /\ phase = "agents" /\ Offered(p, "found_company") /\ age[p] # "youth"
    /\ c \in Companies \ firms /\ \A d \in Companies \ firms : c =< d
    /\ firms' = firms \cup {c}
    /\ employer' = [employer EXCEPT ![p] = c]
    /\ employment' = [employment EXCEPT ![p] = "self_employed"]
    /\ UNCHANGED <<personVars, employees, bankrupt, boardVars, cohorts, phase,
                   todo, stage, paid, day>>

\* The day's institutions are due.
EndAgents ==
    /\ phase = "agents"
    /\ day < MaxDays
    /\ day' = day + 1
    /\ Enter("decisions", Active)
    /\ UNCHANGED <<personVars, jobVars, firmVars, boardVars, cohorts, stage, paid>>
-----------------------------------------------------------------------------
(* CompanyDecisionSystem: a board meeting may lay off for being            *)
(* overstaffed, then lay off again or post openings, then go bankrupt.     *)

\* Mutant: who is laid off stays on the list.
Mutant_LaidOffStayListed(c, pct) ==
    LET count       == Larger(1, (Headcount(c) * pct) \div 100)
        individuals == Smaller(count, OnList(c))
    IN  /\ Headcount(c) > 1
        /\ \E gone \in [People -> 0..count] :
            /\ \A p \in People : gone[p] =< employees[c][p]
            /\ MapThenSumSet(LAMBDA p : gone[p], People) = individuals
            /\ employees' = employees
            /\ employment' = [p \in People |-> IF gone[p] > 0 THEN "unemployed"
                                               ELSE employment[p]]
            /\ employer' = [p \in People |-> IF gone[p] > 0 THEN NoOne ELSE employer[p]]
        /\ \E fewer \in 0..cohorts[c] :
            /\ fewer = Smaller(cohorts[c], count - individuals)
            /\ cohorts' = [cohorts EXCEPT ![c] = @ - fewer]

\* _lay_off: a sample of the list first, then the cohorts.
LayOff(c, pct) ==
    LET count       == Larger(1, (Headcount(c) * pct) \div 100)
        individuals == Smaller(count, OnList(c))
    IN  /\ Headcount(c) > 1
        /\ \E gone \in [People -> 0..count] :
            /\ \A p \in People : gone[p] =< employees[c][p]
            /\ MapThenSumSet(LAMBDA p : gone[p], People) = individuals
            /\ employees' = [d \in Companies |-> [p \in People |->
                                IF d = c THEN employees[d][p] - gone[p]
                                ELSE employees[d][p]]]
            /\ employment' = [p \in People |-> IF gone[p] > 0 THEN "unemployed"
                                               ELSE employment[p]]
            /\ employer' = [p \in People |-> IF gone[p] > 0 THEN NoOne ELSE employer[p]]
        /\ \E fewer \in 0..cohorts[c] :
            /\ fewer = Smaller(cohorts[c], count - individuals)
            /\ cohorts' = [cohorts EXCEPT ![c] = @ - fewer]

NextStage(now, then) == stage = now /\ stage' = then

\* Overstaffed, or cutting costs.
ShedJobs(c) ==
    /\ phase = "decisions" /\ IsNext(c)
    /\ NextStage("staffing", "strategy") \/ NextStage("strategy", "books")
    /\ \E pct \in LayOffPcts : LayOff(c, pct)
    /\ UNCHANGED <<personVars, firmVars, boardVars, phase, todo, paid, day>>

\* Nothing to do, or nobody but one to lay off.
KeepJobs(c) ==
    /\ phase = "decisions" /\ IsNext(c)
    /\ NextStage("staffing", "strategy") \/ NextStage("strategy", "books")
    /\ UNCHANGED <<personVars, jobVars, firmVars, boardVars, cohorts, phase, todo,
                   paid, day>>

\* post_opening.
Posted(c, positions) ==
    /\ openings' = openings \cup {[id        |-> nextOpening,
                                   company   |-> c,
                                   positions |-> positions,
                                   filled    |-> 0]}
    /\ nextOpening' = nextOpening + 1

\* _expand posts openings for a share of the headcount.
PostOpening(c) ==
    /\ phase = "decisions" /\ IsNext(c)
    /\ NextStage("strategy", "books")
    /\ nextOpening =< MaxOpenings
    /\ \E positions \in 1..Larger(1, Headcount(c)) :
        /\ positions = Larger(1, (Headcount(c) * HiringPct) \div 100)
        /\ Posted(c, positions)
    /\ UNCHANGED <<personVars, jobVars, firmVars, cohorts, phase, todo, paid, day>>

StayOpen(c) ==
    /\ phase = "decisions" /\ IsNext(c)
    /\ NextStage("books", "staffing")
    /\ todo' = todo \ {c}
    /\ UNCHANGED <<personVars, jobVars, firmVars, boardVars, cohorts, phase, paid, day>>

\* Mutant: the list is cleared before the loop over it.
Mutant_ClearedFirst(c) ==
    /\ phase = "decisions" /\ IsNext(c)
    /\ NextStage("books", "staffing")
    /\ todo' = todo \ {c}
    /\ bankrupt' = bankrupt \cup {c}
    /\ employees' = [employees EXCEPT ![c] = [p \in People |-> 0]]
    /\ cohorts' = [cohorts EXCEPT ![c] = 0]
    /\ UNCHANGED <<personVars, employment, employer, firms, boardVars, phase, paid, day>>

\* _bankrupt: everybody on the list is out of work.
Bankrupt(c) ==
    /\ phase = "decisions" /\ IsNext(c)
    /\ NextStage("books", "staffing")
    /\ todo' = todo \ {c}
    /\ bankrupt' = bankrupt \cup {c}
    /\ employment' = [p \in People |-> IF employees[c][p] > 0 THEN "unemployed"
                                       ELSE employment[p]]
    /\ employer' = [p \in People |-> IF employees[c][p] > 0 THEN NoOne
                                     ELSE employer[p]]
    /\ employees' = [employees EXCEPT ![c] = [p \in People |-> 0]]
    /\ cohorts' = [cohorts EXCEPT ![c] = 0]
    /\ UNCHANGED <<personVars, firms, boardVars, phase, paid, day>>
-----------------------------------------------------------------------------
(* PayrollSystem. *)

\* A firm pays its list from the front and takes the dead off it, until a wage
\* cannot be paid: what of the list was seen.
PayStaff(c) ==
    /\ phase = "payroll" /\ IsNext(c)
    /\ \E seen \in [People -> 0..OnList(c)] :
        /\ \A p \in People : seen[p] =< employees[c][p]
        /\ (\A p \in alive : seen[p] = employees[c][p]) => seen = employees[c]
        /\ employees' = [d \in Companies |-> [p \in People |->
                            IF d = c /\ p \notin alive THEN employees[d][p] - seen[p]
                            ELSE employees[d][p]]]
        /\ paid' = [p \in People |-> IF p \in alive THEN paid[p] + seen[p]
                                     ELSE paid[p]]
    /\ todo' = todo \ {c}
    /\ UNCHANGED <<personVars, employment, employer, firmVars, boardVars, cohorts,
                   phase, stage, day>>

Entitled == {p \in alive : /\ age[p] \in {"adult", "old"}
                           /\ employment[p] \in {"unemployed", "retired"}}

\* The loop over people: benefits, as far as the treasury's money goes.
PayBenefits ==
    /\ phase = "benefits"
    /\ \E supported \in SUBSET Entitled :
        paid' = [p \in People |-> IF p \in supported THEN paid[p] + 1 ELSE paid[p]]
    /\ Enter("matching",
             {p \in alive : age[p] = "adult" /\ employment[p] = "unemployed"})
    /\ UNCHANGED <<personVars, jobVars, firmVars, boardVars, cohorts, stage, day>>
-----------------------------------------------------------------------------
(* LabourMarketSystem: seekers are matched to openings as long as there    *)
(* are both; what is left of the openings is filled from the cohorts.      *)

Match(p, o) ==
    /\ phase = "matching" /\ p \in todo
    /\ IsOpen(o)
    /\ Employ(p, o.company)
    /\ Fill(o, 1)
    /\ todo' = todo \ {p}
    /\ UNCHANGED <<personVars, firmVars, nextOpening, cohorts, phase, stage, paid, day>>

\* Not skilled enough: the seeker is not looked at again today.
Mismatch(p) ==
    /\ phase = "matching" /\ p \in todo
    /\ \E o \in openings : IsOpen(o)
    /\ todo' = todo \ {p}
    /\ UNCHANGED <<personVars, jobVars, firmVars, boardVars, cohorts, phase, stage,
                   paid, day>>

\* The step's local lists go; so does what the payroll has paid.
EndMatching ==
    /\ phase = "matching"
    /\ todo = {} \/ \A o \in openings : ~IsOpen(o)
    /\ Enter("absorbing", {o.id : o \in openings})
    /\ paid' = [p \in People |-> 0]
    /\ UNCHANGED <<personVars, jobVars, firmVars, boardVars, cohorts, stage, day>>

\* Mutant: the openings of a bankrupt firm are passed over.
Mutant_StaleKept(o) ==
    /\ phase = "absorbing" /\ o \in openings /\ IsNext(o.id)
    /\ todo' = todo \ {o.id}
    /\ o.company \notin Active
    /\ UNCHANGED <<personVars, jobVars, firmVars, boardVars, cohorts, phase, stage,
                   paid, day>>

\* The openings of a bankrupt firm are taken down.
TakeDown(o) ==
    /\ phase = "absorbing" /\ o \in openings /\ IsNext(o.id)
    /\ todo' = todo \ {o.id}
    /\ o.company \notin Active
    /\ openings' = openings \ {o}
    /\ UNCHANGED <<personVars, jobVars, firmVars, nextOpening, cohorts, phase, stage,
                   paid, day>>

\* As many as the cohort has without work.
Absorb(o, taken) ==
    /\ phase = "absorbing" /\ o \in openings /\ IsNext(o.id)
    /\ todo' = todo \ {o.id}
    /\ o.company \in Active
    /\ taken =< o.positions - o.filled
    /\ cohorts' = [cohorts EXCEPT ![o.company] = @ + taken]
    /\ Fill(o, taken)
    /\ UNCHANGED <<personVars, jobVars, firmVars, nextOpening, phase, stage, paid, day>>
-----------------------------------------------------------------------------
(* DemographySystem, once a month. *)

Older(a) == CASE a = "child" -> "youth"
              [] a = "youth" -> "adult"
              [] OTHER       -> "old"

\* _die: the employer's list loses the person, who still names the employer.
Die(p) ==
    /\ phase = "demography" /\ p \in todo
    /\ alive' = alive \ {p}
    /\ todo' = todo \ {p}
    /\ employees' = StruckOff(p)
    /\ UNCHANGED <<born, age, employment, employer, firmVars, boardVars, cohorts,
                   phase, stage, paid, day>>

\* Mutant: who retires stays on the list.
Mutant_RetireListed(p, years) ==
    /\ phase = "demography" /\ p \in todo
    /\ years = "old" /\ employment[p] \in OnStaff
    /\ age' = [age EXCEPT ![p] = years]
    /\ employment' = [employment EXCEPT ![p] = "retired"]
    /\ employer' = [employer EXCEPT ![p] = NoOne]
    /\ todo' = todo \ {p}
    /\ UNCHANGED <<born, alive, employees, firmVars, boardVars, cohorts, phase, stage,
                   paid, day>>

Retire(p, years) ==
    /\ phase = "demography" /\ p \in todo
    /\ years = "old" /\ employment[p] \in OnStaff
    /\ age' = [age EXCEPT ![p] = years]
    /\ employment' = [employment EXCEPT ![p] = "retired"]
    /\ employees' = StruckOff(p)
    /\ employer' = [employer EXCEPT ![p] = NoOne]
    /\ todo' = todo \ {p}
    /\ UNCHANGED <<born, alive, firmVars, boardVars, cohorts, phase, stage, paid, day>>

\* A child of eighteen looks for work; a mother may give birth to the next one.
GrowOlder(p, years, children) ==
    /\ phase = "demography" /\ p \in todo
    /\ ~(years = "old" /\ employment[p] \in OnStaff)
    /\ age' = [age EXCEPT ![p] = years]
    /\ employment' = IF employment[p] = "child" /\ years \in {"adult", "old"}
                     THEN [employment EXCEPT ![p] = "unemployed"] ELSE employment
    /\ children = {} \/ years = "adult"
    /\ born' = born \cup children
    /\ alive' = alive \cup children
    /\ todo' = todo \ {p}
    /\ UNCHANGED <<employer, employees, firmVars, boardVars, cohorts, phase, stage,
                   paid, day>>
-----------------------------------------------------------------------------
\* The kernel goes on to the next system that is due; demography is due once a
\* month.
NextSystem ==
    /\ todo = {}
    /\ \/ phase = "decisions" /\ Enter("payroll", Active)
       \/ phase = "payroll" /\ Enter("benefits", {})
       \/ phase = "absorbing" /\ Enter("demography", alive)
       \/ phase \in {"absorbing", "demography"} /\ Enter("agents", {})
    /\ UNCHANGED <<personVars, jobVars, firmVars, boardVars, cohorts, stage, paid, day>>

\* At most one child of a mother in a month.
Births == {{}} \cup {{child} : child \in People \ born}

Next ==
    \/ \E p \in People, o \in openings : Apply(p, o)
    \/ \E p \in People, c \in Companies : FoundCompany(p, c)
    \/ EndAgents
    \/ \E c \in Companies : ShedJobs(c)
    \/ \E c \in Companies : KeepJobs(c)
    \/ \E c \in Companies : PostOpening(c)
    \/ \E c \in Companies : StayOpen(c)
    \/ \E c \in Companies : Bankrupt(c)
    \/ \E c \in Companies : PayStaff(c)
    \/ PayBenefits
    \/ \E p \in People, o \in openings : Match(p, o)
    \/ \E p \in People : Mismatch(p)
    \/ EndMatching
    \/ \E o \in openings : TakeDown(o)
    \/ \E o \in openings : \E taken \in 0..o.positions : Absorb(o, taken)
    \/ \E p \in People : Die(p)
    \/ \E p \in People, years \in Ages :
        years \in {age[p], Older(age[p])} /\ Retire(p, years)
    \/ \E p \in People, years \in Ages, children \in Births :
        years \in {age[p], Older(age[p])} /\ GrowOlder(p, years, children)
    \/ NextSystem

Spec == Init /\ [][Next]_vars
-----------------------------------------------------------------------------
\* Whoever is employed has an employer that is still there and that lists and
\* pays them, even one whom genesis put on two lists and whom the other firm lays
\* off, winds up or buries; only a founder can be left with a firm that is gone.
WorkersAreListed ==
    \A p \in alive :
        /\ employment[p] = "employed" =>
            employer[p] \in Active /\ employees[employer[p]][p] > 0
        /\ employer[p] \in bankrupt => employment[p] = "self_employed"

\* A person genesis did not put on two lists is on one list at most and once:
\* the employer's, for as long as they live and work there.
OnePayroll ==
    \A p \in People \ DoubleBooked, c \in Companies :
        employees[c][p] =
            IF /\ p \in alive /\ employment[p] \in OnStaff
               /\ employer[p] = c THEN 1 ELSE 0

\* One payroll pays such a person once: one wage, or one benefit, never two
\* wages and never a wage and a benefit.  The wages go by the firms' lists and
\* the benefits by the person's own record.
PaidOnce == \A p \in People \ DoubleBooked : paid[p] =< 1

\* The openings residents see while they act are those of firms that are there,
\* although bankruptcies leave theirs on the board: the labour market clears it
\* before the day is over.
NoStaleOpening ==
    phase \in {"agents", "demography"} => \A o \in openings : o.company \in Active
=============================================================================
