------------------------------ MODULE Residents ------------------------------
(***************************************************************************)
(* A month of the residents: HousingSystem collects the rent, and             *)
(* DemographySystem takes every person, then every cohort, through death,     *)
(* birth and ageing, and lets cohorts move.  Who can pay, who dies, who has a  *)
(* child and whether a cohort moves is chosen freely.                         *)
(***************************************************************************)
EXTENDS Integers, FiniteSets, Sequences

CONSTANTS
    Founders,       \* the people of genesis are 1..Founders, all others are born
    MaxPeople,      \* bound of the model on people ever
    Households, FirstHome, \* FirstHome[p]: the household of a founder
    Mothers,        \* founders who may have children
    Friends,        \* ties between founders of different households
    Nobody,
    Rents,          \* what the price of housing may be
    Cohorts,        \* the ids in order
    FirstSize,
    BirthParts, DeathParts, \* what a head adds to the fractions of its cohort in a month
    Children, NextBand, \* the cohort the births, the next band the grown-ups go to, or Nobody
    Alike,          \* Alike[c]: cohorts of the same bands in other districts
    BandYears,      \* BandYears[c]: years of the age band
    Unit,           \* parts a person has in the fractions of a cohort
    MoveShare,      \* one in so many may move in a month
    MonthsPerYear, LastMonth    \* the latter is a bound of the model

CohortSet == {Cohorts[i] : i \in 1..Len(Cohorts)}
Persons == 1..MaxPeople

ASSUME ResidentsAssumption ==
    /\ {Founders, MaxPeople, Unit, MoveShare, MonthsPerYear, LastMonth} \subseteq Nat \ {0}
    /\ Founders <= MaxPeople
    /\ FirstHome \in [1..Founders -> Households] /\ Mothers \subseteq 1..Founders
    /\ Friends \subseteq (1..Founders) \X (1..Founders)
    /\ Rents \subseteq Nat \ {0}
    /\ Cohorts \in Seq(CohortSet)
    /\ \A i, j \in 1..Len(Cohorts) : Cohorts[i] = Cohorts[j] => i = j
    /\ Nobody \notin CohortSet
    /\ {FirstSize, BirthParts, DeathParts} \subseteq [CohortSet -> Nat]
    /\ {Children, NextBand} \subseteq [CohortSet -> CohortSet \cup {Nobody}]
    /\ Alike \in [CohortSet -> SUBSET CohortSet]
    /\ \A c \in CohortSet : c \notin {Children[c], NextBand[c]} /\ c \notin Alike[c]
    /\ BandYears \in [CohortSet -> Nat \ {0}]

VARIABLES
    living,     \* AgentsState.people that live
    bornSoFar,  \* AgentsState.next_person_index
    home,       \* Person.household_id
    members, represented, arrears, evicted, \* of each Household
    ties,       \* SocialState.edges that are active
    size, births, deaths,   \* of each Cohort, the fractions in parts of a person
    turn, month,
    remaining,  \* the people, then the cohorts this month's step has still to take
    mother,     \* history: whose child a person is
    missed, paidLast,       \* history: rents a household did not pay; it paid the last one
    cohortBorn, cohortDied  \* history

householdVars == <<members, represented, arrears, evicted, missed, paidLast>>
peopleVars == <<living, bornSoFar, home, ties, mother>>
cohortVars == <<size, births, deaths, cohortBorn, cohortDied>>
residentsVars == <<householdVars, peopleVars, cohortVars, turn, month, remaining>>

Bands == 1..Len(Cohorts)

\* The types of the state.
ResidentsTypeOK ==
    /\ living \subseteq 1..bornSoFar /\ bornSoFar \in Founders..MaxPeople
    /\ home \in [1..bornSoFar -> Households]
    /\ members \in [Households -> SUBSET Persons]
    /\ represented \in [Households -> Nat] /\ arrears \in [Households -> Nat]
    /\ evicted \in [Households -> BOOLEAN]
    /\ ties \subseteq (1..bornSoFar) \X (1..bornSoFar)
    /\ size \in [CohortSet -> Nat]
    /\ births \in [CohortSet -> 0..(Unit - 1)] /\ deaths \in [CohortSet -> 0..(Unit - 1)]
    /\ turn \in {"rent", "people", "cohorts", "migration"} /\ month \in 1..LastMonth
    /\ remaining \subseteq Persons \cup Bands
    /\ mother \in [1..bornSoFar -> 0..MaxPeople]
    /\ missed \in [Households -> Nat] /\ paidLast \in [Households -> BOOLEAN]
    /\ cohortBorn \in Nat /\ cohortDied \in Nat

FirstMembers(h) == {p \in 1..Founders : FirstHome[p] = h}

\* genesis _build_individuals, _build_cohorts and _wire_social_graph.
ResidentsInit ==
    /\ living = 1..Founders /\ bornSoFar = Founders /\ home = FirstHome
    /\ members = [h \in Households |-> FirstMembers(h)]
    /\ represented = [h \in Households |-> Cardinality(FirstMembers(h))]
    /\ arrears = [h \in Households |-> 0] /\ evicted = [h \in Households |-> FALSE]
    /\ ties = Friends \cup {t \in (1..Founders) \X (1..Founders) :
                               t[1] # t[2] /\ FirstHome[t[1]] = FirstHome[t[2]]}
    /\ size = FirstSize
    /\ births = [c \in CohortSet |-> 0] /\ deaths = [c \in CohortSet |-> 0]
    /\ turn = "rent" /\ month = 1 /\ remaining = {}
    /\ mother = [p \in 1..Founders |-> 0]
    /\ missed = [h \in Households |-> 0] /\ paidLast = [h \in Households |-> TRUE]
    /\ cohortBorn = 0 /\ cohortDied = 0

-----------------------------------------------------------------------------
(* Rent.                                                                   *)

\* Mutant: any rent that is owed is enough.
Mutant_Evicts(owed, cost) == owed >= cost

Evicts(owed, cost) == owed > 3 * cost

\* Household.evicted after a rent: cleared by any payment, whatever is still owed.
OutAfter(wasOut, pays, owed, cost) == ~pays /\ (wasOut \/ Evicts(owed, cost))

\* HousingSystem.step on the first of the month, for every household, the empty
\* ones too.  A quarter of a rent that is paid is taken off what was owed.
Rent ==
    /\ turn = "rent"
    /\ \E price \in Rents, paying \in SUBSET Households :
        LET cost == [h \in Households |-> (price * (7 + 3 * represented[h])) \div 10]
            left == [h \in Households |-> arrears[h] - cost[h] \div 4]
            owed == [h \in Households |->
                        IF h \notin paying THEN arrears[h] + cost[h]
                        ELSE IF left[h] > 0 THEN left[h] ELSE 0]
        IN  /\ arrears' = owed
            /\ evicted' = [h \in Households |->
                              OutAfter(evicted[h], h \in paying, owed[h], cost[h])]
            /\ missed' = [h \in Households |-> IF h \in paying THEN missed[h] ELSE missed[h] + 1]
            /\ paidLast' = [h \in Households |-> h \in paying]
    /\ turn' = "people" /\ remaining' = living
    /\ UNCHANGED <<members, represented, peopleVars, cohortVars, month>>

-----------------------------------------------------------------------------
(* DemographySystem, person by person.                                     *)

IsDue(x) == x \in remaining /\ \A y \in remaining : x <= y
Done(x) == remaining' = remaining \ {x}

Left(staying, p) == staying \ {p}

\* Mutant: the edges to the dead are closed, not theirs.
Mutant_Closed(edges, p) == {t \in edges : t[2] # p}

\* SocialState.neighbours gives the edges that start at p.
Closed(edges, p) == {t \in edges : t[1] # p}

\* _die.
PersonDies(p) ==
    /\ turn = "people" /\ IsDue(p) /\ Done(p)
    /\ living' = living \ {p}
    /\ members' = [members EXCEPT ![home[p]] = Left(@, p)]
    /\ ties' = Closed(ties, p)
    /\ UNCHANGED <<bornSoFar, home, mother, represented, arrears, evicted, missed, paidLast,
                   cohortVars, turn, month>>

LiveOn(p) ==
    /\ turn = "people" /\ IsDue(p) /\ Done(p)
    /\ UNCHANGED <<householdVars, peopleVars, cohortVars, turn, month>>

\* _give_birth.
GiveBirth(p) ==
    LET child == bornSoFar + 1
        h     == home[p]
    IN  /\ turn = "people" /\ IsDue(p) /\ Done(p)
        /\ p \in Mothers /\ bornSoFar < MaxPeople
        /\ bornSoFar' = child /\ living' = living \cup {child}
        /\ home' = [q \in 1..child |-> IF q = child THEN h ELSE home[q]]
        /\ mother' = [q \in 1..child |-> IF q = child THEN p ELSE mother[q]]
        /\ members' = [members EXCEPT ![h] = @ \cup {child}]
        /\ represented' = [represented EXCEPT ![h] = Cardinality(members[h] \cup {child})]
        /\ ties' = ties \cup {<<p, child>>, <<child, p>>}
        /\ UNCHANGED <<arrears, evicted, missed, paidLast, cohortVars, turn, month>>

EndPeople ==
    /\ turn = "people" /\ remaining = {}
    /\ turn' = "cohorts" /\ remaining' = Bands
    /\ UNCHANGED <<householdVars, peopleVars, cohortVars, month>>

-----------------------------------------------------------------------------
(* DemographySystem, cohort by cohort.                                     *)

\* Who of a cohort is old enough for the next band, in January.
Grown(c, people) ==
    IF NextBand[c] # Nobody /\ month % MonthsPerYear = 1 % MonthsPerYear
    THEN people \div BandYears[c] ELSE 0

\* Mutant: those who grow up stay in the band they leave.
Mutant_Moved(from, to, n) == IF to = Nobody THEN size ELSE [size EXCEPT ![to] = @ + n]

Moved(from, to, n) == IF to = Nobody THEN size ELSE [size EXCEPT ![from] = @ - n, ![to] = @ + n]

\* _cohort_dynamics: whole people come out of the fractions.  Births of a cohort
\* that has no cohort of children are lost.
CohortMonth(i) ==
    LET c == Cohorts[i]
    IN  /\ turn = "cohorts" /\ IsDue(i) /\ Done(i)
        /\ IF size[c] = 0 THEN UNCHANGED cohortVars
           ELSE
              LET unborn  == births[c] + size[c] * BirthParts[c]
                  dying   == deaths[c] + size[c] * DeathParts[c]
                  newborn == unborn \div Unit
                  dead    == dying \div Unit
                  left    == IF dead > size[c] THEN 0 ELSE size[c] - dead
                  grown   == Grown(c, left)
                  moved   == Moved(c, NextBand[c], grown)
              IN  /\ births' = [births EXCEPT ![c] = unborn % Unit]
                  /\ deaths' = [deaths EXCEPT ![c] = dying % Unit]
                  /\ size' = [d \in CohortSet |->
                        moved[d] - (IF d = c THEN size[c] - left ELSE 0)
                                 + (IF d = Children[c] THEN newborn ELSE 0)]
                  /\ cohortDied' = cohortDied + (size[c] - left)
                  /\ cohortBorn' = IF Children[c] = Nobody THEN cohortBorn ELSE cohortBorn + newborn
        /\ UNCHANGED <<householdVars, peopleVars, turn, month>>

EndCohorts ==
    /\ turn = "cohorts" /\ remaining = {}
    /\ turn' = "migration" /\ remaining' = Bands
    /\ UNCHANGED <<householdVars, peopleVars, cohortVars, month>>

\* _migration: some leave for a cohort of their kind in another district, or none do.
Migrate(i) ==
    LET c == Cohorts[i]
    IN  /\ turn = "migration" /\ IsDue(i) /\ Done(i)
        /\ \/ UNCHANGED size
           \/ \E to \in Alike[c], movers \in 1..(size[c] \div MoveShare) :
                size' = Moved(c, to, movers)
        /\ UNCHANGED <<householdVars, peopleVars, births, deaths, cohortBorn, cohortDied,
                       turn, month>>

EndMonth ==
    /\ turn = "migration" /\ remaining = {} /\ month < LastMonth
    /\ turn' = "rent" /\ month' = month + 1
    /\ UNCHANGED <<householdVars, peopleVars, cohortVars, remaining>>

ResidentsNext ==
    \/ Rent \/ EndPeople \/ EndCohorts \/ EndMonth
    \/ \E p \in Persons : PersonDies(p) \/ LiveOn(p) \/ GiveBirth(p)
    \/ \E i \in Bands : CohortMonth(i) \/ Migrate(i)

ResidentsSpec == ResidentsInit /\ [][ResidentsNext]_residentsVars

-----------------------------------------------------------------------------
(* What must hold.                                                         *)

\* A household's list of members is who lives there, and nobody hears from the
\* dead: no tie that starts at one is active.
TheDeadAreGone ==
    /\ \A h \in Households : members[h] = {p \in living : home[p] = h}
    /\ \A t \in ties : t[1] \in living

\* A child that lives is at home where its mother is, and is still tied to her.
ChildrenAreKept ==
    \A p \in living : mother[p] # 0 =>
        /\ home[p] = home[mother[p]]
        /\ <<p, mother[p]>> \in ties
        /\ mother[p] \in living => <<mother[p], p>> \in ties

\* Through births and deaths, homes and families stay what they are.
FamiliesAreTrue == TheDeadAreGone /\ ChildrenAreKept

\* Nobody is evicted over one rent, and who pays is not evicted.
EvictionIsEarned ==
    \A h \in Households : evicted[h] => missed[h] >= 2 /\ ~paidLast[h]

\* How many heads all cohorts have.
Heads(sizes) ==
    LET upTo[i \in 0..Len(Cohorts)] == IF i = 0 THEN 0 ELSE upTo[i - 1] + sizes[Cohorts[i]]
    IN  upTo[Len(Cohorts)]

\* Growing up and moving house neither makes people nor loses any.
NobodyIsLost == Heads(size) = Heads(FirstSize) + cohortBorn - cohortDied
=============================================================================
