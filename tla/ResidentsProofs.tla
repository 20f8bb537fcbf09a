-------------------------- MODULE ResidentsProofs ----------------------------
(***************************************************************************)
(* Proofs about Residents, for any founders, households, ties, rents and     *)
(* cohorts that ResidentsAssumption allows, and any number of months:         *)
(*   TypesKept          ResidentsSpec => []ResidentsTypeOK                 *)
(*   FamiliesStayTrue   ResidentsSpec => []FamiliesAreTrue                 *)
(*   EvictionsAreEarned ResidentsSpec => []EvictionIsEarned                *)
(*   NobodyGetsLost     ResidentsSpec => []NobodyIsLost                    *)
(***************************************************************************)
EXTENDS Residents, FiniteSetTheorems, WellFoundedInduction, TLAPS

\* Only the living are visited, and mothers are people.
VisitsTheLiving == turn = "people" => remaining \subseteq living

MothersAreBorn == \A p \in 1..bornSoFar : mother[p] \in 0..bornSoFar

\* Who has not missed a rent owes nothing.
DebtIsMissedRent == \A h \in Households : missed[h] = 0 => arrears[h] = 0

FInv == VisitsTheLiving /\ MothersAreBorn /\ FamiliesAreTrue

EInv == DebtIsMissedRent /\ EvictionIsEarned

-----------------------------------------------------------------------------
(* Types.                                                                  *)

HouseholdsTyped ==
    /\ members \in [Households -> SUBSET Persons]
    /\ represented \in [Households -> Nat] /\ arrears \in [Households -> Nat]
    /\ evicted \in [Households -> BOOLEAN]
    /\ missed \in [Households -> Nat] /\ paidLast \in [Households -> BOOLEAN]

PersonsTyped ==
    /\ living \subseteq 1..bornSoFar /\ bornSoFar \in Founders..MaxPeople
    /\ home \in [1..bornSoFar -> Households]
    /\ ties \subseteq (1..bornSoFar) \X (1..bornSoFar)
    /\ mother \in [1..bornSoFar -> 0..MaxPeople]

CohortsTyped ==
    /\ size \in [CohortSet -> Nat]
    /\ births \in [CohortSet -> 0..(Unit - 1)] /\ deaths \in [CohortSet -> 0..(Unit - 1)]
    /\ cohortBorn \in Nat /\ cohortDied \in Nat

LoopTyped ==
    /\ turn \in {"rent", "people", "cohorts", "migration"} /\ month \in 1..LastMonth
    /\ remaining \subseteq Persons \cup Bands

LEMMA TypedParts == ResidentsTypeOK <=> HouseholdsTyped /\ PersonsTyped /\ CohortsTyped /\ LoopTyped
BY DEF ResidentsTypeOK, HouseholdsTyped, PersonsTyped, CohortsTyped, LoopTyped

LEMMA TypedAfter == HouseholdsTyped' /\ PersonsTyped' /\ CohortsTyped' /\ LoopTyped' => ResidentsTypeOK'
BY DEF ResidentsTypeOK, HouseholdsTyped, PersonsTyped, CohortsTyped, LoopTyped

LEMMA ProductIsNat == ASSUME NEW a \in Nat, NEW b \in Nat PROVE a * b \in Nat
OBVIOUS

LEMMA QuotientIsPart == ASSUME NEW a \in Nat, NEW b \in Nat \ {0} PROVE a \div b \in 0..a
OBVIOUS

LEMMA MembersAreFinite == ASSUME NEW s \in SUBSET Persons PROVE Cardinality(s) \in Nat
<1>1. IsFiniteSet(Persons)
  BY FS_Interval, ResidentsAssumption DEF Persons
<1> QED
  BY <1>1, FS_Subset, FS_CardinalityType

LEMMA InitTyped == ASSUME ResidentsInit PROVE ResidentsTypeOK
<1>1. HouseholdsTyped
  <2>1. \A h \in Households : FirstMembers(h) \in SUBSET Persons
    BY ResidentsAssumption DEF FirstMembers, Persons
  <2>2. \A h \in Households : Cardinality(FirstMembers(h)) \in Nat
    BY <2>1, MembersAreFinite
  <2> QED
    BY <2>1, <2>2 DEF ResidentsInit, HouseholdsTyped
<1>2. PersonsTyped
  BY ResidentsAssumption DEF ResidentsInit, PersonsTyped
<1>3. CohortsTyped
  BY ResidentsAssumption DEF ResidentsInit, CohortsTyped
<1>4. LoopTyped
  BY ResidentsAssumption DEF ResidentsInit, LoopTyped
<1> QED
  BY <1>1, <1>2, <1>3, <1>4, TypedParts

LEMMA RentTyped == ASSUME ResidentsTypeOK, Rent PROVE ResidentsTypeOK'
<1>t. HouseholdsTyped /\ PersonsTyped /\ CohortsTyped /\ LoopTyped
  BY TypedParts
<1>1. PICK price \in Rents, paying \in SUBSET Households :
        LET cost == [h \in Households |-> (price * (7 + 3 * represented[h])) \div 10]
            left == [h \in Households |-> arrears[h] - cost[h] \div 4]
            owed == [h \in Households |->
                        IF h \notin paying THEN arrears[h] + cost[h]
                        ELSE IF left[h] > 0 THEN left[h] ELSE 0]
        IN  /\ arrears' = owed
            /\ evicted' = [h \in Households |->
                              OutAfter(evicted[h], h \in paying, owed[h], cost[h])]
            /\ missed' = [h \in Households |-> IF h \in paying THEN missed[h] ELSE missed[h] + 1]
            /\ paidLast' = [h \in Households |-> h \in paying]
  BY DEF Rent
<1>2. \A h \in Households : (price * (7 + 3 * represented[h])) \div 10 \in Nat
  <2> SUFFICES ASSUME NEW h \in Households PROVE (price * (7 + 3 * represented[h])) \div 10 \in Nat
    OBVIOUS
  <2>1. price \in Nat /\ 7 + 3 * represented[h] \in Nat
    BY <1>t, ResidentsAssumption DEF HouseholdsTyped
  <2>2. price * (7 + 3 * represented[h]) \in Nat
    BY <2>1, ProductIsNat
  <2> QED
    BY <2>2
<1>3. arrears' \in [Households -> Nat] /\ missed' \in [Households -> Nat]
  BY <1>t, <1>1, <1>2 DEF HouseholdsTyped
<1>4. evicted' \in [Households -> BOOLEAN] /\ paidLast' \in [Households -> BOOLEAN]
  BY <1>1 DEF OutAfter
<1>5. HouseholdsTyped'
  BY <1>t, <1>3, <1>4 DEF Rent, HouseholdsTyped
<1>6. PersonsTyped' /\ CohortsTyped'
  BY <1>t DEF Rent, PersonsTyped, CohortsTyped, peopleVars, cohortVars
<1>7. LoopTyped'
  BY <1>t, ResidentsAssumption DEF Rent, LoopTyped, PersonsTyped, Persons
<1> QED
  BY <1>5, <1>6, <1>7, TypedAfter

LEMMA PersonTyped ==
  ASSUME ResidentsTypeOK, NEW p \in Persons, PersonDies(p) \/ LiveOn(p) \/ GiveBirth(p) PROVE ResidentsTypeOK'
<1>t. HouseholdsTyped /\ PersonsTyped /\ CohortsTyped /\ LoopTyped
  BY TypedParts
<1>1. CohortsTyped' /\ LoopTyped'
  BY <1>t DEF PersonDies, LiveOn, GiveBirth, Done, CohortsTyped, LoopTyped, cohortVars
<1>2. CASE PersonDies(p)
  <2>1. HouseholdsTyped'
    BY <1>t, <1>2 DEF PersonDies, Left, HouseholdsTyped
  <2>2. PersonsTyped'
    BY <1>t, <1>2 DEF PersonDies, Closed, PersonsTyped
  <2> QED
    BY <1>1, <2>1, <2>2, TypedAfter
<1>3. CASE LiveOn(p)
  BY <1>t, <1>1, <1>3, TypedAfter DEF LiveOn, HouseholdsTyped, PersonsTyped,
     householdVars, peopleVars
<1>4. CASE GiveBirth(p)
  <2>1. /\ p \in 1..bornSoFar /\ bornSoFar + 1 \in Founders..MaxPeople /\ bornSoFar + 1 \in Persons
        /\ 1..bornSoFar \subseteq 1..(bornSoFar + 1) /\ home[p] \in Households
    BY <1>t, <1>4, ResidentsAssumption DEF GiveBirth, PersonsTyped, Persons
  <2>2. members[home[p]] \cup {bornSoFar + 1} \in SUBSET Persons
    BY <1>t, <2>1 DEF HouseholdsTyped
  <2>3. Cardinality(members[home[p]] \cup {bornSoFar + 1}) \in Nat
    BY <2>2, MembersAreFinite
  <2>4. HouseholdsTyped'
    BY <1>t, <1>4, <2>2, <2>3 DEF GiveBirth, HouseholdsTyped
  <2>5. PersonsTyped'
    BY <1>t, <1>4, <2>1 DEF GiveBirth, PersonsTyped, Persons
  <2> QED
    BY <1>1, <2>4, <2>5, TypedAfter
<1> QED
  BY <1>2, <1>3, <1>4

LEMMA MigrateTyped == ASSUME ResidentsTypeOK, NEW i \in Bands, Migrate(i) PROVE ResidentsTypeOK'
<1> DEFINE c == Cohorts[i]
<1>t. HouseholdsTyped /\ PersonsTyped /\ CohortsTyped /\ LoopTyped
  BY TypedParts
<1>1. HouseholdsTyped' /\ PersonsTyped' /\ LoopTyped'
  BY <1>t DEF Migrate, Done, HouseholdsTyped, PersonsTyped, LoopTyped, householdVars,
     peopleVars
<1>2. size' \in [CohortSet -> Nat]
  <2>1. CASE UNCHANGED size
    BY <1>t, <2>1 DEF CohortsTyped
  <2>2. ASSUME NEW to \in Alike[c], NEW movers \in 1..(size[c] \div MoveShare),
               size' = Moved(c, to, movers)
        PROVE  size' \in [CohortSet -> Nat]
    <3>1. c \in CohortSet /\ to \in CohortSet /\ to # Nobody /\ size[c] \in Nat
      BY <1>t, ResidentsAssumption DEF CohortSet, Bands, CohortsTyped
    <3>2. size[c] \div MoveShare \in 0..size[c]
      BY <3>1, QuotientIsPart, ResidentsAssumption
    <3>3. movers \in Nat /\ size[c] - movers \in Nat
      BY <3>1, <3>2
    <3> QED
      BY <1>t, <2>2, <3>1, <3>3 DEF Moved, CohortsTyped
  <2> QED
    BY <2>1, <2>2 DEF Migrate
<1>3. CohortsTyped'
  BY <1>t, <1>2 DEF Migrate, CohortsTyped
<1> QED
  BY <1>1, <1>3, TypedAfter

\* What a month does to a cohort: newborn are born to it, left are left of it, and
\* grown of those go to the next band.
MonthGoes(c, newborn, left, grown) ==
    /\ size' = [d \in CohortSet |->
          Moved(c, NextBand[c], grown)[d] - (IF d = c THEN size[c] - left ELSE 0)
             + (IF d = Children[c] THEN newborn ELSE 0)]
    /\ cohortDied' = cohortDied + (size[c] - left)
    /\ cohortBorn' = IF Children[c] = Nobody THEN cohortBorn ELSE cohortBorn + newborn

\* A month of a cohort, with numbers of people that make sense.
LEMMA CohortMonthIs ==
    ASSUME ResidentsTypeOK, NEW i \in Bands, CohortMonth(i), ~UNCHANGED cohortVars,
           NEW c, c = Cohorts[i]
    PROVE  /\ c \in CohortSet
           /\ births' \in [CohortSet -> 0..(Unit - 1)]
           /\ deaths' \in [CohortSet -> 0..(Unit - 1)]
           /\ \E newborn \in Nat, left \in 0..size[c] : \E grown \in 0..left :
                 MonthGoes(c, newborn, left, grown)
<1>t. HouseholdsTyped /\ PersonsTyped /\ CohortsTyped /\ LoopTyped
  BY TypedParts
<1>1. /\ c \in CohortSet /\ size[c] \in Nat /\ births[c] \in Nat /\ deaths[c] \in Nat
      /\ BirthParts[c] \in Nat /\ DeathParts[c] \in Nat /\ Unit \in Nat \ {0}
      /\ BandYears[c] \in Nat \ {0}
  <2>1. c \in CohortSet
    BY DEF CohortSet, Bands
  <2>2. size[c] \in Nat /\ births[c] \in 0..(Unit - 1) /\ deaths[c] \in 0..(Unit - 1)
    BY <1>t, <2>1 DEF CohortsTyped
  <2>3. BirthParts[c] \in Nat /\ DeathParts[c] \in Nat
    <3>1. BirthParts \in [CohortSet -> Nat] /\ DeathParts \in [CohortSet -> Nat]
      BY ResidentsAssumption
    <3> QED
      BY <2>1, <3>1
  <2>4. Unit \in Nat \ {0} /\ BandYears[c] \in Nat \ {0}
    BY <2>1, ResidentsAssumption
  <2> QED
    BY <2>1, <2>2, <2>3, <2>4
<1>2. PICK unborn \in Nat, dying \in Nat :
        /\ unborn = births[c] + size[c] * BirthParts[c]
        /\ dying = deaths[c] + size[c] * DeathParts[c]
  <2>1. size[c] * BirthParts[c] \in Nat /\ size[c] * DeathParts[c] \in Nat
    BY <1>1, ProductIsNat
  <2> QED
    BY <1>1, <2>1
<1>3. /\ unborn \div Unit \in Nat /\ dying \div Unit \in Nat
      /\ unborn % Unit \in 0..(Unit - 1) /\ dying % Unit \in 0..(Unit - 1)
  BY <1>1
<1>4. PICK newborn \in Nat, dead \in Nat : newborn = unborn \div Unit /\ dead = dying \div Unit
  BY <1>3
<1>5. PICK left \in 0..size[c] : left = IF dead > size[c] THEN 0 ELSE size[c] - dead
  BY <1>1, <1>4
<1>6. PICK grown \in 0..left : grown = Grown(c, left)
  <2>1. left \div BandYears[c] \in 0..left
    BY <1>1, <1>5, QuotientIsPart
  <2> QED
    BY <1>5, <2>1 DEF Grown
<1>7. /\ births' = [births EXCEPT ![c] = unborn % Unit]
      /\ deaths' = [deaths EXCEPT ![c] = dying % Unit]
      /\ MonthGoes(c, newborn, left, grown)
  BY <1>2, <1>4, <1>5, <1>6 DEF CohortMonth, MonthGoes
<1>8. births' \in [CohortSet -> 0..(Unit - 1)] /\ deaths' \in [CohortSet -> 0..(Unit - 1)]
  BY <1>t, <1>3, <1>7 DEF CohortsTyped
<1> QED
  BY <1>1, <1>7, <1>8

-----------------------------------------------------------------------------
(* Heads.                                                                  *)

\* Induction on the natural numbers, for a set: the theorems of the library take a
\* predicate as a parameter.
LEMMA SetInduction ==
    ASSUME NEW T, 0 \in T, \A n \in Nat : n \in T => n + 1 \in T
    PROVE  Nat \subseteq T
<1>1. SUFFICES ASSUME Nat \ T # {} PROVE FALSE
  OBVIOUS
<1> DEFINE Below == OpToRel(<, Nat)
<1>2. IsWellFoundedOn(Below, Nat)
  BY NatLessThanWellFounded
<1>3. \A i, j : <<i, j>> \in Below <=> i \in Nat /\ j \in Nat /\ i < j
  BY DEF OpToRel
<1> HIDE DEF Below
<1>4. Nat \ T \subseteq Nat /\ Nat \ T # {}
  BY <1>1
<1>5. \E m \in Nat \ T : \A k \in Nat \ T : ~ (<<k, m>> \in Below)
  BY <1>2, <1>4, WFMin, Zenon
<1>6. PICK m \in Nat \ T : \A k \in Nat \ T : ~ (<<k, m>> \in Below)
  BY <1>5
<1>7. m # 0 /\ m - 1 \in Nat /\ (m - 1) + 1 = m /\ m - 1 < m
  OBVIOUS
<1>8. m - 1 \in T
  BY <1>3, <1>6, <1>7
<1> QED
  BY <1>6, <1>7, <1>8

\* The heads of the cohorts up to each.
UpTo(g, f) == g = [i \in 0..Len(Cohorts) |-> IF i = 0 THEN 0 ELSE g[i - 1] + f[Cohorts[i]]]

LEMMA CohortsAre ==
    /\ Len(Cohorts) \in Nat
    /\ \A i \in 1..Len(Cohorts) : Cohorts[i] \in CohortSet
    /\ \A c \in CohortSet : \E i \in 1..Len(Cohorts) : Cohorts[i] = c
    /\ \A i, j \in 1..Len(Cohorts) : Cohorts[i] = Cohorts[j] => i = j
BY ResidentsAssumption DEF CohortSet

\* There is one way to count them.
LEMMA HeadsCount ==
    ASSUME NEW f \in [CohortSet -> Int]
    PROVE  \E g \in [0..Len(Cohorts) -> Int] :
            /\ g[0] = 0 /\ \A i \in 1..Len(Cohorts) : g[i] = g[i - 1] + f[Cohorts[i]]
            /\ Heads(f) = g[Len(Cohorts)]
<1>1. PICK L \in Nat : L = Len(Cohorts)
  BY CohortsAre
<1> DEFINE Adds(g, n) == g[0] = 0 /\ \A i \in 1..L : i <= n => g[i] = g[i - 1] + f[Cohorts[i]]
           T == {n \in Nat : \E g \in [0..L -> Int] : Adds(g, n)}
<1>2. 0 \in T
  <2>1. [i \in 0..L |-> 0] \in [0..L -> Int] /\ Adds([i \in 0..L |-> 0], 0)
    OBVIOUS
  <2> QED
    BY <2>1
<1>3. ASSUME NEW n \in Nat, n \in T PROVE n + 1 \in T
  <2>1. PICK g \in [0..L -> Int] : Adds(g, n)
    BY <1>3
  <2>2. CASE n + 1 > L
    <3>1. Adds(g, n + 1)
      BY <2>1, <2>2
    <3> QED
      BY <3>1
  <2>3. CASE n + 1 <= L
    <3> DEFINE h == [g EXCEPT ![n + 1] = g[n] + f[Cohorts[n + 1]]]
    <3>1. n \in 0..L /\ n + 1 \in 1..L /\ n + 1 \in 0..L
      BY <2>3
    <3>2. g[n] + f[Cohorts[n + 1]] \in Int
      BY <1>1, <3>1, CohortsAre
    <3>3. h \in [0..L -> Int] /\ h[n + 1] = g[n] + f[Cohorts[n + 1]]
          /\ \A i \in 0..L : i # n + 1 => h[i] = g[i]
      BY <3>1, <3>2
    <3> HIDE DEF h
    <3>4. Adds(h, n + 1)
      <4>1. h[0] = 0
        BY <2>1, <3>3
      <4>2. ASSUME NEW i \in 1..L, i <= n + 1 PROVE h[i] = h[i - 1] + f[Cohorts[i]]
        <5>1. i - 1 \in 0..L /\ i - 1 # n + 1 /\ i \in 0..L
          BY <4>2
        <5>2. h[i - 1] = g[i - 1]
          BY <3>3, <5>1
        <5>3. CASE i = n + 1
          BY <3>3, <5>2, <5>3
        <5>4. CASE i # n + 1
          BY <2>1, <3>3, <4>2, <5>1, <5>2, <5>4
        <5> QED
          BY <5>3, <5>4
      <4> QED
        BY <4>1, <4>2
    <3> HIDE DEF Adds
    <3>5. \E k \in [0..L -> Int] : Adds(k, n + 1)
      BY <3>3, <3>4, Zenon
    <3> QED
      BY <3>5
  <2> QED
    BY <2>2, <2>3
<1> HIDE DEF T
<1>4. L \in T
  BY <1>2, <1>3, SetInduction
<1>5. PICK g \in [0..L -> Int] : Adds(g, L)
  BY <1>4 DEF T
<1>6. g = [i \in 0..L |-> IF i = 0 THEN 0 ELSE g[i - 1] + f[Cohorts[i]]]
  BY <1>5
<1>7. UpTo(g, f)
  BY <1>1, <1>6 DEF UpTo
<1> DEFINE c == CHOOSE h : UpTo(h, f)
<1>8. UpTo(c, f)
  BY <1>7, Zenon
<1>9. Heads(f) = c[L]
  BY <1>1 DEF Heads, UpTo
<1> HIDE DEF c
<1>10. c = [i \in 0..L |-> IF i = 0 THEN 0 ELSE c[i - 1] + f[Cohorts[i]]]
  BY <1>1, <1>8 DEF UpTo
<1> DEFINE S == {n \in Nat : n <= L => c[n] = g[n]}
<1>11. 0 \in S
  BY <1>5, <1>10
<1>12. ASSUME NEW n \in Nat, n \in S PROVE n + 1 \in S
  <2>1. SUFFICES ASSUME n + 1 <= L PROVE c[n + 1] = g[n + 1]
    OBVIOUS
  <2>2. n + 1 \in 1..L /\ (n + 1) - 1 = n /\ n <= L /\ n + 1 \in 0..L /\ n + 1 # 0
    BY <2>1
  <2>3. c[n + 1] = c[n] + f[Cohorts[n + 1]]
    BY <1>10, <2>2
  <2>4. g[n + 1] = g[n] + f[Cohorts[n + 1]]
    BY <1>5, <2>2
  <2> QED
    BY <1>12, <2>2, <2>3, <2>4
<1> HIDE DEF S
<1>13. L \in S
  BY <1>11, <1>12, SetInduction
<1>14. c[L] = g[L]
  BY <1>13 DEF S
<1> QED
  BY <1>1, <1>5, <1>9, <1>14

\* What one cohort gains, all of them gain.
LEMMA HeadsOfChanged ==
    ASSUME NEW f \in [CohortSet -> Int], NEW e \in [CohortSet -> Int], NEW x \in CohortSet,
           NEW d \in Int, e[x] = f[x] + d, \A z \in CohortSet : z # x => e[z] = f[z]
    PROVE  Heads(e) = Heads(f) + d /\ Heads(f) \in Int
<1>1. PICK L \in Nat : L = Len(Cohorts)
  BY CohortsAre
<1>2. PICK g \in [0..L -> Int] :
        /\ g[0] = 0 /\ \A i \in 1..L : g[i] = g[i - 1] + f[Cohorts[i]]
        /\ Heads(f) = g[L]
  BY <1>1, HeadsCount
<1>3. PICK h \in [0..L -> Int] :
        /\ h[0] = 0 /\ \A i \in 1..L : h[i] = h[i - 1] + e[Cohorts[i]]
        /\ Heads(e) = h[L]
  BY <1>1, HeadsCount
<1>4. PICK k \in 1..L : Cohorts[k] = x /\ \A i \in 1..L : Cohorts[i] = x => i = k
  BY <1>1, CohortsAre
<1> DEFINE T == {n \in Nat : n <= L => h[n] = g[n] + (IF n >= k THEN d ELSE 0)}
<1>5. 0 \in T
  BY <1>2, <1>3, <1>4
<1>6. ASSUME NEW n \in Nat, n \in T PROVE n + 1 \in T
  <2>1. SUFFICES ASSUME n + 1 <= L PROVE h[n + 1] = g[n + 1] + (IF n + 1 >= k THEN d ELSE 0)
    OBVIOUS
  <2>2. n + 1 \in 1..L /\ (n + 1) - 1 = n /\ n <= L /\ n \in 0..L
    BY <2>1
  <2>3. h[n + 1] = h[n] + e[Cohorts[n + 1]] /\ g[n + 1] = g[n] + f[Cohorts[n + 1]]
    BY <1>2, <1>3, <2>2
  <2>4. h[n] = g[n] + (IF n >= k THEN d ELSE 0)
    BY <1>6, <2>2
  <2>5. Cohorts[n + 1] \in CohortSet
    BY <1>1, <2>2, CohortsAre
  <2>6. f[Cohorts[n + 1]] \in Int /\ g[n] \in Int
    BY <2>2, <2>5
  <2>7. CASE n + 1 = k
    <3>1. e[Cohorts[n + 1]] = f[Cohorts[n + 1]] + d
      BY <1>4, <2>7
    <3>2. ~(n >= k) /\ n + 1 >= k
      BY <2>7
    <3>3. h[n] = g[n]
      BY <2>4, <2>6, <3>2
    <3> QED
      BY <2>3, <2>6, <3>1, <3>2, <3>3
  <2>8. CASE n + 1 # k
    <3>1. e[Cohorts[n + 1]] = f[Cohorts[n + 1]]
      BY <1>4, <2>2, <2>5, <2>8
    <3>2. n + 1 >= k <=> n >= k
      BY <2>8
    <3> QED
      BY <2>3, <2>4, <2>6, <3>1, <3>2
  <2> QED
    BY <2>7, <2>8
<1> HIDE DEF T
<1>7. L \in T
  BY <1>5, <1>6, SetInduction
<1>8. h[L] = g[L] + d
  BY <1>4, <1>7 DEF T
<1>9. g[L] \in Int
  OBVIOUS
<1> QED
  BY <1>2, <1>3, <1>8, <1>9

\* Moving takes from one cohort what it gives to another, which is a different one.
LEMMA MovedIs ==
    ASSUME ResidentsTypeOK, NEW c \in CohortSet, NEW to \in CohortSet \cup {Nobody}, to # c,
           NEW n \in 0..size[c]
    PROVE  /\ Moved(c, to, n) \in [CohortSet -> Nat]
           /\ Moved(c, to, n)[c] \in {size[c], size[c] - n}
           /\ Heads(Moved(c, to, n)) = Heads(size)
<1>1. size \in [CohortSet -> Nat] /\ size[c] \in Nat
  BY TypedParts DEF CohortsTyped
<1>2. CASE to = Nobody
  BY <1>1, <1>2 DEF Moved
<1>3. CASE to # Nobody
  <2> DEFINE now == [size EXCEPT ![c] = @ - n, ![to] = @ + n]
  <2>1. Moved(c, to, n) = now
    BY <1>3 DEF Moved
  <2>2. to \in CohortSet /\ size[to] \in Nat /\ size[c] - n \in Nat /\ size[to] + n \in Nat
    BY <1>1, <1>3
  <2>3. /\ now \in [CohortSet -> Nat] /\ now[c] = size[c] - n /\ now[to] = size[to] + n
        /\ \A d \in CohortSet : d # c /\ d # to => now[d] = size[d]
    BY <1>1, <2>2
  <2> HIDE DEF now
  <2> DEFINE left == [size EXCEPT ![c] = @ - n]
  <2>4. /\ left \in [CohortSet -> Nat] /\ left[c] = size[c] + (-n)
        /\ \A d \in CohortSet : d # c => left[d] = size[d]
    BY <1>1, <2>2
  <2> HIDE DEF left
  <2>5. /\ size \in [CohortSet -> Int] /\ left \in [CohortSet -> Int] /\ now \in [CohortSet -> Int]
        /\ n \in Int /\ -n \in Int
    BY <1>1, <2>3, <2>4
  <2>6. Heads(left) = Heads(size) + (-n) /\ Heads(size) \in Int
    BY <2>4, <2>5, HeadsOfChanged
  <2>7. now[to] = left[to] + n /\ \A d \in CohortSet : d # to => now[d] = left[d]
    BY <1>1, <2>2, <2>3, <2>4
  <2>8. Heads(now) = Heads(left) + n
    BY <2>2, <2>5, <2>7, HeadsOfChanged
  <2>9. Heads(now) = Heads(size)
    BY <2>5, <2>6, <2>8
  <2> QED
    BY <2>1, <2>3, <2>9
<1> QED
  BY <1>2, <1>3

LEMMA CohortMonthTyped == ASSUME ResidentsTypeOK, NEW i \in Bands, CohortMonth(i) PROVE ResidentsTypeOK'
<1>t. HouseholdsTyped /\ PersonsTyped /\ CohortsTyped /\ LoopTyped
  BY TypedParts
<1>1. HouseholdsTyped' /\ PersonsTyped' /\ LoopTyped'
  BY <1>t DEF CohortMonth, Done, HouseholdsTyped, PersonsTyped, LoopTyped,
     householdVars, peopleVars
<1>2. CASE UNCHANGED cohortVars
  BY <1>t, <1>1, <1>2, TypedAfter DEF CohortsTyped, cohortVars
<1>3. CASE ~UNCHANGED cohortVars
  <2>1. PICK c : c = Cohorts[i]
    OBVIOUS
  <2>2. /\ c \in CohortSet
        /\ births' \in [CohortSet -> 0..(Unit - 1)] /\ deaths' \in [CohortSet -> 0..(Unit - 1)]
    BY <1>3, <2>1, CohortMonthIs
  <2>3. PICK newborn \in Nat, left \in 0..size[c] : \E grown \in 0..left :
          MonthGoes(c, newborn, left, grown)
    BY <1>3, <2>1, CohortMonthIs
  <2>4. PICK grown \in 0..left : MonthGoes(c, newborn, left, grown)
    BY <2>3
  <2>5. size[c] \in Nat /\ cohortBorn \in Nat /\ cohortDied \in Nat
    BY <1>t, <2>2 DEF CohortsTyped
  <2>6. cohortBorn' \in Nat /\ cohortDied' \in Nat
    BY <2>4, <2>5 DEF MonthGoes
  <2>7. PICK moved \in [CohortSet -> Nat] :
          moved = Moved(c, NextBand[c], grown) /\ moved[c] \in {size[c], size[c] - grown}
    <3>1. NextBand[c] \in CohortSet \cup {Nobody} /\ NextBand[c] # c /\ grown \in 0..size[c]
      <4>1. NextBand[c] \in CohortSet \cup {Nobody}
        BY <2>2, ResidentsAssumption
      <4>2. NextBand[c] # c
        BY <2>2, ResidentsAssumption
      <4>3. grown \in 0..size[c]
        BY <2>5
      <4> QED
        BY <4>1, <4>2, <4>3
    <3> QED
      BY <2>2, <3>1, MovedIs
  <2>8. moved[c] - (size[c] - left) \in Nat
    BY <2>5, <2>7
  <2>9. size' \in [CohortSet -> Nat]
    <3>1. ASSUME NEW d \in CohortSet
          PROVE  moved[d] - (IF d = c THEN size[c] - left ELSE 0)
                   + (IF d = Children[c] THEN newborn ELSE 0) \in Nat
      <4>1. moved[d] - (IF d = c THEN size[c] - left ELSE 0) \in Nat
        BY <2>8
      <4> QED
        BY <4>1
    <3> QED
      BY <2>4, <2>7, <3>1 DEF MonthGoes
  <2> QED
    BY <1>1, <2>2, <2>6, <2>9, TypedAfter DEF CohortsTyped
<1> QED
  BY <1>2, <1>3

LEMMA StepTyped == ASSUME ResidentsTypeOK, [ResidentsNext]_residentsVars PROVE ResidentsTypeOK'
<1>t. HouseholdsTyped /\ PersonsTyped /\ CohortsTyped /\ LoopTyped
  BY TypedParts
<1>1. CASE Rent
  BY <1>1, RentTyped
<1>2. CASE EndPeople \/ EndCohorts \/ EndMonth
  <2>1. HouseholdsTyped' /\ PersonsTyped' /\ CohortsTyped'
    BY <1>t, <1>2 DEF EndPeople, EndCohorts, EndMonth, HouseholdsTyped, PersonsTyped,
       CohortsTyped,
       householdVars, peopleVars, cohortVars
  <2>2. LoopTyped'
    BY <1>t, <1>2, ResidentsAssumption DEF EndPeople, EndCohorts, EndMonth, LoopTyped
  <2> QED
    BY <2>1, <2>2, TypedAfter
<1>3. CASE \E p \in Persons : PersonDies(p) \/ LiveOn(p) \/ GiveBirth(p)
  BY <1>3, PersonTyped
<1>4. CASE \E i \in Bands : CohortMonth(i) \/ Migrate(i)
  BY <1>4, CohortMonthTyped, MigrateTyped
<1>5. CASE UNCHANGED residentsVars
  BY <1>t, <1>5, TypedAfter DEF residentsVars, HouseholdsTyped, PersonsTyped, CohortsTyped,
     LoopTyped,
     householdVars, peopleVars, cohortVars
<1> QED
  BY <1>1, <1>2, <1>3, <1>4, <1>5 DEF ResidentsNext

\* The state keeps its types: nobody is negative, and the fractions stay below one person.
THEOREM TypesKept == ResidentsSpec => []ResidentsTypeOK
<1>1. ResidentsInit => ResidentsTypeOK
  BY InitTyped
<1>2. ResidentsTypeOK /\ [ResidentsNext]_residentsVars => ResidentsTypeOK'
  BY StepTyped
<1> QED
  BY <1>1, <1>2, PTL DEF ResidentsSpec

-----------------------------------------------------------------------------
(* Evictions.  A rent moves a household between three states: owing nothing,  *)
(* owing, and out; only an unpaid rent leads to the last, and the first one   *)
(* never suffices, for it is owed once and an eviction takes more than three. *)

LEMMA InitEarned == ASSUME ResidentsInit PROVE EInv
BY DEF ResidentsInit, EInv, DebtIsMissedRent, EvictionIsEarned

LEMMA RentEarned == ASSUME ResidentsTypeOK, EInv, Rent PROVE EInv'
<1>t. HouseholdsTyped
  BY TypedParts
<1>1. PICK price \in Rents, paying \in SUBSET Households :
        LET cost == [h \in Households |-> (price * (7 + 3 * represented[h])) \div 10]
            left == [h \in Households |-> arrears[h] - cost[h] \div 4]
            owed == [h \in Households |->
                        IF h \notin paying THEN arrears[h] + cost[h]
                        ELSE IF left[h] > 0 THEN left[h] ELSE 0]
        IN  /\ arrears' = owed
            /\ evicted' = [h \in Households |->
                              OutAfter(evicted[h], h \in paying, owed[h], cost[h])]
            /\ missed' = [h \in Households |-> IF h \in paying THEN missed[h] ELSE missed[h] + 1]
            /\ paidLast' = [h \in Households |-> h \in paying]
  BY DEF Rent
<1> SUFFICES ASSUME NEW h \in Households
             PROVE  /\ missed'[h] = 0 => arrears'[h] = 0
                    /\ evicted'[h] => missed'[h] >= 2 /\ ~paidLast'[h]
  BY DEF EInv, DebtIsMissedRent, EvictionIsEarned
<1>2. PICK cost \in Nat : cost = (price * (7 + 3 * represented[h])) \div 10
  <2>1. price \in Nat /\ 7 + 3 * represented[h] \in Nat
    BY <1>t, ResidentsAssumption DEF HouseholdsTyped
  <2>2. price * (7 + 3 * represented[h]) \in Nat
    BY <2>1, ProductIsNat
  <2> QED
    BY <2>2
<1>3. arrears[h] \in Nat /\ missed[h] \in Nat /\ cost \div 4 \in Nat
  BY <1>t, <1>2 DEF HouseholdsTyped
<1>4. (missed[h] = 0 => arrears[h] = 0) /\ (evicted[h] => missed[h] >= 2 /\ ~paidLast[h])
  BY DEF EInv, DebtIsMissedRent, EvictionIsEarned
<1>5. CASE h \in paying
  <2>1. missed'[h] = missed[h] /\ ~evicted'[h]
    BY <1>1, <1>5 DEF OutAfter
  <2>2. arrears'[h] = IF arrears[h] - cost \div 4 > 0 THEN arrears[h] - cost \div 4 ELSE 0
    BY <1>1, <1>2, <1>5
  <2> QED
    BY <1>3, <1>4, <2>1, <2>2
<1>6. CASE h \notin paying
  <2>1. missed'[h] = missed[h] + 1 /\ ~paidLast'[h]
    BY <1>1, <1>6
  <2>2. evicted'[h] => evicted[h] \/ arrears[h] + cost > 3 * cost
    BY <1>1, <1>2, <1>6 DEF OutAfter, Evicts
  <2> QED
    BY <1>2, <1>3, <1>4, <2>1, <2>2
<1> QED
  BY <1>5, <1>6

LEMMA StepEarned == ASSUME ResidentsTypeOK, EInv, [ResidentsNext]_residentsVars PROVE EInv'
<1>1. CASE Rent
  BY <1>1, RentEarned
<1>2. CASE \E p \in Persons : GiveBirth(p) \/ PersonDies(p) \/ LiveOn(p)
  BY <1>2 DEF PersonDies, LiveOn, GiveBirth, householdVars, EInv, DebtIsMissedRent,
     EvictionIsEarned
<1>3. CASE \E i \in Bands : CohortMonth(i) \/ Migrate(i)
  BY <1>3 DEF CohortMonth, Migrate, householdVars, EInv, DebtIsMissedRent,
     EvictionIsEarned
<1>4. CASE EndPeople \/ EndCohorts \/ EndMonth \/ UNCHANGED residentsVars
  BY <1>4 DEF EndPeople, EndCohorts, EndMonth, residentsVars, householdVars, EInv,
     DebtIsMissedRent,
     EvictionIsEarned
<1> QED
  BY <1>1, <1>2, <1>3, <1>4 DEF ResidentsNext

\* Nobody is out over one missed rent, nor after a rent that was paid.
THEOREM EvictionsAreEarned == ResidentsSpec => []EvictionIsEarned
<1>1. ResidentsInit => EInv
  BY InitEarned
<1>2. ResidentsTypeOK /\ EInv /\ [ResidentsNext]_residentsVars => EInv'
  BY StepEarned
<1>3. EInv => EvictionIsEarned
  BY DEF EInv
<1> QED
  BY <1>1, <1>2, <1>3, TypesKept, PTL DEF ResidentsSpec

-----------------------------------------------------------------------------
(* Families.  A death takes a person out of every list at once, and a birth   *)
(* enters the child in all of them; what makes the step sound is that only the *)
(* living are visited, and that an id is never given twice.                    *)

LEMMA InitFamilies == ASSUME ResidentsInit PROVE FInv
<1>1. VisitsTheLiving /\ MothersAreBorn
  BY ResidentsAssumption DEF ResidentsInit, VisitsTheLiving, MothersAreBorn
<1>2. TheDeadAreGone
  BY ResidentsAssumption DEF ResidentsInit, TheDeadAreGone, FirstMembers
<1>3. ChildrenAreKept
  BY DEF ResidentsInit, ChildrenAreKept
<1> QED
  BY <1>1, <1>2, <1>3 DEF FInv, FamiliesAreTrue

LEMMA DieKeepsFamilies == ASSUME ResidentsTypeOK, FInv, NEW p \in Persons, PersonDies(p) PROVE FInv'
<1>t. HouseholdsTyped /\ PersonsTyped /\ LoopTyped
  BY TypedParts
<1>1. p \in living /\ p \in 1..bornSoFar /\ home[p] \in Households
  BY <1>t DEF FInv, VisitsTheLiving, PersonDies, IsDue, PersonsTyped
<1>2. VisitsTheLiving' /\ MothersAreBorn'
  BY DEF FInv, PersonDies, IsDue, Done, VisitsTheLiving, MothersAreBorn
<1>3. TheDeadAreGone'
  <2>1. \A h \in Households : members'[h] = {q \in living' : home'[q] = h}
    <3> SUFFICES ASSUME NEW h \in Households PROVE members'[h] = {q \in living' : home'[q] = h}
      OBVIOUS
    <3>1. members[h] = {q \in living : home[q] = h}
      BY DEF FInv, FamiliesAreTrue, TheDeadAreGone
    <3>2. members'[h] = IF h = home[p] THEN members[h] \ {p} ELSE members[h]
      BY <1>t, <1>1 DEF PersonDies, Left, HouseholdsTyped
    <3>3. living' = living \ {p} /\ home' = home
      BY DEF PersonDies
    <3> QED
      BY <3>1, <3>2, <3>3
  <2>2. \A t \in ties' : t[1] \in living'
    BY DEF FInv, FamiliesAreTrue, TheDeadAreGone, PersonDies, Closed
  <2> QED
    BY <2>1, <2>2 DEF TheDeadAreGone
<1>4. ChildrenAreKept'
  BY <1>1 DEF FInv, FamiliesAreTrue, ChildrenAreKept, PersonDies, Closed
<1> QED
  BY <1>2, <1>3, <1>4 DEF FInv, FamiliesAreTrue

LEMMA BirthKeepsFamilies == ASSUME ResidentsTypeOK, FInv, NEW p \in Persons, GiveBirth(p) PROVE FInv'
<1>t. HouseholdsTyped /\ PersonsTyped /\ LoopTyped
  BY TypedParts
<1> DEFINE child == bornSoFar + 1
<1>1. /\ p \in living /\ p \in 1..bornSoFar /\ home[p] \in Households /\ bornSoFar \in Nat
      /\ child \notin 1..bornSoFar /\ child \notin living /\ 1..child = 1..bornSoFar \cup {child}
  <2>1. p \in living
    BY DEF FInv, VisitsTheLiving, GiveBirth, IsDue
  <2>2. bornSoFar \in Nat /\ p \in 1..bornSoFar /\ home[p] \in Households /\ living \subseteq 1..bornSoFar
    <3>1. bornSoFar \in Founders..MaxPeople /\ Founders \in Nat /\ MaxPeople \in Nat
      BY <1>t, ResidentsAssumption DEF PersonsTyped
    <3>2. living \subseteq 1..bornSoFar /\ home \in [1..bornSoFar -> Households]
      BY <1>t DEF PersonsTyped
    <3> QED
      BY <2>1, <3>1, <3>2
  <2>3. child \notin 1..bornSoFar /\ 1..child = 1..bornSoFar \cup {child}
    BY <2>2
  <2> QED
    BY <2>1, <2>2, <2>3
<1>2. /\ bornSoFar' = child /\ living' = living \cup {child}
      /\ \A q \in 1..bornSoFar : home'[q] = home[q] /\ mother'[q] = mother[q]
      /\ home'[child] = home[p] /\ mother'[child] = p
      /\ ties' = ties \cup {<<p, child>>, <<child, p>>}
      /\ remaining' = remaining \ {p} /\ turn' = turn
  BY <1>1 DEF GiveBirth, Done
<1>3. \A h \in Households :
        members'[h] = IF h = home[p] THEN members[h] \cup {child} ELSE members[h]
  BY <1>t, <1>1 DEF GiveBirth, HouseholdsTyped
<1>4. living \subseteq 1..bornSoFar /\ \A q \in 1..bornSoFar : mother[q] \in 0..bornSoFar
  BY <1>t DEF PersonsTyped, FInv, MothersAreBorn
<1>5. /\ \A h \in Households : members[h] = {q \in living : home[q] = h}
      /\ \A t \in ties : t[1] \in living
      /\ \A q \in living : mother[q] # 0 =>
            /\ home[q] = home[mother[q]] /\ <<q, mother[q]>> \in ties
            /\ mother[q] \in living => <<mother[q], q>> \in ties
      /\ turn = "people" => remaining \subseteq living
  BY DEF FInv, FamiliesAreTrue, TheDeadAreGone, ChildrenAreKept, VisitsTheLiving
<1> HIDE DEF child
<1>6. VisitsTheLiving'
  BY <1>2, <1>5 DEF VisitsTheLiving
<1>7. MothersAreBorn'
  <2> SUFFICES ASSUME NEW q \in 1..bornSoFar' PROVE mother'[q] \in 0..bornSoFar'
    BY DEF MothersAreBorn
  <2>1. 0..bornSoFar \subseteq 0..child /\ p \in 0..child
    BY <1>1 DEF child
  <2> QED
    BY <1>1, <1>2, <1>4, <2>1
<1>8. TheDeadAreGone'
  <2>1. \A h \in Households : members'[h] = {q \in living' : home'[q] = h}
    <3> SUFFICES ASSUME NEW h \in Households PROVE members'[h] = {q \in living' : home'[q] = h}
      OBVIOUS
    <3>1. \A q \in living : home'[q] = home[q]
      BY <1>2, <1>4
    <3>2. members[h] = {q \in living : home[q] = h}
      BY <1>5
    <3>3. {q \in living' : home'[q] = h}
            = {q \in living : home[q] = h} \cup (IF h = home[p] THEN {child} ELSE {})
      BY <1>2, <3>1
    <3> QED
      BY <1>3, <3>2, <3>3
  <2>2. \A t \in ties' : t[1] \in living'
    BY <1>1, <1>2, <1>5
  <2> QED
    BY <2>1, <2>2 DEF TheDeadAreGone
<1>9. ChildrenAreKept'
  <2> SUFFICES ASSUME NEW q \in living', mother'[q] # 0
               PROVE  /\ home'[q] = home'[mother'[q]] /\ <<q, mother'[q]>> \in ties'
                      /\ mother'[q] \in living' => <<mother'[q], q>> \in ties'
    BY DEF ChildrenAreKept
  <2>1. CASE q = child
    BY <1>1, <1>2, <2>1
  <2>2. CASE q # child
    <3>1. q \in living /\ q \in 1..bornSoFar /\ mother'[q] = mother[q] /\ home'[q] = home[q]
      BY <1>2, <1>4, <2>2
    <3>2. mother[q] \in 1..bornSoFar /\ home'[mother[q]] = home[mother[q]]
      BY <1>1, <1>2, <1>4, <3>1
    <3>3. mother[q] \in living' => mother[q] \in living
      BY <1>1, <1>2, <3>2
    <3> QED
      BY <1>2, <1>5, <3>1, <3>2, <3>3
  <2> QED
    BY <2>1, <2>2
<1> QED
  BY <1>6, <1>7, <1>8, <1>9 DEF FInv, FamiliesAreTrue

LEMMA StepKeepsFamilies == ASSUME ResidentsTypeOK, FInv, [ResidentsNext]_residentsVars PROVE FInv'
<1> USE DEF FInv, FamiliesAreTrue, TheDeadAreGone, ChildrenAreKept, MothersAreBorn, VisitsTheLiving
<1>1. CASE Rent
  BY <1>1 DEF Rent, peopleVars
<1>2. CASE EndPeople \/ EndCohorts \/ EndMonth \/ UNCHANGED residentsVars
  BY <1>2 DEF EndPeople, EndCohorts, EndMonth, residentsVars, householdVars, peopleVars
<1>3. ASSUME NEW p \in Persons, LiveOn(p) PROVE FInv'
  BY <1>3 DEF LiveOn, Done, householdVars, peopleVars
<1>4. ASSUME NEW i \in Bands, CohortMonth(i) \/ Migrate(i) PROVE FInv'
  <2>1. turn # "people" /\ turn' = turn /\ UNCHANGED <<householdVars, peopleVars>>
    BY <1>4 DEF CohortMonth, Migrate
  <2> QED
    BY <2>1 DEF householdVars, peopleVars
<1> QED
  BY <1>1, <1>2, <1>3, <1>4, DieKeepsFamilies, BirthKeepsFamilies DEF ResidentsNext

\* Households list who lives in them, the dead tell nobody anything, and children
\* stay with their mothers, after any births and deaths.
THEOREM FamiliesStayTrue == ResidentsSpec => []FamiliesAreTrue
<1>1. ResidentsInit => FInv
  BY InitFamilies
<1>2. ResidentsTypeOK /\ FInv /\ [ResidentsNext]_residentsVars => FInv'
  BY StepKeepsFamilies
<1>3. FInv => FamiliesAreTrue
  BY DEF FInv
<1> QED
  BY <1>1, <1>2, <1>3, TypesKept, PTL DEF ResidentsSpec

-----------------------------------------------------------------------------
(* The people in the cohorts.  Growing up and moving take from one cohort      *)
(* what they give to another; a birth and a death are counted.                 *)

LEMMA HeadsAreInt == ASSUME NEW f \in [CohortSet -> Nat] PROVE Heads(f) \in Int
<1>1. Len(Cohorts) \in Nat /\ f \in [CohortSet -> Int]
  BY CohortsAre
<1> QED
  BY <1>1, HeadsCount

LEMMA FirstHeads == FirstSize \in [CohortSet -> Nat] /\ Heads(FirstSize) \in Int
<1>1. FirstSize \in [CohortSet -> Nat]
  BY ResidentsAssumption
<1> QED
  BY <1>1, HeadsAreInt

LEMMA InitHeads == ASSUME ResidentsInit PROVE NobodyIsLost
<1>1. size = FirstSize /\ cohortBorn = 0 /\ cohortDied = 0
  BY DEF ResidentsInit
<1> QED
  BY <1>1, FirstHeads DEF NobodyIsLost

LEMMA MigrateKeepsHeads == ASSUME ResidentsTypeOK, NobodyIsLost, NEW i \in Bands, Migrate(i) PROVE NobodyIsLost'
<1>1. cohortBorn' = cohortBorn /\ cohortDied' = cohortDied
  BY DEF Migrate
<1>2. CASE UNCHANGED size
  BY <1>1, <1>2 DEF NobodyIsLost
<1>3. ASSUME NEW to \in Alike[Cohorts[i]], NEW movers \in 1..(size[Cohorts[i]] \div MoveShare),
             size' = Moved(Cohorts[i], to, movers)
      PROVE  NobodyIsLost'
  <2>1. PICK c : c = Cohorts[i]
    OBVIOUS
  <2>2. c \in CohortSet
    BY <2>1 DEF CohortSet, Bands
  <2>3. to \in CohortSet /\ to # c /\ size[c] \in Nat
    BY <2>1, <2>2, TypedParts, ResidentsAssumption DEF CohortsTyped
  <2>4. size[c] \div MoveShare \in 0..size[c]
    BY <2>3, QuotientIsPart, ResidentsAssumption
  <2>5. movers \in 0..size[c]
    BY <1>3, <2>1, <2>3, <2>4
  <2>6. Heads(size') = Heads(size)
    BY <1>3, <2>1, <2>2, <2>3, <2>5, MovedIs
  <2> QED
    BY <1>1, <2>6 DEF NobodyIsLost
<1> QED
  BY <1>2, <1>3 DEF Migrate

LEMMA CohortMonthKeepsHeads ==
    ASSUME ResidentsTypeOK, NobodyIsLost, NEW i \in Bands, CohortMonth(i)
    PROVE  NobodyIsLost'
<1>1. CASE UNCHANGED cohortVars
  BY <1>1 DEF NobodyIsLost, cohortVars
<1>2. CASE ~UNCHANGED cohortVars
  <2>1. PICK c : c = Cohorts[i]
    OBVIOUS
  <2>2. c \in CohortSet
    BY <1>2, <2>1, CohortMonthIs
  <2>3. PICK newborn \in Nat, left \in 0..size[c] : \E grown \in 0..left :
          MonthGoes(c, newborn, left, grown)
    BY <1>2, <2>1, CohortMonthIs
  <2>4. PICK grown \in 0..left : MonthGoes(c, newborn, left, grown)
    BY <2>3
  <2>5. size[c] \in Nat /\ cohortBorn \in Nat /\ cohortDied \in Nat
    BY <2>2, TypedParts DEF CohortsTyped
  <2>6. /\ NextBand[c] \in CohortSet \cup {Nobody} /\ NextBand[c] # c /\ grown \in 0..size[c]
        /\ Children[c] \in CohortSet \cup {Nobody} /\ Children[c] # c
    BY <2>2, <2>5, ResidentsAssumption
  <2>7. PICK moved \in [CohortSet -> Nat] :
          moved = Moved(c, NextBand[c], grown) /\ Heads(moved) = Heads(size)
    <3>1. PICK to \in CohortSet \cup {Nobody} : to = NextBand[c] /\ to # c
      BY <2>6
    <3>2. PICK n \in 0..size[c] : n = grown
      BY <2>6
    <3>3. /\ Moved(c, to, n) \in [CohortSet -> Nat]
          /\ Heads(Moved(c, to, n)) = Heads(size)
      BY <2>2, <3>1, <3>2, MovedIs
    <3> QED
      BY <3>1, <3>2, <3>3
  <2>8. moved \in [CohortSet -> Int] /\ size' \in [CohortSet -> Int]
    <3>1. ResidentsTypeOK'
      BY CohortMonthTyped
    <3>2. size' \in [CohortSet -> Nat]
      BY <3>1 DEF ResidentsTypeOK
    <3> QED
      BY <2>7, <3>2
  <2> DEFINE gone == left - size[c]
             buried == [d \in CohortSet |-> moved[d] + (IF d = c THEN gone ELSE 0)]
  <2>9. gone \in Int
    BY <2>5
  <2>10. buried[c] = moved[c] + gone /\ \A d \in CohortSet : d # c => buried[d] = moved[d]
    BY <2>2, <2>7
  <2>11. \A d \in CohortSet :
            size'[d] = buried[d] + (IF d = Children[c] THEN newborn ELSE 0)
    BY <2>4, <2>5, <2>7 DEF MonthGoes
  <2>12. cohortDied' = cohortDied - gone
    BY <2>4, <2>5 DEF MonthGoes
  <2>16. buried \in [CohortSet -> Int]
    BY <2>8, <2>9
  <2> HIDE DEF buried, gone
  <2>13. Heads(buried) = Heads(moved) + gone /\ Heads(moved) \in Int
    BY <2>2, <2>8, <2>9, <2>10, <2>16, HeadsOfChanged
  <2>14. CASE Children[c] = Nobody
    <3>1. \A d \in CohortSet : buried[d] = size'[d]
      <4>1. \A d \in CohortSet : d # Children[c] /\ buried[d] \in Int
        BY <2>14, <2>16, ResidentsAssumption
      <4> QED
        BY <2>11, <4>1
    <3>2. size' = buried
      BY <2>8, <2>16, <3>1
    <3>3. cohortBorn' = cohortBorn
      BY <2>4, <2>14 DEF MonthGoes
    <3> QED
      BY <2>5, <2>7, <2>9, <2>12, <2>13, <3>2, <3>3, FirstHeads DEF NobodyIsLost
  <2>15. CASE Children[c] # Nobody
    <3>1. PICK child \in CohortSet : child = Children[c]
      BY <2>6, <2>15
    <3>2. /\ size'[child] = buried[child] + newborn
          /\ \A d \in CohortSet : d # child => size'[d] = buried[d]
      BY <2>11, <2>16, <3>1
    <3>3. Heads(size') = Heads(buried) + newborn
      BY <2>8, <2>16, <3>1, <3>2, HeadsOfChanged
    <3>4. cohortBorn' = cohortBorn + newborn
      BY <2>4, <2>15 DEF MonthGoes
    <3> QED
      BY <2>5, <2>7, <2>9, <2>12, <2>13, <3>3, <3>4, FirstHeads DEF NobodyIsLost
  <2> QED
    BY <2>14, <2>15
<1> QED
  BY <1>1, <1>2

LEMMA StepKeepsHeads == ASSUME ResidentsTypeOK, NobodyIsLost, [ResidentsNext]_residentsVars PROVE NobodyIsLost'
<1>1. CASE UNCHANGED cohortVars
  BY <1>1 DEF NobodyIsLost, cohortVars
<1>2. CASE \E i \in Bands : CohortMonth(i) \/ Migrate(i)
  BY <1>2, CohortMonthKeepsHeads, MigrateKeepsHeads
<1>3. UNCHANGED cohortVars \/ \E i \in Bands : CohortMonth(i) \/ Migrate(i)
  BY DEF ResidentsNext, residentsVars, Rent, EndPeople, EndCohorts, EndMonth, PersonDies, LiveOn, GiveBirth,
     cohortVars
<1> QED
  BY <1>1, <1>2, <1>3

\* Growing up and moving house neither makes people nor loses any, for any cohorts,
\* bands and fractions: the heads there are, less the births and plus the deaths, are
\* those of genesis.
THEOREM NobodyGetsLost == ResidentsSpec => []NobodyIsLost
<1>1. ResidentsInit => NobodyIsLost
  BY InitHeads
<1>2. ResidentsTypeOK /\ NobodyIsLost /\ [ResidentsNext]_residentsVars => NobodyIsLost'
  BY StepKeepsHeads
<1> QED
  BY <1>1, <1>2, InitTyped, StepTyped, PTL DEF ResidentsSpec
=============================================================================
