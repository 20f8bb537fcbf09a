-------------------------- MODULE EmploymentProofs --------------------------
(***************************************************************************)
(* Proofs about Employment, for all people and firms, any genesis that     *)
(* EmploymentAssumption allows and any shares:                             *)
(*   TypesKept          Spec => []TypeOK                                   *)
(*   WorkersStayListed  Spec => []WorkersAreListed                         *)
(*   ListsStayRight     Spec => []OnePayroll                               *)
(*   BoardIsCleared     Spec => []NoStaleOpening                           *)
(*   NobodyPaidTwice    Spec => []PaidOnce                                 *)
(* All rest on IInv.                                                       *)
(***************************************************************************)
EXTENDS Employment, TLAPS

\* Where the people of each status are: those on a staff on a firm's list,
\* those with no work with no employer.
JobOf(p) ==
    /\ employment[p] = "employed" => employer[p] # NoOne
    /\ employment[p] \in OnStaff /\ employer[p] # NoOne =>
        employer[p] \in Active /\ employees[employer[p]][p] > 0
    /\ employment[p] \notin Working => employer[p] = NoOne

JobsMatch == \A p \in alive : JobOf(p)

\* No list names somebody who is not born.
UnbornAreOut ==
    \A p \in People \ born :
        /\ employment[p] = "child" /\ employer[p] = NoOne
        /\ \A c \in Companies : employees[c][p] = 0

\* Openings are told apart by their ids, and the day's institutions are the only
\* time when those of firms that are gone are on the board.
IdsAreUnique ==
    /\ \A o \in openings : o.id < nextOpening
    /\ \A o, other \in openings : o.id = other.id => o = other

BoardIsSwept ==
    /\ NoStaleOpening
    /\ phase = "absorbing" => \A o \in openings : o.id \notin todo => o.company \in Active

\* Outside the payroll nothing is paid, and during it nobody is paid who is
\* still on a list that waits.
PayInTurn ==
    /\ phase \notin {"payroll", "benefits", "matching"} => \A p \in People : paid[p] = 0
    /\ phase \in {"payroll", "benefits"} =>
        \A p \in People \ DoubleBooked : employment[p] \notin OnStaff => paid[p] = 0
    /\ phase = "payroll" =>
        \A p \in People \ DoubleBooked, c \in todo : employees[c][p] > 0 => paid[p] = 0

\* Whoever is still looked at by the labour market has no work.
SeekersWait == phase = "matching" => \A p \in todo : employment[p] = "unemployed"

IInv ==
    /\ TypeOK
    /\ SeekersWait
    /\ JobsMatch
    /\ UnbornAreOut
    /\ OnePayroll
    /\ IdsAreUnique
    /\ BoardIsSwept
    /\ PaidOnce
    /\ PayInTurn


-----------------------------------------------------------------------------

\* Striking somebody off a list leaves lists, and names nobody more often.
LEMMA StruckOffLists ==
    ASSUME employees \in [Companies -> [People -> Nat]], NEW p \in People
    PROVE  /\ StruckOff(p) \in [Companies -> [People -> Nat]]
           /\ \A c \in Companies, q \in People :
                StruckOff(p)[c][q] = IF q = p /\ c = employer[p] /\ employees[c][q] > 0
                                     THEN employees[c][q] - 1 ELSE employees[c][q]
<1>1. \A c \in Companies, q \in People : employees[c][q] \in Nat
  OBVIOUS
<1>2. \A c \in Companies, q \in People :
        (IF q = p /\ c = employer[p] /\ employees[c][q] > 0
         THEN employees[c][q] - 1 ELSE employees[c][q]) \in Nat
  BY <1>1
<1> QED
  BY <1>2 DEF StruckOff

\* Taking people on leaves an opening of the same firm with the same id, or none.
LEMMA FillKeepsBoard ==
    ASSUME openings \in SUBSET Opening, NEW o \in openings, NEW taken \in Nat,
           Fill(o, taken)
    PROVE  /\ openings' \in SUBSET Opening
           /\ \A new \in openings' : \/ new \in openings \ {o}
                                     \/ new.id = o.id /\ new.company = o.company
           /\ \A new, other \in openings' \ openings : new = other
<1> DEFINE filled == o.filled + taken
           left   == [id        |-> o.id,
                      company   |-> o.company,
                      positions |-> o.positions,
                      filled    |-> filled]
<1>1. o \in Opening /\ filled \in Nat
  BY DEF Opening
<1>2. left \in Opening /\ left.id = o.id /\ left.company = o.company
  BY <1>1 DEF Opening
<1>3. openings' \subseteq (openings \ {o}) \cup {left}
  BY DEF Fill
<1> QED
  BY <1>2, <1>3

\* Init establishes the invariant.
LEMMA InitIInv == Init => IInv
<1> SUFFICES ASSUME Init PROVE IInv
  OBVIOUS
<1> USE EmploymentAssumption
<1>1. TypeOK
  <2>1. PeopleTyped
    BY DEF Init, PeopleTyped
  <2>2. FirmsTyped
    BY DEF Init, FirmsTyped
  <2>3. LoopTyped
    BY DEF Init, LoopTyped, Phases
  <2> QED
    BY <2>1, <2>2, <2>3 DEF TypeOK
<1>2. OnePayroll
  BY DEF Init, OnePayroll, DoubleBooked
<1>3. JobsMatch
  BY DEF Init, JobsMatch, JobOf, OnStaff, Working, Active
<1>4. UnbornAreOut
  BY DEF Init, UnbornAreOut, OnStaff
<1>5. IdsAreUnique /\ BoardIsSwept
  BY DEF Init, IdsAreUnique, BoardIsSwept, NoStaleOpening
<1>6. PaidOnce /\ PayInTurn
  BY DEF Init, PaidOnce, PayInTurn
<1>7. SeekersWait
  BY DEF Init, SeekersWait
<1> QED
  BY <1>1, <1>2, <1>3, <1>4, <1>5, <1>6, <1>7 DEF IInv


\* Every step keeps the types.
LEMMA StepTypes == IInv /\ Next => TypeOK'
<1> SUFFICES ASSUME IInv, Next PROVE TypeOK'
  OBVIOUS
<1> USE EmploymentAssumption
<1>t. PeopleTyped /\ FirmsTyped /\ LoopTyped
  BY DEF IInv, TypeOK
<1>1. ASSUME NEW p \in People, NEW o \in openings, Apply(p, o) PROVE TypeOK'
  <2>1. o.company \in firms
    BY <1>1 DEF Apply, IsOpen, Active
  <2>2. PeopleTyped'
    BY <1>t, <1>1, <2>1 DEF Apply, Employ, PeopleTyped, personVars, firmVars, Employment
  <2>3. FirmsTyped'
    BY <1>t, <1>1, FillKeepsBoard DEF Apply, Employ, FirmsTyped, firmVars
  <2>4. LoopTyped'
    BY <1>t, <1>1 DEF Apply, LoopTyped, personVars, firmVars
  <2> QED
    BY <2>2, <2>3, <2>4 DEF TypeOK
<1>2. ASSUME NEW p \in People, NEW c \in Companies, FoundCompany(p, c) PROVE TypeOK'
  <2>1. PeopleTyped'
    BY <1>t, <1>2 DEF FoundCompany, PeopleTyped, personVars, Employment
  <2>2. FirmsTyped'
    BY <1>t, <1>2 DEF FoundCompany, FirmsTyped, boardVars
  <2>3. LoopTyped'
    BY <1>t, <1>2 DEF FoundCompany, LoopTyped, personVars
  <2> QED
    BY <2>1, <2>2, <2>3 DEF TypeOK
<1>3. CASE EndAgents
  BY <1>t, <1>3 DEF EndAgents, Enter, TypeOK, PeopleTyped, FirmsTyped, LoopTyped,
     Active,
     Phases, personVars, jobVars, firmVars, boardVars
<1>4. ASSUME NEW c \in Companies, ShedJobs(c) PROVE TypeOK'
  <2>1. PICK pct \in LayOffPcts : LayOff(c, pct)
    BY <1>4 DEF ShedJobs
  <2>2. PeopleTyped'
    BY <1>t, <1>4, <2>1 DEF ShedJobs, LayOff, PeopleTyped, personVars, firmVars,
       Employment
  <2>3. employees' \in [Companies -> [People -> Nat]]
    <3>1. PICK gone \in [People -> Nat] :
            /\ \A p \in People : gone[p] =< employees[c][p]
            /\ employees' = [d \in Companies |-> [p \in People |->
                                IF d = c THEN employees[d][p] - gone[p]
                                ELSE employees[d][p]]]
      BY <2>1 DEF LayOff
    <3>2. \A d \in Companies, p \in People :
            (IF d = c THEN employees[d][p] - gone[p] ELSE employees[d][p]) \in Nat
      BY <1>t, <3>1 DEF FirmsTyped
    <3> QED
      BY <3>1, <3>2
  <2>4. cohorts' \in [Companies -> Nat]
    BY <1>t, <2>1 DEF LayOff, FirmsTyped
  <2>5. FirmsTyped'
    BY <1>t, <1>4, <2>3, <2>4 DEF ShedJobs, FirmsTyped, firmVars, boardVars
  <2>6. LoopTyped'
    BY <1>t, <1>4 DEF ShedJobs, NextStage, LoopTyped, personVars, firmVars
  <2> QED
    BY <2>2, <2>5, <2>6 DEF TypeOK
<1>5. ASSUME NEW c \in Companies, KeepJobs(c) PROVE TypeOK'
  BY <1>t, <1>5 DEF KeepJobs, NextStage, TypeOK, PeopleTyped, FirmsTyped, LoopTyped,
     personVars, jobVars, firmVars, boardVars
<1>6. ASSUME NEW c \in Companies, PostOpening(c) PROVE TypeOK'
  <2>1. FirmsTyped'
    BY <1>t, <1>6 DEF PostOpening, Posted, FirmsTyped, Opening, jobVars, firmVars
  <2> QED
    BY <1>t, <1>6, <2>1 DEF PostOpening, NextStage, TypeOK, PeopleTyped, LoopTyped,
       personVars, jobVars, firmVars
<1>7. ASSUME NEW c \in Companies, StayOpen(c) PROVE TypeOK'
  BY <1>t, <1>7 DEF StayOpen, NextStage, TypeOK, PeopleTyped, FirmsTyped, LoopTyped,
     personVars, jobVars, firmVars, boardVars
<1>8. ASSUME NEW c \in Companies, Bankrupt(c) PROVE TypeOK'
  <2>0. c \in firms
    BY <1>t, <1>8 DEF Bankrupt, IsNext, LoopTyped
  <2>1. PeopleTyped'
    BY <1>t, <1>8 DEF Bankrupt, PeopleTyped, personVars, Employment
  <2>2. FirmsTyped'
    BY <1>t, <1>8, <2>0 DEF Bankrupt, FirmsTyped, boardVars
  <2>3. LoopTyped'
    BY <1>t, <1>8 DEF Bankrupt, NextStage, LoopTyped, personVars
  <2> QED
    BY <2>1, <2>2, <2>3 DEF TypeOK
<1>9. ASSUME NEW c \in Companies, PayStaff(c) PROVE TypeOK'
  <2>1. PICK seen \in [People -> Nat] :
          /\ \A p \in People : seen[p] =< employees[c][p]
          /\ employees' = [d \in Companies |-> [p \in People |->
                            IF d = c /\ p \notin alive THEN employees[d][p] - seen[p]
                            ELSE employees[d][p]]]
          /\ paid' = [p \in People |-> IF p \in alive THEN paid[p] + seen[p]
                                       ELSE paid[p]]
    BY <1>9 DEF PayStaff
  <2>2. paid' \in [People -> Nat]
    <3>1. \A p \in People : (IF p \in alive THEN paid[p] + seen[p] ELSE paid[p]) \in Nat
      BY <1>t, <2>1 DEF PeopleTyped
    <3> QED
      BY <2>1, <3>1
  <2>3. employees' \in [Companies -> [People -> Nat]]
    <3>1. \A d \in Companies, p \in People :
            (IF d = c /\ p \notin alive THEN employees[d][p] - seen[p]
             ELSE employees[d][p]) \in Nat
      BY <1>t, <2>1 DEF FirmsTyped
    <3> QED
      BY <2>1, <3>1
  <2> QED
    BY <1>t, <1>9, <2>2, <2>3 DEF PayStaff, TypeOK, PeopleTyped, FirmsTyped, LoopTyped,
       personVars, firmVars, boardVars
<1>10. CASE PayBenefits
  <2>1. PICK supported \in SUBSET Entitled :
          paid' = [p \in People |-> IF p \in supported THEN paid[p] + 1 ELSE paid[p]]
    BY <1>10 DEF PayBenefits
  <2>2. paid' \in [People -> Nat]
    <3>1. \A p \in People : (IF p \in supported THEN paid[p] + 1 ELSE paid[p]) \in Nat
      BY <1>t DEF PeopleTyped
    <3> QED
      BY <2>1, <3>1
  <2> QED
    BY <1>t, <1>10, <2>2 DEF PayBenefits, Enter, TypeOK, PeopleTyped, FirmsTyped,
       LoopTyped, Phases, personVars, jobVars, firmVars, boardVars
<1>11. ASSUME NEW p \in People, NEW o \in openings, Match(p, o) PROVE TypeOK'
  <2>1. o.company \in firms
    BY <1>11 DEF Match, IsOpen, Active
  <2>2. PeopleTyped'
    BY <1>t, <1>11, <2>1 DEF Match, Employ, PeopleTyped, personVars, firmVars,
       Employment
  <2>3. FirmsTyped'
    BY <1>t, <1>11, FillKeepsBoard DEF Match, Employ, FirmsTyped, firmVars
  <2>4. LoopTyped'
    BY <1>t, <1>11 DEF Match, LoopTyped, personVars, firmVars
  <2> QED
    BY <2>2, <2>3, <2>4 DEF TypeOK
<1>12. ASSUME NEW p \in People, Mismatch(p) PROVE TypeOK'
  BY <1>t, <1>12 DEF Mismatch, TypeOK, PeopleTyped, FirmsTyped, LoopTyped, personVars,
     jobVars, firmVars, boardVars
<1>13. CASE EndMatching
  BY <1>t, <1>13 DEF EndMatching, Enter, TypeOK, PeopleTyped, FirmsTyped, LoopTyped,
     Phases, Opening, personVars, jobVars, firmVars, boardVars
<1>14. ASSUME NEW o \in openings, TakeDown(o) PROVE TypeOK'
  BY <1>t, <1>14 DEF TakeDown, TypeOK, PeopleTyped, FirmsTyped, LoopTyped, personVars,
     jobVars, firmVars
<1>15. ASSUME NEW o \in openings, NEW taken \in 0..o.positions, Absorb(o, taken)
       PROVE TypeOK'
  <2>1. taken \in Nat
    OBVIOUS
  <2>2. FirmsTyped'
    <3>1. Fill(o, taken) /\ cohorts' = [cohorts EXCEPT ![o.company] = @ + taken]
      BY <1>15 DEF Absorb
    <3>2. openings' \in SUBSET Opening
      BY <1>t, <2>1, <3>1, FillKeepsBoard DEF FirmsTyped
    <3>3. cohorts' \in [Companies -> Nat]
      <4>1. PICK c \in Companies : c = o.company
        BY <1>t DEF FirmsTyped, Opening
      <4>2. cohorts' = [cohorts EXCEPT ![c] = cohorts[c] + taken]
        BY <3>1, <4>1
      <4>3. cohorts \in [Companies -> Nat] /\ cohorts[c] + taken \in Nat
        BY <1>t, <2>1 DEF FirmsTyped
      <4> QED
        BY <4>2, <4>3
    <3> QED
      BY <1>t, <1>15, <3>2, <3>3 DEF Absorb, FirmsTyped, jobVars, firmVars
  <2> QED
    BY <1>t, <1>15, <2>2 DEF Absorb, TypeOK, PeopleTyped, LoopTyped, personVars,
       jobVars,
       firmVars
<1>16. ASSUME NEW p \in People, Die(p) PROVE TypeOK'
  BY <1>t, <1>16, StruckOffLists DEF Die, TypeOK, PeopleTyped, FirmsTyped, LoopTyped,
     firmVars, boardVars
<1>17. ASSUME NEW p \in People, NEW years \in Ages, Retire(p, years) PROVE TypeOK'
  BY <1>t, <1>17, StruckOffLists DEF Retire, TypeOK, PeopleTyped, FirmsTyped, LoopTyped,
     Employment, firmVars, boardVars
<1>18. ASSUME NEW p \in People, NEW years \in Ages, NEW children \in Births,
              GrowOlder(p, years, children)
       PROVE TypeOK'
  <2>1. children \subseteq People
    BY DEF Births
  <2> QED
    BY <1>t, <1>18, <2>1 DEF GrowOlder, TypeOK, PeopleTyped, FirmsTyped, LoopTyped,
       Employment, firmVars, boardVars
<1>19. CASE NextSystem
  BY <1>t, <1>19 DEF NextSystem, Enter, TypeOK, PeopleTyped, FirmsTyped, LoopTyped,
     Active,
     Phases, personVars, jobVars, firmVars, boardVars
<1> QED
  BY <1>1, <1>2, <1>3, <1>4, <1>5, <1>6, <1>7, <1>8, <1>9, <1>10, <1>11, <1>12, <1>13,
     <1>14, <1>15, <1>16, <1>17, <1>18, <1>19 DEF Next


\* Striking the employer's list of somebody on one list at most leaves them on none.
LEMMA OffTheList ==
    ASSUME IInv, NEW p \in People \ DoubleBooked, NEW c \in Companies
    PROVE  StruckOff(p)[c][p] = 0
<1>1. employees \in [Companies -> [People -> Nat]]
  BY DEF IInv, TypeOK, FirmsTyped
<1>2. employees[c][p] = IF p \in alive /\ employment[p] \in OnStaff /\ employer[p] = c
                        THEN 1 ELSE 0
  BY DEF IInv, OnePayroll
<1> QED
  BY <1>1, <1>2, StruckOffLists

\* Every step keeps people and lists in agreement, whoever has two jobs.
LEMMA StepJobs == IInv /\ Next => JobsMatch' /\ UnbornAreOut'
<1> SUFFICES ASSUME IInv, Next PROVE JobsMatch' /\ UnbornAreOut'
  OBVIOUS
<1>t. PeopleTyped /\ FirmsTyped /\ LoopTyped /\ JobsMatch /\ UnbornAreOut
  BY DEF IInv, TypeOK
<1>n. NoOne \notin Companies
  BY EmploymentAssumption
<1> DEFINE Kept == UNCHANGED <<born, alive, employment, employer, employees, firms, bankrupt>>
<1>k. ASSUME Kept PROVE JobsMatch' /\ UnbornAreOut'
  BY <1>t, <1>k DEF JobsMatch, JobOf, UnbornAreOut, Active
<1>1. ASSUME NEW p \in People, NEW c \in Companies, p \in alive, c \in Active,
             Employ(p, c), UNCHANGED <<born, alive, firms, bankrupt>>
      PROVE  JobsMatch' /\ UnbornAreOut'
  <2>1. /\ \A q \in People : employment'[q] = IF q = p THEN "employed" ELSE employment[q]
        /\ \A q \in People : employer'[q] = IF q = p THEN c ELSE employer[q]
        /\ \A q \in People, d \in Companies :
              employees'[d][q] = IF q = p /\ d = c THEN employees[d][q] + 1
                                 ELSE employees[d][q]
    BY <1>t, <1>1 DEF Employ, PeopleTyped
  <2>2. \A q \in People, d \in Companies :
          employees'[d][q] > 0 \/ employees'[d][q] = employees[d][q]
    BY <1>t, <2>1 DEF FirmsTyped
  <2>3. employees'[c][p] > 0
    BY <1>t, <2>1 DEF FirmsTyped
  <2>4. JobsMatch'
    BY <1>t, <1>n, <1>1, <2>1, <2>2, <2>3
    DEF JobsMatch, JobOf, OnStaff, Working, Active, PeopleTyped, FirmsTyped
  <2>5. UnbornAreOut'
    BY <1>t, <1>1, <2>1 DEF UnbornAreOut, PeopleTyped
  <2> QED
    BY <2>4, <2>5
<1>2. ASSUME NEW p \in People, NEW c \in Companies, FoundCompany(p, c)
      PROVE  JobsMatch' /\ UnbornAreOut'
  BY <1>t, <1>n, <1>2 DEF FoundCompany, Offered, JobsMatch, JobOf, UnbornAreOut,
     OnStaff, Working, Active,
     PeopleTyped, FirmsTyped, personVars
<1>3. CASE EndAgents
  BY <1>k, <1>3 DEF EndAgents, personVars, jobVars, firmVars
<1>4. ASSUME NEW c \in Companies, ShedJobs(c) PROVE JobsMatch' /\ UnbornAreOut'
  <2>1. PICK gone \in [People -> Nat] :
          /\ \A p \in People : gone[p] =< employees[c][p]
          /\ employees' = [d \in Companies |-> [p \in People |->
                              IF d = c THEN employees[d][p] - gone[p]
                              ELSE employees[d][p]]]
          /\ employment' = [p \in People |-> IF gone[p] > 0 THEN "unemployed"
                                             ELSE employment[p]]
          /\ employer' = [p \in People |-> IF gone[p] > 0 THEN NoOne ELSE employer[p]]
    BY <1>4 DEF ShedJobs, LayOff
  <2>2. \A p \in People, d \in Companies : gone[p] = 0 => employees'[d][p] = employees[d][p]
    BY <1>t, <2>1 DEF FirmsTyped
  <2>3. \A p \in People : gone[p] > 0 =>
          employment'[p] = "unemployed" /\ employer'[p] = NoOne
    BY <2>1
  <2>4. \A p \in People : gone[p] = 0 =>
          employment'[p] = employment[p] /\ employer'[p] = employer[p]
    BY <2>1
  <2>5. \A p \in People : gone[p] = 0 \/ gone[p] > 0
    BY <2>1
  <2>6. UNCHANGED <<born, alive, firms, bankrupt>>
    BY <1>4 DEF ShedJobs, personVars, firmVars
  <2>7. JobsMatch'
    <3> SUFFICES ASSUME NEW p \in alive' PROVE JobOf(p)'
      BY DEF JobsMatch
    <3>1. p \in People /\ JobOf(p) /\ (NoOne \notin firms)
      BY <1>t, <1>n, <2>6 DEF JobsMatch, PeopleTyped, FirmsTyped
    <3>2. CASE gone[p] > 0
      BY <3>1, <3>2, <2>3 DEF JobOf, OnStaff, Working
    <3>3. CASE gone[p] = 0
      <4>1. \A d \in Companies : employees'[d][p] = employees[d][p]
        BY <3>1, <3>3, <2>2
      <4> QED
        BY <1>t, <3>1, <3>3, <4>1, <2>4, <2>6 DEF JobOf, Active, FirmsTyped
    <3> QED
      BY <3>1, <3>2, <3>3, <2>5
  <2>8. \A p \in People \ born : gone[p] = 0
    <3>1. c \in Companies /\ \A p \in People \ born : employees[c][p] = 0
      BY <1>t DEF UnbornAreOut
    <3> QED
      BY <2>1, <3>1
  <2>9. UnbornAreOut'
    BY <1>t, <2>2, <2>4, <2>6, <2>8 DEF UnbornAreOut
  <2> QED
    BY <2>7, <2>9
<1>5. ASSUME NEW c \in Companies, KeepJobs(c) \/ PostOpening(c) \/ StayOpen(c)
      PROVE  JobsMatch' /\ UnbornAreOut'
  BY <1>k, <1>5 DEF KeepJobs, PostOpening, StayOpen, personVars, jobVars, firmVars
<1>6. ASSUME NEW c \in Companies, Bankrupt(c) PROVE JobsMatch' /\ UnbornAreOut'
  <2>1. /\ \A p \in People : employees[c][p] > 0 =>
              employment'[p] = "unemployed" /\ employer'[p] = NoOne
        /\ \A p \in People : ~(employees[c][p] > 0) =>
              employment'[p] = employment[p] /\ employer'[p] = employer[p]
        /\ \A d \in Companies, p \in People :
              employees'[d][p] = IF d = c THEN 0 ELSE employees[d][p]
        /\ firms' = firms /\ bankrupt' = bankrupt \cup {c}
        /\ born' = born /\ alive' = alive
    BY <1>t, <1>6 DEF Bankrupt, personVars, FirmsTyped
  <2>2. JobsMatch'
    <3> SUFFICES ASSUME NEW p \in alive' PROVE JobOf(p)'
      BY DEF JobsMatch
    <3>1. p \in People /\ JobOf(p)
      BY <1>t, <2>1 DEF JobsMatch, PeopleTyped
    <3>2. CASE employees[c][p] > 0
      BY <3>1, <3>2, <2>1 DEF JobOf, OnStaff, Working
    <3>3. CASE ~(employees[c][p] > 0)
      <4>1. employment'[p] = employment[p] /\ employer'[p] = employer[p]
        BY <3>1, <3>3, <2>1
      <4>2. ASSUME employment[p] \in OnStaff, employer[p] # NoOne
            PROVE  employer[p] \in Active' /\ employees'[employer[p]][p] > 0
        <5>1. employer[p] \in Active /\ employees[employer[p]][p] > 0
          BY <3>1, <4>2 DEF JobOf
        <5>2. employer[p] # c /\ employer[p] \in Companies
          BY <1>t, <3>3, <5>1 DEF Active, FirmsTyped
        <5> QED
          BY <2>1, <3>1, <5>1, <5>2 DEF Active
      <4> QED
        BY <3>1, <4>1, <4>2 DEF JobOf
    <3> QED
      BY <3>2, <3>3
  <2>3. UnbornAreOut'
    BY <1>t, <2>1 DEF UnbornAreOut
  <2> QED
    BY <2>2, <2>3
<1>7. ASSUME NEW c \in Companies, PayStaff(c) PROVE JobsMatch' /\ UnbornAreOut'
  <2>1. PICK seen \in [People -> Nat] :
          /\ \A p \in People : seen[p] =< employees[c][p]
          /\ employees' = [d \in Companies |-> [p \in People |->
                            IF d = c /\ p \notin alive THEN employees[d][p] - seen[p]
                            ELSE employees[d][p]]]
    BY <1>7 DEF PayStaff
  <2>2. \A d \in Companies, p \in alive : employees'[d][p] = employees[d][p]
    BY <1>t, <2>1 DEF PeopleTyped
  <2>3. \A d \in Companies, p \in People : employees[d][p] = 0 => employees'[d][p] = 0
    BY <1>t, <2>1 DEF FirmsTyped
  <2>4. UNCHANGED <<born, alive, employment, employer, firms, bankrupt>>
    BY <1>7 DEF PayStaff, personVars, firmVars
  <2>5. JobsMatch'
    BY <1>t, <2>2, <2>4 DEF JobsMatch, JobOf, Active, PeopleTyped, FirmsTyped
  <2>6. UnbornAreOut'
    BY <1>t, <2>3, <2>4 DEF UnbornAreOut
  <2> QED
    BY <2>5, <2>6
<1>8. CASE PayBenefits \/ EndMatching \/ NextSystem
  BY <1>k, <1>8 DEF PayBenefits, EndMatching, NextSystem, personVars, jobVars, firmVars
<1>9. ASSUME NEW p \in People, Mismatch(p) PROVE JobsMatch' /\ UnbornAreOut'
  BY <1>k, <1>9 DEF Mismatch, personVars, jobVars, firmVars
<1>10. ASSUME NEW o \in openings, TakeDown(o) \/ \E taken \in 0..o.positions : Absorb(o, taken)
       PROVE  JobsMatch' /\ UnbornAreOut'
  BY <1>k, <1>10 DEF TakeDown, Absorb, personVars, jobVars, firmVars
<1>11. ASSUME NEW p \in People, Die(p) \/ \E years \in Ages : Retire(p, years)
       PROVE  JobsMatch' /\ UnbornAreOut'
  <2>1. p \in alive
    BY <1>t, <1>11 DEF Die, Retire, LoopTyped
  <2>2. /\ employees' = StruckOff(p)
        /\ UNCHANGED <<born, firms, bankrupt>>
        /\ alive' \subseteq alive
    BY <1>11 DEF Die, Retire, firmVars
  <2>3. /\ \A q \in People \ {p} : employment'[q] = employment[q] /\ employer'[q] = employer[q]
        /\ p \in alive' => employment'[p] = "retired" /\ employer'[p] = NoOne
    BY <1>t, <1>11 DEF Die, Retire, PeopleTyped
  <2>4. \A q \in People \ {p}, d \in Companies : employees'[d][q] = employees[d][q]
    BY <1>t, <2>2, StruckOffLists DEF FirmsTyped
  <2>5. JobsMatch'
    BY <1>t, <2>2, <2>3, <2>4 DEF JobsMatch, JobOf, OnStaff, Working, Active,
       PeopleTyped, FirmsTyped
  <2>6. UnbornAreOut'
    BY <1>t, <2>1, <2>2, <2>3, <2>4 DEF UnbornAreOut, PeopleTyped
  <2> QED
    BY <2>5, <2>6
<1>12. ASSUME NEW p \in People, NEW years \in Ages, NEW children \in Births,
              GrowOlder(p, years, children)
       PROVE  JobsMatch' /\ UnbornAreOut'
  <2>1. p \in alive /\ children \subseteq People \ born
    BY <1>t, <1>12 DEF GrowOlder, LoopTyped, Births
  <2>2. /\ \A q \in People : \/ employment'[q] = employment[q]
                             \/ /\ q = p /\ employment[q] = "child"
                                /\ employment'[q] = "unemployed"
        /\ employer' = employer /\ employees' = employees
        /\ firms' = firms /\ bankrupt' = bankrupt
        /\ born' = born \cup children /\ alive' = alive \cup children
    BY <1>t, <1>12 DEF GrowOlder, PeopleTyped, firmVars
  <2>3. JobsMatch'
    BY <1>t, <2>1, <2>2 DEF JobsMatch, JobOf, UnbornAreOut, OnStaff, Working, Active,
       PeopleTyped
  <2>4. UnbornAreOut'
    BY <1>t, <2>1, <2>2 DEF UnbornAreOut, PeopleTyped
  <2> QED
    BY <2>3, <2>4
<1>13. ASSUME NEW p \in People, NEW o \in openings, Apply(p, o) \/ Match(p, o)
       PROVE  JobsMatch' /\ UnbornAreOut'
  <2>1. o.company \in Active /\ o.company \in Companies
    BY <1>t, <1>13 DEF Apply, Match, IsOpen, Active, FirmsTyped
  <2>2. p \in alive /\ Employ(p, o.company) /\ UNCHANGED <<born, alive, firms, bankrupt>>
    BY <1>t, <1>13 DEF Apply, Offered, Match, LoopTyped, personVars, firmVars
  <2> QED
    BY <1>1, <2>1, <2>2
<1> QED
  BY <1>2, <1>3, <1>4, <1>5, <1>6, <1>7, <1>8, <1>9, <1>10, <1>11, <1>12, <1>13 DEF Next


\* On the list of c, once, exactly while the person lives and works there.
Due(p, c) == IF p \in alive /\ employment[p] \in OnStaff /\ employer[p] = c THEN 1 ELSE 0

\* Every step keeps the lists of all who do not have two jobs from genesis.
LEMMA StepLists == IInv /\ Next => OnePayroll'
<1> SUFFICES ASSUME IInv, Next,
                    NEW p \in People \ DoubleBooked, NEW c \in Companies
             PROVE  employees'[c][p] = Due(p, c)'
  BY DEF OnePayroll, Due
<1>t. /\ PeopleTyped /\ FirmsTyped /\ LoopTyped /\ UnbornAreOut
      /\ \A d \in Companies : employees[d][p] = Due(p, d)
      /\ p \in alive => JobOf(p)
  BY DEF IInv, TypeOK, OnePayroll, Due, JobsMatch
<1>n. NoOne \notin Companies
  BY EmploymentAssumption
<1> DEFINE Kept == /\ employees'[c][p] = employees[c][p]
                   /\ employment'[p] = employment[p] /\ employer'[p] = employer[p]
                   /\ p \in alive' <=> p \in alive
           Goal == employees'[c][p] = Due(p, c)'
<1>k. ASSUME Kept PROVE Goal
  BY <1>t, <1>k DEF Due
<1>1. ASSUME NEW q \in alive, NEW d \in Companies, employment[q] \notin Working,
             Employ(q, d), alive' = alive
      PROVE  Goal
  <2>1. /\ employment'[p] = IF p = q THEN "employed" ELSE employment[p]
        /\ employer'[p] = IF p = q THEN d ELSE employer[p]
        /\ employees'[c][p] = IF p = q /\ c = d THEN employees[c][p] + 1
                              ELSE employees[c][p]
    BY <1>t, <1>1 DEF Employ, PeopleTyped
  <2>2. p = q => employees[c][p] = 0
    BY <1>t, <1>1 DEF Due, OnStaff, Working
  <2> QED
    BY <1>t, <1>1, <2>1, <2>2 DEF Due, OnStaff
<1>2. ASSUME NEW q \in People, NEW o \in openings, Apply(q, o) \/ Match(q, o)
      PROVE  Goal
  <2>1. o.company \in Companies
    BY <1>t DEF FirmsTyped, Opening
  <2>2. CASE Apply(q, o)
    <3>1. /\ q \in alive /\ employment[q] \notin Working
          /\ Employ(q, o.company) /\ alive' = alive
      BY <2>2 DEF Apply, Offered, personVars
    <3> QED
      BY <1>1, <2>1, <3>1
  <2>3. CASE Match(q, o)
    <3>1. q \in alive /\ Employ(q, o.company) /\ alive' = alive
      BY <1>t, <2>3 DEF Match, LoopTyped, personVars
    <3>2. employment[q] \notin Working
      BY <2>3 DEF Match, IInv, SeekersWait, Working, OnStaff
    <3> QED
      BY <1>1, <2>1, <3>1, <3>2
  <2> QED
    BY <1>2, <2>2, <2>3
<1>3. ASSUME NEW q \in People, NEW d \in Companies, FoundCompany(q, d) PROVE Goal
  <2>1. /\ employment'[p] = IF p = q THEN "self_employed" ELSE employment[p]
        /\ employer'[p] = IF p = q THEN d ELSE employer[p]
        /\ employees' = employees /\ alive' = alive
        /\ employment[q] \notin Working
    BY <1>t, <1>3 DEF FoundCompany, Offered, PeopleTyped, personVars
  <2> QED
    BY <1>t, <2>1 DEF Due, OnStaff, Working
<1>4. CASE EndAgents \/ PayBenefits \/ EndMatching \/ NextSystem
  BY <1>k, <1>4 DEF EndAgents, PayBenefits, EndMatching, NextSystem, personVars, jobVars
<1>5. ASSUME NEW d \in Companies, ShedJobs(d) PROVE Goal
  <2>1. PICK gone \in [People -> Nat] :
          /\ \A q \in People : gone[q] =< employees[d][q]
          /\ employees' = [f \in Companies |-> [q \in People |->
                              IF f = d THEN employees[f][q] - gone[q]
                              ELSE employees[f][q]]]
          /\ employment' = [q \in People |-> IF gone[q] > 0 THEN "unemployed"
                                             ELSE employment[q]]
          /\ employer' = [q \in People |-> IF gone[q] > 0 THEN NoOne ELSE employer[q]]
    BY <1>5 DEF ShedJobs, LayOff
  <2>2. alive' = alive
    BY <1>5 DEF ShedJobs, personVars
  <2>3. gone[p] \in Nat /\ gone[p] =< Due(p, d)
    BY <1>t, <2>1
  <2>4. employees'[c][p] = IF c = d THEN employees[c][p] - gone[p] ELSE employees[c][p]
    BY <2>1
  <2>5. CASE gone[p] > 0
    <3>1. Due(p, d) = 1 /\ gone[p] = 1
      BY <2>3, <2>5 DEF Due
    <3>2. \A f \in Companies \ {d} : Due(p, f) = 0
      BY <3>1 DEF Due
    <3>3. employees'[c][p] = 0
      BY <1>t, <2>4, <3>1, <3>2
    <3>4. employment'[p] = "unemployed"
      BY <2>1, <2>5
    <3> QED
      BY <3>3, <3>4 DEF Due, OnStaff
  <2>6. CASE gone[p] = 0
    <3>1. employees'[c][p] = employees[c][p]
      BY <1>t, <2>4, <2>6 DEF FirmsTyped
    <3>2. employment'[p] = employment[p] /\ employer'[p] = employer[p]
      BY <2>1, <2>6
    <3> QED
      BY <1>k, <2>2, <3>1, <3>2
  <2> QED
    BY <2>3, <2>5, <2>6
<1>6. ASSUME NEW d \in Companies, KeepJobs(d) \/ PostOpening(d) \/ StayOpen(d) PROVE Goal
  BY <1>k, <1>6 DEF KeepJobs, PostOpening, StayOpen, personVars, jobVars
<1>7. ASSUME NEW d \in Companies, Bankrupt(d) PROVE Goal
  <2>1. /\ employees'[c][p] = IF c = d THEN 0 ELSE employees[c][p]
        /\ employment'[p] = IF employees[d][p] > 0 THEN "unemployed" ELSE employment[p]
        /\ employer'[p] = IF employees[d][p] > 0 THEN NoOne ELSE employer[p]
        /\ alive' = alive
    BY <1>t, <1>7 DEF Bankrupt, personVars, FirmsTyped
  <2>2. employees[d][p] = Due(p, d) /\ employees[c][p] = Due(p, c)
    BY <1>t
  <2> QED
    BY <1>n, <2>1, <2>2 DEF Due, OnStaff
<1>8. ASSUME NEW d \in Companies, PayStaff(d) PROVE Goal
  <2>1. PICK seen \in [People -> Nat] :
          /\ \A q \in People : seen[q] =< employees[d][q]
          /\ employees' = [f \in Companies |-> [q \in People |->
                            IF f = d /\ q \notin alive THEN employees[f][q] - seen[q]
                            ELSE employees[f][q]]]
    BY <1>8 DEF PayStaff
  <2>2. UNCHANGED <<alive, employment, employer>>
    BY <1>8 DEF PayStaff, personVars
  <2>3. p \notin alive => seen[p] = 0
    <3>1. seen[p] \in Nat /\ seen[p] =< Due(p, d)
      BY <1>t, <2>1
    <3> QED
      BY <3>1 DEF Due
  <2>4. employees'[c][p] = employees[c][p]
    BY <1>t, <2>1, <2>3 DEF FirmsTyped
  <2> QED
    BY <1>k, <2>2, <2>4
<1>9. ASSUME NEW q \in People, Mismatch(q) PROVE Goal
  BY <1>k, <1>9 DEF Mismatch, personVars, jobVars
<1>10. ASSUME NEW o \in openings, TakeDown(o) \/ \E taken \in 0..o.positions : Absorb(o, taken)
       PROVE  Goal
  BY <1>k, <1>10 DEF TakeDown, Absorb, personVars, jobVars
<1>11. ASSUME NEW q \in People, Die(q) \/ \E years \in Ages : Retire(q, years) PROVE Goal
  <2>1. employees' = StruckOff(q) /\ alive' \subseteq alive /\ alive \ {q} \subseteq alive'
    BY <1>11 DEF Die, Retire
  <2>2. CASE p = q
    <3>1. employees'[c][p] = 0
      BY <2>1, <2>2, OffTheList
    <3>2. p \notin alive' \/ employment'[p] = "retired"
      BY <1>t, <1>11, <2>2 DEF Die, Retire, PeopleTyped
    <3> QED
      BY <3>1, <3>2 DEF Due, OnStaff
  <2>3. CASE p # q
    <3>1. employees'[c][p] = employees[c][p]
      BY <1>t, <2>1, <2>3, StruckOffLists DEF FirmsTyped
    <3>2. employment'[p] = employment[p] /\ employer'[p] = employer[p]
      BY <1>t, <1>11, <2>3 DEF Die, Retire, PeopleTyped
    <3> QED
      BY <1>k, <2>1, <2>3, <3>1, <3>2
  <2> QED
    BY <2>2, <2>3
<1>12. ASSUME NEW q \in People, NEW years \in Ages, NEW children \in Births,
              GrowOlder(q, years, children)
       PROVE  Goal
  <2>1. /\ employment'[p] \in {employment[p]} \cup
              (IF employment[p] = "child" THEN {"unemployed"} ELSE {})
        /\ employer' = employer /\ employees' = employees
        /\ alive' = alive \cup children /\ children \cap born = {}
    BY <1>t, <1>12 DEF GrowOlder, PeopleTyped, Births
  <2>2. employees[c][p] = Due(p, c)
    BY <1>t
  <2>3. p \in children => employment[p] = "child"
    BY <1>t, <2>1 DEF UnbornAreOut
  <2> QED
    BY <2>1, <2>2, <2>3 DEF Due, OnStaff
<1> QED
  BY <1>2, <1>3, <1>4, <1>5, <1>6, <1>7, <1>8, <1>9, <1>10, <1>11, <1>12 DEF Next


\* Who still waits to be matched stays without work until it is their turn.
LEMMA StepSeekers == IInv /\ Next => SeekersWait'
<1> SUFFICES ASSUME IInv, Next, NEW p \in todo', phase' = "matching"
             PROVE  employment'[p] = "unemployed"
  BY DEF SeekersWait
<1>t. PeopleTyped /\ LoopTyped /\ SeekersWait
  BY DEF IInv, TypeOK
<1>1. CASE phase = "benefits"
  <2>1. p \in alive /\ employment[p] = "unemployed" /\ employment' = employment
    BY <1>1 DEF Next, PayBenefits, Enter, jobVars, Apply, FoundCompany, EndAgents,
       ShedJobs, KeepJobs, PostOpening, StayOpen, Bankrupt, PayStaff, Match, Mismatch,
       EndMatching, TakeDown, Absorb, Die, Retire, GrowOlder, NextSystem
  <2> QED
    BY <2>1
<1>2. CASE phase = "matching"
  <2>1. ASSUME NEW q \in People, NEW o \in openings, Match(q, o)
        PROVE  employment'[p] = "unemployed"
    <3>1. p \in todo /\ p # q /\ p \in People
      BY <1>t, <1>2, <2>1 DEF Match, LoopTyped, PeopleTyped
    <3>2. employment'[p] = employment[p]
      BY <1>t, <2>1, <3>1 DEF Match, Employ, PeopleTyped
    <3> QED
      BY <1>t, <1>2, <3>1, <3>2 DEF SeekersWait
  <2>2. ASSUME NEW q \in People, Mismatch(q) PROVE employment'[p] = "unemployed"
    BY <1>t, <1>2, <2>2 DEF Mismatch, SeekersWait, jobVars
  <2>3. \/ \E q \in People, o \in openings : Match(q, o)
        \/ \E q \in People : Mismatch(q)
    BY <1>2 DEF Next, PayBenefits, Enter, Apply, FoundCompany, EndAgents,
       ShedJobs, KeepJobs, PostOpening, StayOpen, Bankrupt, PayStaff,
       EndMatching, TakeDown, Absorb, Die, Retire, GrowOlder, NextSystem
  <2> QED
    BY <2>1, <2>2, <2>3
<1>3. phase \in {"benefits", "matching"}
  BY DEF Next, PayBenefits, Enter, Apply, FoundCompany, EndAgents, Match, Mismatch,
     ShedJobs, KeepJobs, PostOpening, StayOpen, Bankrupt, PayStaff,
     EndMatching, TakeDown, Absorb, Die, Retire, GrowOlder, NextSystem
<1> QED
  BY <1>1, <1>2, <1>3

\* Every step keeps the ids of openings apart.
LEMMA StepIds == IInv /\ Next => IdsAreUnique'
<1> SUFFICES ASSUME IInv, Next PROVE IdsAreUnique'
  OBVIOUS
<1>t. FirmsTyped /\ IdsAreUnique
  BY DEF IInv, TypeOK
<1>1. ASSUME openings' \subseteq openings, nextOpening' = nextOpening PROVE IdsAreUnique'
  BY <1>t, <1>1 DEF IdsAreUnique
<1>2. ASSUME NEW o \in openings, NEW taken \in Nat, Fill(o, taken),
             nextOpening' = nextOpening
      PROVE  IdsAreUnique'
  <2>1. /\ \A new \in openings' : \/ new \in openings \ {o}
                                  \/ new.id = o.id /\ new.company = o.company
        /\ \A new, other \in openings' \ openings : new = other
    BY <1>t, <1>2, FillKeepsBoard DEF FirmsTyped
  <2>2. \A new \in openings' : new.id < nextOpening
    BY <1>t, <2>1 DEF IdsAreUnique
  <2>3. o \notin openings' \/ openings' \subseteq openings
    BY <1>t, <1>2, <2>1 DEF Fill
  <2> QED
    BY <1>t, <1>2, <2>1, <2>2, <2>3 DEF IdsAreUnique
<1>3. ASSUME NEW c \in Companies, PostOpening(c) PROVE IdsAreUnique'
  <2>1. /\ nextOpening' = nextOpening + 1 /\ nextOpening \in Nat
        /\ \A o \in openings : o.id \in Nat
    BY <1>t, <1>3 DEF PostOpening, Posted, FirmsTyped, Opening
  <2>2. PICK positions \in Nat :
          openings' = openings \cup {[id |-> nextOpening, company |-> c,
                                     positions |-> positions, filled |-> 0]}
    BY <1>3 DEF PostOpening, Posted
  <2>3. \A new \in openings' : new \in openings \/ new.id = nextOpening
    BY <2>2
  <2>4. \A new, other \in openings' \ openings : new = other
    BY <2>2
  <2> QED
    BY <1>t, <2>1, <2>3, <2>4 DEF IdsAreUnique
<1>4. ASSUME NEW p \in People, NEW o \in openings, Apply(p, o) \/ Match(p, o)
      PROVE  IdsAreUnique'
  BY <1>2, <1>4 DEF Apply, Match
<1>5. ASSUME NEW o \in openings, NEW taken \in 0..o.positions, Absorb(o, taken)
      PROVE  IdsAreUnique'
  BY <1>2, <1>5 DEF Absorb
<1> QED
  BY <1>1, <1>3, <1>4, <1>5 DEF Next, FoundCompany, EndAgents, ShedJobs, KeepJobs,
     StayOpen,
     Bankrupt, PayStaff, PayBenefits, Mismatch, EndMatching, TakeDown, Die, Retire, GrowOlder,
     NextSystem, boardVars

\* Every step keeps the board clear when it should be.
LEMMA StepBoard == IInv /\ Next => BoardIsSwept'
<1> SUFFICES ASSUME IInv, Next PROVE BoardIsSwept'
  OBVIOUS
<1>t. FirmsTyped /\ LoopTyped /\ IdsAreUnique /\ BoardIsSwept
  BY DEF IInv, TypeOK
<1>1. CASE phase = "agents"
  <2>1. ASSUME NEW p \in People, NEW o \in openings, Apply(p, o) PROVE BoardIsSwept'
    <3>1. /\ \A new \in openings' : new.company \in {other.company : other \in openings}
          /\ phase' = phase /\ Active' = Active
      BY <1>t, <2>1, FillKeepsBoard DEF Apply, FirmsTyped, firmVars, Active
    <3> QED
      BY <1>t, <1>1, <3>1 DEF BoardIsSwept, NoStaleOpening
  <2>2. ASSUME NEW p \in People, NEW c \in Companies, FoundCompany(p, c) PROVE BoardIsSwept'
    BY <1>t, <1>1, <2>2 DEF FoundCompany, boardVars, Active, BoardIsSwept,
       NoStaleOpening
  <2>3. CASE EndAgents
    BY <2>3 DEF EndAgents, Enter, BoardIsSwept, NoStaleOpening
  <2> QED
    BY <1>1, <2>1, <2>2, <2>3 DEF Next, ShedJobs, KeepJobs, PostOpening, StayOpen,
       Bankrupt,
       PayStaff, PayBenefits, Match, Mismatch, EndMatching, TakeDown, Absorb, Die, Retire,
       GrowOlder, NextSystem
<1>2. CASE phase \in {"decisions", "payroll", "benefits"}
  <2>1. phase' \in {"decisions", "payroll", "benefits", "matching"}
    BY <1>2 DEF Next, Apply, FoundCompany, EndAgents, ShedJobs, KeepJobs, PostOpening,
       StayOpen,
       Bankrupt, PayStaff, PayBenefits, Match, Mismatch, EndMatching, TakeDown, Absorb, Die,
       Retire, GrowOlder, NextSystem, Enter
  <2> QED
    BY <2>1 DEF BoardIsSwept, NoStaleOpening
<1>3. CASE phase = "matching"
  <2>1. CASE EndMatching
    BY <2>1 DEF EndMatching, Enter, boardVars, BoardIsSwept, NoStaleOpening
  <2>2. CASE phase' = "matching"
    BY <2>2 DEF BoardIsSwept, NoStaleOpening
  <2>3. EndMatching \/ phase' = "matching"
    BY <1>3 DEF Next, Apply, FoundCompany, EndAgents, ShedJobs, KeepJobs, PostOpening,
       StayOpen,
       Bankrupt, PayStaff, PayBenefits, Match, Mismatch, TakeDown, Absorb, Die, Retire,
       GrowOlder, NextSystem
  <2> QED
    BY <2>1, <2>2, <2>3
<1>4. CASE phase = "absorbing"
  <2>1. ASSUME NEW o \in openings, TakeDown(o) PROVE BoardIsSwept'
    <3>1. /\ openings' = openings \ {o} /\ todo' = todo \ {o.id}
          /\ phase' = "absorbing" /\ Active' = Active
      BY <2>1 DEF TakeDown, firmVars, Active
    <3> QED
      BY <1>t, <1>4, <3>1 DEF BoardIsSwept, NoStaleOpening, IdsAreUnique
  <2>2. ASSUME NEW o \in openings, NEW taken \in 0..o.positions, Absorb(o, taken)
        PROVE  BoardIsSwept'
    <3>1. /\ \A new \in openings' : \/ new \in openings \ {o}
                                    \/ new.id = o.id /\ new.company = o.company
          /\ todo' = todo \ {o.id} /\ o.company \in Active
          /\ phase' = "absorbing" /\ Active' = Active
      BY <1>t, <2>2, FillKeepsBoard DEF Absorb, FirmsTyped, firmVars, Active
    <3> QED
      BY <1>t, <1>4, <3>1 DEF BoardIsSwept, NoStaleOpening, IdsAreUnique
  <2>3. CASE NextSystem
    <3>1. todo = {} /\ openings' = openings /\ Active' = Active
          /\ phase' \in {"agents", "demography"}
      BY <1>4, <2>3 DEF NextSystem, Enter, boardVars, firmVars, Active
    <3> QED
      BY <1>t, <1>4, <3>1 DEF BoardIsSwept, NoStaleOpening
  <2> QED
    BY <1>4, <2>1, <2>2, <2>3 DEF Next, Apply, FoundCompany, EndAgents, ShedJobs,
       KeepJobs,
       PostOpening, StayOpen, Bankrupt, PayStaff, PayBenefits, Match, Mismatch, EndMatching,
       Die, Retire, GrowOlder
<1>5. CASE phase = "demography"
  <2>1. openings' = openings /\ Active' = Active /\ phase' \in {"agents", "demography"}
    BY <1>5 DEF Next, Apply, FoundCompany, EndAgents, ShedJobs, KeepJobs, PostOpening,
       StayOpen,
       Bankrupt, PayStaff, PayBenefits, Match, Mismatch, EndMatching, TakeDown, Absorb, Die,
       Retire, GrowOlder, NextSystem, Enter, boardVars, firmVars, Active
  <2> QED
    BY <1>t, <1>5, <2>1 DEF BoardIsSwept, NoStaleOpening
<1> QED
  BY <1>t, <1>1, <1>2, <1>3, <1>4, <1>5 DEF LoopTyped, Phases


\* Every step keeps the pay of all who do not have two jobs from genesis in turn.
LEMMA StepPay == IInv /\ Next => PaidOnce' /\ PayInTurn'
<1> SUFFICES ASSUME IInv, Next PROVE PaidOnce' /\ PayInTurn'
  OBVIOUS
<1>t. PeopleTyped /\ FirmsTyped /\ LoopTyped /\ OnePayroll /\ PaidOnce /\ PayInTurn
  BY DEF IInv, TypeOK
<1>1. CASE phase \in {"agents", "decisions", "absorbing", "demography"}
  <2>1. paid' = paid /\ phase' \in {"agents", "decisions", "absorbing", "demography", "payroll"}
    BY <1>1 DEF Next, Apply, FoundCompany, EndAgents, ShedJobs, KeepJobs, PostOpening,
       StayOpen,
       Bankrupt, PayStaff, PayBenefits, Match, Mismatch, EndMatching, TakeDown, Absorb, Die,
       Retire, GrowOlder, NextSystem, Enter
  <2>2. \A p \in People : paid'[p] = 0
    BY <1>t, <1>1, <2>1 DEF PayInTurn
  <2> QED
    BY <2>2 DEF PaidOnce, PayInTurn
<1>2. CASE phase = "payroll"
  <2>1. ASSUME NEW c \in Companies, PayStaff(c) PROVE PaidOnce' /\ PayInTurn'
    <3>1. PICK seen \in [People -> Nat] :
            /\ \A p \in People : seen[p] =< employees[c][p]
            /\ employees' = [d \in Companies |-> [p \in People |->
                              IF d = c /\ p \notin alive THEN employees[d][p] - seen[p]
                              ELSE employees[d][p]]]
            /\ paid' = [p \in People |-> IF p \in alive THEN paid[p] + seen[p]
                                         ELSE paid[p]]
      BY <2>1 DEF PayStaff
    <3>2. /\ c \in todo /\ todo' = todo \ {c} /\ phase' = phase
          /\ UNCHANGED <<alive, employment, employer>>
          /\ todo \subseteq Companies
      BY <1>t, <1>2, <2>1 DEF PayStaff, IsNext, LoopTyped, FirmsTyped, personVars
    <3>3. ASSUME NEW p \in People \ DoubleBooked
          PROVE  /\ paid'[p] =< 1
                 /\ employment'[p] \notin OnStaff => paid'[p] = 0
                 /\ \A d \in todo' : employees'[d][p] > 0 => paid'[p] = 0
      <4>1. \A d \in Companies : employees[d][p] = Due(p, d)
        BY <1>t DEF OnePayroll, Due
      <4>2. seen[p] \in Nat /\ seen[p] =< Due(p, c) /\ paid[p] \in Nat /\ paid[p] =< 1
        BY <1>t, <3>1, <4>1 DEF PaidOnce, PeopleTyped
      <4>3. \A d \in Companies \ {c} : employees'[d][p] = Due(p, d)
        BY <3>1, <4>1
      <4>4. CASE seen[p] = 0
        <5>1. paid'[p] = paid[p]
          BY <3>1, <4>2, <4>4
        <5>2. \A d \in todo' : Due(p, d) > 0 => paid[p] = 0
          BY <1>t, <1>2, <3>2, <4>1 DEF PayInTurn
        <5>3. employment[p] \notin OnStaff => paid[p] = 0
          BY <1>t, <1>2 DEF PayInTurn
        <5> QED
          BY <3>2, <4>2, <4>3, <5>1, <5>2, <5>3
      <4>5. CASE seen[p] > 0
        <5>1. /\ seen[p] = 1 /\ Due(p, c) = 1
              /\ p \in alive /\ employment[p] \in OnStaff /\ employer[p] = c
          BY <4>2, <4>5 DEF Due
        <5>2. paid[p] = 0
          BY <1>t, <1>2, <3>2, <4>1, <5>1 DEF PayInTurn
        <5>3. paid'[p] = 1
          BY <3>1, <5>1, <5>2
        <5>4. \A d \in todo' : employees'[d][p] = 0
          BY <3>2, <4>3, <5>1 DEF Due
        <5> QED
          BY <3>2, <5>1, <5>3, <5>4
      <4> QED
        BY <4>2, <4>4, <4>5
    <3> QED
      BY <1>2, <3>2, <3>3 DEF PaidOnce, PayInTurn
  <2>2. CASE NextSystem
    <3>1. phase' = "benefits" /\ paid' = paid /\ employment' = employment
      BY <1>2, <2>2 DEF NextSystem, Enter, jobVars
    <3> QED
      BY <1>t, <1>2, <3>1 DEF PaidOnce, PayInTurn
  <2> QED
    BY <1>2, <2>1, <2>2 DEF Next, Apply, FoundCompany, EndAgents, ShedJobs, KeepJobs,
       PostOpening,
       StayOpen, Bankrupt, PayBenefits, Match, Mismatch, EndMatching, TakeDown, Absorb, Die,
       Retire, GrowOlder
<1>3. CASE phase = "benefits"
  <2>1. PayBenefits
    BY <1>3 DEF Next, Apply, FoundCompany, EndAgents, ShedJobs, KeepJobs, PostOpening,
       StayOpen,
       Bankrupt, PayStaff, Match, Mismatch, EndMatching, TakeDown, Absorb, Die, Retire,
       GrowOlder, NextSystem
  <2>2. PICK supported \in SUBSET Entitled :
          paid' = [p \in People |-> IF p \in supported THEN paid[p] + 1 ELSE paid[p]]
    BY <2>1 DEF PayBenefits
  <2>3. ASSUME NEW p \in People \ DoubleBooked PROVE paid'[p] =< 1
    <3>1. p \in supported => paid[p] = 0
      BY <1>t, <1>3, <2>2 DEF PayInTurn, Entitled, OnStaff
    <3>2. paid[p] \in Nat /\ paid[p] =< 1
      BY <1>t DEF PaidOnce, PeopleTyped
    <3> QED
      BY <2>2, <3>1, <3>2
  <2>4. phase' = "matching"
    BY <2>1 DEF PayBenefits, Enter
  <2> QED
    BY <2>3, <2>4 DEF PaidOnce, PayInTurn
<1>4. CASE phase = "matching"
  <2>1. CASE EndMatching
    BY <2>1 DEF EndMatching, PaidOnce, PayInTurn, Enter
  <2>2. CASE paid' = paid /\ phase' = phase
    BY <1>t, <1>4, <2>2 DEF PaidOnce, PayInTurn
  <2>3. EndMatching \/ (paid' = paid /\ phase' = phase)
    BY <1>4 DEF Next, Apply, FoundCompany, EndAgents, ShedJobs, KeepJobs, PostOpening,
       StayOpen,
       Bankrupt, PayStaff, PayBenefits, Match, Mismatch, TakeDown, Absorb, Die, Retire,
       GrowOlder, NextSystem
  <2> QED
    BY <2>1, <2>2, <2>3
<1> QED
  BY <1>t, <1>1, <1>2, <1>3, <1>4 DEF LoopTyped, Phases
-----------------------------------------------------------------------------

\* Standing still keeps everything.
LEMMA StutterKeeps == IInv /\ UNCHANGED vars => IInv'
<1> SUFFICES ASSUME IInv, UNCHANGED vars PROVE IInv'
  OBVIOUS
<1>1. TypeOK'
  BY DEF IInv, vars, personVars, jobVars, firmVars, boardVars, TypeOK, PeopleTyped,
     FirmsTyped, LoopTyped
<1>2. SeekersWait' /\ JobsMatch' /\ UnbornAreOut' /\ OnePayroll'
  BY DEF IInv, vars, personVars, jobVars, firmVars, boardVars, SeekersWait, JobsMatch,
     JobOf,
     UnbornAreOut, OnePayroll, Active
<1>3. IdsAreUnique' /\ BoardIsSwept' /\ PaidOnce' /\ PayInTurn'
  BY DEF IInv, vars, personVars, jobVars, firmVars, boardVars, IdsAreUnique,
     BoardIsSwept,
     NoStaleOpening, PaidOnce, PayInTurn, Active
<1> QED
  BY <1>1, <1>2, <1>3 DEF IInv

\* The invariant is inductive.
THEOREM Inductive == Spec => []IInv
<1>1. IInv /\ [Next]_vars => IInv'
  <2>1. IInv /\ Next => IInv'
    BY StepTypes, StepSeekers, StepJobs, StepLists, StepIds, StepBoard, StepPay DEF IInv
  <2> QED
    BY <2>1, StutterKeeps
<1> QED
  BY InitIInv, <1>1, PTL DEF Spec

\* The records of people, firms and openings keep their types: no list ever
\* counts less than nobody (DemographySystem._die looks before it strikes off).
THEOREM TypesKept == Spec => []TypeOK
<1>1. IInv => TypeOK
  BY DEF IInv
<1> QED
  BY <1>1, Inductive, PTL

\* Whoever is employed has an active employer that lists them, whoever had two
\* jobs at genesis, and only founders are left with a firm that is gone.
THEOREM WorkersStayListed == Spec => []WorkersAreListed
<1>1. IInv => WorkersAreListed
  <2> SUFFICES ASSUME IInv, NEW p \in alive
               PROVE  /\ employment[p] = "employed" =>
                            employer[p] \in Active /\ employees[employer[p]][p] > 0
                      /\ employer[p] \in bankrupt => employment[p] = "self_employed"
    BY DEF WorkersAreListed
  <2>1. /\ JobOf(p) /\ p \in People /\ bankrupt \subseteq Companies
        /\ employment[p] \in Employment
    BY DEF IInv, JobsMatch, TypeOK, PeopleTyped, FirmsTyped
  <2>2. NoOne \notin bankrupt
    BY <2>1, EmploymentAssumption
  <2> QED
    BY <2>1, <2>2 DEF JobOf, OnStaff, Working, Active
<1> QED
  BY <1>1, Inductive, PTL

\* Whom genesis did not put on two lists is on the employer's list, once, and on
\* no other, for as long as they live and work there.
THEOREM ListsStayRight == Spec => []OnePayroll
<1>1. IInv => OnePayroll
  BY DEF IInv
<1> QED
  BY <1>1, Inductive, PTL

\* Residents never see the opening of a firm that is gone: the labour market takes
\* down what bankruptcies leave on the board on the same day.
THEOREM BoardIsCleared == Spec => []NoStaleOpening
<1>1. IInv => NoStaleOpening
  BY DEF IInv, BoardIsSwept
<1> QED
  BY <1>1, Inductive, PTL

\* One payroll pays nobody a second wage, nor a benefit on top of a wage.
THEOREM NobodyPaidTwice == Spec => []PaidOnce
<1>1. IInv => PaidOnce
  BY DEF IInv
<1> QED
  BY <1>1, Inductive, PTL

=============================================================================
