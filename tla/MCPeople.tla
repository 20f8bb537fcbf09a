------------------------------ MODULE MCPeople ------------------------------
(***************************************************************************)
(* Employment and Residents in one run of TLC.  The two have no variable   *)
(* in common: in a behaviour one of them goes on, the other stays where it *)
(* begins.                                                                 *)
(*                                                                         *)
(* Employment: a chief executive whom genesis took from firm 2 without     *)
(* taking them off its list, a clerk of firm 2 in public office, a pupil,  *)
(* and a child that may be born.  Residents: three founders in two         *)
(* households, two of whom are friends, and three cohorts.                 *)
(***************************************************************************)
EXTENDS Employment, Residents

CONSTANTS chief, clerk, pupil, baby

VARIABLE part   \* which of the two goes on

MCAge        == [p \in People |-> CASE p = pupil -> "youth"
                                    [] p = baby  -> "child"
                                    [] OTHER     -> "adult"]
MCEmployment == [p \in People |-> CASE p = chief -> "employed"
                                    [] p = clerk -> "public"
                                    [] OTHER     -> "child"]
MCEmployer   == [p \in People |-> CASE p = chief -> 1
                                    [] p = clerk -> 2
                                    [] OTHER     -> NoOne]
MCLists      == [c \in Companies |-> [p \in People |->
                    CASE p = chief /\ c \in {1, 2} -> 1
                      [] p = clerk /\ c = 2        -> 1
                      [] OTHER                     -> 0]]
MCStaff      == [c \in Companies |-> IF c = 1 THEN 1 ELSE 0]

MCFirstHome  == <<"h1", "h1", "h2">>
MCFriends    == {<<3, 1>>, <<1, 3>>}
MCCohorts    == <<"kids", "young", "youngFar">>
MCFirstSize  == [c \in CohortSet |-> IF c = "kids" THEN 2 ELSE 1]
MCBirthParts == [c \in CohortSet |-> IF c = "kids" THEN 0 ELSE 2]
MCDeathParts == [c \in CohortSet |-> IF c = "kids" THEN 0 ELSE 1]
MCChildren   == [c \in CohortSet |-> IF c = "young" THEN "kids" ELSE "none"]
MCNextBand   == [c \in CohortSet |-> IF c = "kids" THEN "young" ELSE "none"]
MCAlike      == [c \in CohortSet |-> CASE c = "young" -> {"youngFar"}
                                       [] c = "youngFar" -> {"young"}
                                       [] OTHER -> {}]
MCBandYears  == [c \in CohortSet |-> IF c = "kids" THEN 2 ELSE 1]

\* Employment ends while the agents act, Residents with the last month's moves,
\* and neither anywhere else.
AtBound == \/ part = "jobs" /\ phase = "agents" /\ day = MaxDays
           \/ part = "homes" /\ turn = "migration" /\ remaining = {} /\ month = LastMonth

PeopleInit == Init /\ ResidentsInit /\ part \in {"jobs", "homes"}

PeopleNext ==
    \/ part = "jobs" /\ Next /\ UNCHANGED <<residentsVars, part>>
    \/ part = "homes" /\ ResidentsNext /\ UNCHANGED <<vars, part>>
    \/ AtBound /\ UNCHANGED <<vars, residentsVars, part>>

PeopleSpec == PeopleInit /\ [][PeopleNext]_<<vars, residentsVars, part>>
=============================================================================
