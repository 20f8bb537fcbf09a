------------------------------- MODULE MCCity -------------------------------
(***************************************************************************)
(* The instances of Economy and of Genesis in one run of TLC.  Genesis     *)
(* builds a city once, from two companies, one of them a power company, a  *)
(* cohort that works and one of children, three residents, a district with *)
(* two homes and one with none, and four discoveries, one of them made,    *)
(* two ready to be made.  The hours of the city are those of MCEconomy.    *)
(* The two have no variable in common: in a behaviour one of them goes on, *)
(* the other stays where it begins.                                        *)
(***************************************************************************)
EXTENDS MCEconomy, Genesis

CONSTANTS town, hills

MCHousing  == [d \in Districts |-> IF d = town THEN {1, 2} ELSE {}]
MCHall     == [d \in Districts |-> IF d = town THEN 3 ELSE 4]
MCCapacity == [b \in Buildings |-> 1]
MCWorkPct  == [k \in CohortIds |-> IF k = 1 THEN 90 ELSE 0]
MCNeeds    == <<{}, {1}, {1, 2}, {1}>>
MCOffices  == <<"official", "chief", "notable">>

VARIABLE part   \* which of the two goes on

\* Genesis ends with the seal, the hours at their bound.
CityInit == Init /\ GenesisInit /\ part \in {"hours", "genesis"}

CityNext ==
    \/ part = "hours" /\ Next /\ UNCHANGED <<genesisVars, part>>
    \/ part = "genesis" /\ GenesisNext /\ UNCHANGED <<vars, part>>
    \/ (AtBound \/ stage = "sealed") /\ UNCHANGED <<vars, genesisVars, part>>

CitySpec == CityInit /\ [][CityNext]_<<vars, genesisVars, part>>
=============================================================================
