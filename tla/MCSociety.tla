----------------------------- MODULE MCSociety -----------------------------
(***************************************************************************)
(* Knowledge and Government in one run of TLC: three residents, who are    *)
(* alike, and one fact, of any of the three kinds, printed by one outlet;  *)
(* two parties with leaders and one without.  The two have no variable in  *)
(* common: in a behaviour one of them goes on, the other stays where it    *)
(* begins.                                                                 *)
(***************************************************************************)
EXTENDS Knowledge, Government, TLC

VARIABLE part   \* which of the two goes on

Alike == Permutations(People)

MCLeader  == [p \in Parties |-> CASE p = "civic" -> "lea"
                                  [] p = "order" -> "orson"
                                  [] OTHER -> Nobody]
MCPayroll == [n \in 0..PublicCohorts |-> CASE n = 0 -> 0 [] n = 1 -> 3 [] OTHER -> 7]
MCFlows   == {-9, 5}

\* Government ends when the last day is over.
SocietyInit == KnowledgeInit /\ Init /\ part \in {"rumours", "days"}

SocietyNext ==
    \/ part = "rumours" /\ KnowledgeNext /\ UNCHANGED <<vars, part>>
    \/ part = "days" /\ Next /\ UNCHANGED <<knowledgeVars, part>>
    \/ (turn = "taxes" /\ day = LastDay) /\ UNCHANGED <<knowledgeVars, vars, part>>

SocietySpec == SocietyInit /\ [][SocietyNext]_<<knowledgeVars, vars, part>>
=============================================================================
