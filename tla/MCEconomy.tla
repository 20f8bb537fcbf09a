----------------------------- MODULE MCEconomy -----------------------------
(***************************************************************************)
(* An instance of Economy for TLC: a power company with a gas plant and a  *)
(* refinery that can be founded beside it and buys its power, one person,  *)
(* the household they live in, and one cohort.                             *)
(***************************************************************************)
EXTENDS Economy

MCProduct == [c \in Companies |-> c]
MCInput   == [c \in Companies |-> 3 - c]
MCHome    == [p \in Residents |-> CHOOSE h \in Households : TRUE]

MCBalance ==
    [a \in Accounts |-> CASE a = Treasury -> 2
                          [] a = Bank -> 3
                          [] a \in FirstFirms -> 6
                          [] a \in Cohorts -> 2
                          [] a \in Residents -> 5
                          [] a \in Households -> 3
                          [] OTHER -> 0]
MCOverdraft ==
    [a \in Accounts |-> CASE a = External -> 40
                          [] a \in FirstFirms -> 1
                          [] OTHER -> 0]
MCStaff == [c \in Companies |-> IF c \in FirstFirms THEN Residents ELSE {}]
MCDemand == [g \in Goods |-> 1]
MCPrice  == [g \in Goods |-> IF g = 1 THEN 2 ELSE 3]

MCPerishable == [g \in Goods |-> IF g = 2 THEN 50 ELSE 0]
MCPublicPay  == [p \in Cohorts |-> 2]
MCShare      == [g \in Procured |-> 100]
MCPolicyCost == [k \in Policies |-> IF k = 1 THEN 3 ELSE 1]

\* Fuel may be imported, power may not.
MCOrders  == {[good |-> 1, quantity |-> 2, mayImport |-> FALSE],
              [good |-> 2, quantity |-> 3, mayImport |-> TRUE]}
MCLoads   == {[kwh |-> 3, fuel |-> 1]}
MCBatches == {[need |-> 0, output |-> 0], [need |-> 2, output |-> 4]}

\* A behaviour of the model ends with an hour, at the bound and nowhere else.
AtBound == /\ phase \in {"cohorts", "settlement", "research"} /\ todo = {}
           /\ pass = MaxPasses

MCNext == Next \/ (AtBound /\ UNCHANGED vars)
MCSpec == Init /\ [][MCNext]_vars
=============================================================================
