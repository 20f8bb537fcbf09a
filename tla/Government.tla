----------------------------- MODULE Government -----------------------------
(***************************************************************************)
(* A day of the city government: it pays its staff, buys, pays for the        *)
(* policies in force, answers to what is wrong with a policy, lets policies    *)
(* lapse, holds elections; and on the first of the month TaxSystem collects    *)
(* and books the debt.  What goes wrong in the city (prices, unemployment,     *)
(* unrest) is chosen freely, so is who wins an election.                       *)
(***************************************************************************)
EXTENDS Integers, FiniteSets, Sequences

CONSTANTS
    Parties,
    Leader,         \* Leader[p]: the person who leads party p, or Nobody
    Nobody,
    FirstMayor,     \* whom genesis appointed
    Strict, Caring, \* parties whose ideology is above the thresholds
    PublicCohorts,  \* how many cohorts have public jobs
    Payroll,        \* Payroll[n]: net pay of the jobs of the first n of them by id
    OpeningTreasury, OpeningWelfare,
    Rates,          \* the percentages a policy may change things by
    Costs,          \* what a day of a policy may cost
    Terms,          \* days a policy may be in force
    Flows,          \* what all others may add to or take from the treasury in a day
    DebtLimit,      \* debt above which a deficit calls for austerity
    ProcurementPct, \* of the treasury, spent on purchases
    Warmup, DecisionGap, ElectionPeriod, MonthDays,     \* days
    LastDay         \* bound of the model

ASSUME GovernmentAssumption ==
    /\ Nobody \notin Parties /\ Strict \subseteq Parties /\ Caring \subseteq Parties
    /\ DOMAIN Leader = Parties
    /\ PublicCohorts \in Nat /\ Payroll \in [0..PublicCohorts -> Nat]
    /\ Payroll[0] = 0 /\ \A n \in 1..PublicCohorts : Payroll[n - 1] < Payroll[n]
    /\ {OpeningTreasury, OpeningWelfare, DebtLimit} \subseteq Nat
    /\ Rates \subseteq 1..99 /\ Costs \subseteq Nat /\ Flows \subseteq Int
    /\ Terms \subseteq Nat \ {0} /\ ProcurementPct \in 0..100
    /\ {Warmup, DecisionGap, ElectionPeriod, MonthDays, LastDay} \subseteq Nat \ {0}

VARIABLES
    treasury, overdraft,        \* of the treasury's account
    debt,                       \* GovernmentState.debt_minor
    deficit,                    \* the treasury the day began with was negative
    welfare,
    policies,                   \* GovernmentState.policies: those in force, by kind
    toPay,                      \* kinds in force and not yet asked for today
    lastDecision,
    inPower, ruling, mayor,     \* Party.in_power, ruling_party_id, mayor_id
    elections,                  \* GovernmentState.elections
    turn, day,
    base, rounded               \* history: what austerity alone makes of the welfare,
                                \* and how often it was rounded

accountVars == <<treasury, overdraft, debt, deficit>>
policyVars == <<welfare, policies, toPay, lastDecision, base, rounded>>
officeVars == <<inPower, ruling, mayor, elections>>
vars == <<accountVars, policyVars, officeVars, turn, day>>

Kinds == {"energy_subsidy", "price_cap", "welfare_boost", "public_works", "tax_change",
          "policing_surge", "austerity"}
Active(k) == policies[k].active
NotInForce == [active |-> FALSE, rate |-> 0, cost |-> 0, enacted |-> 0, expires |-> 0, paid |-> 0]

\* The types of the state.
TypeOK ==
    /\ treasury \in Int /\ overdraft \in Nat /\ debt \in Nat /\ deficit \in BOOLEAN
    /\ welfare \in Nat
    /\ policies \in [Kinds -> [active : BOOLEAN, rate : 0..99, cost : Nat, enacted : Nat,
                               expires : Nat, paid : Nat]]
    /\ toPay \subseteq Kinds /\ lastDecision \in Nat
    /\ inPower \subseteq Parties /\ ruling \in Parties
    /\ mayor \in {FirstMayor} \cup {Leader[p] : p \in Parties}
    /\ elections \in Seq([scheduled : Nat, held : BOOLEAN, winner : Parties \cup {Nobody}])
    /\ turn \in {"city", "staff", "policies", "decision", "expiry", "election", "taxes"}
    /\ day \in 0..LastDay
    /\ base \in Nat /\ rounded \in Nat

\* genesis build_government and _appoint_notables: the largest party is in power,
\* whoever leads it; the mayor is appointed apart from that.
Init ==
    /\ treasury = OpeningTreasury /\ overdraft = 0 /\ debt = 0 /\ deficit = FALSE
    /\ welfare = OpeningWelfare /\ base = OpeningWelfare /\ rounded = 0
    /\ policies = [k \in Kinds |-> NotInForce] /\ toPay = {} /\ lastDecision = 0
    /\ \E largest \in Parties : ruling = largest /\ inPower = {largest}
    /\ mayor = FirstMayor /\ elections = <<>>
    /\ turn = "city" /\ day = 0

-----------------------------------------------------------------------------
(* The treasury.                                                           *)

Larger(a, b) == IF a < b THEN b ELSE a
Available == treasury + overdraft

\* What the rest of the city pays in and draws before the government runs:
\* VAT and wage tax, benefits; each draws what there is or nothing.
City ==
    /\ turn = "city"
    /\ \E flow \in Flows :
        /\ flow >= 0 \/ Available + flow >= 0
        /\ treasury' = treasury + flow
        /\ deficit' = (treasury + flow < 0)
    /\ turn' = "staff"
    /\ UNCHANGED <<overdraft, debt, policyVars, officeVars, day>>

\* GovernmentSystem._public_sector: cohorts are paid until one cannot be, and
\* what is left buys goods.
PublicSector ==
    /\ turn = "staff"
    /\ \E n \in 0..PublicCohorts :
        /\ Payroll[n] <= Larger(0, Available)
        /\ n < PublicCohorts => Payroll[n + 1] > Available
        /\ LET left == treasury - Payroll[n]
           IN  \E bought \in 0..((Larger(0, left) * ProcurementPct) \div 100) :
                   treasury' = left - bought
    /\ toPay' = {k \in Kinds : Active(k)}
    /\ turn' = "policies"
    /\ UNCHANGED <<overdraft, debt, deficit, welfare, policies, lastDecision, base, rounded,
                   officeVars, day>>

Paid(p) == [p EXCEPT !.paid = @ + 1]

\* Mutant: the city does not borrow for a policy.
Mutant_Borrowed(cost) == 0

\* What the overdraft has to grow by.
Borrowed(cost) == IF cost > 0 /\ Available < cost THEN cost ELSE 0

\* What of it is booked as debt: the transfer after it goes through.
Owed(cost) == IF Available + Borrowed(cost) >= cost THEN Borrowed(cost) ELSE 0

\* _pay_active_policies, one policy, the oldest first: on credit when the account
\* is short.
PayPolicy(k) ==
    LET cost == policies[k].cost
    IN  /\ turn = "policies" /\ k \in toPay
        /\ \A other \in toPay : policies[k].enacted <= policies[other].enacted
        /\ toPay' = toPay \ {k}
        /\ overdraft' = overdraft + Borrowed(cost)
        /\ debt' = debt + Owed(cost)
        /\ IF Available + Borrowed(cost) >= cost
           THEN /\ treasury' = treasury - cost
                /\ policies' = [policies EXCEPT ![k] = Paid(@)]
           ELSE UNCHANGED <<treasury, policies>>
        /\ UNCHANGED <<deficit, welfare, lastDecision, base, rounded, officeVars, turn, day>>

EndPolicies ==
    /\ turn = "policies" /\ toPay = {}
    /\ turn' = "decision"
    /\ UNCHANGED <<accountVars, policyVars, officeVars, day>>

-----------------------------------------------------------------------------
(* Decisions.                                                              *)

Troubles == {"none", "energy", "food", "jobs", "unrest", "deficit", "inflation"}

\* Long in debt, and in deficit when the day began.
Broke == deficit /\ debt > DebtLimit

\* The first trouble of the list; deficit stands before inflation.
Presses(trouble) ==
    /\ trouble = "deficit" => Broke
    /\ Broke => trouble \notin {"none", "inflation"}

\* What the ruling party does about it.
Answer(trouble) ==
    CASE trouble = "energy"    -> IF ruling \in Strict THEN "price_cap" ELSE "energy_subsidy"
      [] trouble = "food"      -> IF ruling \in Strict THEN "price_cap" ELSE "welfare_boost"
      [] trouble = "unrest"    -> IF ruling \in Strict THEN "policing_surge" ELSE "welfare_boost"
      [] trouble = "jobs"      -> IF ruling \in Caring THEN "public_works" ELSE "tax_change"
      [] trouble = "deficit"   -> "austerity"
      [] trouble = "inflation" -> "tax_change"

\* int() of a quotient of floats: of a whole one it may fall one short.
Truncated(n, d) == {n \div d, (Larger(1, n) - 1) \div d}

\* What a policy makes of the welfare.
Changed(w, k, rate) ==
    CASE k = "welfare_boost" -> Truncated(w * (100 + rate), 100)
      [] k = "austerity"     -> Truncated(w * (100 - rate), 100)
      [] OTHER               -> {w}

CostOf(k, newWelfare) ==
    CASE k \in {"energy_subsidy", "public_works", "policing_surge"} -> Costs
      [] k = "welfare_boost" -> {newWelfare \div 5}
      [] OTHER               -> {0}

ChangesWelfare(k) == k \in {"welfare_boost", "austerity"}

\* _enact.
Enact(k) ==
    \E rate \in Rates, term \in Terms : \E newWelfare \in Changed(welfare, k, rate) :
        \E cost \in CostOf(k, newWelfare) :
            /\ welfare' = newWelfare
            /\ policies' = [policies EXCEPT ![k] =
                  [active |-> TRUE, rate |-> rate, cost |-> cost, enacted |-> day,
                   expires |-> day + term, paid |-> 0]]
            /\ lastDecision' = day
            /\ base' = IF k = "austerity" THEN (base * (100 - rate)) \div 100 ELSE base
            /\ rounded' = IF ChangesWelfare(k) THEN rounded + 1 ELSE rounded

MayEnact(k) == day >= Warmup /\ ~Active(k) /\ day - lastDecision >= DecisionGap

Decide ==
    /\ turn = "decision"
    /\ \E trouble \in Troubles :
        /\ Presses(trouble)
        /\ IF trouble # "none" /\ MayEnact(Answer(trouble))
           THEN Enact(Answer(trouble))
           ELSE UNCHANGED <<welfare, policies, lastDecision, base, rounded>>
    /\ turn' = "expiry"
    /\ UNCHANGED <<accountVars, toPay, officeVars, day>>

Lapses(k) == Active(k) /\ day >= policies[k].expires

\* Mutant: what a boost added stays.
Mutant_Unboosted(w, rate) == {w}

Unboosted(w, rate) == Truncated(100 * w, 100 + rate)

\* _expire: a boost is taken back; austerity and tax cuts stay.
Expire ==
    /\ turn = "expiry"
    /\ policies' = [k \in Kinds |-> IF Lapses(k) THEN NotInForce ELSE policies[k]]
    /\ IF Lapses("welfare_boost")
       THEN /\ welfare' \in Unboosted(welfare, policies["welfare_boost"].rate)
            /\ rounded' = rounded + 1
       ELSE UNCHANGED <<welfare, rounded>>
    /\ turn' = "election"
    /\ UNCHANGED <<accountVars, toPay, lastDecision, base, officeVars, day>>

-----------------------------------------------------------------------------
(* Elections, and the end of the day.                                      *)

Called(tick) == [scheduled |-> tick, held |-> FALSE, winner |-> Nobody]
Scheduled == IF elections = <<>> THEN <<Called(ElectionPeriod)>> ELSE elections
Coming == Scheduled[Len(Scheduled)]
Held(election, winner) == [election EXCEPT !.held = TRUE, !.winner = winner]
IsDue == ~Coming.held /\ day >= Coming.scheduled

Seated(winner) == {winner}

\* Mutant: the mayor stays whoever wins.
Mutant_MayorOf(winner) == mayor

\* The leader of the party, if it has one.
MayorOf(winner) == IF Leader[winner] = Nobody THEN mayor ELSE Leader[winner]

\* _maybe_election.
Election ==
    /\ turn = "election"
    /\ IF IsDue
       THEN \E winner \in Parties :
            /\ inPower' = Seated(winner) /\ ruling' = winner
            /\ mayor' = MayorOf(winner)
            /\ elections' = Append([Scheduled EXCEPT ![Len(Scheduled)] = Held(@, winner)],
                                   Called(day + ElectionPeriod))
       ELSE /\ elections' = Scheduled
            /\ UNCHANGED <<inPower, ruling, mayor>>
    /\ turn' = "taxes"
    /\ UNCHANGED <<accountVars, policyVars, day>>

\* TaxSystem: on the first of the month what the firms owe comes in, and what the
\* treasury is short of is added to the debt, again.
Taxes ==
    /\ turn = "taxes" /\ day < LastDay
    /\ IF (day + 1) % MonthDays = 0
       THEN \E collected \in {f \in Flows : f >= 0} :
                /\ treasury' = treasury + collected
                /\ debt' = debt + Larger(0, -(treasury + collected))
       ELSE UNCHANGED <<treasury, debt>>
    /\ day' = day + 1 /\ turn' = "city"
    /\ UNCHANGED <<overdraft, deficit, policyVars, officeVars>>

Next ==
    \/ City \/ PublicSector \/ EndPolicies \/ Decide \/ Expire \/ Election \/ Taxes
    \/ \E k \in Kinds : PayPolicy(k)

Spec == Init /\ [][Next]_vars

-----------------------------------------------------------------------------
(* What must hold.                                                         *)

\* A boost of the benefits is temporary and austerity is not: with no boost in
\* force, the welfare is what austerity has made of it, to within one unit for every
\* int() that was taken.  It may be above it too: what a second austerity rounds off
\* while a boost is in force is not what it rounds off without one.
WelfareComesBack ==
    ~Active("welfare_boost") => welfare \in (base - rounded)..(base + rounded)

\* "The city borrows rather than defaulting on its own policy": a policy in force
\* has been paid for on every day since it was enacted, and on none after its term.
PolicyIsPaid ==
    \A k \in Kinds : Active(k) =>
        /\ day <= policies[k].expires
        /\ policies[k].paid = day - policies[k].enacted
              - (IF turn \in {"city", "staff"} \/ k \in toPay THEN 1 ELSE 0)

\* Nothing the treasury is short of is missing from the debt: it never draws more
\* than its overdraft, and the overdraft only grows with the debt.
BorrowingIsDebt == Available >= 0 /\ overdraft <= debt

\* The city pays for its policies, and owes what it borrows for them.
PoliciesArePaid == PolicyIsPaid /\ BorrowingIsDebt

\* One party is in power, the one that rules and won the last election; from the
\* first one it wins with a leader the city has that leader as mayor.
OneGovernment ==
    /\ inPower = {ruling}
    /\ \A i \in 1..(Len(elections) - 1) : elections[i].held
    /\ Len(elections) > 1 =>
        LET last == elections[Len(elections) - 1]
        IN  /\ last.winner = ruling
            /\ Leader[ruling] # Nobody => mayor = Leader[ruling]
=============================================================================
