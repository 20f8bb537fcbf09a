------------------------------ MODULE Economy ------------------------------
(***************************************************************************)
(* Money and goods: the accounts (hydra.economy.model, money), the market  *)
(* (clearing, systems), the firms' books (hydra.companies.systems), the    *)
(* treasury (hydra.government.systems), the power plants and the mains     *)
(* (hydra.geography.systems), the households and cohorts who buy           *)
(* (hydra.population.systems), research (hydra.technology.systems) and the *)
(* residents who work and found firms.  One pass is an hour: it runs the   *)
(* systems in the order of their phases, and each loop over plants,        *)
(* accounts, firms, goods or loans is one step an item.                    *)
(*                                                                         *)
(* Money is integer minor units, as in the code.  Quantities are whole     *)
(* units, the code's are floats: what a purchase pays is computed from the *)
(* exact fraction it can afford, what it takes from stock is rounded down. *)
(***************************************************************************)
EXTENDS Integers, Sequences, FiniteSets, FiniteSetsExt, Rounding

CONSTANTS
    Companies,          \* company ids, in the order they are founded
    FirstFirms,         \* those genesis creates
    Researchers,        \* those of them with a research project
    People, Cohorts,    \* who earns; a cohort is a group of residents, with an account
    Households, Home,   \* who buys for the residents that are simulated one by one
    Treasury, Escrow, External, Bank,
    OpeningBalance, OpeningOverdraft, OpeningStaff,
    Goods, Importable, Storable,
    Food, Power, Utilities, \* Utilities: electricity and water
    Perishable,         \* perishable_daily, in per cent
    Product, Input,     \* what a firm sells, and what it buys to make it
    OpeningPrice, OpeningDemand,
    Wage,               \* int(wage_minor / 30), what a day's work earns
    Welfare, Rent, Funding,
    PublicPay,          \* what a cohort's public jobs earn in a day, before tax
    ProcurementPct, Procured, ProcureShare, \* what the city buys, in per cent
    Policies, PolicyCost,                   \* cost_per_day_minor of those that cost
    TaxPct, VatPct, PremiumPct, ExportPct,      \* rates, in per cent
    ExportCover,        \* EXPORT_COVER_DAYS, in cycles of demand
    MinCapital,
    RunwayDays, BorrowDays, Payments, InvestPart, \* 20, 45, 24 and 20 in the code
    InterestPct, DefaultAfter,                  \* DefaultAfter: 3 in the code
    Prices, Dues,       \* what pricing and a month's profit may come to
    Orders,             \* what may be bought: good, quantity, mayImport
    Batches,            \* what a firm may make: the need for input, the output
    Loads,              \* what a plant may run: kwh, and the fuel for it
    Outputs,            \* what the mains may hold for the hour
    MaxPasses, MaxLoans, MaxStock               \* bounds of the model

Institutions == {Treasury, Escrow, External, Bank}
Accounts     == Institutions \cup Companies \cup People \cup Households
Residents    == People \ Cohorts

ASSUME EconomyAssumption ==
    /\ Companies \subseteq Nat /\ IsFiniteSet(Companies)
    /\ FirstFirms \subseteq Companies /\ Researchers \subseteq FirstFirms
    /\ IsFiniteSet(People) /\ Cohorts \subseteq People
    /\ Companies \cap (Institutions \cup People \cup Households) = {}
    /\ Households \cap (Institutions \cup People) = {}
    /\ People \cap Institutions = {} /\ Escrow \notin {Treasury, External}
    /\ IsFiniteSet(Households) /\ Home \in [Residents -> Households]
    /\ Goods \subseteq Nat /\ IsFiniteSet(Goods)
    /\ Importable \subseteq Goods /\ Storable \subseteq Goods
    /\ {Food, Power} \subseteq Goods /\ Utilities \subseteq Goods \ Storable
    /\ Product \in [Companies -> Goods] /\ Input \in [Companies -> Goods]
    /\ \A c \in Companies : Input[c] # Product[c]
    /\ OpeningBalance \in [Accounts -> Nat]
    /\ OpeningOverdraft \in [Accounts -> Nat]
    /\ OpeningStaff \in [Companies -> SUBSET People]
    /\ Prices \subseteq Nat \ {0} /\ OpeningPrice \in [Goods -> Nat \ {0}]
    /\ OpeningDemand \in [Goods -> Nat]
    /\ Perishable \in [Goods -> 0..100]
    /\ PublicPay \in [Cohorts -> Nat]
    /\ Procured \subseteq Goods /\ ProcureShare \in [Procured -> Nat]
    /\ Policies \subseteq Nat /\ IsFiniteSet(Policies)
    /\ PolicyCost \in [Policies -> Nat]
    /\ {Wage, Welfare, Rent, Funding, ProcurementPct, TaxPct, VatPct, PremiumPct, ExportPct,
        ExportCover, MinCapital, BorrowDays, InterestPct, DefaultAfter,
        MaxPasses, MaxLoans, MaxStock} \subseteq Nat
    /\ {RunwayDays, Payments, InvestPart} \subseteq Nat \ {0}
    /\ TaxPct =< 100 /\ ExportPct =< 100
    /\ Orders \subseteq [good : Goods, quantity : Nat, mayImport : BOOLEAN]
    /\ Batches \subseteq [need : Nat, output : Nat]
    /\ Loads \subseteq [kwh : Nat, fuel : Nat]
    /\ Dues \subseteq Nat /\ Outputs \subseteq Nat

VARIABLES
    balance, overdraft,     \* Account.balance_minor, overdraft_minor
    firms, bankrupt,        \* the companies there are, and the bankrupt ones
    staff,                  \* Company.employee_ids and cohort_employees
    jobless,                \* people whose employment is UNEMPLOYED
    supplied,               \* Company.supplied_window
    debt,                   \* Company.debt_minor
    inventory, demand, price,   \* of each Market
    loans,                  \* EconomyState.loans, in the order of their ids
    phase, todo,            \* the system that runs, and what is left of its loop
    daily,                  \* whether the daily systems are due in this pass
    pot, weight, weights,   \* settle_producers' pot, total_weight and weights
    pass                    \* passes so far

moneyVars  == <<balance, overdraft>>
firmVars   == <<firms, bankrupt, staff, jobless>>
marketVars == <<inventory, demand, price>>
creditVars == <<debt, loans>>
settleVars == <<supplied, pot, weight, weights>>
clockVars  == <<daily, pass>>
vars == <<moneyVars, firmVars, marketVars, creditVars, settleVars, clockVars,
          phase, todo>>

Loan == [borrower : Companies, outstanding : Nat, payment : Nat,
         missed : Nat, defaulted : BOOLEAN, due : Nat]

\* The market pass at four in the morning is the one in which goods perish.
Pricing == {"pricing", "dawn"}

Phases == Pricing \cup
          {"grid", "agents", "government", "procurement", "policies", "decisions",
           "payroll", "benefits", "housing", "taxes", "weigh", "pay", "labour",
           "banking", "production", "households", "cohorts", "settlement", "research"}

BooksTyped ==
    /\ balance \in [Accounts -> Int]
    /\ overdraft \in [Accounts -> Nat]
    /\ loans \in Seq(Loan)

FirmsTyped ==
    /\ firms \in SUBSET Companies /\ FirstFirms \subseteq firms
    /\ bankrupt \in SUBSET firms
    /\ staff \in [Companies -> SUBSET People]
    /\ jobless \in SUBSET People

MarketTyped ==
    /\ inventory \in [Goods -> Nat]
    /\ demand \in [Goods -> Nat]
    /\ price \in [Goods -> Nat \ {0}]
    /\ supplied \in [Companies -> Nat]
    /\ weights \in [Companies -> Nat]
    /\ pot \in Nat /\ weight \in Nat

LoopTyped ==
    /\ phase \in Phases
    /\ phase \in {"grid", "decisions", "taxes", "weigh", "pay", "production",
                  "research"} => todo \in SUBSET firms
    /\ phase = "payroll" => todo \in SUBSET (firms \X People)
    /\ phase = "agents" => todo \in SUBSET Residents
    /\ phase \in {"benefits", "labour"} => todo \in SUBSET People
    /\ phase \in {"housing", "households"} => todo \in SUBSET Households
    /\ phase \in {"government", "cohorts"} => todo \in SUBSET Cohorts
    /\ phase = "procurement" => todo \in SUBSET [good : Goods, quantity : Nat]
    /\ phase = "policies" => todo \in SUBSET Policies
    /\ phase = "settlement" => todo \in SUBSET (Cohorts \X {"dues", "rest"})
    /\ phase \in Pricing => todo \in SUBSET Goods
    /\ phase = "banking" => todo \in SUBSET DOMAIN loans
    /\ daily \in BOOLEAN /\ pass \in Nat

TypeOK ==
    /\ BooksTyped /\ FirmsTyped /\ MarketTyped /\ LoopTyped
    /\ debt \in [Companies -> Nat]

\* assign_plant_operators: genesis gives the plants to the power companies there
\* are, and nobody gives any to a later one.
Operators == {c \in FirstFirms : Product[c] = Power}

Init ==
    /\ balance = OpeningBalance
    /\ overdraft = OpeningOverdraft
    /\ firms = FirstFirms
    /\ bankrupt = {}
    /\ staff = OpeningStaff
    /\ jobless = People \ UNION {OpeningStaff[c] : c \in Companies}
    /\ supplied = [c \in Companies |-> 0]
    /\ weights = [c \in Companies |-> 0]
    /\ debt = [c \in Companies |-> 0]
    /\ inventory = [g \in Goods |-> 0]
    /\ demand = OpeningDemand
    /\ price = OpeningPrice
    /\ loans = <<>>
    /\ phase = "grid"
    /\ todo = Operators
    /\ daily = FALSE
    /\ pot = 0
    /\ weight = 0
    /\ pass = 1
-----------------------------------------------------------------------------
(* Money moves by transfers. *)

Available(b, o, a) == b[a] + o[a]

\* Mutant: any purse that is not empty pays.
Mutant_AnyPurse(b, o, source, amount) == amount =< 0 \/ Available(b, o, source) > 0

\* What transfer returns, and the balances after it.
CanPay(b, o, source, amount) == amount =< 0 \/ Available(b, o, source) >= amount

\* Mutant: the target is credited before the source is looked at.
Mutant_CreditFirst(b, o, source, target, amount) ==
    IF amount > 0
    THEN [a \in DOMAIN b |->
            b[a] + (IF a = target THEN amount ELSE 0)
                 - (IF a = source /\ CanPay(b, o, source, amount) THEN amount ELSE 0)]
    ELSE b

Transfer(b, o, source, target, amount) ==
    IF amount > 0 /\ CanPay(b, o, source, amount)
    THEN LET paid == [b EXCEPT ![source] = @ - amount]
         IN  [paid EXCEPT ![target] = @ + amount]
    ELSE b

Active == firms \ bankrupt

\* The loop over sorted ids.
IsNext(i) == i \in todo /\ \A j \in todo : i =< j
Done(i)   == todo' = todo \ {i} /\ phase' = phase
Enter(system, items) == phase' = system /\ todo' = items
-----------------------------------------------------------------------------
(* clearing.purchase.  The record says how many units leave the stock and  *)
(* what is due to the escrow, the rest of the world and the treasury.      *)

\* Mutant: the bill is not scaled to what the buyer has.
Mutant_Unscaled(buyer, good, quantity, wanted, vat, mayImport) ==
    LET filled   == Smaller(quantity, inventory[good])
        short    == 2 * inventory[good] < wanted
        imported == IF mayImport /\ short /\ good \in Importable
                    THEN quantity - filled ELSE 0
        full     == price[good] * (100 * filled + PremiumPct * imported)
        gross    == Round(full, 100)
        tax      == Round(gross * vat, 100)
    IN  [units |-> filled, domestic |-> price[good] * filled,
         foreign |-> gross - price[good] * filled, tax |-> tax]

Bill(buyer, good, quantity, wanted, vat, mayImport) ==
    LET filled   == Smaller(quantity, inventory[good])
        short    == 2 * inventory[good] < wanted
        imported == IF mayImport /\ short /\ good \in Importable
                    THEN quantity - filled ELSE 0
        full     == price[good] * (100 * filled + PremiumPct * imported)
        gross    == Round(full, 100)
        tax      == Round(gross * vat, 100)
        due      == gross + tax
        purse    == Available(balance, overdraft, buyer)
        \* scaled to what the buyer can afford
        scaled   == Round(full * purse, 100 * due)
        domestic == Round(price[good] * filled * purse, due)
    IN  IF due =< purse
        THEN [units |-> filled, domestic |-> price[good] * filled,
              foreign |-> gross - price[good] * filled, tax |-> tax]
        ELSE [units |-> (filled * purse) \div due, domestic |-> domestic,
              foreign |-> scaled - domestic, tax |-> Round(scaled * vat, 100)]

Settle(b, o, buyer, bill) ==
    LET b1 == Transfer(b, o, buyer, Escrow, bill.domestic)
        b2 == Transfer(b1, o, buyer, External, bill.foreign)
    IN  Transfer(b2, o, buyer, Treasury, bill.tax)

\* The caller adds its order to the demand first.
Purchase(buyer, good, quantity, vat, mayImport) ==
    LET wanted == demand[good] + quantity
        bill   == Bill(buyer, good, quantity, wanted, vat, mayImport)
    IN  /\ demand' = [demand EXCEPT ![good] = wanted]
        /\ balance' = IF quantity = 0 THEN balance
                      ELSE Settle(balance, overdraft, buyer, bill)
        /\ inventory' = IF quantity = 0 THEN inventory
                        ELSE [inventory EXCEPT ![good] = @ - bill.units]
-----------------------------------------------------------------------------
(* The environment. *)

\* PowerGridSystem dispatches a plant, whether or not its operator is bankrupt:
\* the operator is owed for the power and buys the fuel.
RunPlant(c, load) ==
    /\ phase = "grid" /\ c \in todo
    /\ Purchase(c, Input[c], load.fuel, 0, TRUE)
    /\ supplied' = [supplied EXCEPT ![c] = @ + load.kwh]
    /\ Done(c)
    /\ UNCHANGED <<overdraft, firmVars, price, creditVars, pot, weight, weights,
                   clockVars>>

\* What the hour generates, and the waterworks pump, replaces what is left of
\* the hour before.
FillMains(output) ==
    /\ phase = "grid" /\ todo = {}
    /\ inventory' = [g \in Goods |-> IF g \in Utilities THEN output[g] ELSE inventory[g]]
    /\ Enter("agents", Residents)
    /\ UNCHANGED <<moneyVars, firmVars, demand, price, creditVars, settleVars,
                   clockVars>>
-----------------------------------------------------------------------------
(* Agents: each of those awake acts at most once. *)

\* FoundCompanyHandler: an account without money and with an overdraft of a
\* quarter of the capital, then the founder's transfer.
FoundCompany(p, c) ==
    /\ phase = "agents" /\ p \in todo
    /\ c \in Companies \ firms /\ \A d \in Companies \ firms : c =< d
    /\ balance[p] >= MinCapital
    /\ LET capital == (balance[p] * 6) \div 10
       IN  /\ overdraft' = [overdraft EXCEPT ![c] = capital \div 4]
           /\ balance' = Transfer(balance, overdraft, p, c, capital)
    /\ firms' = firms \cup {c}
    /\ jobless' = jobless \ {p}
    /\ Done(p)
    /\ UNCHANGED <<bankrupt, staff, marketVars, creditVars, settleVars, clockVars>>

\* BuyFoodHandler, out of the household's account.
BuyFood(p) ==
    /\ phase = "agents" /\ p \in todo
    /\ Available(balance, overdraft, Home[p]) >= price[Food]
    /\ Purchase(Home[p], Food, 1, VatPct, TRUE)
    /\ Done(p)
    /\ UNCHANGED <<overdraft, firmVars, price, creditVars, settleVars, clockVars>>

\* Once a day the institutions are due after the agents, otherwise the markets.
EndAgents ==
    /\ phase = "agents"
    /\ \/ daily' = TRUE /\ Enter("government", Cohorts)
       \/ daily' = FALSE /\ Enter("weigh", firms)
    /\ UNCHANGED <<moneyVars, firmVars, marketVars, creditVars, settleVars, pass>>
-----------------------------------------------------------------------------
(* Institutions. *)

\* GovernmentSystem._public_sector: the net wage of the public jobs, cohort by
\* cohort, until the treasury cannot pay one of them.
PayPublicWage(p) ==
    LET net == PublicPay[p] - (PublicPay[p] * TaxPct) \div 100
    IN  /\ phase = "government" /\ p \in todo
        /\ balance' = Transfer(balance, overdraft, Treasury, p, net)
        /\ todo' = IF CanPay(balance, overdraft, Treasury, net) THEN todo \ {p} ELSE {}
        /\ UNCHANGED <<overdraft, firmVars, marketVars, creditVars, settleVars,
                       clockVars, phase>>

\* Procurement: the budget is read once, and shared between the goods.
PublicOrders ==
    LET budget == Larger(0, (balance[Treasury] * ProcurementPct) \div 100)
    IN  {[good |-> g, quantity |-> (budget * ProcureShare[g]) \div (100 * price[g])]
            : g \in Procured}

\* The city pays no VAT and has nothing imported.
Procure(order) ==
    /\ phase = "procurement" /\ order \in todo
    /\ Purchase(Treasury, order.good, order.quantity, 0, FALSE)
    /\ Done(order)
    /\ UNCHANGED <<overdraft, firmVars, price, creditVars, settleVars, clockVars>>

\* _pay_active_policies: the city borrows rather than defaulting on its own policy.
PayPolicy(k) ==
    /\ phase = "policies" /\ IsNext(k)
    /\ overdraft' = IF CanPay(balance, overdraft, Treasury, PolicyCost[k])
                    THEN overdraft
                    ELSE [overdraft EXCEPT ![Treasury] = @ + PolicyCost[k]]
    /\ balance' = Transfer(balance, overdraft', Treasury, Escrow, PolicyCost[k])
    /\ Done(k)
    /\ UNCHANGED <<firmVars, marketVars, creditVars, settleVars, clockVars>>

WageBill(c) == Larger(1, Wage * Cardinality(staff[c]))

\* Mutant: the runway is not looked at.
Mutant_NoRunway(c, margin) ==
    CASE margin = "negative" -> "cost_cut"
      [] margin = "thin" -> "survive"
      [] OTHER -> "invest"

\* CompanyDecisionSystem._choose_strategy, from the cash and the margin.
Strategy(c, margin) ==
    IF margin = "negative" \/ balance[c] < RunwayDays * WageBill(c) THEN "cost_cut"
    ELSE IF margin = "thin" THEN "survive"
    ELSE "invest"

\* The end of the firm's board meeting: bankrupt when it had no cash as the
\* meeting began, has debts and has lost for long.
CloseBooks(c, kept, debts) ==
    \/ /\ staff' = [staff EXCEPT ![c] = kept]
       /\ jobless' = jobless \cup (staff[c] \ kept)
       /\ UNCHANGED bankrupt
    \/ /\ balance[c] =< 0 /\ debts > 0
       /\ bankrupt' = bankrupt \cup {c}
       /\ staff' = [staff EXCEPT ![c] = {}]
       /\ jobless' = jobless \cup staff[c]

\* Whom _lay_off keeps, for being overstaffed or short of cash: at least one.
Kept(c) == {kept \in SUBSET staff[c] : kept = {} => staff[c] = {}}

\* A meeting that neither borrows nor invests.
CutCosts(c, kept) ==
    /\ phase = "decisions" /\ IsNext(c)
    /\ CloseBooks(c, kept, debt[c])
    /\ Done(c)
    /\ UNCHANGED <<moneyVars, firms, marketVars, creditVars, settleVars,
                   clockVars>>

\* Mutant: the bank lends what it does not hold.
Mutant_BorrowUnfunded(c, kept) ==
    LET amount == WageBill(c) * BorrowDays
        loan   == [borrower |-> c, outstanding |-> amount,
                   payment |-> amount \div Payments, missed |-> 0,
                   defaulted |-> FALSE, due |-> pass + 1]
    IN  /\ phase = "decisions" /\ IsNext(c)
        /\ Strategy(c, "thin") = "survive"
        /\ amount > 0
        /\ Len(loans) < MaxLoans
        /\ loans' = Append(loans, loan)
        /\ balance' = Transfer(balance, overdraft, Bank, c, amount)
        /\ debt' = [debt EXCEPT ![c] = @ + amount]
        /\ CloseBooks(c, kept, debt[c] + amount)
        /\ Done(c)
        /\ UNCHANGED <<overdraft, firms, marketVars, settleVars, clockVars>>

\* _borrow: the bank must hold what it lends.
Borrow(c, kept) ==
    LET amount == WageBill(c) * BorrowDays
        loan   == [borrower |-> c, outstanding |-> amount,
                   payment |-> amount \div Payments, missed |-> 0,
                   defaulted |-> FALSE, due |-> pass + 1]
    IN  /\ phase = "decisions" /\ IsNext(c)
        /\ Strategy(c, "thin") = "survive"
        /\ amount > 0 /\ balance[Bank] >= amount
        /\ Len(loans) < MaxLoans
        /\ loans' = Append(loans, loan)
        /\ balance' = Transfer(balance, overdraft, Bank, c, amount)
        /\ debt' = [debt EXCEPT ![c] = @ + amount]
        /\ CloseBooks(c, kept, debt[c] + amount)
        /\ Done(c)
        /\ UNCHANGED <<overdraft, firms, marketVars, settleVars, clockVars>>

\* _expand: a part of the cash buys materials.
Invest(c, kept) ==
    LET spend == balance[c] \div InvestPart
        units == spend \div Larger(1, price[Input[c]])
    IN  /\ phase = "decisions" /\ IsNext(c)
        /\ Strategy(c, "fat") = "invest"
        /\ Purchase(c, Input[c], units, 0, TRUE)
        /\ CloseBooks(c, kept, debt[c])
        /\ Done(c)
        /\ UNCHANGED <<overdraft, firms, price, creditVars, settleVars, clockVars>>

\* PayrollSystem: firms in order, a firm's individuals before its cohorts.  The
\* net wage, then the tax, whose transfer's result nobody looks at.  A wage
\* that cannot be paid ends the firm's loop over individuals.
PayWage(c, p) ==
    LET net  == Wage - (Wage * TaxPct) \div 100
        paid == CanPay(balance, overdraft, c, net)
        rest == {d \in todo : d[1] = c /\ d[2] \notin Cohorts}
    IN  /\ phase = "payroll"
        /\ <<c, p>> \in todo /\ \A d \in todo : c =< d[1]
        /\ p \in Cohorts => rest = {}
        /\ balance' = IF paid
                      THEN Transfer(Transfer(balance, overdraft, c, p, net),
                                    overdraft, c, Treasury, Wage - net)
                      ELSE balance
        /\ todo' = IF paid \/ p \in Cohorts THEN todo \ {<<c, p>>} ELSE todo \ rest
        /\ UNCHANGED <<overdraft, firmVars, marketVars, creditVars, settleVars,
                       clockVars, phase>>

\* Benefits to those without work, as long as the treasury has the money.
PayBenefit(p) ==
    /\ phase = "benefits" /\ p \in todo
    /\ balance' = Transfer(balance, overdraft, Treasury, p, Welfare)
    /\ Done(p)
    /\ UNCHANGED <<overdraft, firmVars, marketVars, creditVars, settleVars, clockVars>>

\* HousingSystem collects the rent on the first of the month; what happens to
\* those who cannot pay is in Residents.
PayRent(h) ==
    /\ phase = "housing" /\ h \in todo
    /\ balance' = Transfer(balance, overdraft, h, Escrow, Rent)
    /\ Done(h)
    /\ UNCHANGED <<overdraft, firmVars, marketVars, creditVars, settleVars, clockVars>>

\* TaxSystem: corporate tax on the month's profit.
CollectTax(c, due) ==
    /\ phase = "taxes" /\ IsNext(c)
    /\ balance' = Transfer(balance, overdraft, c, Treasury, due)
    /\ Done(c)
    /\ UNCHANGED <<overdraft, firmVars, marketVars, creditVars, settleVars, clockVars>>
-----------------------------------------------------------------------------
(* Markets: settle_producers, prices and exports, the window's end, jobs   *)
(* and loans.                                                              *)

Weigh(c) ==
    /\ phase = "weigh" /\ IsNext(c)
    /\ LET value == supplied[c] * price[Product[c]]
       IN  /\ weights' = [weights EXCEPT ![c] = value]
           /\ weight' = weight + value
    /\ Done(c)
    /\ UNCHANGED <<moneyVars, firmVars, marketVars, creditVars, clockVars,
                   supplied, pot>>

\* settle_producers' local variables go when it returns.
Forget == pot' = 0 /\ weight' = 0 /\ weights' = [c \in Companies |-> 0]

\* Nothing in escrow or nothing supplied: the windows are cleared all the same.
StartPaying ==
    /\ phase = "weigh" /\ todo = {}
    /\ IF balance[Escrow] =< 0 \/ weight = 0
       THEN /\ supplied' = [c \in Companies |-> 0]
            /\ Forget
            /\ \E market \in Pricing : Enter(market, Goods)
       ELSE /\ pot' = balance[Escrow]
            /\ Enter("pay", {c \in firms : weights[c] > 0})
            /\ UNCHANGED <<supplied, weight, weights>>
    /\ UNCHANGED <<moneyVars, firmVars, marketVars, creditVars, clockVars>>

Share(c) == (pot * weights[c]) \div weight

PayProducer(c) ==
    /\ phase = "pay" /\ IsNext(c)
    /\ balance' = Transfer(balance, overdraft, Escrow, c, Share(c))
    /\ supplied' = IF Share(c) > 0 THEN [supplied EXCEPT ![c] = 0] ELSE supplied
    /\ Done(c)
    /\ UNCHANGED <<overdraft, firmVars, marketVars, creditVars, clockVars, pot,
                   weight, weights>>

EndPaying ==
    /\ phase = "pay" /\ todo = {}
    /\ supplied' = [c \in Companies |-> 0]
    /\ Forget
    /\ \E market \in Pricing : Enter(market, Goods)
    /\ UNCHANGED <<moneyVars, firmVars, marketVars, creditVars, clockVars>>

\* What is left of a stock that has perished.
Unspoilt(g) == (inventory[g] * (100 - Perishable[g])) \div 100

\* _export_surplus, out of what is left and at the new price.
Surplus(g, stock) ==
    IF g \in Storable /\ demand[g] > 0 /\ stock > ExportCover * demand[g]
    THEN Smaller(stock \div 4, stock - ExportCover * demand[g])
    ELSE 0

ExportValue(units, newPrice) == (units * newPrice * ExportPct) \div 100

SetPrice(g, newPrice) ==
    LET stock == IF phase = "dawn" THEN Unspoilt(g) ELSE inventory[g]
        value == ExportValue(Surplus(g, stock), newPrice)
    IN  /\ phase \in Pricing /\ IsNext(g)
        /\ price' = [price EXCEPT ![g] = newPrice]
        /\ balance' = Transfer(balance, overdraft, External, Escrow, value)
        /\ inventory' =
             [inventory EXCEPT
                 ![g] = IF value > 0 /\ CanPay(balance, overdraft, External, value)
                        THEN stock - Surplus(g, stock) ELSE stock]
        /\ Done(g)
        /\ UNCHANGED <<overdraft, demand, firmVars, creditVars, settleVars, clockVars>>

\* ProductionSystem leaves the power companies to the grid.
Makers == {c \in Active : Product[c] # Power}

\* MarketCloseSystem, then the daily market systems when they are due.
CloseMarkets ==
    /\ phase \in Pricing /\ todo = {}
    /\ demand' = [g \in Goods |-> 0]
    /\ IF daily THEN Enter("labour", jobless) ELSE Enter("production", Makers)
    /\ UNCHANGED <<moneyVars, firmVars, inventory, price, creditVars, settleVars,
                   clockVars>>

\* LabourMarketSystem: a job seeker is matched to a firm, or to none.
Hire(p, c) ==
    /\ phase = "labour" /\ p \in todo
    /\ c \in Active
    /\ staff' = [staff EXCEPT ![c] = @ \cup {p}]
    /\ jobless' = jobless \ {p}
    /\ Done(p)
    /\ UNCHANGED <<moneyVars, firms, bankrupt, marketVars, creditVars, settleVars,
                   clockVars>>

NoJob(p) ==
    /\ phase = "labour" /\ p \in todo
    /\ Done(p)
    /\ UNCHANGED <<moneyVars, firmVars, marketVars, creditVars, settleVars, clockVars>>

Owing(c, ls) == {i \in DOMAIN ls : ls[i].borrower = c /\ ~ls[i].defaulted}
OwedBy(c, ls) == MapThenSumSet(LAMBDA i : ls[i].outstanding, Owing(c, ls))

\* BankingSystem: an instalment is paid or missed, and the borrower's debt is
\* added up again.
Instalment(loan) ==
    LET interest == (loan.outstanding * InterestPct) \div 100
    IN  Smaller(loan.outstanding + interest, Larger(loan.payment, interest))

PaidLoan(loan) ==
    LET interest == (loan.outstanding * InterestPct) \div 100
    IN  [borrower    |-> loan.borrower,
         outstanding |-> Larger(0, loan.outstanding + interest - Instalment(loan)),
         payment     |-> loan.payment,
         missed      |-> 0,
         defaulted   |-> loan.defaulted,
         due         |-> pass + 1]

MissedLoan(loan) ==
    [borrower    |-> loan.borrower,
     outstanding |-> loan.outstanding,
     payment     |-> loan.payment,
     missed      |-> loan.missed + 1,
     defaulted   |-> loan.missed + 1 >= DefaultAfter,
     due         |-> pass + 1]

ServiceLoan(i) ==
    LET loan == loans[i]
        paid == CanPay(balance, overdraft, loan.borrower, Instalment(loan))
    IN  /\ phase = "banking" /\ IsNext(i)
        /\ ~loan.defaulted /\ loan.outstanding > 0 /\ loan.due =< pass
        /\ balance' = Transfer(balance, overdraft, loan.borrower, Bank, Instalment(loan))
        /\ loans' = [loans EXCEPT ![i] = IF paid THEN PaidLoan(loan) ELSE MissedLoan(loan)]
        /\ debt' = [debt EXCEPT ![loan.borrower] = OwedBy(loan.borrower, loans')]
        /\ Done(i)
        /\ UNCHANGED <<overdraft, firmVars, marketVars, settleVars, clockVars>>

\* Settled, written off, or not due: the month between two instalments is any
\* number of passes, at least one.
SkipLoan(i) ==
    /\ phase = "banking" /\ IsNext(i)
    /\ Done(i)
    /\ UNCHANGED <<moneyVars, firmVars, marketVars, creditVars, settleVars, clockVars>>
-----------------------------------------------------------------------------
(* Physical systems. *)

\* ProductionSystem: inputs are bought, and what the staff makes of them is
\* added to the stock and to the firm's window.
Produce(c, batch) ==
    LET g      == Product[c]
        need   == batch.need
        output == batch.output
    IN  /\ phase = "production" /\ IsNext(c)
        /\ staff[c] = {} => output = 0
        /\ inventory[g] + output =< MaxStock
        /\ LET wanted == demand[Input[c]] + need
               bill   == Bill(c, Input[c], need, wanted, 0, TRUE)
           IN  /\ demand' = [demand EXCEPT ![Input[c]] = wanted]
               /\ balance' = IF need = 0 THEN balance
                             ELSE Settle(balance, overdraft, c, bill)
               /\ inventory' =
                    [inventory EXCEPT
                        ![Input[c]] = IF need = 0 THEN @ ELSE @ - bill.units,
                        ![g] = @ + output]
        /\ supplied' = [supplied EXCEPT ![c] = @ + output]
        /\ Done(c)
        /\ UNCHANGED <<overdraft, firmVars, price, creditVars, pot, weight, weights,
                       clockVars>>

\* HouseholdConsumptionSystem: the basket of the hour, and in the evening what
\* the day has left over, out of the household's account.
HouseholdBuys(h, order) ==
    /\ phase = "households" /\ h \in todo
    /\ Purchase(h, order.good, order.quantity, VatPct, order.mayImport)
    /\ Done(h)
    /\ UNCHANGED <<overdraft, firmVars, price, creditVars, settleVars, clockVars>>

\* CohortConsumptionSystem._hourly_basket.
CohortBuys(p, order) ==
    /\ phase = "cohorts" /\ p \in todo
    /\ Purchase(p, order.good, order.quantity, VatPct, order.mayImport)
    /\ Done(p)
    /\ UNCHANGED <<overdraft, firmVars, price, creditVars, settleVars, clockVars>>

\* _daily_settlement, cohort by cohort: the benefit of those who do not work,
\* then the rent, then what is left over is spent.
SettleCohort(p) ==
    LET granted == Transfer(balance, overdraft, Treasury, p, Welfare)
    IN  /\ phase = "settlement" /\ <<p, "dues">> \in todo
        /\ \A d \in todo : d[2] = "rest" => <<d[1], "dues">> \in todo
        /\ balance' = Transfer(granted, overdraft, p, Escrow, Rent)
        /\ Done(<<p, "dues">>)
        /\ UNCHANGED <<overdraft, firmVars, marketVars, creditVars, settleVars, clockVars>>

SpendRest(p, order) ==
    /\ phase = "settlement" /\ <<p, "rest">> \in todo /\ <<p, "dues">> \notin todo
    /\ Purchase(p, order.good, order.quantity, VatPct, order.mayImport)
    /\ Done(<<p, "rest">>)
    /\ UNCHANGED <<overdraft, firmVars, price, creditVars, settleVars, clockVars>>
-----------------------------------------------------------------------------
(* The slow systems, and the end of the hour. *)

\* ResearchSystem funds a firm's project, or finds it is over: genesis starts the
\* projects, and nobody starts another.
FundResearch(c, cost) ==
    /\ phase = "research" /\ IsNext(c)
    /\ balance' = Transfer(balance, overdraft, c, Escrow, cost)
    /\ Done(c)
    /\ UNCHANGED <<overdraft, firmVars, marketVars, creditVars, settleVars, clockVars>>

EndHour ==
    /\ phase \in {"cohorts", "settlement", "research"} /\ todo = {}
    /\ pass < MaxPasses
    /\ pass' = pass + 1
    /\ Enter("grid", Operators)
    /\ UNCHANGED <<moneyVars, firmVars, marketVars, creditVars, settleVars, daily>>

\* The kernel goes on to the next system that is due.
NextSystem ==
    /\ todo = {}
    /\ \/ phase = "government" /\ Enter("procurement", PublicOrders)
       \/ /\ phase = "procurement"
          /\ \E active \in SUBSET Policies : Enter("policies", active)
       \/ phase = "policies" /\ Enter("decisions", Active)
       \/ /\ phase = "decisions"
          /\ Enter("payroll", {d \in Active \X People : d[2] \in staff[d[1]]})
       \/ phase = "payroll" /\ Enter("benefits", jobless)
       \/ phase = "benefits" /\ Enter("housing", Households)
       \/ phase = "housing" /\ Enter("taxes", Active)
       \/ phase \in {"benefits", "taxes"} /\ Enter("weigh", firms)
       \/ phase = "labour" /\ Enter("banking", DOMAIN loans)
       \/ phase = "banking" /\ Enter("production", Makers)
       \/ phase = "production" /\ Enter("households", Households)
       \/ phase = "households" /\ Enter("cohorts", Cohorts)
       \/ phase = "cohorts" /\ ~daily /\ Enter("settlement", Cohorts \X {"dues", "rest"})
       \/ phase = "cohorts" /\ daily /\ Enter("research", Active \cap Researchers)
    /\ UNCHANGED <<moneyVars, firmVars, marketVars, creditVars, settleVars, clockVars>>

Next ==
    \/ \E c \in Companies, load \in Loads : RunPlant(c, load)
    \/ \E output \in [Utilities -> Outputs] : FillMains(output)
    \/ \E p \in Residents, c \in Companies : FoundCompany(p, c)
    \/ \E p \in Residents : BuyFood(p)
    \/ EndAgents
    \/ \E p \in Cohorts : PayPublicWage(p)
    \/ phase = "procurement" /\ \E order \in todo : Procure(order)
    \/ \E k \in Policies : PayPolicy(k)
    \/ \E c \in Companies : \E kept \in Kept(c) : CutCosts(c, kept)
    \/ \E c \in Companies : \E kept \in Kept(c) : Borrow(c, kept)
    \/ \E c \in Companies : \E kept \in Kept(c) : Invest(c, kept)
    \/ \E c \in Companies, p \in People : PayWage(c, p)
    \/ \E p \in People : PayBenefit(p)
    \/ \E h \in Households : PayRent(h)
    \/ \E c \in Companies, due \in Dues : CollectTax(c, due)
    \/ \E c \in Companies : Weigh(c)
    \/ StartPaying
    \/ \E c \in Companies : PayProducer(c)
    \/ EndPaying
    \/ \E g \in Goods, newPrice \in Prices : SetPrice(g, newPrice)
    \/ CloseMarkets
    \/ \E p \in People, c \in Companies : Hire(p, c)
    \/ \E p \in People : NoJob(p)
    \/ \E i \in DOMAIN loans : ServiceLoan(i)
    \/ \E i \in DOMAIN loans : SkipLoan(i)
    \/ \E c \in Companies, batch \in Batches : Produce(c, batch)
    \/ \E h \in Households, order \in Orders : HouseholdBuys(h, order)
    \/ \E p \in Cohorts, order \in Orders : CohortBuys(p, order)
    \/ \E p \in Cohorts : SettleCohort(p)
    \/ \E p \in Cohorts, order \in Orders : SpendRest(p, order)
    \/ \E c \in Companies, cost \in {0, Funding} : FundResearch(c, cost)
    \/ EndHour
    \/ NextSystem

Spec == Init /\ [][Next]_vars
-----------------------------------------------------------------------------
\* "no negative balances below an account's overdraft" (money.py), whatever
\* chain of purchases, wages, taxes, loans and policies an account goes through.
WithinOverdraft == \A a \in Accounts : balance[a] >= - overdraft[a]

\* "Money is conserved" (README): every unit is in some account, and there are
\* as many as genesis opened the accounts with.
MoneyConserved ==
    MapThenSumSet(LAMBDA a : balance[a], Accounts)
        = MapThenSumSet(LAMBDA a : OpeningBalance[a], Accounts)

\* Company.debt_minor, which bankruptcy and the observatory go by, is what the
\* bank's loans to it still say, between any two payments.
DebtMatchesLoans == \A c \in Companies : debt[c] = OwedBy(c, loans)

\* While producers are being paid the escrow holds every share still to come:
\* nobody's transfer fails because an earlier one took too much.
SharesCovered ==
    phase = "pay" => balance[Escrow] >= MapThenSumSet(Share, todo)

\* The books: accounts, loans and the producers' shares agree with each other.
BooksBalance == MoneyConserved /\ DebtMatchesLoans /\ SharesCovered

\* Goods leave the stock only against money: purchase takes from the stock
\* without looking at what transfer returned, so its bill must never exceed
\* what the buyer has, and what is exported is paid for after the rest of the
\* stock has perished.  What perishes, and what the mains lose when the hour is
\* over, is not sold.
GoodsArePaid ==
    [][\A g \in Goods :
          LET lost   == IF phase = "dawn" /\ g \in todo \ todo'
                        THEN inventory[g] - Unspoilt(g) ELSE 0
              sold   == inventory[g] - lost - inventory'[g]
              lowest == Smaller(price[g], price'[g])
          IN  sold > 0 /\ ~(phase = "grid" /\ todo = {}) =>
                balance'[Escrow] - balance[Escrow] >= ExportValue(sold, lowest)]_vars

\* "Recycling it is what keeps wages and revenue in the same universe - an economy
\* where every wage is saved is an economy where every firm goes bankrupt" (the
\* comment in HouseholdConsumptionSystem): a household that has spent all it had
\* has nobody left in it whose earnings are still to be spent.
WagesAreSpent ==
    \A p \in Residents :
        phase = "cohorts" /\ balance[Home[p]] =< 0 => balance[p] =< OpeningBalance[p]

\* The accounts households buy food and pay rent from never receive anything:
\* wages and benefits go to their members' own accounts, and no purchase or rent
\* is taken from those.  It is why WagesAreSpent fails, and proved.
HouseholdsOnlyPay ==
    [][\A h \in Households : balance'[h] =< balance[h]]_vars

\* A booked loan has been paid out in full: _borrow does not look at what
\* transfer returned either.
LoanPaidOut ==
    [][\A i \in DOMAIN loans' \ DOMAIN loans :
          LET loan == loans'[i]
          IN  balance'[loan.borrower] = balance[loan.borrower] + loan.outstanding]_vars

\* No firm is wound up with money in the bank, although the cash the decision
\* goes by was read before the same meeting borrowed or invested.
BankruptHasNoCash ==
    [][\A c \in bankrupt' \ bankrupt : balance'[c] =< 0]_vars
=============================================================================
