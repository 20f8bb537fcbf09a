SPECIFICATION CitySpec
CONSTANTS
    Companies = {1, 2}
    FirstFirms = {1}
    Researchers = {1}
    People = {person, cohort}
    Cohorts = {cohort}
    person = person
    cohort = cohort
    Treasury = Treasury
    Escrow = Escrow
    External = External
    Bank = Bank
    OpeningBalance <- MCBalance
    OpeningOverdraft <- MCOverdraft
    OpeningStaff <- MCStaff
    Goods = {1, 2}
    Importable = {2}
    Storable = {2}
    Product <- MCProduct
    Input <- MCInput
    OpeningPrice <- MCPrice
    OpeningDemand <- MCDemand
    Wage = 2
    Welfare = 1
    ProcurementPct = 75
    Procured = {2}
    ProcureShare <- MCShare
    PublicPay <- MCPublicPay
    Policies = {1, 2}
    PolicyCost <- MCPolicyCost
    Perishable <- MCPerishable
    TaxPct = 50
    VatPct = 20
    PremiumPct = 110
    ExportPct = 95
    ExportCover = 1
    MinCapital = 4
    RunwayDays = 1
    BorrowDays = 1
    Payments = 1
    InvestPart = 1
    InterestPct = 25
    DefaultAfter = 1
    Prices = {3}
    Orders <- MCOrders
    Batches <- MCBatches
    Dues = {1}
    Households = {home}
    home = home
    Home <- MCHome
    Food = 2
    Power = 1
    Utilities = {1}
    Rent = 1
    Funding = 1
    Loads <- MCLoads
    Outputs = {4}
    MaxPasses = 2
    MaxLoans = 2
    MaxStock = 6
    CompanyCount = 2
    PowerCompanies = {1}
    ResearchFirms = {1, 2}
    Discoveries = 4
    Needs <- MCNeeds
    MaxProjects = 8
    Targets = {1, 2}
    Plants = {plant}
    CohortIds = {1, 2}
    Sizes = {0, 4}
    WorkPct <- MCWorkPct
    MaxPeople = 3
    MaxCast = 3
    MaxSize = 2
    Ages = {17, 40}
    town = town
    hills = hills
    Districts = {town, hills}
    Housing <- MCHousing
    Hall <- MCHall
    Capacity <- MCCapacity
    Offices <- MCOffices
    PublicStaff = 3
    Savings = 2
    OpeningCash = {3}
    NoOne = NoOne
INVARIANT WithinOverdraft
INVARIANT BooksBalance
INVARIANT OpensSound
PROPERTY GoodsArePaid
PROPERTY LoanPaidOut
PROPERTY BankruptHasNoCash
