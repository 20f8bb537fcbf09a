# Verification of the Hydra world

TLA+ models of the Hydra simulation (the repository beside this directory), the
TLC configurations that check them on small instances, and proofs that the TLA+
proof system checks for every instance.  A path without a directory below is a
file of the module named before it; `engine.py` is
`packages/world-kernel/hydra/kernel/engine.py`, `worker.py` is
`apps/simulation-worker/hydra_worker/worker.py`.

Contents: [the system](#1-the-system), [the modules](#2-modules-and-code),
[the runs](#3-what-the-runs-check), [bounds, fairness and
deadlock](#4-bounds-fairness-and-deadlock),
[the proofs](#5-what-is-proved), [what was
found](#6-where-code-and-documentation-disagree),
[what is not modelled](#7-what-is-not-modelled), [the plan](#8-plan).

## 1. The system

Hydra simulates a city.  One *worker* process advances a *world*, tick by tick, in
one thread.  A tick is the *kernel* calling every registered *system* (power grid,
agents, government, companies, markets, ...) in a fixed order, delivering the
events they emit over an in-process *bus*, and giving the important ones to the
*ledger*.  The worker publishes the world to a *store* (files or Postgres), from
which an *API* serves the *Observatory* in the browser.  The operator steers the
worker only through a *control record* in that store.

| Component | State it keeps | Operations | Modelled in |
|---|---|---|---|
| World kernel (`engine.py`, `scheduler.py`, `registry.py`, `context.py`) | tick, timers, health of every system, checkpoints, snapshot ticks, stack of causes | `tick`: fire timers, run due systems, drain, persist, checkpoint; quarantine | `KernelTick` |
| Event bus (`events/bus.py`) | pending events, subscribers | `publish`, `drain` with its storm guard | `KernelTick` |
| Operator scenarios (`world/scenarios.py`) | none of its own | `run_scenario`: change the world, emit, drain | `KernelTick`, `Worker`, `Timelines` |
| History ledger (`history/ledger.py`) | buffer of events | `append`, `flush` | `KernelTick`, `Worker` |
| Simulation worker (`worker.py`) | loaded worlds, tick of the last publication | poll, budget, batch, publish, pause, account for a step, apply a scenario, stop | `Worker` (one world), `Timelines` (all) |
| Worker service (`service.py`) | stop flag | start, SIGTERM | `Worker` |
| World store (`filestore.py`, `postgres.py`) | timelines, events, snapshots, live states, head ticks, control records | `append_events`, `write_snapshot`, `write_live`, `put_control`, append-only guard | `Worker`, `WorldHistory`, `Timelines` |
| Live cache (`livecache.py`) | live states in Redis, with a time to live | write-through, read-through | `Timelines` |
| API service (`hydra_api/service.py`), timelines (`timelines/*.py`) | remembered states; lineage of timelines | `set_control`; create, fork, replay; `state` | `Worker` (`set_control`), `Timelines` |
| Economy (`economy/{money,clearing,systems}.py`) | accounts, markets, loans, supply windows | transfer, purchase, settle producers, price, export, lend | `Economy` |
| Companies (`companies/systems.py`) | lists of staff, openings, debt, strategy | board meeting, payroll, production | `Economy` (money), `Employment` (jobs) |
| Government (`government/systems.py`) | policies, treasury, debt, elections | staff and purchases, policies, taxes, elections | `Government`; `Economy` (every movement of the treasury's money) |
| Population (`population/systems.py`), demographics (`demographics/systems.py`) | households, cohorts, residents, ages | rent and eviction; death, birth, ageing, migration; consumption | `Residents`; `Economy` (purchases, rent); `Employment` (ageing of workers) |
| Agents: actions (`agents/actions.py`) | needs, jobs, facts | buy, work, found a firm, apply, talk, post, read | `Economy`, `Employment`, `Knowledge` |
| Agents: brains (`agents/systems.py`, `gateway.py`), dormancy | activity, inboxes, budgets of a language model | sleep, wake, perceive, decide | `Minds`, `Idleness` |
| Information and media (`information/*.py`) | facts, what each resident knows and from whom, posts, publications | make, learn, retell, print, post, deliver, evict | `Knowledge` |
| Culture, technology, social graph | indices, research projects, ties | research, tie strengths | `Genesis`, `Economy` (research), `Residents` (family ties) |
| Geography (`geography/systems.py`) | plants, mains, weather, homes | dispatch, fuel, water | `Economy` (its money and goods) |
| Genesis (`genesis/*.py`) | none that changes | build a world from a seed | `Genesis` |
| View model, read models, spatial city, Observatory | none that changes | project the world for readers | not modelled, section 7 |

How they interact:

* *Calls.*  Worker → kernel → systems and handlers, all on one stack.  The kernel
  calls two hooks of the worker: the sink (`Ledger.append`) and `snapshot_hook`,
  which write to the store.
* *Shared state.*  All systems change one `WorldState`.  Worker and API share the
  store; its control record is written by both, whole, without a version.
* *Callbacks.*  Handlers run inside `drain`, which runs inside `tick` or inside
  `run_scenario`; they may emit again.

What is hard:

* *Failure isolation.*  A system or a handler may raise between any two of its
  emissions; the world must go on, the record of events must stay whole, and a
  system that fails three times must be left alone for good.
* *Three rhythms.*  Ledger, snapshots and live state are written at different ticks
  of one loop, the ledger also whenever its buffer is full, and the process may be
  stopped or killed between any two writes.  The store refuses to rewrite a sealed
  past, so what is written first decides whether a restart can go on.
* *Stale control.*  The worker puts back a record it read a batch earlier.
* *Unlooked-at results.*  `transfer` returns whether it moved money, and `purchase`,
  `_borrow` and payroll do not look.  That this is harmless is arithmetic: bills are
  scaled, shares rounded down, loans granted against the bank's balance.
* *Duplicated figures.*  A company's debt is kept beside its loans; a job is
  recorded by the person and by the firm, in handlers of five packages; a home by the
  person and by the household; a party in power by three fields.
* *Checks that age.*  The API judges what it remembers by a head tick it read earlier,
  fills the cache with what it fetched earlier, and forks by several calls in which
  worker, other threads and crashes may fall.
* *Bounded memories.*  Facts, knowledge, inboxes and posts are evicted at a limit, while
  chains of hearsay go through them.
* *Rounding.*  A boost of the benefits is multiplied on and divided off again; cohorts
  age and die by fractions that are carried over.

What makes each component correct:

| Component | Correct when |
|---|---|
| Kernel and bus | important events of a tick reach the ledger once, in order, causes first; a tick ends; quarantine is final; timers fire as often as they are due; a snapshot is never ahead of the ledger |
| Worker and store | nothing is lost or doubled while nobody kills the worker; killed, it loses at most one live interval and can go on; a step request runs exactly its ticks |
| Timelines and cache | a reader without a cache gets no older world than was published when it asked; a replay and a fork's past are what the timeline was; an answered fork stays, unless another took its id at the same time; what can be started can be loaded |
| Economy | no account below its overdraft; money neither made nor destroyed; goods leave the stock only against money; debts are what the loans say; no firm with cash is wound up |
| Employment | whoever is employed has a firm that is there and lists them; nobody is on two lists that genesis did not put there; nobody is paid twice; nobody sees openings of firms that are gone |
| Government | policies in force are paid on every day of their term, on credit that is booked; a temporary benefit is taken back; one party and its mayor govern |
| Residents | homes and families agree with each other through births and deaths; nobody is evicted over one rent; growing up and moving loses nobody |
| Minds | nights end; the morning's summary has what was told in sleep; no budget is overspent by more than a reply |
| Knowledge | a rumour has an origin; an alteration can be traced; a story is printed once a day |
| Genesis | what is sealed is what the other modules start from |

`PROJECT.json` lists every hazard at its line with the properties that watch it.

## 2. Modules and code

### KernelTick

`Kernel.tick` with everything it calls.  The kernel is one thread; `pc` makes its
call stack explicit, so that a step or a handler can stop between two emissions.

| Variable | Code |
|---|---|
| `tick`, `emitted` | `WorldState.meta.tick`; every event made, numbered by `next_event_seq` |
| `pending`, `drained`, `current`, `subs` | `InProcessTransport._pending`, `drain`'s guard, the event in delivery and the handlers it still has to visit |
| `delivered`, `todo` | `tick`'s list of delivered events and of due systems |
| `running`, `emits`, `causeStack` | the call in progress and `TickContext._cause_stack` |
| `health`, `timers`, `checkpoints`, `snapshotTicks` | `KernelDomainState` |
| `ledger`, `snapshots` | what the sink and `snapshot_hook` were given |

| Actions | Code |
|---|---|
| `BeginTick`, `FireTimer`, `CollectDue` | the head of `tick`, `pop_due_timers`, `_fire_timers`, `due_systems` |
| `BeginStep`, `StepEmit`, `StepReturn`, `StepRaise`, `Schedule` | `_run_system`, the system's own calls, `_record_failure` |
| `PopEvent`, `EventStorm`, `SkipHandler`, `BeginHandler`, `HandlerEmit`, `HandlerReturn`, `HandlerRaise`, `EndDelivery`, `EndDrain` | `drain` and `_wrap_handler` |
| `FinalDrain`, `BeginPersist`, `PersistOne`, `EndTick` | the tail of `tick`, `_persist`, `_checkpoint` |
| `RunScenario` | `run_scenario` between two ticks |

Abstracted: what a system computes (any emission its declared topics allow, in any
number up to a bound), importance (a topic is important or not), payloads, hashes.

### Worker and WorldHistory

`SimulationWorker` advancing one timeline, `Ledger`, either store, and
`WorldService.set_control`.  `calls` is the rest of the call sequence of a tick,
so that the process can die between any two store calls, or between the write and
the head bump of one.

| Variable | Code |
|---|---|
| `pc`, `calls`, `mem`, `lastLive`, `seen`, `batch`, `left` | `_advance` and `RunningWorld` |
| `fresh`, `buffer` | events of the tick not yet handed over; `Ledger._buffer` |
| `events`, `head`, `snapshots`, `live`, `control` | the store |
| `request` | `set_control` between `get_control` and `put_control` |
| `latest`, `owed`, `overrun`, `counts` | history variables of the properties |

A world is its tick, the ticks at which scenarios were applied, and its important
events.  That is all two deterministic simulations of the same seed can differ in,
and it is why a re-simulated event after a rolled-back scenario is a different
event with the same id (`Event` keeps `inputs`).

Actions follow `run_forever` and `_advance` top to bottom: `Start`, `Poll`,
`ApplyScenario`, `ClearScenario`, `NothingToRun`/`StartBatch`, `Tick`, the calls
(`AppendEvent`, `Flush*`, `Bump*`, `WriteSnapshot`, `WriteLive`),
`PauseAtTarget`/`NextIteration`/`EndLoop`, `Settle`, `Stop`, `Exit`; the
environment is `Crash`, `GetControl` and `SetControl`.

`WorldHistory` is the abstract promise: a ledger that only grows, forwards, and
published worlds whose past is exactly the ledger.  `Worker!AppendOnlyHistory`
states that `Worker` implements it with `ledger <- events, published <- live`; it is
checked on an instance and proved in general, for a worker that is not killed.

What Postgres does with the rows it has already (`ON CONFLICT DO NOTHING`) is the
recursive function `Inserted`, row by row of the buffer, so that `Flush` can be
reasoned about.

### Timelines

All timelines of all worlds in one store, any number of API threads and the worker.  The
store is files, Postgres, or Postgres behind Redis: each behaviour has one of the
deployments `Stores`.  Every call to store or cache is a step, so that requests, the
worker's publications and crashes fall between any two calls.  A world is the seeds it
descends from (`world`, and `branch`: the salt and tick of each fork), its tick and its
scenarios.

| Variable | Code |
|---|---|
| `store` | which stores `build_store` has chosen (`hydra_api/service.py:26-50`) |
| `worlds`, `timelines`, `snapshots`, `live`, `control` | the records of the store |
| `cache` | `hydra:live:<timeline>` in Redis |
| `mem`, `batch` | the worker's `running` worlds; the timeline it advances with its next call, the tick up to which the ledger is flushed, and whether it publishes after this tick |
| `thread`, `remembered` | the request of each API thread; `WorldService._cache` |
| `was`, `asked` | history: the worlds of the run each timeline is on; the worlds and forks that were answered |
| `disturbed` | history: ids another request or the operator got at while they were being made |

| Actions | Code |
|---|---|
| `AskCreate`, `AskFork`, `Name` | `create_world`, `fork_timeline`: checks and the id |
| `PutRecord`, `PutSnapshot`, `Reread`, `PutLive`, `Answer` | their calls, one by one, in the order of `After`: world, record, snapshot, what a fork reads back, live state, Redis, control record, answer |
| `AskReplay`, `Replay` | `replay_to`: the nearest snapshot at or below the tick, re-simulation, verification against checkpoints |
| `AskRead`, `Look`, `Fetch` | `WorldService.state`: head, remembered state, live state, snapshots; what was missed is written back with `PutLive` |
| `Load`, `ApplyScenario`, `Tick`, `Flush`, `HookSnapshot`, `Publish`, `WorkerCrash` | the worker, with `Visits` saying which timelines it advances |
| `Expire`, `SetCache`, `StoreLive` | `RedisLiveCache`, and the write it swallows |
| `SetControl`, `ApiRestart` | the operator, who may start any timeline that is listed, half-made ones too: `WorldService.control` makes a record where there is none; a new API process remembers nothing |

A run of a timeline ends when the worker's process does.  `Load` begins the next
one: of what the timeline has been, the worlds before the one it restores are its past
(`was`), the others were lost.

Several threads may create and fork at once.  They can then take one id, since an id is
looked for before the record is written (`Name`, `Unused`), and two worlds both call
their first timeline `tl_zero` (`AskCreate`).  The operator can also start a timeline
that a request is still making.  The history variable `disturbed` collects the ids this
happens to and the forks made of them; the properties of `timelines_api` are about all
others, and `timelines_forks` shows what becomes of such an id.  Timelines left
half made by a request that died are not among them: they can be started and forked, and
the properties hold of them.

### Economy

The movements of money and of stock in an hour, one action per item of each loop.
`phase` is the system that runs and `todo` the rest of its loop; `NextSystem` and the
`End...` actions follow the order of phases and priorities in the registry, with the
daily and slow systems due or not.

| Actions | Code |
|---|---|
| `Transfer`, `CanPay` | `money.transfer`, `Account.available` |
| `Bill`, `Settle`, `Purchase` | `clearing.purchase` |
| `RunPlant`, `FillMains` | `PowerGridSystem` and `WaterSystem`: fuel bought, power and water put on sale for the hour |
| `BuyFood`, `FoundCompany` | `BuyFoodHandler`, `FoundCompanyHandler` |
| `PayPublicWage`, `PublicOrders`, `Procure` | `GovernmentSystem._public_sector`: the net wages of public jobs until one cannot be paid, then what the city buys out of a budget read once |
| `PayPolicy` | one policy of `_pay_active_policies`, any set of policies being in force |
| `CutCosts`, `Borrow`, `Invest`, `CloseBooks` | `CompanyDecisionSystem` |
| `PayWage`, `PayBenefit`, `PayRent`, `CollectTax` | `PayrollSystem`, benefits, `HousingSystem`, `TaxSystem` |
| `Weigh`, `StartPaying`, `PayProducer`, `EndPaying` | `settle_producers` |
| `SetPrice`, `CloseMarkets` | pricing with exports, and at four in the morning (`phase = "dawn"`) the stock that perishes; `MarketCloseSystem` |
| `Hire`, `NoJob`, `ServiceLoan`, `SkipLoan` | `LabourMarketSystem`, `BankingSystem` |
| `Produce`, `HouseholdBuys`, `CohortBuys`, `SettleCohort`, `SpendRest` | `ProductionSystem`; the purchases of households and cohorts |
| `FundResearch` | `ResearchSystem`, its payment |

Abstractions, each of which admits more than the code does:

* quantities are whole units; what a buyer pays is the exact fraction the purse
  affords, as in the code, and the units taken are rounded down;
* a new price is any member of `Prices`, a month's profit any member of `Dues`, an
  order any of `Orders`, an output any of `Batches`, a dispatch any of `Loads` and
  `Outputs`: demand curves, unit costs, merit order and technology are not computed;
* "losses in a row" is not counted: a firm without cash and with debts may be wound
  up at any meeting;
* there is one bank, a firm buys one input, one plant stands for an operator's
  plants, and one order for the orders of a buyer in an hour;
* any hour may be the one at four in the morning, when goods perish, and any may be the
  one of the day's institutions;
* public cohorts are paid and public orders placed in any order, and the city orders
  whole units, rounded down;
* the grid steps every tick in the code and once an hour here;
* shares of the escrow are exact integer quotients where the code rounds a float
  down (`int(pot * share)`);
* the month between two instalments is any positive number of passes.

### Employment

Who works where, through a day of the systems that change it.  The module shares no
state with `Economy`, which moves the money of the same systems: whether a wage can
be paid is a choice here, whom it is owed is a number there.

| Variable | Code |
|---|---|
| `born`, `alive`, `age` | `AgentsState.people`, `Person.alive`, `age_years` in four bands: under 14, under 18, under 67, older |
| `employment`, `employer` | `Person.employment`, `Person.employer_id` |
| `employees`, `cohorts` | `Company.employee_ids`, as how often it names a person; the headcount of `cohort_employees` |
| `firms`, `bankrupt` | `CompaniesState.companies`, `Company.bankrupt` |
| `openings`, `nextOpening` | `CompaniesState.openings`, `next_opening_index` |
| `phase`, `todo`, `stage` | the system that runs, the rest of its loop, the place in a board meeting |
| `paid` | history: how many payments a person had from the payroll that runs |

| Actions | Code |
|---|---|
| `Offered` | `UtilityBrain.options`: which actions a resident has to choose from |
| `Apply`, `FoundCompany` | `ApplyForJobHandler`, `FoundCompanyHandler`, for whom they are offered to |
| `ShedJobs`, `KeepJobs`, `PostOpening`, `StayOpen`, `Bankrupt` | `CompanyDecisionSystem.step` with `_lay_off`, `_expand`, `_bankrupt` |
| `PayStaff`, `PayBenefits` | `PayrollSystem` |
| `Match`, `Mismatch`, `EndMatching`, `TakeDown`, `Absorb` | `LabourMarketSystem` |
| `Die`, `Retire`, `GrowOlder` | `DemographySystem` |

Abstractions, each of which admits more than the code does: skills, wages and
districts decide which of the legal outcomes happens and are left out; of a list's
order only matters how far a payroll came before it ran out of money, and that may
be any part of the list; residents grow older by a band in any month; whether a firm
has losses or money is free.

### Government

A day of the city, in the order of `GovernmentSystem.step`, and on the first of the
month the taxes.

| Variable | Code |
|---|---|
| `treasury`, `overdraft`, `debt`, `welfare` | the treasury's account; `GovernmentState.debt_minor`, the benefit |
| `deficit` | the treasury was negative when the day began, which the choice of a policy goes by |
| `policies`, `toPay`, `lastDecision` | the policies in force by kind, those still to be paid today, the day of the last decision |
| `elections`, `ruling`, `inPower`, `mayor` | `GovernmentState.elections`, `ruling_party_id`, `Party.in_power`, the mayor |
| `base`, `rounded` | history: the benefit had there been no boosts; how often `int()` was taken |

| Actions | Code |
|---|---|
| `City` | what all others pay to or draw from the treasury: free |
| `PublicSector` | salaries by cohort until one cannot be paid, procurement |
| `PayPolicy` | `_pay_active_policies`: on an overdraft that is extended and booked as debt |
| `Decide`, `Enact` | `GovernmentSystem.step`, `_enact`: the policy that answers the trouble, if its kind is not in force |
| `Expire` | `_expire`: only a boost of the benefits is undone |
| `Election` | `_maybe_election`: the winner is free, and its leader, if it has one, becomes mayor |
| `Taxes` | `TaxSystem`: collection is free, the overdraft in use is debt |

### Residents

A month: rents, every person, every cohort, migration.  `remaining` is the rest of a loop.

| Variable | Code |
|---|---|
| `living`, `bornSoFar`, `home`, `members` | `AgentsState.people`, `next_person_index`, `Person.household_id`, `Household.member_ids` |
| `mother`, `ties` | whose child; the active family ties of the graph |
| `arrears`, `evicted`, `missed`, `paidLast` | `Household.arrears_minor`, `evicted`; history of rents |
| `size`, `births`, `deaths` | `Cohort.size` and its carried fractions |

| Actions | Code |
|---|---|
| `Rent` | `HousingSystem`: a rent per household, paid or owed, evicted above three |
| `PersonDies`, `LiveOn`, `GiveBirth` | `DemographySystem` on persons: leave household and ties; age; a child, at home with its mother and tied to her |
| `CohortMonth` | deaths, births into the youngest band and graduation into the next |
| `Migrate` | a part of a cohort moves to the like cohort of another district |

### Minds

The hours of residents: dormancy, perception and brains, which run at full hours, and
what events and deaths do between their steps.  Time is relative (`clock` the tick of the
day, `wakeIn` the ticks to `wake_tick`), so the module runs for ever in finitely many
states.

| Variable | Code |
|---|---|
| `todo`, `system` | the loop that runs and the residents it has still to visit: by id (`InOrder`), for brains by what is at stake (`Orders`) |
| `activity`, `wakeIn`, `idle`, `persistent` | `Person.activity`, `wake_tick`, `idle_days` in hours, `persistent_ids` |
| `inbox` | `KnowledgeState.inboxes`: the topics, in the order of their arrival |
| `fresh`, `used`, `callsThisTick` | `ComputeBudget`, `LLMGateway` |
| `slept`, `missed` | history: the ticks asleep, what was observed in them |
| `spent`, `asked` | history: the answers and the questions of each resident on a day; a question that fails was put to the provider and is not answered |

| Actions | Code |
|---|---|
| `StartDormancy`, `SleepOn`, `WakeOnTime`, `FallAsleep`, `StayUp` | `DormancySystem.step`, with `WakeTick` the arithmetic of `wake_tick_for` |
| `WakingEvent` | `DormancySystem.on_event` |
| `StartPerception`, `Perceive` | `PerceptionSystem`: its batch, and the eviction of the least important observation (`Observed`) |
| `StartBrains`, `DecideByRules`, `DecideByModel`, `ProviderFails`, `LeaveBrains`, `EndBrains` | `AgentBrainSystem`, `LLMGateway` with its budgets of calls, tokens and calls in a tick; talking tells others, asleep ones too |
| `StepRaises` | an exception the gateway does not catch, up to quarantine |
| `Tick`, `Die` | the clock; `DemographySystem` between two steps |

`Idleness` is `Minds` with one history variable more, `quiet`: the hours since something
relevant happened to a resident.  It states what `ARCHITECTURE.md:252` says of the
lifecycle (`IdleGoDormant`) and what `DormancySystem` does not do.

### Knowledge

Who knows which version of a fact from whom.  A unit of time is a step of
`MediaSystem`.  A version's value is what the fact says, the resident's own, altered
by a teller or printer, or zero.

| Actions | Code |
|---|---|
| `MakeFact`, `DropFact`, `Forget` | `FactSystem.on_event`; the evictions of `add_fact` and `learn` at their limits |
| `PerceiveTrouble`, `Notice`, `TrackPrice` | `PerceptionSystem`, `GoToWorkHandler`, `BuyFoodHandler`: who learns a fact at first hand, and what prices they remember |
| `Talk`, `ReadNews`, `PostOnline` | `SocialiseHandler` with its distortion, `ReadNewsHandler`, `PostOnlineHandler` |
| `StartMedia`, `Publish`, `DropPublication` | `MediaSystem`: the candidates, who prints them, rightly or not |
| `Deliver` | `PropagationSystem`: fresh posts to readers |

### Genesis

`GenesisEngine.create` in the order it builds: companies and government, technology
with the research projects, cohorts, households with members and homes, jobs of
residents, vacancies filled from cohorts, offices, families' ties, plants' operators,
cash, public payroll, seal.  Every draw from the seed is a choice; the module therefore
has the outcome of every seed its constants admit.  Its invariants at the seal are the
assumptions the other modules begin with: `JobsAreSound` is `EmploymentAssumption` and
`DoubleBooked`, `HomesAreSound` the initial state of `Residents`, `MoneyIsSound` and
`ResearchIsSound` that of `Economy`.

`Rounding` has Python's `max`, `min` and `round` (ties to even) for `Economy`,
`Employment` and `Genesis`.

### MC modules

The `MC...` modules give the constants their values and, where the run checks deadlock
and the behaviour ends, add one disjunct, the rest state (section 4).  They replace no
definition.  Three of them put two parts that share no variable into one run: `MCCity`
(`Economy` and `Genesis`), `MCPeople` (`Employment` and `Residents`) and `MCSociety`
(`Knowledge` and `Government`).  A variable `part` says which of the two goes on in a
behaviour; the other stays in an initial state.

## 3. What the runs check

Every property has a mutant of the code's model that violates it under the same
configuration, so none of them holds by the shape of the model.  The modules' type
invariants document the state and are proved (section 5).

| Run | Question | Properties |
|---|---|---|
| `kernel_ticks` | Three ticks of the production wiring in small, a scenario and a timer, with systems that raise from any step or handler call and two that answer each other's events: does the ledger stay whole and the world go on? | `LedgerInOrder`; `LedgerWhole` (completeness between ticks, snapshots never ahead); `CausesAreTrue` (causes first, none left on the stack); `TimerAccounting`; `QuarantineFreezes`; `TickFinishes` |
| `worker_operator` | Three requests of every kind interleaved with the batches of a worker stopped and started in good order, on a sealed and an open timeline | `OrderlyRuns` (nothing lost or doubled, never refused, published at the stop, at most a batch of overrun); `StepCompleteIsTrue`; `StepServed`; `ScenarioTaken`; `AppendOnlyHistory` (refinement of `WorldHistory`) |
| `worker_recovery` | Two kills between any two store calls, on each of the four kinds of store, with scenarios and a step request | `RecoveryCovered` (loss bounded by the live interval; what can be resumed is in the ledger; Postgres records nothing twice) |
| `worker_crash_loop` | Does a killed world resume?  A violation: section 6 | `WorldResumes` |
| `timelines_api` | Two worlds; API threads that create, fork, replay and read, two of them forking at once, while the worker runs, publishes and is killed and the operator starts what is listed, on each of the three deployments | `ReadIsFresh`, `ReplayFaithful` (of published ticks, without Redis), `ForksAreKept`, `RunnableIsLoadable` |
| `timelines_forks` | Are two forks of one tick, asked for at the same time, two timelines?  A violation: section 6 | `ForksDiverge` |
| `city_hours` | Two hours through every system of `Economy`, from an opening in which loans are granted and refused, wages, rents and instalments are missed, policies are paid on overdraft, goods and power run out, perish, are imported, exported and bought by the city; and every world that two firms, two cohorts, three residents and two districts can be built into | `WithinOverdraft`; `BooksBalance` (money conserved, debts match loans, shares covered); `GoodsArePaid`; `LoanPaidOut`; `BankruptHasNoCash`; `OpensSound` (of `Genesis`: jobs, homes, money, research) |
| `household_wages` | Are wages spent by those who earn them?  A violation: section 6 | `WagesAreSpent` |
| `people_months` | Two days of every way to get and lose a job, for an executive on two lists, a clerk in public office, a pupil and a child that may be born: do the persons' records and the firms' lists ever part?  And three months of rents, deaths, births, graduations and moves | `WorkersAreListed`, `OnePayroll`, `PaidOnce`, `NoStaleOpening`; `FamiliesAreTrue`, `EvictionIsEarned`, `NobodyIsLost` |
| `minds_day` | Days without end of two residents whose nights overlap, with talk, events, full inboxes, a language model that answers, fails or raises, promotion, quarantine and death | `NightIsBounded`, `NothingSleptThrough`, `BudgetsKept` |
| `idle_days` | Does a resident to whom nothing happens for days go dormant?  A violation: section 6 | `IdleGoDormant` |
| `society_days` | A fact of each origin among three residents and a newspaper, noticed, told on, altered, printed, posted, forgotten and made anew; and five days of a city with overlapping, lapsing and unpaid policies, strict and caring parties, elections and a month's end | `NoCircularRumour`, `AlteredIsTraceable`, `PublishedOnce`; `WelfareComesBack`, `PoliciesArePaid`, `OneGovernment` |

What some of them say beside the obvious:

* `NightIsBounded` has two hours more than a day because whoever falls asleep less than
  an hour before their wake hour sleeps through to the next day's.
* `NoCircularRumour` and `AlteredIsTraceable` except facts that somebody has forgotten:
  with `max_known` reached, hearsay can come back to its origin.
* `WelfareComesBack` allows a unit for each `int()`, in both directions: boosts can
  erode the benefit and can leave it higher than it would have been without them.
* `GoodsArePaid` does not count what perishes as sold: an export is paid for out of what
  is left of the stock, at the lower of the old and the new price.
* `BudgetsKept` bounds answers by the budgets, and questions, which a provider that fails
  is asked without being counted, by one an hour: section 6.
* `QuarantineFreezes` speaks from the tick after the quarantine.  Within the tick a
  system that is in its list already may still be stepped.
* `RecoveryCovered` speaks, for Postgres, of worlds without scenarios and of rows no
  scenario has touched.  A run that is killed leaves rows behind under ids that a
  scenario, applied after the restart, gives to other events, and `ON CONFLICT DO
  NOTHING` drops those (section 6).
* `StepCompleteIsTrue` speaks of throttled steps that end before `MaxTick`: a batch
  at speed 0 is cut short and its whole budget taken off the request (section 6).

## 4. Bounds, fairness and deadlock

*Kernel.*  Three ticks, one emission a call, a timer, a scenario, and three systems.
Three ticks are the least in which a system can fail twice (the quarantine limit of
the instance), be quarantined in the middle of a tick and be left alone in the next.
Power grid and dormancy each consume what the other emits, a wiring production does not
have and `SystemSpec` allows: `StormLimit` is 3, so that the two answering each other
reach it (and a tick without a storm does not); the code's limit is 100,000.

*Worker.*  Four or five ticks, step requests of three ticks that take more than one
batch, with a buffer of two events, a live interval of two or
four and a snapshot interval of two or three, so that the rhythms meet in every
order; quiet ticks, ticks of one event and ticks that fill the buffer.  Two crashes
are the least in which a recovery is itself interrupted; three requests the least
that can start a world, queue a scenario and pause it.

*Timelines.*  Two worlds, two fork ids, so that a fork of a fork, two forks of one
parent and a second `tl_zero` occur; a snapshot every two ticks, checkpoints at each; two
threads.  `MCTimelines` has five instances in one run, of which each behaviour has one:
two threads that fork while one also creates, on files (one tick, three requests); one
that changes the store and one that reads, on files (two ticks, two requests, two crashes
or scenarios) and on Postgres (three ticks, two requests, one crash or scenario, so that a
killed run leaves behind a snapshot that the next run has to overwrite); what dies half
made and is started, on Postgres (one tick, three requests, a crash); and Postgres behind
Redis (one tick, two requests, two crashes or scenarios).  `timelines_forks` is the first
of them with two salts.  The worlds are alike: `SYMMETRY` is sound for invariants.

*Economy.*  A power company, a refinery to be founded, a person with a household, a
cohort with public jobs, two goods each the input of the other firm, of which the
refinery's perishes by half, two policies, two loans, two passes.  The second pass
meets the loans, stocks, debts and windows of the first.  `MaxStock` bounds production.

*Employment.*  Two firms and a third to be founded, four people of whom genesis put
one on two lists, two days, one opening.  Two firms are the least at which a person
can be on two lists, and on the second day one of them can be wound up, bury or
rehire whom the other laid off on the first.  A share of 20 percent of at most four
people is the one person the code lays off at least; a share of 70 percent makes an
opening of two places, filled in two steps.

*Government.*  Days 0 to 4 with a month of four days and elections every two, policies of
one or three days, three parties of which one has no leader: a policy outlives a
government, two overlap, and a boost of 15 percent on a benefit of 24 does not divide
evenly.  Two austerities fit into one boost: their roundings can differ with the boost
and without it, which is what makes the benefit come back higher than it left.

*Residents.*  Three founders in two households, up to two births, three cohorts of
which the last has no cohort of children, three months with a January in them.

*Minds.*  Two residents, four hours of two ticks a day, one sleeping over midnight and
one by day, wake hours off the full hour, an inbox of one.  Time is relative, so the
run covers any number of days.  `idle_days` has one resident, the three days' limit of
the code, and tells hours of quiet apart up to a day beyond it.

*Knowledge.*  Three residents (the least for a circle that is not a pair), one fact of
each kind of origin, one newspaper; ages are capped where no guard tells them apart, so
the run covers any number of hours.  The residents are alike: `SYMMETRY` is sound, as
the run checks invariants only.

*Genesis.*  Two firms that may each want one or two people, two cohorts, three
residents, a district with two homes and one without any, four technologies.

*Fairness.*  `KernelTick!FairSpec` has weak fairness of the kernel's own steps: a
thread that has entered `tick` runs until it leaves; nothing is assumed of when the
worker calls.  `Worker!FairSpec` has weak fairness of `Working` (the worker's
thread runs, and Cloud Run restarts a process that ended: `Start`) and of
`SetControl` (the API finishes a request it has begun).  There is none of
`GetControl`, `Stop` and `Crash`: the operator need not ask for anything.  The other
modules state safety only and have no fairness.

*Deadlock* is checked in every passing run but one.  The only states without a step are
the declared rest states: between two ticks, passes or days at the bounds, a city sealed
or a month over, the process dead by a storm, or the worker polling when nobody has asked
for anything (`AtBound`, `AtRest` and the like in the MC modules), which stutter.
`timelines_api` says `CHECK_DEADLOCK FALSE`: its behaviours end at the bound on requests,
with whatever was being done.

## 5. What is proved

The proofs hold for every value of the constants that satisfies the named
assumptions (`KernelAssumption`, `EconomyAssumption` and so on), which TLC evaluates in
the runs of the module.  Where an invariant is not inductive, the proof module states
the strengthening by name, and one lemma per action says that the action keeps it.

`KernelProofs`

* `TypeCorrect`: `Spec => []TypeOK`, for any systems, topics, cadences and bounds.
* `LedgerOrder`: `Spec => []LedgerInOrder`.  The property is not inductive: that
  an appended event is later than the ledger's last depends on everything the event
  passes through.  The invariant `OrderInv` says that ledger, `delivered` (while a
  tick runs), `current` and `pending`, read one after the other, are strictly
  increasing and none exceeds the number of events made.  A scenario drops what it
  delivered, a storm drops `delivered` and leaves `pending`: both keep the order and
  lose the claim of completeness, which is why completeness is stated for events of
  ticks only.

* `LedgerIsWhole`: `Spec => []LedgerWhole`.  The invariant (`WholeInv`) follows every
  important event of a tick: it is in `pending`, in delivery, in `delivered` or in
  the ledger, and in the ledger once the tick is over.  A failure in a system or a
  handler changes none of it, which is the point of the isolation.
* `CausesTrue`: `Spec => []CausesAreTrue`.  A cause is an event in delivery, so it has
  a lower number than its effect; with the order and the completeness of the ledger
  it also stands before it there.
* `TimersAccounted`: `Spec => []TimerAccounting`, for any intervals and any past ticks:
  each timer is followed by its number through the queue, the timers popped and the
  events they became (`TimerInv`).
* `QuarantineIsFinal`: `Spec => QuarantineFreezes`, an action property.  It needs that
  who runs is who was due or subscribed and not in quarantine when it began, and that
  a record in quarantine is older than the tick.

`WorkerProofs`, for any kind of store, batches, intervals and bounds, any number of
events in any tick, and any requests a control record can hold (`RequestsAssumption`):

* `TypeCorrect`: `Spec => []TypeOK`.  A pass of the worker is a queue of calls, so what
  is true between two of them depends on what is still to come.  `CallInv` says which
  queues there are (`Shape`: rows before worlds, worlds before the head, what ends a
  pass last; `Appends`: an append for each event not handed over) and what is in memory
  when the first call of one is made (`MemoryInv`).  Every other proof rests on it.
* `OverrunIsBounded`: `Spec => []OverrunBounded`, killed or not.
* `LossIsBounded`: `Spec => []LossBounded`: the loop publishes when `live_every` ticks
  have passed, or has the call that does so before it.
* `RunsAreOrderly`: `Spec => [](counts.crashes = 0 => OrderlyRuns)`.  `Orderly` ties
  rows, buffer and fresh events to the past of the world in memory, orders the past by
  its ids, and says that whatever is not recorded is later than the head: hence the
  store never refuses.  `worker_operator` checks the same with `MaxCrashes = 0`.
* `KeepsHistory`: with `MaxCrashes = 0`, `Spec => AppendOnlyHistory`, the refinement of
  `WorldHistory`: a flush is a `Record`, a live write a `Publish`, all else stutters.
  That the written world's past is the ledger is `Orderly` with an empty buffer, which
  `MemoryInv` has for a queue that begins with a live write.
* `StepsAreComplete`: `Spec => [](counts.crashes = 0 => StepCompleteIsTrue)`.  The
  operator's first request is followed from the API's read to the note (`StepInv`).
* `RecoveryIsCovered`: `Spec => []RecoveryCovered`, for any number of kills between any
  two calls.  Two facts carry it.  `CourseInv`: without a scenario a world is a function
  of its tick, so what is simulated again is what was simulated before and Postgres
  drops exactly the duplicates.  `CoverInv`: a world in memory has a past of which all
  but the buffer and the fresh events is in the ledger.

`counts.crashes = 0` is not a convenience: after a kill the kept promises are those of
`RecoveryCovered`, and the file store does record re-simulated events twice (section 6).

`EconomyProofs`, about `Economy` and, with the same lemmas on sums, about `Genesis`:

* `Solvency`: `Spec => []WithinOverdraft`, for any accounts, firms, rates, prices,
  orders and staff.  By itself the property is not inductive.  The invariant `IInv`
  adds: the types, without which the arithmetic of a transfer says nothing
  (`BooksTyped`, `FirmsTyped`, `MarketTyped`, `LoopTyped`); that a firm not yet founded
  owes nothing, since founding gives its account a *new* overdraft (`NotYetFounded`);
  that only founded firms have borrowed, so that no instalment is taken from an account
  of another kind (`BorrowersFounded`); and that what the escrow is divided by is not
  zero while producers are paid (`PotKept`).  The lemma about `Transfer` is the heart:
  it keeps every account within its overdraft whatever the amount and whoever the
  target, the source included.
* `WoundUpWithoutCash`: `Spec => BankruptHasNoCash`.  The board decides on the cash
  it read before it borrowed or invested; the proof shows that the strategies that
  change the cash exclude the condition of bankruptcy.
* `LoansArePaidOut`: `Spec => LoanPaidOut`.  `_borrow` books the loan whatever
  `transfer` returned; the guard on the bank's balance implies the transfer's own.
* `HouseholdsAreDrained`: `Spec => HouseholdsOnlyPay`: no action of the model has a
  household as the target of a transfer, and none of their purchases returns money.  It
  is why `WagesAreSpent` fails (`household_wages`), for any city.
* `BooksAreBalanced`: `Spec => []BooksBalance`, from three invariants.  Every step only
  moves money (`Moved`): a transfer is two updates of one function, and a sum changes
  by what one of its terms does, so even a transfer to oneself is right.  The debt of
  each firm is the sum over its loans (`DebtInv`), through instalments, missed payments
  and defaults.  While producers are paid, the escrow holds the shares still to come
  (`ShareInv`): shares are quotients rounded down of one pot, so their sum is at most
  the pot, in whatever order they are paid.
* `EverySaleIsPaid`: `Spec => GoodsArePaid`.  `purchase` takes goods without looking at
  what its transfers returned.  The proof is the arithmetic of `Bill`: scaled to the
  purse and rounded to the nearest, price, tax and transport never add up to more than
  the buyer may spend (`BillPays`), because a bill is scaled down only when it is above
  the purse.  What is exported is taken from what the night has left of a stock and paid
  for by an account that is asked first; what perishes is no sale.
* `TypeCorrect`, with `TypesKept`: the types of books, firms, markets and loops.  In
  particular no stock goes below zero: `Bill` never sells more than is there, for any
  purse and price.

* `WorldsOpenSound`: `GenesisSpec => []OpensSound`, for any number of companies,
  cohorts, residents, homes and technologies.  `OpensSound` says nothing before the
  seal; what is true stage by stage is `GenesisInv` (`GenesisKeepsInv`), in six parts.
  `BuiltInv`: residents and households are numbered without a gap, so a new one is
  nobody's member yet.  `EmployedInv`: nobody has a job before the stage of jobs, and
  only a chief is on two lists.  `VacanciesInv`: a firm's headcount stays within its
  target, with one more for its chief: no more workers are offered than there are
  vacancies, so that a firm's rounded share of them is at most what it lacks
  (`RoundedShare`, `ShareFits`).  `HomesInv`: each building counts those who live there
  and is crowded only once no home of the district has room.  `MoneyInv`: there are
  accounts of exactly those who are there (`Owners`), none before its owner, so that the
  sum of all is the supply.  `ResearchInv`: the firms go round the projects that are
  ready (`PicksProject`), so two share one only when all are taken (`BeforeReaches`).
* `WorldsTyped`: `GenesisSpec => []GenesisTypeOK`.

The module begins with what it needs of `MapThenSumSet`: its value does not depend on the
order in which the set is taken apart, a term that changes changes the sum by as much, and
shares rounded down add up to no more than the whole.

`EmploymentProofs` proves every property of its part of `people_months` from one inductive
invariant, for any people, firms and shares, and any genesis in which whoever names
an employer is on that employer's list (`EmploymentAssumption`):

* `WorkersStayListed`: `Spec => []WorkersAreListed`, for the people with two jobs
  as well.  The invariant adds what the property does not say of the other statuses
  (`JobsMatch`: without work, no employer) and of people not born yet
  (`UnbornAreOut`).
* `ListsStayRight`: `Spec => []OnePayroll`, for all others: the list is a function
  of the person's own record.  It needs that whoever waits to be matched is without
  work (`SeekersWait`), which the labour market does not look at again.
* `NobodyPaidTwice`: `Spec => []PaidOnce`.  `PayInTurn` says who cannot have been
  paid yet: whoever is on a list that waits, and whoever is on no staff.
* `BoardIsCleared`: `Spec => []NoStaleOpening`, from `IdsAreUnique` and
  `BoardIsSwept`, which says how far the sweep of the board has come.
* `TypesKept`: `Spec => []TypeOK`.

`TimelinesProofs`, for any deployments, worlds, threads, forks, ticks, intervals,
requests, crashes and operators, any number of threads creating and forking at once.  As
the properties, the invariants are about the timelines nobody disturbed (`Kept`); about
the others nothing is claimed, and `timelines_forks` shows why.

* `TypeCorrect`: `Spec => []TypeOK`, about all of them.  A request is a record of
  one of eight types, told apart by `at` and `kind` (`Shapes`), so what a handler
  reads of it is there.
* `RunnableLoads`: `Spec => []RunnableIsLoadable`, from `LineageInv`, in five parts.
  `BelongInv`: whatever is kept of a timeline is of the lineage in its record, and
  without a record nothing is kept (`Blank`).  `RecordInv`: a record comes after its
  world.  `ThreadsInv`: how far each create and fork has come (`Started`).  `AloneInv`: of
  two requests that make one id, the later one has disturbed it.  `AskedInv`: what was
  answered has its record, its first snapshot, a live state and a control record.
* `ForksKept`: `Spec => []ForksAreKept`, from the same: a record that is put a second
  time, or for another world, is one of a disturbed id.
* `ReadsAreFresh`: `Spec => []ReadIsFresh`.  `FreshInv` adds that a world in memory is
  never behind the published one, so that the published tick only grows, and what each
  read has promised itself at each of its calls.
* `ReplaysAreFaithful`: `Spec => []ReplayFaithful`.  `HistoryInv` says that a timeline is
  on one run: every tick since the fork up to the world in memory, and up to the
  published one, has a world in `was`, and every later world of the run goes on from
  each snapshot of the run (`Run`).  A snapshot may be of another run only if it is of a
  later tick than what was published and loaded (`OnRun`): when a run gets to that
  tick, it overwrites the snapshot before it publishes.  A half-made timeline that was
  started has no published world; its runs go on from its last snapshot.

`SocietyProofs`, about `Knowledge`, for any people, facts, outlets and windows of time:

* `RumoursHaveOrigin`: `KnowledgeSpec => []NoCircularRumour`.  The property quantifies
  over all groups; what carries it through a step is that nobody learns a fact twice and
  that whoever tells one knows it (`TellersKnow`, and the step form `KnowledgeGrows`): a
  group that is closed after the step was closed before, without its newest member.
* `AlteredIsTraced`: `KnowledgeSpec => []AlteredIsTraceable`, from the same: the chain
  of a new listener is the teller's, longer by one.
* `StoriesRunOnce`: `KnowledgeSpec => []PublishedOnce`; `KnowledgeTyped`:
  `KnowledgeSpec => []KnowledgeTypeOK`.

and about `Government`, for any parties, rates, terms, costs and flows of money:

* `PoliciesStayPaid`: `Spec => []PoliciesArePaid`.  `PaymentsInTurn` says which kinds
  may still wait to be paid at which turn of the day.
* `BoostsComeBack`: `Spec => []WelfareComesBack`.  The invariant (`WelfareInv`) compares
  benefit and `base` at any moment, in fractions: with a boost of `rate` percent in
  force, 100 times the benefit is within `rounded` units of `base`, times 100 + `rate`,
  on either side.  Each cut to an integer moves it by less than a unit (`BoostNear`,
  `AusterityNear`), and `LapseNear` says that dividing by the same rate brings it
  within a unit more.
* `OneGovernmentStays`: `Spec => []OneGovernment`; `TypesKept`: `Spec => []TypeOK`.

`ResidentsProofs`, for any founders, households and cohorts:

* `FamiliesStayTrue`: `ResidentsSpec => []FamiliesAreTrue`.  Its invariant adds that the
  loop visits the living only (`VisitsTheLiving`: nobody dies twice or gives birth dead)
  and that a mother is somebody born before (`MothersAreBorn`).
* `EvictionsAreEarned`: `ResidentsSpec => []EvictionIsEarned`, from `DebtIsMissedRent`:
  without a missed rent there are no arrears, so one rent cannot exceed three.
* `NobodyGetsLost`: `ResidentsSpec => []NobodyIsLost`: whatever the order of the
  cohorts, who leaves one is in another or counted among the dead, and who joins one
  comes from another or is counted among the born.
* `TypesKept`: `ResidentsSpec => []ResidentsTypeOK`.

`MindsProofs`, for any residents, nights, topics, inboxes, batches and budgets:

* `TypeCorrect`: `Spec => []TypeOK`.
* `NightsAreBounded`: `Spec => []NightIsBounded`, and `NobodyDozesOff`: `Spec =>
  []NobodyGoesDormant`, which is the finding of `idle_days` for any residents: where
  everybody sleeps, the documented dormancy cannot be reached.  Both follow from two
  invariants.  `LoopInv`: each loop visits the living, each once.  `RestInv` says what is
  true of a resident whom this hour's `DormancySystem` has
  still to visit (`Waits`) and of one it has visited (`Rests`): the ticks slept and the
  ticks to come add up to a day and an hour at most, the wake tick is never an hour past
  when it is looked at, and who is up has been idle no longer than since their hour of
  sleep (`Since`, `DueIn`), hence never for a day.  The arithmetic of `wake_tick_for` is
  one lemma (`WakeTickIs`).
* `NothingIsMissed`: `Spec => []NothingSleptThrough`: an inbox that overflows loses one of
  its least important items, and what stays is not less important than anything that was
  ever pushed out (`ObservedIsKept`).
* `BudgetsAreKept`: `Spec => []BudgetsKept`, from `BudgetInv`: the gateway's count,
  which is reset only when somebody asks, is what was answered on this day; and a
  resident has been asked about at most once for each hour of the day begun, since the
  loop of the brains visits each once (`LoopInv`).

What the proofs changed in the modules.  Some statements that TLC found true on an
instance were not true of every instance, which the attempt to prove them showed and
TLC then confirmed:

* `WelfareComesBack` said that the benefit never comes back above `base`.  Two
  austerities within one boost, rounded apart, can leave it a unit higher; the
  instance is now one in which that happens.
* `RecoveryCovered` said of a Postgres world without scenarios that its past is in the
  ledger.  That needs the rows to be free of scenarios too (section 6).
* `StepCompleteIsTrue` held of throttled steps only, and only below `MaxTick`, the bound
  of the model.
* Money is conserved if no institution is among the people and the escrow of the markets
  is neither the treasury nor the world outside, and goods are paid for if exports are
  not dearer than sales at home: `EconomyAssumption` now says so, as genesis and
  `economy/systems.py` have it.
* Nobody goes dormant if everybody sleeps at some full hour of the day and the limit is a
  day or more: `NightsAssumption`.  The nights of `schedule_for` last between 7.4 and 8.6
  hours, whenever they begin (`dormancy/engine.py:50-53`), and `dormant_after_idle_days`
  is 3.
* `NobodyIsLost` counts each cohort once: `ResidentsAssumption` says that none is listed
  twice, as the keys of a dictionary are not.
* `ReplayFaithful` spoke of every replay, with and without Redis.  A replay of a tick
  above the published one can follow a run that was killed, and behind Redis a stale
  copy can put a timeline back on an older run whose snapshots were overwritten (section
  6); TLC found both once the instance had a third tick and a crash more.  Requests and
  batches became records with types of their own, since a record whose fields depend on
  where a request is has no type the provers can use.
* `OpensSound` holds if there are finitely many cohorts (one per district, age band and
  class), if a district without homes takes its households into a building that is no
  home (`population.py:291-297`), and if `NoOne` is no role: `GenesisAssumption`.

Only model-checked are the liveness properties, `TickFinishes`, `StepServed` and
`ScenarioTaken`, and the four violations.  The provers have neither fairness nor
`ENABLED`.  Every other property of the passing runs is stated by a theorem.

Induction is used where a number or a set bounds it: sums over sets, the recursive
functions `Inserted` of `Worker`, `Heads` of `Residents` and `Course` of
`WorkerProofs`.  The library's induction theorems take a predicate as a parameter, which
the provers cannot instantiate; the proof modules that need it state induction as a fact
about sets of numbers (`SetInduction`), from the well-foundedness of the order on the
naturals.

## 6. Where code and documentation disagree

Four runs show a disagreement each, which TLC finds as a counterexample.

* `worker_crash_loop`: `worker.py:5` says "If it dies, the world resumes from its last
  snapshot".  The ledger is flushed, and the head bumped, before the live state is
  written; after a kill in between the re-simulated ticks are below the head, the sealed
  timeline refuses them, and every restarted worker dies the same way.
* `timelines_forks`: `fork.py:4-6` says of two forks of one tick that "with different
  salts they diverge".  The id of a fork is chosen before its record is written
  (`fork.py:30,58,83`) and the API serves requests in several threads, so two forks
  asked for at the same time are both answered as `tl_001`, and are one timeline.
* `household_wages`: the comment at `population/systems.py:126-128` has household
  spending recycle the wages.  Wages and benefits are paid to the resident's account
  (`companies/systems.py:202,237`); consumption, food and rent are taken from the
  household's (`population/systems.py:105,143,223`, `agents/actions.py:125,137`);
  nothing is ever moved from one to the other, and a household that has spent what
  genesis gave it buys nothing while its members' wages pile up.
* `idle_days`: `ARCHITECTURE.md:252` says "LIGHT_IDLE --> DORMANT: no relevant events
  for N days", and `dormancy/systems.py:3-4` describes what dormant residents do.  Every
  morning sets the idle days back (`dormancy/systems.py:134`), so however quiet the
  days, a resident who sleeps at night never gets there.

Others were read while modelling.  Where the module has the state concerned, it behaves as
the code does; they have no run:

* *Ledger.*  `run_scenario` drops what `drain` returns (`scenarios.py:70`), so the
  operator's own event never reaches the ledger, of which `ledger.py:3` says "exactly
  once".  `FileStore` appends re-simulated events a second time (`filestore.py:161`).
  Postgres keeps the rows of a run that was killed, and drops under their ids the
  events that a run with another scenario makes in its place (`postgres.py:245`).
* *Control.*  `_apply_scenario` puts back the whole record it was called with
  (`worker.py:143`): a pause stored meanwhile is undone unread, while `store.py:46`
  says that intent is read at every tick boundary.  A step request at speed 0 ends
  after `BATCH_SECONDS` while its whole budget is taken off (`worker.py:99-107`).
* *Cache.*  A read miss writes an older live state over a newer one
  (`livecache.py:60-61`) and a worker that starts then resumes from it, although
  `livecache.py:8` makes the store authoritative.  `ReadIsFresh` therefore speaks of
  deployments without Redis.
* *Replay.*  `_verify` compares the checkpoints the snapshot already held, so a replay
  that diverges later is not noticed (`replay.py:46`, against `:7-8`).  After a kill the
  snapshots of ticks that were never published stay in the store: until the next run
  overwrites them, replays and forks of those ticks follow the lost run.  Behind Redis a
  stale copy can be loaded after a newer live state was, and the replay then mixes two
  runs.  `ReplayFaithful` therefore speaks of published ticks, and of deployments
  without Redis.
* *Forks.*  A second world reuses `tl_zero`, for the store keys timelines by their id
  alone.  Two forks of the same tick with one salt differ, against `fork.py:4-5`: the id
  of the fork goes into its seed (`fork.py:62`).
* *Bankruptcy.*  A bankrupt operator's plants still run and buy fuel, and its power is
  still paid for; a power company founded later never gets a plant.
* *Stocks.*  `clearing.py:49-50` says that what cannot be stored is cleared each cycle.
  `market_close` clears no stock: the mains replace electricity and water every hour, what
  perishes loses its share at four in the morning (`economy/systems.py:113-115`), and
  housing keeps what genesis put there.
* *Government.*  Austerity and tax changes are never undone; the debt counts an
  overdraft when a policy is paid on it and again every month; the payroll stops at the
  first cohort that cannot be paid, always the same ones; the mayor may be dead.
* *Residents.*  `represented_people` is not adjusted after deaths, empty households are
  charged rent and evicted, one paid rent clears an eviction whatever is owed, and
  births are lost where a district has no cohort of children.
* *Language model.*  `ARCHITECTURE.md:344-345` says that "the world never stalls waiting
  for a model": it is asked from within the tick, and an exception the gateway does not
  catch counts towards the quarantine of all brains.  Calls that
  fail are counted against no budget (`gateway.py:83-95`), the daily calls included, and
  the token budget is overshot by a reply.
* *Knowledge.*  An altered fact that is told on loses its mark at the second hop, and
  what an evicted fact said is delivered as 0.0.
* *Technology.*  Nobody starts a project after genesis, though
  `technology/systems.py:97` expects an endless graph.
* *Genesis.*  A cohort's size is not reduced by the residents drawn from it, and a mayor
  appointed from a firm's staff stays on that firm's list.

The corresponding positive statements are checked where they do hold: `LedgerWhole` for
what ticks emit, Postgres recording nothing twice without scenarios, bounded overrun,
throttled steps, bounded loss.

## 7. What is not modelled

* *Numbers without control*: weather, traffic, culture, diffusion of technology,
  strengths of ties, moods, needs, approval, inflation and demand curves.  They drift
  by formulas with few branches; a model would restate them.
* *Choice of actions*: utility scores and prompts decide which of the offered actions a
  resident takes.  The modules take any of them.  Eating what is at home, resting and
  protesting change needs and moods only.  No brain offers `BuyItem`.
* *Effects of scenarios on the city*: a scenario changes what it likes between two ticks
  (`supply_shock` takes stock off a market); `KernelTick`, `Worker` and `Timelines` have
  its event and that the world differs, `Economy` has no scenarios.
* *Control of nothing*: a control record put for an id no store lists, which the API
  allows and no worker reads.
* *Effects of policies on prices*: a price cap and a subsidy bear on the price formula,
  which is any choice in `Economy`; the VAT rate is a constant there.
* *Memory consolidation*: what a resident remembers changes prompts only.
* *Pure computation*: the spatial city, the view model and read models, encodings,
  hashes and the draws from the seed.  No step of theirs interleaves with anything.
  Of genesis, names, maps, media, ties between neighbours and colleagues.
* *Housing supply*: how many homes are built and what a dwelling costs; rents are any
  of a set.
* *Input and output*: telemetry, the health endpoint, the Redis mirror of the bus
  (fire and forget), the Observatory.
* *File formats*: that a torn gzip member makes a log unreadable is a hazard
  (`filestore.py:161`) without a property; writes are atomic in the modules.
* *A founder's fate*: a founder whose company goes bankrupt stays self-employed at a
  firm that is gone (`companies/systems.py:540`, `actions.py:582`), with no benefit,
  no matching and no second company.  `Employment` has the behaviour;
  `WorkersAreListed` excepts founders, since nothing in the repository says what
  they are due.
* *One worker*: two workers on one world are excluded by the deployment, not by the
  code.

Five hazards of `PROJECT.json` have no property, each with its reason: the scenario's
event, the overwritten control record from the worker's side and from the API's, the torn
file and the stale cache.

## 8. Plan

Done: the modules of section 2, their runs, and the proofs of section 5 for all of
them; every safety property is proved.  What is left to add, in this order:

1. **Technology**: the frontier of discoveries and its diffusion, and the price
   policies, as far as they have control of their own.
2. **Store**: the parts of a record's write in `FileStore` as steps of their own, and
   what a torn member does to a log.
3. **Disturbed timelines**: what still holds of an id that two requests took, or that was
   started while it was being made; today only that the types are kept.
