------------------------------- MODULE Minds --------------------------------
(***************************************************************************)
(* The residents' hours: DormancySystem puts them to sleep and wakes them,  *)
(* PerceptionSystem fills their inboxes, and AgentBrainSystem lets those     *)
(* who are active decide, by rules or by a language model behind            *)
(* LLMGateway's budgets.  Between two steps an event may wake a resident     *)
(* (DormancySystem.on_event) and DemographySystem may let one die.           *)
(*                                                                         *)
(* Time is relative: clock is the tick of the day and wakeIn counts the      *)
(* ticks until wake_tick, so that the module runs for ever in finitely many  *)
(* states.  What an action does to money and jobs is in Economy and          *)
(* Employment; here it matters whom it tells what.                           *)
(***************************************************************************)
EXTENDS Integers, Sequences, SequencesExt, FiniteSets

CONSTANTS
    N,                  \* residents 1..N in the order of their ids, all of 14 or older
    Significant,        \* those who are Tier A from the start
    TicksPerHour, HoursPerDay,
    SleepAt, WakeAt,    \* per resident, SleepSchedule in ticks of the day
    DormantAfter,       \* dormant_after_idle_days, in hours
    Topics,             \* topics of observations
    Importance,         \* per topic: 0 unimportant, 1 worth an hour, 2 worth more
    MaxInbox,           \* max_inbox
    PerceptionBatch,    \* perception_batch
    BrainBatch,         \* max_brain_evaluations_per_tick
    LLM,                \* a provider is configured
    DailyCalls, TokenBudget, MaxCallsPerTick,
    ReplyTokens,        \* what a reply costs
    QuarantineAfter     \* quarantine_after_failures

People == 1..N
Day == TicksPerHour * HoursPerDay

ASSUME MindsAssumption ==
    /\ {N, TicksPerHour, HoursPerDay, MaxInbox, QuarantineAfter, ReplyTokens} \subseteq Nat \ {0}
    /\ {DormantAfter, PerceptionBatch, BrainBatch} \subseteq Nat
    /\ {DailyCalls, TokenBudget, MaxCallsPerTick} \subseteq Nat
    /\ Significant \subseteq People
    /\ SleepAt \in [People -> 0..(Day - 1)] /\ WakeAt \in [People -> 0..Day]
    /\ Importance \in [Topics -> 0..2]
    /\ LLM \in BOOLEAN

\* SleepSchedule: whether a tick of the day is one at which a resident sleeps, over
\* midnight or not.
Sleeps(p, tick) ==
    IF SleepAt[p] <= WakeAt[p]
    THEN SleepAt[p] <= tick /\ tick < WakeAt[p]
    ELSE SleepAt[p] <= tick \/ tick < WakeAt[p]

\* Everybody sleeps at some full hour, as all do whose nights are of an hour or
\* more, and it takes a day or more without sleep to go dormant: DormancyConfig has
\* nights of about eight hours and three days.
ASSUME NightsAssumption ==
    /\ DormantAfter >= HoursPerDay
    /\ \A p \in People : \E h \in 0..(HoursPerDay - 1) : Sleeps(p, h * TicksPerHour)

VARIABLES
    clock,      \* tick % TICKS_PER_DAY
    system,     \* the system whose loop runs; "due" before those of the hour have run
    todo,       \* residents it has still to visit
    \* AgentsState
    alive, activity,
    wakeIn,     \* wake_tick less the current tick, for those who sleep
    idle,       \* idle_days, in hours
    persistent, \* persistent_ids
    inbox,      \* KnowledgeState.inboxes: the topics of what was observed
    \* the gateway and ComputeBudget
    fresh,      \* day_of_last_reset is today
    used,       \* calls_used_today, each of ReplyTokens tokens
    callsThisTick,
    failures,   \* SystemHealth of agent_brains
    \* history variables
    slept,      \* ticks since sleep_started_tick
    missed,     \* topics observed since then
    spent,      \* replies each resident was given on this day
    asked       \* questions of each resident on this day, answered or not

timeVars   == <<clock, system, todo>>
sleepVars  == <<alive, activity, wakeIn, idle, slept>>
inboxVars  == <<inbox, missed>>
modelVars  == <<fresh, used, callsThisTick, failures, spent, asked>>
vars       == <<timeVars, sleepVars, persistent, inboxVars, modelVars>>

Activities == {"active", "light_idle", "sleep", "dormant", "offscreen"}
Systems == {"due", "dormancy", "perception", "agent_brains", "none"}

\* The types of the state.
TypeOK ==
    /\ clock \in 0..(Day - 1) /\ system \in Systems /\ todo \in Seq(People)
    /\ alive \subseteq People /\ persistent \subseteq People
    /\ activity \in [People -> Activities]
    /\ wakeIn \in [People -> Int] /\ slept \in [People -> Nat]
    /\ idle \in [People -> Nat]
    /\ inbox \in [People -> Seq(Topics)]
    /\ missed \in [People -> SUBSET Topics]
    /\ fresh \in [People -> BOOLEAN] /\ used \in [People -> Nat]
    /\ spent \in [People -> Nat] /\ asked \in [People -> Nat]
    /\ {callsThisTick, failures} \subseteq Nat

\* Midnight of the first day.
Init ==
    /\ clock = 0 /\ system = "due" /\ todo = <<>>
    /\ alive = People /\ persistent = Significant
    /\ activity = [p \in People |-> "active"]
    /\ wakeIn = [p \in People |-> 0] /\ slept = [p \in People |-> 0]
    /\ idle = [p \in People |-> 0]
    /\ inbox = [p \in People |-> <<>>]
    /\ missed = [p \in People |-> {}]
    /\ fresh = [p \in People |-> FALSE]
    /\ used = [p \in People |-> 0]
    /\ spent = [p \in People |-> 0] /\ asked = [p \in People |-> 0]
    /\ callsThisTick = 0 /\ failures = 0

Asleep(p) == activity[p] = "sleep"

\* The ways to visit everybody who is chosen, and the one in the order of their ids.
Orders(chosen) ==
    {o \in [1..Cardinality(chosen) -> chosen] : {o[k] : k \in DOMAIN o} = chosen}

InOrder(chosen) ==
    {o \in Orders(chosen) : \A j, k \in DOMAIN o : j < k => o[j] < o[k]}

\* A loop that gets no further than so many.
First(order, batch) == SubSeq(order, 1, IF Len(order) < batch THEN Len(order) ELSE batch)

Visiting(name, p) == system = name /\ todo # <<>> /\ p = Head(todo)

Visited == todo' = Tail(todo) /\ UNCHANGED <<clock, system>>

-----------------------------------------------------------------------------
(* Inboxes.                                                                *)

\* Where the least important items of an inbox are.
Least(box) ==
    {k \in DOMAIN box : \A j \in DOMAIN box : Importance[box[k]] <= Importance[box[j]]}

\* Mutant: a full inbox takes nothing more.
Mutant_KeepOldest(box, topic) ==
    IF Len(box) < MaxInbox THEN {Append(box, topic)} ELSE {box}

\* KnowledgeState.observe: from an inbox that overflows one of the least
\* important items goes; which of them their ticks decide.
Observed(box, topic) ==
    LET longer == Append(box, topic)
    IN  IF Len(longer) <= MaxInbox THEN {longer}
        ELSE {RemoveAt(longer, k) : k \in Least(longer)}

Observe(p, topic) ==
    /\ \E box \in Observed(inbox[p], topic) : inbox' = [inbox EXCEPT ![p] = box]
    /\ missed' = [missed EXCEPT ![p] = IF Asleep(p) THEN @ \cup {topic} ELSE @]

\* What makes an hour salient, besides work, hunger and exhaustion.
Salient(box) == \E k \in DOMAIN box : Importance[box[k]] > 0

-----------------------------------------------------------------------------
(* DormancySystem.                                                         *)

Bedtime(p) == Sleeps(p, clock)

\* Mutant: always tomorrow's wake hour.
Mutant_Tomorrow(p) == WakeAt[p] + Day - clock

\* wake_tick_for, as ticks from now.
WakeTick(p) ==
    IF WakeAt[p] <= clock + TicksPerHour THEN WakeAt[p] + Day - clock ELSE WakeAt[p] - clock

WakesNow(p) == wakeIn[p] <= 0

\* _wake: the delta summary is written from the inbox, which is empty after it.
Wake(p) ==
    /\ activity' = [activity EXCEPT ![p] = "active"]
    /\ inbox' = [inbox EXCEPT ![p] = <<>>]
    /\ missed' = [missed EXCEPT ![p] = {}]
    /\ idle' = [idle EXCEPT ![p] = 0]
    /\ wakeIn' = [wakeIn EXCEPT ![p] = 0]
    /\ slept' = [slept EXCEPT ![p] = 0]

\* The hour begins.
StartDormancy ==
    /\ system = "due"
    /\ system' = "dormancy" /\ todo' \in InOrder(alive)
    /\ UNCHANGED <<clock, sleepVars, persistent, inboxVars, modelVars>>

\* The skip.
SleepOn(p) ==
    /\ Visiting("dormancy", p) /\ Asleep(p) /\ ~WakesNow(p)
    /\ Visited
    /\ UNCHANGED <<sleepVars, persistent, inboxVars, modelVars>>

WakeOnTime(p) ==
    /\ Visiting("dormancy", p) /\ Asleep(p) /\ WakesNow(p)
    /\ Wake(p)
    /\ Visited
    /\ UNCHANGED <<alive, persistent, modelVars>>

\* _sleep: it is the hour, or the resident is exhausted at any other.
FallAsleep(p) ==
    /\ Visiting("dormancy", p) /\ activity[p] \notin {"sleep", "offscreen"}
    /\ activity' = [activity EXCEPT ![p] = "sleep"]
    /\ wakeIn' = [wakeIn EXCEPT ![p] = WakeTick(p)]
    /\ slept' = [slept EXCEPT ![p] = 0]
    /\ Visited
    /\ UNCHANGED <<alive, idle, persistent, inboxVars, modelVars>>

\* next_activity.  Work, hunger and exhaustion make an hour salient as well as
\* what is in the inbox does.
NextActivity(p, salient) ==
    IF salient THEN "active"
    ELSE IF p \notin persistent /\ idle[p] >= DormantAfter THEN "dormant"
    ELSE "light_idle"

StayUp(p) ==
    /\ Visiting("dormancy", p) /\ ~Asleep(p) /\ ~Bedtime(p)
    /\ \E salient \in BOOLEAN :
        /\ Salient(inbox[p]) => salient
        /\ activity' = [activity EXCEPT ![p] = NextActivity(p, salient)]
        /\ idle' = [idle EXCEPT ![p] = IF salient THEN 0 ELSE @ + 1]
    /\ Visited
    /\ UNCHANGED <<alive, wakeIn, slept, persistent, inboxVars, modelVars>>

\* on_event: a personal event of some importance ends any rest but sleep, for
\* which it takes danger.
WakingEvent(p) ==
    /\ system \in {"due", "none"} /\ p \in alive
    /\ \E danger \in BOOLEAN :
        IF activity[p] = "dormant" \/ (Asleep(p) /\ danger)
        THEN Wake(p)
        ELSE UNCHANGED <<activity, wakeIn, idle, slept, inboxVars>>
    /\ UNCHANGED <<timeVars, alive, persistent, modelVars>>

-----------------------------------------------------------------------------
(* PerceptionSystem.                                                       *)

\* Residents are visited in the order of their ids, and only so many.
StartPerception ==
    /\ system = "dormancy" /\ todo = <<>>
    /\ system' = "perception"
    /\ \E awake \in InOrder({p \in alive : activity[p] \notin {"sleep", "offscreen"}}) :
        todo' = First(awake, PerceptionBatch)
    /\ UNCHANGED <<clock, sleepVars, persistent, inboxVars, modelVars>>

\* Power, unrest, trouble at work, a price: what is to be seen where p is.
Perceive(p) ==
    /\ Visiting("perception", p)
    /\ \/ \E t \in Topics : Observe(p, t)
       \/ UNCHANGED inboxVars
    /\ Visited
    /\ UNCHANGED <<sleepVars, persistent, modelVars>>

-----------------------------------------------------------------------------
(* AgentBrainSystem and LLMGateway.                                        *)

Quarantined == failures >= QuarantineAfter

\* Tier A first; the rest, as either part, by what they have at stake.
StartBrains ==
    /\ system = "perception" /\ todo = <<>>
    /\ IF Quarantined
       THEN system' = "none" /\ UNCHANGED todo
       ELSE /\ system' = "agent_brains"
            /\ LET active == {p \in alive : activity[p] = "active"}
               IN  \E first \in Orders(active \cap persistent),
                      second \in Orders(active \ persistent) :
                       todo' = First(first \o second, BrainBatch)
    /\ UNCHANGED <<clock, sleepVars, persistent, inboxVars, modelVars>>

\* Mutant: what was used is forgotten before every question.
Mutant_AlwaysReset(p) == 0

\* reset_daily.
Used(p) == IF fresh[p] THEN used[p] ELSE 0

\* may_call names a model.
MayCall(p) ==
    /\ LLM /\ p \in persistent
    /\ callsThisTick < MaxCallsPerTick
    /\ Used(p) < DailyCalls
    /\ Used(p) * ReplyTokens < TokenBudget

\* may_call for a decision of no importance, or beyond the budget: rules decide.
Reset(p) ==
    IF LLM /\ p \in persistent /\ callsThisTick < MaxCallsPerTick
    THEN fresh' = [fresh EXCEPT ![p] = TRUE] /\ used' = [used EXCEPT ![p] = Used(p)]
    ELSE UNCHANGED <<fresh, used>>

\* propose puts the question before anything is counted.
Ask(p) == asked' = [asked EXCEPT ![p] = @ + 1]

\* A reply is paid for, whether it names an action or not.
Pay(p) ==
    /\ fresh' = [fresh EXCEPT ![p] = TRUE]
    /\ used' = [used EXCEPT ![p] = Used(p) + 1]
    /\ callsThisTick' = callsThisTick + 1
    /\ spent' = [spent EXCEPT ![p] = @ + 1]

\* ActionPipeline.submit: a handler may reject the intent, which then does
\* nothing; of those it carries out talking tells another resident, who may be
\* asleep or dead, and nothing else reaches an inbox.
Submit(p, accepted) ==
    \/ accepted /\ \E q \in People \ {p}, t \in Topics : Observe(q, t)
    \/ UNCHANGED inboxVars

\* One who acts may be promoted for it.
Act(p) ==
    /\ \E accepted \in BOOLEAN :
        /\ Submit(p, accepted)
        /\ persistent' \in {persistent} \cup (IF accepted THEN {persistent \cup {p}} ELSE {})
    /\ UNCHANGED sleepVars

DecideByRules(p) ==
    /\ Visiting("agent_brains", p)
    /\ Reset(p)
    /\ Act(p)
    /\ Visited
    /\ UNCHANGED <<callsThisTick, failures, spent, asked>>

\* propose: the model's action, or one by rules after an unusable reply.
DecideByModel(p) ==
    /\ Visiting("agent_brains", p) /\ MayCall(p)
    /\ Ask(p) /\ Pay(p)
    /\ Act(p)
    /\ Visited
    /\ UNCHANGED failures

\* LLMUnavailable, an error or a timeout: the provider was asked, no budget is
\* charged, and rules decide.
ProviderFails(p) ==
    /\ Visiting("agent_brains", p) /\ MayCall(p)
    /\ Ask(p) /\ Reset(p)
    /\ Act(p)
    /\ Visited
    /\ UNCHANGED <<callsThisTick, failures, spent>>

\* _calls_this_tick starts from zero with the first question of another tick.
LeaveBrains ==
    /\ system' = "none" /\ todo' = <<>>
    /\ callsThisTick' = 0

\* Any other exception, of the adapter before the reply is paid for or of an
\* action with parameters it cannot use, ends the step and counts against it.
StepRaises(p) ==
    /\ Visiting("agent_brains", p) /\ MayCall(p)
    /\ Ask(p)
    /\ \/ Reset(p) /\ UNCHANGED spent
       \/ /\ fresh' = [fresh EXCEPT ![p] = TRUE]
          /\ used' = [used EXCEPT ![p] = Used(p) + 1]
          /\ spent' = [spent EXCEPT ![p] = @ + 1]
    /\ failures' = failures + 1
    /\ LeaveBrains
    /\ UNCHANGED <<clock, sleepVars, persistent, inboxVars>>

EndBrains ==
    /\ system = "agent_brains" /\ todo = <<>>
    /\ LeaveBrains
    /\ UNCHANGED <<clock, sleepVars, persistent, inboxVars, fresh, used, failures, spent, asked>>

-----------------------------------------------------------------------------
(* Time, and death.                                                        *)

\* The next tick, which may be that of another hour or of another day.
Tick ==
    /\ system = "none"
    /\ clock' = (clock + 1) % Day
    /\ system' = IF (clock + 1) % TicksPerHour = 0 THEN "due" ELSE "none"
    /\ wakeIn' = [p \in People |-> IF Asleep(p) THEN wakeIn[p] - 1 ELSE wakeIn[p]]
    /\ slept' = [p \in People |-> IF Asleep(p) THEN slept[p] + 1 ELSE slept[p]]
    /\ IF clock = Day - 1
       THEN /\ fresh' = [p \in People |-> FALSE]
            /\ spent' = [p \in People |-> 0] /\ asked' = [p \in People |-> 0]
       ELSE UNCHANGED <<fresh, spent, asked>>
    /\ UNCHANGED <<todo, alive, activity, idle, persistent, inboxVars, used, callsThisTick, failures>>

\* DemographySystem._die, which leaves inbox and budget behind.
Die(p) ==
    /\ system = "none" /\ p \in alive
    /\ alive' = alive \ {p}
    /\ activity' = [activity EXCEPT ![p] = "offscreen"]
    /\ wakeIn' = [wakeIn EXCEPT ![p] = 0] /\ slept' = [slept EXCEPT ![p] = 0]
    /\ missed' = [missed EXCEPT ![p] = {}]
    /\ UNCHANGED <<timeVars, idle, persistent, inbox, modelVars>>

-----------------------------------------------------------------------------

Next ==
    \/ StartDormancy \/ StartPerception \/ StartBrains \/ EndBrains \/ Tick
    \/ \E p \in People :
        \/ SleepOn(p) \/ WakeOnTime(p) \/ FallAsleep(p) \/ StayUp(p)
        \/ Perceive(p)
        \/ DecideByRules(p) \/ DecideByModel(p) \/ ProviderFails(p) \/ StepRaises(p)
        \/ WakingEvent(p) \/ Die(p)

Spec == Init /\ [][Next]_vars

-----------------------------------------------------------------------------
(* Properties.                                                             *)

\* Nobody sleeps past a day and two hours: the wake hour may be an hour ahead or
\* less when they fall asleep, which costs a day, and is seen on the next hour.
NightIsBounded == \A p \in People : Asleep(p) => slept[p] < Day + 2 * TicksPerHour

\* DORMANT is never reached: each night makes a resident active again before the
\* idle days are over.  Idleness shows that this is against what is documented.
NobodyGoesDormant == \A p \in People : activity[p] # "dormant"

\* Whatever a resident is told in their sleep is in the inbox the delta summary
\* is written from, unless a full inbox holds nothing less important.
NothingSleptThrough ==
    \A p \in People : \A t \in missed[p] :
        \/ \E k \in DOMAIN inbox[p] : inbox[p][k] = t
        \/ /\ Len(inbox[p]) >= MaxInbox
           /\ \A k \in DOMAIN inbox[p] : Importance[t] <= Importance[inbox[p][k]]

\* What a resident is answered on a day keeps within their calls and their tokens,
\* but for the last reply, and what a tick is answered within the tick's: whoever is
\* promoted, fails or asks on both sides of midnight.  A question that fails was put
\* to the provider and is charged to no budget; what bounds those is the loop, in
\* which nobody asks again before the next hour.
BudgetsKept ==
    /\ \A p \in People :
        /\ spent[p] <= DailyCalls
        /\ spent[p] > 0 => (spent[p] - 1) * ReplyTokens < TokenBudget
    /\ callsThisTick <= MaxCallsPerTick
    /\ \A p \in People : asked[p] <= clock \div TicksPerHour + 1
=============================================================================
