----------------------------- MODULE KernelTick -----------------------------
(***************************************************************************)
(* One tick of the world kernel (hydra.kernel.engine.Kernel), its event    *)
(* bus, timer queue, failure handling and the scenarios an operator runs   *)
(* between two ticks.  The kernel is one thread; its call stack is made    *)
(* explicit by pc, so that a system or a handler may raise between any two *)
(* of its emissions.                                                       *)
(*                                                                         *)
(* An event is its sequence number, an index of emitted, which is          *)
(* WorldState.next_event_seq and also a log of every event ever made.      *)
(***************************************************************************)
EXTENDS Integers, Sequences, FiniteSets

CONSTANTS
    NSystems,           \* systems are numbered in (phase, priority, name) order
    Topics,             \* event topics
    FailureTopic,       \* kernel.system_failure
    ScenarioTopics,     \* topics the operator scenarios emit
    Important,          \* topics at or above ledger_importance_threshold
    Cadence,            \* SystemSpec.cadence_ticks; 0 is event-driven
    Consumes,           \* SystemSpec.consumes
    StepEmits,          \* topics a system's step may emit
    HandlerEmits,       \* topics a system's on_event may emit
    Faulty,             \* systems whose step or handler may raise
    QuarantineAfter,    \* kernel.quarantine_after_failures
    StormLimit,         \* events one drain delivers before it gives up
    CheckpointInterval, SnapshotInterval,
    MaxCheckpoints,     \* entries KernelDomainState.checkpoints keeps
    MaxSnapshotTicks,   \* entries KernelDomainState.snapshot_ticks keeps
    \* bounds of the model
    MaxTick,            \* ticks
    MaxEmits,           \* emissions of one call
    MaxTimers,          \* timers ever scheduled
    Repeats,            \* repeat_ticks of a scheduled timer
    MaxScenarios        \* scenarios run

Systems == 1..NSystems

ASSUME KernelAssumption ==
    /\ NSystems \in Nat
    /\ FailureTopic \in Topics
    /\ ScenarioTopics \subseteq Topics
    /\ Important \subseteq Topics
    /\ Cadence \in [Systems -> Nat]
    /\ Consumes \in [Systems -> SUBSET Topics]
    /\ StepEmits \in [Systems -> SUBSET Topics]
    /\ HandlerEmits \in [Systems -> SUBSET Topics]
    /\ Faulty \subseteq Systems
    /\ QuarantineAfter \in Nat \ {0}
    /\ StormLimit \in Nat
    /\ CheckpointInterval \in Nat
    /\ SnapshotInterval \in Nat
    /\ MaxCheckpoints \in Nat
    /\ MaxSnapshotTicks \in Nat
    /\ {MaxTick, MaxEmits, MaxTimers, MaxScenarios} \subseteq Nat
    /\ Repeats \subseteq Nat

VARIABLES
    pc,             \* where the kernel thread is
    tick,           \* WorldState.meta.tick
    emitted,        \* every event emitted, in sequence order
    pending,        \* InProcessTransport._pending
    delivered,      \* tick()'s local list of delivered events
    drained,        \* drain()'s local guard: events popped by this drain
    current,        \* the event being delivered, 0 when there is none
    subs,           \* subscribers the current event still has to visit
    todo,           \* systems tick() still has to step
    running,        \* the system whose step or handler runs, 0 when none
    emits,          \* emissions of the running call
    causeStack,     \* TickContext._cause_stack
    health,         \* KernelDomainState.health
    timers,         \* KernelDomainState.timers
    firing,         \* timers popped this tick and not yet emitted
    scheduled,      \* every timer ever scheduled, by number
    ledger,         \* what the sink was given, in order
    checkpoints,    \* KernelDomainState.checkpoints: ticks
    snapshotTicks,  \* KernelDomainState.snapshot_ticks
    snapshots,      \* what snapshot_hook was given
    inScenario,     \* a scenario, not tick(), is on the call stack
    scenarios       \* scenarios run so far

busVars      == <<emitted, pending, drained, current, subs>>
callVars     == <<running, emits, causeStack>>
timerVars    == <<timers, firing, scheduled>>
captureVars  == <<checkpoints, snapshotTicks, snapshots>>
scenarioVars == <<inScenario, scenarios>>
vars == <<pc, tick, delivered, todo, health, ledger,
          busVars, callVars, timerVars, captureVars, scenarioVars>>

PC == {"idle", "fire", "pick", "step", "drain", "deliver",
       "handler", "persist", "dead"}

Event  == [topic : Topics, tick : Nat, causes : Seq(Nat), timer : Nat,
           scenario : BOOLEAN]
Health == [failures : Nat, lastTick : Int, quarantined : BOOLEAN]
Timer  == [id : Nat, fire : Nat, repeat : Nat, topic : Topics]

ControlType ==
    /\ pc \in PC
    /\ tick \in Nat
    /\ delivered \in Seq(Nat)
    /\ todo \in SUBSET Systems
    /\ health \in [Systems -> Health]
    /\ ledger \in Seq(Nat)
    /\ inScenario \in BOOLEAN
    /\ scenarios \in Nat

BusType ==
    /\ emitted \in Seq(Event)
    /\ pending \in Seq(Nat)
    /\ drained \in Nat
    /\ current \in Nat
    /\ subs \in SUBSET Systems

CallType ==
    /\ running \in Systems \cup {0}
    /\ pc \in {"step", "handler"} => running \in Systems
    /\ emits \in Nat
    /\ causeStack \in Seq(Nat)

TimerType ==
    /\ timers \in SUBSET Timer
    /\ firing \in SUBSET Timer
    /\ scheduled \in Seq(Timer)

CaptureType ==
    /\ checkpoints \in SUBSET Nat
    /\ snapshotTicks \in Seq(Nat)
    /\ snapshots \in Seq([tick : Nat, seen : Nat])

TypeOK == ControlType /\ BusType /\ CallType /\ TimerType /\ CaptureType

Init ==
    /\ pc = "idle"
    /\ tick = 0
    /\ emitted = <<>>
    /\ pending = <<>>
    /\ delivered = <<>>
    /\ drained = 0
    /\ current = 0
    /\ subs = {}
    /\ todo = {}
    /\ running = 0
    /\ emits = 0
    /\ causeStack = <<>>
    /\ health = [s \in Systems |->
                    [failures |-> 0, lastTick |-> -1, quarantined |-> FALSE]]
    /\ timers = {}
    /\ firing = {}
    /\ scheduled = <<>>
    /\ ledger = <<>>
    /\ checkpoints = {}
    /\ snapshotTicks = <<>>
    /\ snapshots = <<>>
    /\ inScenario = FALSE
    /\ scenarios = 0

-----------------------------------------------------------------------------
(* What TickContext and the transport do for every caller. *)

\* [mutant] appendleft: the newest event is delivered first.
Mutant_PublishFirst(topic, causes, timer, scenario) ==
    /\ emitted' = Append(emitted, [topic |-> topic, tick |-> tick, causes |-> causes,
                                   timer |-> timer, scenario |-> scenario])
    /\ pending' = <<Len(emitted) + 1>> \o pending

\* TickContext.emit: number the event, stamp it with the cause stack, publish.
\* timer is the timer it comes from, 0 for none; scenario tells whether it was
\* made outside tick().
Publish(topic, causes, timer, scenario) ==
    /\ emitted' = Append(emitted, [topic    |-> topic,
                                   tick     |-> tick,
                                   causes   |-> causes,
                                   timer    |-> timer,
                                   scenario |-> scenario])
    /\ pending' = Append(pending, Len(emitted) + 1)

Emit(topic) == Publish(topic, causeStack, 0, inScenario)

\* Kernel._record_failure; caused_by has been left by the time it is called, so
\* the failure event has no cause.
RecordFailure(s) ==
    LET failures == health[s].failures + 1
    IN  /\ health' = [health EXCEPT ![s] =
                        [failures    |-> failures,
                         lastTick    |-> tick,
                         quarantined |-> \/ health[s].quarantined
                                         \/ failures >= QuarantineAfter]]
        /\ Publish(FailureTopic, <<>>, 0, inScenario)

\* SystemRegistry.due with Scheduler.due_systems' skip set.
Due == {s \in Systems : /\ Cadence[s] > 0
                        /\ tick % Cadence[s] = 0
                        /\ ~health[s].quarantined}

Subscribers(topic) == {s \in Systems : topic \in Consumes[s]}

\* s is the member of S that is registered first.
IsFirst(s, S) == s \in S /\ \A r \in S : s <= r

-----------------------------------------------------------------------------
(* tick(): advance, fire the timers, collect the due systems. *)

\* Scheduler.pop_due_timers: due timers leave, repeating ones come back with
\* their next fire tick.
DueTimers == {t \in timers : t.fire <= tick + 1}

\* [mutant] re-armed from the tick it fired at, not from its own fire tick.
Mutant_RearmedFromNow ==
    {[id |-> t.id, fire |-> tick + 1 + t.repeat, repeat |-> t.repeat, topic |-> t.topic] :
        t \in {d \in DueTimers : d.repeat > 0}}

Rearmed ==
    {[id |-> t.id, fire |-> t.fire + t.repeat, repeat |-> t.repeat, topic |-> t.topic] :
        t \in {d \in DueTimers : d.repeat > 0}}

BeginTick ==
    /\ pc = "idle"
    /\ tick < MaxTick
    /\ pc' = "fire"
    /\ tick' = tick + 1
    /\ firing' = DueTimers
    /\ timers' = (timers \ DueTimers) \cup Rearmed
    /\ delivered' = <<>>
    /\ inScenario' = FALSE
    /\ UNCHANGED <<todo, health, ledger, busVars, callVars, scheduled,
                   captureVars, scenarios>>

\* Kernel._fire_timers, in fire_tick order.
FireTimer ==
    /\ pc = "fire"
    /\ \E t \in firing :
        /\ \A u \in firing : t.fire <= u.fire
        /\ Publish(t.topic, causeStack, t.id, FALSE)
        /\ firing' = firing \ {t}
    /\ UNCHANGED <<pc, tick, delivered, drained, current, subs, todo, health,
                   ledger, callVars, timers, scheduled, captureVars,
                   scenarioVars>>

\* The due list is computed once, before any system has run.
CollectDue ==
    /\ pc = "fire"
    /\ firing = {}
    /\ pc' = "pick"
    /\ todo' = Due
    /\ UNCHANGED <<tick, delivered, health, ledger, busVars, callVars,
                   timerVars, captureVars, scenarioVars>>

-----------------------------------------------------------------------------
(* Kernel._run_system, and the drain after it. *)

BeginStep ==
    /\ pc = "pick"
    /\ pc' = "step"
    /\ \E s \in todo :
        /\ IsFirst(s, todo)
        /\ running' = s
        /\ todo' = todo \ {s}
    /\ emits' = 0
    /\ UNCHANGED <<tick, delivered, health, ledger, busVars, causeStack,
                   timerVars, captureVars, scenarioVars>>

StepEmit ==
    /\ pc = "step"
    /\ emits < MaxEmits
    /\ \E topic \in StepEmits[running] : Emit(topic)
    /\ emits' = emits + 1
    /\ UNCHANGED <<pc, tick, delivered, drained, current, subs, todo, health,
                   ledger, running, causeStack, timerVars, captureVars,
                   scenarioVars>>

\* Any leaving of a step is followed by a drain.
LeaveStep ==
    /\ pc' = "drain"
    /\ drained' = 0
    /\ running' = 0
    /\ emits' = 0

StepReturn ==
    /\ pc = "step"
    /\ LeaveStep
    /\ UNCHANGED <<tick, delivered, todo, health, ledger, emitted, pending,
                   current, subs, causeStack, timerVars, captureVars,
                   scenarioVars>>

\* An exception of step(), or the ContractViolation _verify_contract raises.
StepRaise ==
    /\ pc = "step"
    /\ running \in Faulty
    /\ RecordFailure(running)
    /\ LeaveStep
    /\ UNCHANGED <<tick, delivered, todo, ledger, current, subs, causeStack,
                   timerVars, captureVars, scenarioVars>>

\* TickContext.schedule, from a step or from a handler.
Schedule ==
    /\ pc \in {"step", "handler"}
    /\ Len(scheduled) < MaxTimers
    /\ \E fire \in tick..MaxTick, repeat \in Repeats, topic \in StepEmits[running] :
        LET timer == [id     |-> Len(scheduled) + 1,
                      fire   |-> fire,
                      repeat |-> repeat,
                      topic  |-> topic]
        IN  /\ timers' = timers \cup {timer}
            /\ scheduled' = Append(scheduled, timer)
    /\ UNCHANGED <<pc, tick, delivered, todo, health, ledger, busVars,
                   callVars, firing, captureVars, scenarioVars>>

\* All due systems have run: the last drain, then _persist.
FinalDrain ==
    /\ pc = "pick"
    /\ todo = {}
    /\ pending # <<>>
    /\ pc' = "drain"
    /\ drained' = 0
    /\ UNCHANGED <<tick, delivered, todo, health, ledger, emitted, pending,
                   current, subs, callVars, timerVars, captureVars,
                   scenarioVars>>

BeginPersist ==
    /\ pc = "pick"
    /\ todo = {}
    /\ pending = <<>>
    /\ pc' = "persist"
    /\ UNCHANGED <<tick, delivered, todo, health, ledger, busVars, callVars,
                   timerVars, captureVars, scenarioVars>>

-----------------------------------------------------------------------------
(* InProcessTransport.drain and Kernel._wrap_handler. *)

\* The loop's guard is tested before the event is taken.
PopEvent ==
    /\ pc = "drain"
    /\ pending # <<>>
    /\ drained < StormLimit
    /\ pc' = "deliver"
    /\ drained' = drained + 1
    /\ current' = Head(pending)
    /\ pending' = Tail(pending)
    /\ subs' = Subscribers(emitted[Head(pending)].topic)
    /\ UNCHANGED <<tick, delivered, todo, health, ledger, emitted, callVars,
                   timerVars, captureVars, scenarioVars>>

\* [mutant] the storm is logged and the loop goes on.
Mutant_StormLogged ==
    /\ pc = "drain"
    /\ pending # <<>>
    /\ drained >= StormLimit
    /\ UNCHANGED vars

\* RuntimeError("event storm"): drain's list is lost.  Out of tick() it ends the
\* worker process; the worker catches what a scenario raises.
EventStorm ==
    /\ pc = "drain"
    /\ pending # <<>>
    /\ drained >= StormLimit
    /\ pc' = IF inScenario THEN "idle" ELSE "dead"
    /\ delivered' = <<>>
    /\ inScenario' = FALSE
    /\ UNCHANGED <<tick, todo, health, ledger, busVars, callVars, timerVars,
                   captureVars, scenarios>>

\* A quarantined system's handler is not called.
SkipHandler ==
    /\ pc = "deliver"
    /\ \E s \in subs :
        /\ IsFirst(s, subs)
        /\ health[s].quarantined
        /\ subs' = subs \ {s}
    /\ UNCHANGED <<pc, tick, delivered, todo, health, ledger, emitted, pending,
                   drained, current, callVars, timerVars, captureVars,
                   scenarioVars>>

\* [mutant] the handler is called without looking at health.
Mutant_BeginAnyHandler ==
    /\ pc = "deliver"
    /\ pc' = "handler"
    /\ \E s \in subs :
        /\ IsFirst(s, subs)
        /\ running' = s
        /\ subs' = subs \ {s}
    /\ emits' = 0
    /\ causeStack' = Append(causeStack, current)
    /\ UNCHANGED <<tick, delivered, todo, health, ledger, emitted, pending,
                   drained, current, timerVars, captureVars, scenarioVars>>

BeginHandler ==
    /\ pc = "deliver"
    /\ pc' = "handler"
    /\ \E s \in subs :
        /\ IsFirst(s, subs)
        /\ ~health[s].quarantined
        /\ running' = s
        /\ subs' = subs \ {s}
    /\ emits' = 0
    /\ causeStack' = Append(causeStack, current)
    /\ UNCHANGED <<tick, delivered, todo, health, ledger, emitted, pending,
                   drained, current, timerVars, captureVars, scenarioVars>>

HandlerEmit ==
    /\ pc = "handler"
    /\ emits < MaxEmits
    /\ \E topic \in HandlerEmits[running] : Emit(topic)
    /\ emits' = emits + 1
    /\ UNCHANGED <<pc, tick, delivered, drained, current, subs, todo, health,
                   ledger, running, causeStack, timerVars, captureVars,
                   scenarioVars>>

\* caused_by pops the cause on the way out, whether the handler returned or not.
LeaveHandler ==
    /\ pc' = "deliver"
    /\ running' = 0
    /\ emits' = 0
    /\ causeStack' = SubSeq(causeStack, 1, Len(causeStack) - 1)

HandlerReturn ==
    /\ pc = "handler"
    /\ LeaveHandler
    /\ UNCHANGED <<tick, delivered, todo, health, ledger, busVars, timerVars,
                   captureVars, scenarioVars>>

HandlerRaise ==
    /\ pc = "handler"
    /\ running \in Faulty
    /\ LeaveHandler
    /\ RecordFailure(running)
    /\ UNCHANGED <<tick, delivered, todo, ledger, drained, current, subs,
                   timerVars, captureVars, scenarioVars>>

\* [mutant] delivered = [event].
Mutant_DeliveredLast ==
    /\ pc = "deliver"
    /\ subs = {}
    /\ pc' = "drain"
    /\ delivered' = <<current>>
    /\ current' = 0
    /\ UNCHANGED <<tick, todo, health, ledger, emitted, pending, drained, subs,
                   callVars, timerVars, captureVars, scenarioVars>>

\* Every subscriber has been visited: delivered.append(event).
EndDelivery ==
    /\ pc = "deliver"
    /\ subs = {}
    /\ pc' = "drain"
    /\ delivered' = Append(delivered, current)
    /\ current' = 0
    /\ UNCHANGED <<tick, todo, health, ledger, emitted, pending, drained, subs,
                   callVars, timerVars, captureVars, scenarioVars>>

\* tick() extends its own list with what drain returns; a scenario drops it.
EndDrain ==
    /\ pc = "drain"
    /\ pending = <<>>
    /\ pc' = IF inScenario THEN "idle" ELSE "pick"
    /\ delivered' = IF inScenario THEN <<>> ELSE delivered
    /\ inScenario' = FALSE
    /\ UNCHANGED <<tick, todo, health, ledger, busVars, callVars, timerVars,
                   captureVars, scenarios>>

-----------------------------------------------------------------------------
(* Kernel._persist and Kernel._checkpoint. *)

\* [mutant] break instead of continue at the first unimportant event.
Mutant_PersistBreaks ==
    /\ pc = "persist"
    /\ delivered # <<>>
    /\ IF emitted[Head(delivered)].topic \in Important
       THEN /\ ledger' = Append(ledger, Head(delivered))
            /\ delivered' = Tail(delivered)
       ELSE /\ delivered' = <<>>
            /\ UNCHANGED ledger
    /\ UNCHANGED <<pc, tick, todo, health, busVars, callVars, timerVars,
                   captureVars, scenarioVars>>

PersistOne ==
    /\ pc = "persist"
    /\ delivered # <<>>
    /\ ledger' = IF emitted[Head(delivered)].topic \in Important
                 THEN Append(ledger, Head(delivered))
                 ELSE ledger
    /\ delivered' = Tail(delivered)
    /\ UNCHANGED <<pc, tick, todo, health, busVars, callVars, timerVars,
                   captureVars, scenarioVars>>

Every(interval) == interval > 0 /\ tick % interval = 0

\* The n largest members of a set of ticks, and the last n of a sequence.
Newest(S, n)   == {t \in S : Cardinality({u \in S : u > t}) < n}
LastOf(seq, n) == IF Len(seq) <= n THEN seq
                  ELSE SubSeq(seq, Len(seq) - n + 1, Len(seq))

\* _checkpoint ends the tick.
EndTick ==
    /\ pc = "persist"
    /\ delivered = <<>>
    /\ pc' = "idle"
    /\ checkpoints' = IF Every(CheckpointInterval)
                      THEN Newest(checkpoints \cup {tick}, MaxCheckpoints)
                      ELSE checkpoints
    /\ IF Every(SnapshotInterval)
       THEN /\ snapshotTicks' = LastOf(Append(snapshotTicks, tick), MaxSnapshotTicks)
            /\ snapshots' = Append(snapshots, [tick |-> tick, seen |-> Len(emitted)])
       ELSE UNCHANGED <<snapshotTicks, snapshots>>
    /\ UNCHANGED <<tick, delivered, todo, health, ledger, busVars, callVars,
                   timerVars, scenarioVars>>

-----------------------------------------------------------------------------
\* run_scenario between two ticks: one event, then bus.drain().
RunScenario ==
    /\ pc = "idle"
    /\ scenarios < MaxScenarios
    /\ pc' = "drain"
    /\ inScenario' = TRUE
    /\ scenarios' = scenarios + 1
    /\ drained' = 0
    /\ \E topic \in ScenarioTopics : Publish(topic, causeStack, 0, TRUE)
    /\ UNCHANGED <<tick, delivered, todo, health, ledger, current, subs,
                   callVars, timerVars, captureVars>>

\* The kernel's own steps; BeginTick and RunScenario are the worker's to take.
Kernel ==
    \/ FireTimer \/ CollectDue
    \/ BeginStep \/ StepEmit \/ StepReturn \/ StepRaise \/ Schedule
    \/ FinalDrain \/ BeginPersist
    \/ PopEvent \/ EventStorm \/ SkipHandler \/ BeginHandler \/ HandlerEmit
    \/ HandlerReturn \/ HandlerRaise \/ EndDelivery \/ EndDrain
    \/ PersistOne \/ EndTick

Next == BeginTick \/ RunScenario \/ Kernel

Spec == Init /\ [][Next]_vars

\* One thread that runs until the tick is over.
FairSpec == Spec /\ WF_vars(Kernel)

-----------------------------------------------------------------------------
(* Properties. *)

Elements(seq) == {seq[i] : i \in DOMAIN seq}

\* The ledger holds events in the order they were made, each at most once:
\* "lands here exactly once, in tick order" (ledger.py).  The order survives
\* handlers that emit while the bus drains, failures and dropped scenarios.
LedgerInOrder ==
    \A i, j \in DOMAIN ledger : i < j => ledger[i] < ledger[j]

\* Between ticks, every important event a tick has made, its timers', its
\* systems', their handlers' and the kernel's own failure reports, is in the
\* ledger, and nothing unimportant is.
LedgerComplete ==
    /\ pc = "idle" =>
        \A e \in DOMAIN emitted :
            emitted[e].topic \in Important /\ ~emitted[e].scenario
                => e \in Elements(ledger)
    /\ \A e \in Elements(ledger) : emitted[e].topic \in Important

\* An event in the ledger is preceded there by its important causes, so that
\* causal analysis, which reads only the ledger, finds each chain's start.
CausesBeforeEffects ==
    \A i \in DOMAIN ledger :
        \A c \in Elements(emitted[ledger[i]].causes) :
            emitted[c].topic \in Important /\ ~emitted[c].scenario
                => \E j \in 1..(i - 1) : ledger[j] = c

\* No call leaves anything on the cause stack, even one that raises: outside a
\* handler no event is blamed on a delivery that is over.
CauseStackBalanced ==
    causeStack = IF pc = "handler" THEN <<current>> ELSE <<>>

\* Both: every event carries the causes it has, and the ledger can follow them.
CausesAreTrue == CausesBeforeEffects /\ CauseStackBalanced

\* Quarantine is final: from the tick after it nothing of the system runs, so
\* its record never changes again.
QuarantineFreezes ==
    [][\A s \in Systems :
        health[s].quarantined /\ health[s].lastTick < tick
            => /\ health'[s] = health[s]
               /\ running' # s]_vars

\* A one-shot timer is waiting, about to fire or has fired, exactly one of the
\* three and once; a repeating timer is never lost and has fired exactly as
\* often as its next fire tick says.
TimerAccounting ==
    \A id \in DOMAIN scheduled :
        LET waiting == {t \in timers : t.id = id}
            due     == {t \in firing : t.id = id}
            fired   == {e \in DOMAIN emitted : emitted[e].timer = id}
            count   == Cardinality(due) + Cardinality(fired)
        IN  IF scheduled[id].repeat = 0
            THEN Cardinality(waiting) + count = 1
            ELSE \E t \in waiting :
                    /\ waiting = {t}
                    /\ t.fire = scheduled[id].fire + scheduled[id].repeat * count

\* A snapshot is taken after its tick's events went to the sink, so a world
\* restored from it is never ahead of the ledger.
SnapshotBehindLedger ==
    \A k \in DOMAIN snapshots :
        \A e \in 1..snapshots[k].seen :
            emitted[e].topic \in Important /\ ~emitted[e].scenario
                => e \in Elements(ledger)

\* What a world can be restored from, and what the ledger promises between ticks.
LedgerWhole == LedgerComplete /\ SnapshotBehindLedger

\* A tick that began ends, or the worker process dies.
TickFinishes == pc # "idle" ~> pc \in {"idle", "dead"}

=============================================================================
