------------------------------- MODULE Worker -------------------------------
(***************************************************************************)
(* The simulation worker (hydra_worker.worker.SimulationWorker) advancing  *)
(* one timeline, the buffered ledger (hydra.history.ledger.Ledger), the    *)
(* store both write to (FileStore or PostgresStore) and the operator's     *)
(* requests through the API (WorldService.set_control).  The worker may be *)
(* stopped by a signal or die between any two calls to the store.          *)
(*                                                                         *)
(* Simulation is deterministic, so a world is its tick, the ticks at which *)
(* scenarios were applied to it and the important events it has emitted.   *)
(***************************************************************************)
EXTENDS Integers, Sequences, FiniteSets

CONSTANTS
    Stores,             \* the stores considered: sealed (Timeline Zero) or not (a
                        \* fork), PostgresStore or FileStore
    EventsAt,           \* important events a tick emits
    BatchSize,          \* Ledger.batch_size
    LiveEvery,          \* LIVE_EVERY_TICKS
    SnapshotInterval,   \* kernel.snapshot_interval
    MaxStep,            \* ticks of one step batch (144)
    FastBatch,          \* ticks of one unthrottled batch (24)
    SlowBatch,          \* ticks of one throttled batch
    Requests,           \* what the operator may ask: parts of a control record
    NoValue,            \* Python's None
    \* bounds of the model
    MaxTick, MaxCrashes, MaxStops, MaxRequests

Event == [id : Nat, tick : Nat, inputs : Seq(Nat)]
World == [tick : Nat, inputs : Seq(Nat), past : Seq(Event)]

\* What a ControlRequest may hold; its note, which nobody sends, is left out.
ASSUME RequestsAssumption ==
    \A r \in Requests :
        /\ "mode" \in DOMAIN r => r.mode \in {"running", "paused", "stopped"}
        /\ "fast" \in DOMAIN r => r.fast \in BOOLEAN
        /\ "step" \in DOMAIN r => r.step \in Int
        /\ "target" \in DOMAIN r => r.target \in Int
        /\ "scenario" \in DOMAIN r => r.scenario \in BOOLEAN
        /\ "note" \notin DOMAIN r

ASSUME WorkerAssumption ==
    /\ Stores \subseteq [sealed : BOOLEAN, postgres : BOOLEAN]
    /\ EventsAt \in [1..MaxTick -> Nat]
    /\ {BatchSize, LiveEvery, SnapshotInterval, MaxStep, FastBatch, SlowBatch}
            \subseteq Nat \ {0}
    /\ {MaxTick, MaxCrashes, MaxStops, MaxRequests} \subseteq Nat
    /\ NoValue \notin Int \cup World

VARIABLES
    \* the worker process
    pc,         \* where its thread is
    calls,      \* calls still to be made before pc is reached
    mem,        \* RunningWorld.runtime.state, NoValue when not loaded
    fresh,      \* events of this tick not yet given to the ledger
    buffer,     \* Ledger._buffer
    lastLive,   \* RunningWorld.last_live_tick
    seen,       \* the control record _advance works with
    batch,      \* budget_ticks
    left,       \* ticks of the batch still to run
    \* the store
    store,      \* which one it is
    events,     \* events.jsonl.gz, or the events table
    head,       \* TimelineRecord.head_tick
    snapshots,  \* snapshots/
    live,       \* live.json.gz
    control,    \* control_<timeline>.json
    \* one request inside the API, between get_control and put_control
    request,
    \* history variables
    latest,     \* the world the worker last had in memory
    owed,       \* ticks the operator's last step request still has to get,
                \* -1 once it got more than it asked for
    overrun,    \* ticks run since the stored control stopped asking for any
    counts      \* crashes, stops and requests so far; refused: 1 after a refusal

workerVars == <<pc, calls, mem, fresh, buffer, lastLive, seen, batch, left>>
storeVars  == <<store, events, head, snapshots, live>>
ghostVars  == <<latest, owed, overrun, counts>>
vars       == <<workerVars, storeVars, control, request, ghostVars>>

ControlState ==
    [mode : {"running", "paused", "stopped"}, fast : BOOLEAN, step : Int,
     target : Int \cup {NoValue}, scenario : BOOLEAN,
     note : {"", "reached target", "step complete"}]

PC   == {"down", "poll", "advance", "clear", "tick"}
Call == {"append", "snapshot", "flush", "live", "bump_events", "bump",
         "end_of_tick", "settle", "exit"}

TypeOK ==
    /\ pc \in PC
    /\ calls \in Seq(Call)
    /\ mem \in World \cup {NoValue}
    /\ fresh \in Seq(Event)
    /\ buffer \in Seq(Event)
    /\ lastLive \in Nat
    /\ seen \in ControlState
    /\ {batch, left, head, overrun} \subseteq Nat
    /\ owed \in Int
    /\ store \in Stores
    /\ events \in Seq(Event)
    /\ snapshots \in SUBSET World
    /\ live \in World
    /\ control \in ControlState
    /\ request = NoValue \/ request \in [control : ControlState, change : Requests]
    /\ latest \in World
    /\ counts \in [{"crashes", "stops", "requests", "refused"} -> Nat]

Genesis == [tick |-> 0, inputs |-> <<>>, past |-> <<>>]

Idle == [mode |-> "paused", fast |-> FALSE, step |-> 0, target |-> NoValue,
         scenario |-> FALSE, note |-> ""]

\* create_world has sealed the world and written its snapshot, its live state
\* and a paused control record.
Init ==
    /\ pc = "down"
    /\ calls = <<>>
    /\ mem = NoValue
    /\ fresh = <<>>
    /\ buffer = <<>>
    /\ lastLive = 0
    /\ seen = Idle
    /\ batch = 0
    /\ left = 0
    /\ store \in Stores
    /\ events = <<>>
    /\ head = 0
    /\ snapshots = {Genesis}
    /\ live = Genesis
    /\ control = Idle
    /\ request = NoValue
    /\ latest = Genesis
    /\ owed = 0
    /\ overrun = 0
    /\ counts = [c \in {"crashes", "stops", "requests", "refused"} |-> 0]

-----------------------------------------------------------------------------
Larger(m, n)  == IF m > n THEN m ELSE n
Smaller(m, n) == IF m < n THEN m ELSE n

Moving(c) == c.mode = "running" \/ c.step > 0
Count(c)  == counts' = [counts EXCEPT ![c] = @ + 1]

\* store.put_control, which replaces the whole record.
PutControl(c) ==
    /\ control' = c
    /\ overrun' = IF Moving(c) THEN 0 ELSE overrun

\* SimulationWorker._budget.
Budget(c) ==
    IF c.step > 0 THEN Smaller(c.step, MaxStep)
    ELSE IF c.mode # "running" THEN 0
    ELSE IF c.fast THEN FastBatch ELSE SlowBatch

\* _pause, without its put_control.
Paused(c, note) ==
    [c EXCEPT !.mode = "paused", !.step = 0, !.target = NoValue, !.note = note]

\* The events a tick adds: ids come from WorldState.next_event_seq, of which a
\* scenario's own event takes one.
NewEvents(w) ==
    [k \in 1..EventsAt[w.tick + 1] |->
        [id     |-> Len(w.past) + Len(w.inputs) + k,
         tick   |-> w.tick + 1,
         inputs |-> w.inputs]]

\* Kernel.tick, as far as the worker and the store can tell (see KernelTick).
Ticked(w) == [w EXCEPT !.tick = @ + 1, !.past = @ \o NewEvents(w)]

\* The process ends: what was in memory is gone.
Die ==
    /\ pc' = "down"
    /\ calls' = <<>>
    /\ mem' = NoValue
    /\ fresh' = <<>>
    /\ buffer' = <<>>
    /\ lastLive' = 0
    /\ seen' = Idle
    /\ batch' = 0
    /\ left' = 0

-----------------------------------------------------------------------------
(* The worker's loop. *)

Start ==
    /\ pc = "down"
    /\ pc' = "poll"
    /\ UNCHANGED <<calls, mem, fresh, buffer, lastLive, seen, batch, left,
                   storeVars, control, request, ghostVars>>

\* run_forever's inner loop reads the control record, and _load reads the live
\* state unless the world is in memory already.
Poll ==
    /\ pc = "poll"
    /\ calls = <<>>
    /\ Moving(control) \/ control.scenario
    /\ pc' = "advance"
    /\ seen' = control
    /\ LET loaded == IF mem # NoValue THEN mem ELSE live
       IN  /\ mem' = loaded
           /\ latest' = loaded
           /\ lastLive' = IF mem # NoValue THEN lastLive ELSE loaded.tick
    /\ UNCHANGED <<calls, fresh, buffer, batch, left, storeVars, control,
                   request, owed, overrun, counts>>

\* run_scenario changes the world between two ticks, or raises.
ApplyScenario ==
    /\ pc = "advance"
    /\ seen.scenario
    /\ pc' = "clear"
    /\ mem' \in {mem, [mem EXCEPT !.inputs = Append(@, mem.tick)]}
    /\ latest' = mem'
    /\ UNCHANGED <<calls, fresh, buffer, lastLive, seen, batch, left,
                   storeVars, control, request, owed, overrun, counts>>

\* [mutant] the scenario is taken off the local record only.
Mutant_ClearLocally ==
    /\ pc = "clear"
    /\ pc' = "advance"
    /\ seen' = [seen EXCEPT !.scenario = FALSE]
    /\ UNCHANGED <<calls, mem, fresh, buffer, lastLive, batch, left, control,
                   storeVars, request, latest, owed, overrun, counts>>

\* _apply_scenario's finally: the record read at Poll goes back to the store.
ClearScenario ==
    /\ pc = "clear"
    /\ pc' = "advance"
    /\ seen' = [seen EXCEPT !.scenario = FALSE]
    /\ PutControl(seen')
    /\ UNCHANGED <<calls, mem, fresh, buffer, lastLive, batch, left,
                   storeVars, request, latest, owed, counts>>

\* No ticks to run: _advance returns without writing the live state.  MaxTick
\* bounds the model.
NothingToRun ==
    /\ pc = "advance"
    /\ ~seen.scenario
    /\ Budget(seen) = 0 \/ mem.tick >= MaxTick
    /\ pc' = "poll"
    /\ UNCHANGED <<calls, mem, fresh, buffer, lastLive, seen, batch, left,
                   storeVars, control, request, ghostVars>>

StartBatch ==
    /\ pc = "advance"
    /\ ~seen.scenario
    /\ Budget(seen) > 0
    /\ mem.tick < MaxTick
    /\ pc' = "tick"
    /\ batch' = Budget(seen)
    /\ left' = Budget(seen)
    /\ UNCHANGED <<calls, mem, fresh, buffer, lastLive, seen, storeVars,
                   control, request, ghostVars>>

\* [mutant] the live state is written before the ledger is flushed.
Mutant_LiveThenFlush == <<"live", "bump", "flush">>

\* ledger.flush() and write_live, which also bumps the head.
Publication == <<"flush", "live", "bump">>

\* kernel.snapshot_hook: ledger.flush() and write_snapshot.
SnapshotHook == <<"flush", "snapshot", "bump">>

\* [mutant] the live state is due one interval and a tick after the last one.
Mutant_LiveDueLate(tick) == tick - lastLive > LiveEvery

LiveDue(tick) == tick - lastLive >= LiveEvery

\* One iteration of _advance's loop: the kernel's tick with what it gives the
\* sink and the snapshot hook, the live state when it is due, then the tests at
\* the loop's end.
Tick ==
    /\ pc = "tick"
    /\ calls = <<>>
    /\ mem' = Ticked(mem)
    /\ latest' = mem'
    /\ fresh' = NewEvents(mem)
    /\ left' = left - 1
    /\ lastLive' = IF LiveDue(mem'.tick) THEN mem'.tick ELSE lastLive
    /\ calls' = [k \in 1..Len(fresh') |-> "append"]
                \o (IF mem'.tick % SnapshotInterval = 0 THEN SnapshotHook ELSE <<>>)
                \o (IF LiveDue(mem'.tick) THEN Publication ELSE <<>>)
                \o <<"end_of_tick">>
    /\ owed' = Larger(owed - 1, -1)
    /\ overrun' = IF Moving(control) THEN 0 ELSE overrun + 1
    /\ UNCHANGED <<pc, buffer, seen, batch, storeVars, control, request, counts>>

\* SIGTERM, noticed when the current pass is over: _flush_all, then the end.
Stop ==
    /\ pc = "poll"
    /\ calls = <<>>
    /\ counts.stops < MaxStops
    /\ Count("stops")
    /\ calls' = IF mem = NoValue THEN <<"exit">> ELSE Publication \o <<"exit">>
    /\ UNCHANGED <<pc, mem, fresh, buffer, lastLive, seen, batch, left,
                   storeVars, control, request, latest, owed, overrun>>

-----------------------------------------------------------------------------
(* The calls of one tick, in the order calls gives. *)

NextCall(c) == calls # <<>> /\ Head(calls) = c
Return   == calls' = Tail(calls)

\* Ledger.append, which flushes a full buffer.
AppendEvent ==
    /\ NextCall("append")
    /\ buffer' = Append(buffer, Head(fresh))
    /\ fresh' = Tail(fresh)
    /\ calls' = (IF Len(buffer') >= BatchSize THEN <<"flush">> ELSE <<>>)
                \o Tail(calls)
    /\ UNCHANGED <<pc, mem, lastLive, seen, batch, left, storeVars, control,
                   request, ghostVars>>

FlushEmpty ==
    /\ NextCall("flush")
    /\ buffer = <<>>
    /\ Return
    /\ UNCHANGED <<pc, mem, fresh, buffer, lastLive, seen, batch, left,
                   storeVars, control, request, ghostVars>>

\* _guard_append_only; the buffer is in tick order, so its first event has the
\* least tick.
Refuses(tick) == store.sealed /\ tick < head

\* PostgresStore inserts an event ON CONFLICT DO NOTHING; FileStore writes it.
Insert(rows, e) ==
    IF store.postgres /\ \E k \in DOMAIN rows : rows[k].id = e.id
    THEN rows ELSE Append(rows, e)

\* The ledger once the first k events of the buffer are in it.
Inserted[k \in 0..Len(buffer)] ==
    IF k = 0 THEN events ELSE Insert(Inserted[k - 1], buffer[k])

\* append_events up to the write; the head is bumped after it.
Flush ==
    /\ NextCall("flush")
    /\ buffer # <<>>
    /\ ~Refuses(buffer[1].tick)
    /\ events' = Inserted[Len(buffer)]
    /\ calls' = <<"bump_events">> \o Tail(calls)
    /\ UNCHANGED <<pc, mem, fresh, buffer, lastLive, seen, batch, left, store,
                   head, snapshots, live, control, request, ghostVars>>

\* SealedTimelineError, which nothing catches: the process ends.
FlushRefused ==
    /\ NextCall("flush")
    /\ buffer # <<>>
    /\ Refuses(buffer[1].tick)
    /\ Die
    /\ counts' = [counts EXCEPT !.refused = 1]
    /\ UNCHANGED <<storeVars, control, request, latest, owed, overrun>>

\* [mutant] the buffer is not cleared.
Mutant_BumpKeepsBuffer ==
    /\ NextCall("bump_events")
    /\ head' = Larger(head, buffer[Len(buffer)].tick)
    /\ Return
    /\ UNCHANGED <<pc, mem, fresh, buffer, lastLive, seen, batch, left, store,
                   events, snapshots, live, control, request, ghostVars>>

\* _bump_head at the end of append_events, then flush's _buffer.clear().
BumpEvents ==
    /\ NextCall("bump_events")
    /\ head' = Larger(head, buffer[Len(buffer)].tick)
    /\ buffer' = <<>>
    /\ Return
    /\ UNCHANGED <<pc, mem, fresh, lastLive, seen, batch, left, store,
                   events, snapshots, live, control, request, ghostVars>>

\* _bump_head at the end of write_snapshot and write_live.
Bump ==
    /\ NextCall("bump")
    /\ head' = Larger(head, mem.tick)
    /\ Return
    /\ UNCHANGED <<pc, mem, fresh, buffer, lastLive, seen, batch, left, store,
                   events, snapshots, live, control, request, ghostVars>>

\* FileStore guards a snapshot that is there with another hash; PostgresStore
\* overwrites it.
SnapshotRefused ==
    /\ ~store.postgres
    /\ Refuses(mem.tick)
    /\ \E w \in snapshots : w.tick = mem.tick /\ w # mem

WriteSnapshot ==
    /\ NextCall("snapshot")
    /\ ~SnapshotRefused
    /\ snapshots' = {w \in snapshots : w.tick # mem.tick} \cup {mem}
    /\ Return
    /\ UNCHANGED <<pc, mem, fresh, buffer, lastLive, seen, batch, left, store,
                   events, head, live, control, request, ghostVars>>

RefuseSnapshot ==
    /\ NextCall("snapshot")
    /\ SnapshotRefused
    /\ Die
    /\ counts' = [counts EXCEPT !.refused = 1]
    /\ UNCHANGED <<storeVars, control, request, latest, owed, overrun>>

\* os.replace of the live state.
WriteLive ==
    /\ NextCall("live")
    /\ live' = mem
    /\ Return
    /\ UNCHANGED <<pc, mem, fresh, buffer, lastLive, seen, batch, left, store,
                   events, head, snapshots, control, request, ghostVars>>

\* What follows the loop.
AfterLoop == calls' = Publication \o <<"settle">>

TargetReached == seen.target # NoValue /\ mem.tick >= seen.target

\* The target tick is reached: _pause and break.
PauseAtTarget ==
    /\ NextCall("end_of_tick")
    /\ TargetReached
    /\ seen' = Paused(seen, "reached target")
    /\ PutControl(seen')
    /\ AfterLoop
    /\ UNCHANGED <<pc, mem, fresh, buffer, lastLive, batch, left, storeVars,
                   request, latest, owed, counts>>

NextIteration ==
    /\ NextCall("end_of_tick")
    /\ ~TargetReached
    /\ left > 0
    /\ mem.tick < MaxTick
    /\ Return
    /\ UNCHANGED <<pc, mem, fresh, buffer, lastLive, seen, batch, left,
                   storeVars, control, request, ghostVars>>

\* The batch is over, or, unthrottled, BATCH_SECONDS are.
EndLoop ==
    /\ NextCall("end_of_tick")
    /\ ~TargetReached
    /\ left = 0 \/ seen.fast \/ mem.tick >= MaxTick
    /\ AfterLoop
    /\ UNCHANGED <<pc, mem, fresh, buffer, lastLive, seen, batch, left,
                   storeVars, control, request, ghostVars>>

\* [mutant] the request is over with its first batch.
Mutant_RemainingStep == 0

\* [mutant] the request is put back as it was.
Mutant_StepNotTaken == seen.step

RemainingStep == Larger(0, seen.step - batch)

\* The end of _advance: the live tick is noted and a step request accounted for.
Settle ==
    /\ NextCall("settle")
    /\ pc' = "poll"
    /\ lastLive' = mem.tick
    /\ IF seen.step > 0
       THEN /\ seen' = IF RemainingStep = 0 /\ seen.mode # "running"
                       THEN Paused(seen, "step complete")
                       ELSE [seen EXCEPT !.step = RemainingStep]
            /\ PutControl(seen')
       ELSE UNCHANGED <<seen, control, overrun>>
    /\ Return
    /\ UNCHANGED <<mem, fresh, buffer, batch, left, storeVars, request, latest,
                   owed, counts>>

Exit ==
    /\ NextCall("exit")
    /\ Die
    /\ UNCHANGED <<storeVars, control, request, ghostVars>>

-----------------------------------------------------------------------------
(* The environment: crashes, and the operator through the API. *)

\* The process is killed between two calls, or between two writes of one call.
Crash ==
    /\ pc # "down"
    /\ counts.crashes < MaxCrashes
    /\ Count("crashes")
    /\ Die
    /\ UNCHANGED <<storeVars, control, request, latest, owed, overrun>>

\* WorldService.set_control reads the record ...
GetControl ==
    /\ request = NoValue
    /\ counts.requests < MaxRequests
    /\ Count("requests")
    /\ \E r \in Requests : request' = [control |-> control, change |-> r]
    /\ UNCHANGED <<workerVars, storeVars, control, latest, owed, overrun>>

Changed(c, r) == [f \in DOMAIN c |-> IF f \in DOMAIN r THEN r[f] ELSE c[f]]

\* ... and puts all of it back with the requested fields changed.
SetControl ==
    /\ request # NoValue
    /\ PutControl(Changed(request.control, request.change))
    /\ owed' = IF "step" \in DOMAIN request.change
               THEN request.change.step ELSE owed
    /\ request' = NoValue
    /\ UNCHANGED <<workerVars, storeVars, latest, counts>>

Working ==
    \/ Start \/ Poll \/ ApplyScenario \/ ClearScenario \/ NothingToRun
    \/ StartBatch \/ Tick
    \/ AppendEvent \/ FlushEmpty \/ Flush \/ FlushRefused \/ BumpEvents \/ Bump
    \/ WriteSnapshot \/ RefuseSnapshot \/ WriteLive
    \/ PauseAtTarget \/ NextIteration \/ EndLoop \/ Settle \/ Exit

Next == Working \/ Stop \/ Crash \/ GetControl \/ SetControl

Spec == Init /\ [][Next]_vars

\* The worker's thread keeps running and the platform restarts a process that
\* ended; a request the API has begun is finished.
FairSpec == Spec /\ WF_vars(Working) /\ WF_vars(SetControl)

-----------------------------------------------------------------------------
(* Properties. *)

Elements(seq) == {seq[k] : k \in DOMAIN seq}

\* No event is lost or doubled between the kernel and the store: what the store
\* has, what waits in the buffer and what the tick has not handed over yet are
\* together the past of the world in memory.  Holds while the worker is never
\* killed, through any number of orderly stops.
LedgerHoldsThePast ==
    mem # NoValue =>
        mem.past = (IF NextCall("bump_events") THEN events ELSE events \o buffer)
                   \o fresh

\* A worker that is never killed is never told that it rewrites a sealed past:
\* the head never overtakes an event still in the buffer.
NeverRefused == counts.refused = 0

\* "a shutdown finishes the tick in flight" (service.py): after an orderly stop
\* the store has the very world the worker had, scenarios applied while paused
\* included.
StoppedCleanly == pc = "down" => live = latest

\* Once the stored record asks for no ticks, at most one more batch runs.
OverrunBounded == overrun <= Larger(MaxStep, Larger(FastBatch, SlowBatch))

\* What the worker and the store owe a timeline whose worker is never killed.
OrderlyRuns ==
    LedgerHoldsThePast /\ NeverRefused /\ StoppedCleanly /\ OverrunBounded

\* Whenever the worker is killed, what it re-simulates is at most one live
\* interval.
LossBounded == latest.tick - live.tick <= LiveEvery

\* No scenario has left its mark on the rows of the ledger.
NoScenarioYet == \A k \in DOMAIN events : events[k].inputs = <<>>

\* "nothing is lost that was not already replayable" (worker.py): every event
\* in the past of a state the world can be resumed, forked or replayed from is
\* in the ledger.  In Postgres only for a state no scenario was applied to and
\* rows no scenario has touched: a run that is killed leaves rows under the very
\* ids that a scenario applied after it gives to other events.
LedgerCoversRecovery ==
    \A w \in snapshots \cup {live} :
        ~store.postgres \/ (NoScenarioYet /\ w.inputs = <<>>) =>
            Elements(w.past) \subseteq Elements(events)

\* "Every event above the importance threshold lands here exactly once, in tick
\* order" (ledger.py).  PostgresStore keeps that claim across crashes,
\* re-simulated events being dropped as duplicates, as long as no scenario is
\* rolled back.
PostgresExactlyOnce ==
    store.postgres /\ NoScenarioYet =>
        \A i, j \in DOMAIN events : i < j => events[i].id < events[j].id

\* A worker that is killed loses at most a live interval, nothing it can resume
\* from is missing in the ledger, and what it simulates again is not recorded
\* again.
RecoveryCovered == LossBounded /\ LedgerCoversRecovery /\ PostgresExactlyOnce

\* "step complete": the ticks the operator asked for have run, no more and no
\* fewer, and the world they led to is published; the operator having asked for
\* nothing else, and for a throttled step: an unthrottled batch is cut short
\* after BATCH_SECONDS and taken off the request whole, as is one that MaxTick
\* cuts short.
StepCompleteIsTrue ==
    /\ control.note = "step complete" /\ counts.requests = 1
    /\ ~control.fast /\ latest.tick < MaxTick
    => owed = 0 /\ live = latest

\* A step request is carried out, in as many batches as it takes, if the
\* operator asks for nothing else.
StepServed ==
    control.step > 0 ~> control.note = "step complete" \/ counts.requests > 1

\* A queued scenario is taken off the record.
ScenarioTaken == control.scenario ~> ~control.scenario

\* "If it dies, the world resumes from its last snapshot" (worker.py): a running
\* world whose live state is at tick t gets past t, if no operator stops it.
WorldResumes ==
    \A t \in 0..(MaxTick - 1) :
        control.mode = "running" /\ live.tick = t
            ~> live.tick > t \/ control.mode # "running"

\* The promise of WorldHistory: a ledger that only grows forwards and published
\* worlds whose past is exactly the ledger.
History == INSTANCE WorldHistory WITH ledger <- events, published <- live
AppendOnlyHistory == History!Spec

=============================================================================
