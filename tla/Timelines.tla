------------------------------ MODULE Timelines ------------------------------
(***************************************************************************)
(* The timelines of one store, as the API's threads (WorldService: create, *)
(* fork, replay, state) and the simulation worker use them together, with  *)
(* or without the Redis cache of live states (RedisLiveCache) in front.    *)
(* Every call to the store or the cache is a step of its own.              *)
(*                                                                         *)
(* Simulation is deterministic: a world is the seeds it descends from, its *)
(* tick, and the ticks at which scenarios were applied to it.  How the     *)
(* worker's thread gets from one publication to the next is Worker.        *)
(***************************************************************************)
EXTENDS Integers, Sequences, SequencesExt, FiniteSets

CONSTANTS
    Worlds,             \* world ids the operator may ask to create
    Zero,               \* "tl_zero"
    ForkIds,            \* "tl_001", "tl_002", ... in this order
    Threads,            \* threads of the API process
    Salts,              \* divergence_salt
    Stores,             \* deployments: PostgresStore or FileStore, with Redis or not,
                        \* each with the name of its bounds
    SnapshotInterval, CheckpointInterval,
    None,               \* Python's None
    \* bounds of the model
    MaxTick,
    Serves,             \* per deployment: what the operator asks of each thread
    Most                \* per deployment: ticks, requests, and scenarios and crashes together

Ids == {Zero} \cup Range(ForkIds)

ASSUME TimelinesAssumption ==
    /\ ForkIds \in Seq(STRING) /\ Zero \notin Range(ForkIds)
    /\ Stores \subseteq [postgres : BOOLEAN, redis : BOOLEAN, bounds : STRING]
    /\ Serves \in [Stores -> [Threads -> SUBSET {"create", "fork", "replay", "read"}]]
    /\ {SnapshotInterval, CheckpointInterval} \subseteq Nat \ {0}
    /\ MaxTick \in Nat
    /\ Most \in [Stores -> [ticks : 0..MaxTick, requests : Nat, incidents : Nat]]

VARIABLES
    store,      \* the deployment
    \* the store
    worlds,     \* ids of worlds/
    timelines,  \* timeline records
    snapshots,  \* per timeline and tick
    live,       \* per timeline
    control,    \* control records, per world and timeline: mode and scenario
    \* Redis, hydra:live:<timeline>
    cache,
    \* the worker
    mem,        \* running[id].runtime.state
    batch,      \* the timeline it advances and its next call, up to what tick the ledger
                \* is flushed, and whether it publishes after this tick
    \* the API process
    thread,     \* the request each thread works on
    remembered, \* WorldService._cache
    \* history variables
    was,        \* worlds of the run each timeline is on
    asked,      \* records of the worlds and forks that were answered to the operator
    disturbed,  \* timelines that another request was given while they were made, or
                \* that were made where there was one, or of one of these
    counts

storeVars  == <<store, worlds, timelines, snapshots, live, control>>
workerVars == <<mem, batch>>
apiVars    == <<thread, remembered>>
history    == <<was, asked, disturbed>>
vars       == <<storeVars, cache, workerVars, apiVars, history, counts>>

\* One world at one tick.  branch: its world and the forks it descends from,
\* which is what state.meta.seed is derived from.
Ticks == 0..MaxTick
Fork  == [id : Ids, tick : Ticks, salt : Salts]
World == [tick : Ticks, world : Worlds, branch : Seq(Fork), inputs : Seq(Ticks)]

TimelineRecord ==
    [world : Worlds, parent : Ids \cup {None}, forkTick : Ticks,
     branch : Seq(Fork), sealed : BOOLEAN, head : Ticks]

Idle == [at |-> "idle"]

Calls == {"world", "timeline", "snapshot", "reread", "live", "cache", "control", "remember",
          "answer"}

\* The worker's batch.
Batches == [id : Ids, call : {"tick", "flush", "snapshot", "live", "cache"},
            flushed : Ticks, publishes : BOOLEAN]

Controls == [running : BOOLEAN, scenario : BOOLEAN]

\* What a thread of the API works on.
ToReplay  == [at : {"load"}, kind : {"replay"}, id : Ids, tick : Ticks]
ToFork    == [at : {"load"}, kind : {"fork"}, id : Ids, tick : Ticks, salt : Salts,
              parent : TimelineRecord]
ToName    == [at : {"name"}, kind : {"fork"}, id : Ids, tick : Ticks, salt : Salts,
              parent : TimelineRecord, from : Ticks, w : World, published : BOOLEAN]
Forking   == [at : {"calls"}, kind : {"fork"}, id : Ids, record : TimelineRecord, from : Ticks,
              old : World, published : BOOLEAN, w : World, call : Calls]
ReplayedTo == [at : {"done"}, kind : {"replay"}, id : Ids, tick : Ticks, from : Ticks,
               w : World, published : BOOLEAN]
Creating  == [at : {"calls"}, kind : {"create"}, id : {Zero}, record : TimelineRecord, w : World,
              call : Calls]
ToRead    == [at : {"look", "fetch"}, kind : {"read"}, id : Ids, head : Ticks, floor : Ticks]
Reading   == [at : {"calls", "done"}, kind : {"read"}, id : Ids, floor : Ticks, w : World,
              call : {"live", "cache", "remember"}]

Requests == ToReplay \cup ToFork \cup ToName \cup Forking \cup ReplayedTo
              \cup Creating \cup ToRead \cup Reading

\* None is none of these.
ASSUME NoneAssumption == None \notin World \cup TimelineRecord \cup Controls \cup Batches

\* The types of the state.
TypeOK ==
    /\ store \in Stores /\ worlds \subseteq Worlds
    /\ timelines \in [Ids -> TimelineRecord \cup {None}]
    /\ snapshots \in [Ids -> [Ticks -> World \cup {None}]]
    /\ \A id \in Ids, k \in Ticks : snapshots[id][k] # None => snapshots[id][k].tick = k
    /\ {live, cache, mem, remembered} \subseteq [Ids -> World \cup {None}]
    /\ ~store.redis => cache = [id \in Ids |-> None]
    /\ control \in [Worlds -> [Ids -> Controls \cup {None}]] /\ batch \in Batches \cup {None}
    /\ thread \in [Threads -> Requests \cup {Idle}]
    /\ was \in [Ids -> SUBSET World] /\ asked \subseteq TimelineRecord
    /\ disturbed \subseteq Ids
    /\ counts \in [requests : Nat, incidents : Nat]

Init ==
    /\ store \in Stores
    /\ worlds = {}
    /\ timelines = [id \in Ids |-> None]
    /\ snapshots = [id \in Ids |-> [k \in Ticks |-> None]]
    /\ live = [id \in Ids |-> None]
    /\ control = [w \in Worlds |-> [id \in Ids |-> None]]
    /\ cache = [id \in Ids |-> None]
    /\ mem = [id \in Ids |-> None]
    /\ batch = None
    /\ thread = [t \in Threads |-> Idle]
    /\ remembered = [id \in Ids |-> None]
    /\ was = [id \in Ids |-> {}]
    /\ asked = {} /\ disturbed = {}
    /\ counts = [requests |-> 0, incidents |-> 0]

-----------------------------------------------------------------------------
(* The store.                                                              *)

Later(a, b) == IF a > b THEN a ELSE b

\* put_timeline: FileStore replaces the record, Postgres keeps its lineage.
PutTimeline(id, record) ==
    timelines' = [timelines EXCEPT ![id] =
        IF store.postgres /\ @ # None
        THEN [@ EXCEPT !.sealed = record.sealed, !.head = Later(timelines[id].head, record.head)]
        ELSE record]

\* _bump_head.
Bumped(records, id, tick) ==
    IF records[id] = None THEN records
    ELSE [records EXCEPT ![id].head = Later(@, tick)]

\* _guard_append_only raises.
Sealed(id, tick) == timelines[id] # None /\ timelines[id].sealed /\ tick < timelines[id].head

\* FileStore.write_snapshot compares with the file that is there; Postgres
\* overwrites the row.
Refused(id, w) ==
    /\ ~store.postgres
    /\ snapshots[id][w.tick] \notin {None, w}
    /\ Sealed(id, w.tick)

\* Mutant: a fork's snapshots are kept with its parent's.
Mutant_WithParent(id, w) ==
    LET at == IF timelines[id].parent = None THEN id ELSE timelines[id].parent
    IN  /\ snapshots' = [snapshots EXCEPT ![at][w.tick] = w]
        /\ timelines' = Bumped(timelines, id, w.tick)

WriteSnapshot(id, w) ==
    /\ snapshots' = [snapshots EXCEPT ![id][w.tick] = w]
    /\ timelines' = Bumped(timelines, id, w.tick)

SnapshotTicks(id, tick) == {k \in 0..tick : snapshots[id][k] # None}

\* nearest_snapshot.
Nearest(id, tick) ==
    IF SnapshotTicks(id, tick) = {} THEN None
    ELSE snapshots[id][CHOOSE k \in SnapshotTicks(id, tick) :
                          \A j \in SnapshotTicks(id, tick) : j <= k]

-----------------------------------------------------------------------------
(* Replay: replay_to on a kernel without sink and without snapshot_hook.    *)

\* The world at a later tick, scenarios not applied again.
Resimulated(w, tick) == [w EXCEPT !.tick = tick]

\* What the state hash at an earlier tick was.
AsOf(w, tick) == [w EXCEPT !.tick = tick, !.inputs = SelectSeq(@, LAMBDA k : k < tick)]

\* KernelDomainState.checkpoints, as the restored snapshot has them.
Checkpoints(w) == {k \in 1..w.tick : k % CheckpointInterval = 0}

\* _verify, after every re-simulated tick.  The checkpoints of the snapshot are
\* of ticks before those it simulates.
Diverges(w, tick) ==
    \E k \in (w.tick + 1)..tick : k \in Checkpoints(w) /\ AsOf(w, k) # Resimulated(w, k)

-----------------------------------------------------------------------------
(* write_live, behind the cache or not, by the worker and by the API.       *)

\* The store's own write_live with its _bump_head, which changes nothing after
\* the flush before it.
StoreLive(id, w) ==
    /\ live' = [live EXCEPT ![id] = w]
    /\ timelines' = Bumped(timelines, id, w.tick)
    /\ UNCHANGED <<store, worlds, snapshots, control, cache>>

\* client.set; an exception is swallowed.
SetCache(id, w) ==
    /\ cache' \in {cache, [cache EXCEPT ![id] = w]}
    /\ UNCHANGED storeVars

-----------------------------------------------------------------------------
(* The worker.                                                             *)

\* get_control, of a timeline that is listed.
Control(id) == IF timelines[id] = None THEN None ELSE control[timelines[id].world][id]

Runs(id)   == Control(id) # None /\ Control(id).running
Shaken(id) == Control(id) # None /\ Control(id).scenario

\* run_forever visits a timeline that has something to do.
Visits(id) == batch = None /\ (Runs(id) \/ Shaken(id))

\* The world _load restores, the cache being asked first.
Stored(id) ==
    IF cache[id] # None THEN cache[id]
    ELSE IF live[id] # None THEN live[id]
    ELSE Nearest(id, MaxTick)

\* _load; on a miss the cache is filled.  What came after the world it restores
\* is no past of this run.
Load(id) ==
    /\ Visits(id) /\ mem[id] = None /\ Stored(id) # None
    /\ mem' = [mem EXCEPT ![id] = Stored(id)]
    /\ cache' = IF store.redis /\ live[id] # None THEN [cache EXCEPT ![id] = Stored(id)] ELSE cache
    /\ was' = [was EXCEPT ![id] = {w \in @ : w.tick < Stored(id).tick} \cup {Stored(id)}]
    /\ UNCHANGED <<storeVars, batch, apiVars, asked, disturbed, counts>>

\* The batch of a timeline begins with an empty buffer.
Begin(id) == [id |-> id, call |-> "tick", flushed |-> mem[id].tick, publishes |-> FALSE]

\* _apply_scenario, after which _advance goes on if the world is to run.
ApplyScenario(id) ==
    /\ Visits(id) /\ mem[id] # None /\ Shaken(id)
    /\ mem' = [mem EXCEPT ![id].inputs = Append(@, mem[id].tick)]
    /\ control' = [control EXCEPT ![timelines[id].world][id].scenario = FALSE]
    /\ was' = [was EXCEPT ![id] = @ \cup {mem'[id]}]
    /\ batch' = IF Runs(id) /\ mem[id].tick < Most[store].ticks THEN Begin(id) ELSE None
    /\ UNCHANGED <<store, worlds, timelines, snapshots, live, cache, apiVars, asked, disturbed,
                   counts>>

SnapshotDue(tick) == tick % SnapshotInterval = 0

\* A tick of a batch.  The ledger is flushed when its buffer is full, for the
\* snapshot, and to publish, which happens every few ticks and at the end.
Tick(id) ==
    LET now == IF batch = None THEN Begin(id) ELSE batch
    IN  /\ mem[id] # None /\ mem[id].tick < Most[store].ticks
        /\ now.id = id /\ now.call = "tick"
        /\ batch # None \/ (Runs(id) /\ ~Shaken(id))
        /\ mem' = [mem EXCEPT ![id].tick = @ + 1]
        /\ was' = [was EXCEPT ![id] = @ \cup {mem'[id]}]
        /\ \E full, publishes \in BOOLEAN :
            /\ mem'[id].tick = Most[store].ticks => publishes
            /\ batch' = [now EXCEPT !.publishes = publishes,
                  !.call = IF full \/ publishes \/ SnapshotDue(mem'[id].tick)
                           THEN "flush" ELSE "tick"]
        /\ UNCHANGED <<storeVars, cache, apiVars, asked, disturbed, counts>>

\* An exception out of run_forever, or a kill.
Die ==
    /\ mem' = [id \in Ids |-> None]
    /\ batch' = None

Doing(call, id) == batch # None /\ batch.id = id /\ batch.call = call
Goes(call)      == batch' = [batch EXCEPT !.call = call]

\* Ledger.flush of the events since it was last flushed.
Flush(id) ==
    /\ Doing("flush", id)
    /\ IF Sealed(id, batch.flushed + 1)
       THEN Die /\ UNCHANGED storeVars
       ELSE /\ timelines' = Bumped(timelines, id, mem[id].tick)
            /\ batch' = [batch EXCEPT !.flushed = mem[id].tick,
                  !.call = IF SnapshotDue(mem[id].tick) THEN "snapshot"
                           ELSE IF batch.publishes THEN "live" ELSE "tick"]
            /\ UNCHANGED <<store, worlds, snapshots, live, control, mem>>
    /\ UNCHANGED <<cache, apiVars, history, counts>>

\* The kernel's snapshot_hook.
HookSnapshot(id) ==
    /\ Doing("snapshot", id)
    /\ IF Refused(id, mem[id])
       THEN Die /\ UNCHANGED storeVars
       ELSE /\ WriteSnapshot(id, mem[id])
            /\ Goes(IF batch.publishes THEN "live" ELSE "tick")
            /\ UNCHANGED <<store, worlds, live, control, mem>>
    /\ UNCHANGED <<cache, apiVars, history, counts>>

\* When the world is published the batch may be over.
Published ==
    \/ batch' = None
    \/ /\ mem[batch.id].tick < Most[store].ticks
       /\ batch' = [batch EXCEPT !.call = "tick", !.publishes = FALSE]

Publish(id) ==
    /\ \/ /\ Doing("live", id) /\ StoreLive(id, mem[id])
          /\ IF store.redis THEN Goes("cache") ELSE Published
       \/ /\ Doing("cache", id) /\ SetCache(id, mem[id])
          /\ Published
    /\ UNCHANGED <<mem, apiVars, history, counts>>

\* The process ends anywhere and is started again; where it has nothing to
\* lose the next load restores what it had.
WorkerCrash ==
    /\ counts.incidents < Most[store].incidents
    /\ \E id \in Ids : mem[id] \notin {None, live[id]} \/ batch # None
    /\ Die
    /\ counts' = [counts EXCEPT !.incidents = @ + 1]
    /\ UNCHANGED <<storeVars, cache, apiVars, history>>

-----------------------------------------------------------------------------
(* The API.                                                                *)

\* Waiting for a request, or with the last one answered.
Free(t, kind) ==
    /\ thread[t].at \in {"idle", "done"}
    /\ kind \in Serves[store][t]
    /\ counts.requests < Most[store].requests
    /\ counts' = [counts EXCEPT !.requests = @ + 1]

Become(t, record) == thread' = [thread EXCEPT ![t] = record]

\* The request raises: a 4xx or 500 and nothing more.
Reject(t) == Become(t, Idle) /\ UNCHANGED <<storeVars, cache, remembered, asked>>

\* What a request calls next.  "answer" stands for the answer to the operator.
After(kind, call) ==
    CASE call = "world" -> "timeline"
      [] call = "timeline" -> "snapshot"
      [] call = "snapshot" -> IF kind = "create" THEN "live" ELSE "reread"
      [] call = "reread" -> "live"
      [] call = "live" /\ store.redis -> "cache"
      [] call = "cache" \/ (call = "live" /\ ~store.redis) ->
            IF kind = "read" THEN "remember" ELSE "control"
      [] call = "control" -> IF kind = "create" THEN "remember" ELSE "answer"

\* Some request is about to write a timeline of this id.
Making(id) ==
    \E t \in Threads : /\ thread[t].at = "calls" /\ thread[t].kind \in {"create", "fork"}
                       /\ thread[t].id = id /\ thread[t].call \notin {"remember", "answer"}

\* A new timeline of a world gets an id that is being made, or another world's.
Taken(id, world) == Making(id) \/ (timelines[id] # None /\ timelines[id].world # world)

\* create_world, refused when the world exists.  Every world's first timeline
\* has the same id.
AskCreate(t) ==
    /\ Free(t, "create")
    /\ \E w \in Worlds \ worlds :
        LET genesis == [tick |-> 0, world |-> w, branch |-> <<>>, inputs |-> <<>>]
        IN  /\ Become(t, [at |-> "calls", kind |-> "create", id |-> Zero, w |-> genesis,
                          record |-> [world |-> w, parent |-> None, forkTick |-> 0,
                                      branch |-> <<>>, sealed |-> TRUE, head |-> 0],
                          call |-> "world"])
            /\ disturbed' = IF Taken(Zero, w) THEN disturbed \cup {Zero} ELSE disturbed
    /\ UNCHANGED <<storeVars, cache, workerVars, remembered, was, asked>>

\* fork_timeline up to its checks; list_timelines shows the operator what can
\* be forked.
AskFork(t) ==
    /\ Free(t, "fork")
    /\ \E id \in Ids, salt \in Salts :
        /\ timelines[id] # None
        /\ \E tick \in 0..timelines[id].head :
            Become(t, [at |-> "load", kind |-> "fork", id |-> id, tick |-> tick,
                       salt |-> salt, parent |-> timelines[id]])
    /\ UNCHANGED <<storeVars, cache, workerVars, remembered, history>>

\* replay and state_at, of any tick.
AskReplay(t) ==
    /\ Free(t, "replay")
    /\ \E id \in Ids, tick \in 0..MaxTick :
        /\ timelines[id] # None
        /\ Become(t, [at |-> "load", kind |-> "replay", id |-> id, tick |-> tick])
    /\ UNCHANGED <<storeVars, cache, workerVars, remembered, history>>

\* replay_to.  published: whether the tick had been, as far as the store shows.
Replay(t) ==
    /\ thread[t].at = "load"
    /\ LET me   == thread[t]
           from == Nearest(me.id, me.tick)
           w    == Resimulated(from, me.tick)
           published == live[me.id] # None /\ me.tick <= live[me.id].tick
       IN  IF from = None \/ (from # None /\ Diverges(from, me.tick))
           THEN Reject(t)
           ELSE /\ Become(t,
                    IF me.kind = "fork"
                    THEN [at |-> "name", kind |-> "fork", id |-> me.id, tick |-> me.tick,
                          salt |-> me.salt, parent |-> me.parent, from |-> from.tick, w |-> w,
                          published |-> published]
                    ELSE [at |-> "done", kind |-> "replay", id |-> me.id, tick |-> me.tick,
                          from |-> from.tick, w |-> w, published |-> published])
                /\ UNCHANGED <<storeVars, cache, remembered, asked>>
    /\ UNCHANGED <<workerVars, was, disturbed, counts>>

\* Mutant: only timelines that run are looked at.
Mutant_RunningOnly(world) == {k \in DOMAIN ForkIds : ~Runs(ForkIds[k])}

\* next_timeline_id: ids are looked for among the timelines of this world.
Unused(world) ==
    {k \in DOMAIN ForkIds : timelines[ForkIds[k]] = None \/ timelines[ForkIds[k]].world # world}

\* The child's record and its world, from here on two calls apart.
Name(t) ==
    /\ thread[t].at = "name"
    /\ \E k \in Unused(thread[t].parent.world) :
        LET me   == thread[t]
            fork == [id |-> ForkIds[k], tick |-> me.tick, salt |-> me.salt]
        IN  /\ \A j \in Unused(me.parent.world) : k <= j
            /\ Become(t, [at |-> "calls", kind |-> "fork", id |-> fork.id,
                          w |-> [me.w EXCEPT !.branch = Append(@, fork)],
                          record |-> [world |-> me.parent.world, parent |-> me.id,
                                      forkTick |-> me.tick,
                                      branch |-> Append(me.parent.branch, fork),
                                      sealed |-> FALSE, head |-> me.tick],
                          from |-> me.from, old |-> me.w, published |-> me.published,
                          call |-> "timeline"])
            /\ disturbed' = IF Taken(fork.id, me.parent.world) \/ me.id \in disturbed
                            THEN disturbed \cup {fork.id} ELSE disturbed
    /\ UNCHANGED <<storeVars, cache, workerVars, remembered, was, asked, counts>>

\* WorldService.state reads the head of the timeline ...
AskRead(t) ==
    /\ Free(t, "read")
    /\ \E id \in Ids :
        /\ timelines[id] # None
        /\ Become(t, [at |-> "look", kind |-> "read", id |-> id, head |-> timelines[id].head,
                      floor |-> IF live[id] = None THEN 0
                                ELSE IF live[id].tick < timelines[id].head
                                     THEN live[id].tick ELSE timelines[id].head])
    /\ UNCHANGED <<storeVars, cache, workerVars, remembered, history>>

\* Mutant: what is remembered is trusted.
Mutant_Current(known, head) == known # None

\* What is remembered is as new as the head read before.
Current(known, head) == known # None /\ known.tick >= head

\* ... looks at what it remembers, under the lock ...
Look(t) ==
    /\ thread[t].at = "look"
    /\ LET known == remembered[thread[t].id]
       IN  thread' = [thread EXCEPT ![t] =
               IF Current(known, @.head)
               THEN [at |-> "done", kind |-> "read", floor |-> @.floor, id |-> @.id, w |-> known,
                     call |-> "remember"]
               ELSE [@ EXCEPT !.at = "fetch"]]
    /\ UNCHANGED <<storeVars, cache, workerVars, remembered, history, counts>>

\* ... and reads: a hit in Redis, a miss which is written back to the store
\* and to Redis, or the last snapshot.
Fetch(t) ==
    /\ thread[t].at = "fetch"
    /\ LET id == thread[t].id
           Found(w, call) == [at |-> "calls", kind |-> "read", floor |-> thread[t].floor,
                              id |-> id, w |-> w, call |-> call]
       IN  IF cache[id] # None THEN Become(t, Found(cache[id], "remember"))
           ELSE IF live[id] # None
           THEN Become(t, Found(live[id], IF store.redis THEN "live" ELSE "remember"))
           ELSE IF Nearest(id, MaxTick) # None
           THEN Become(t, Found(Nearest(id, MaxTick), "remember"))
           ELSE Become(t, Idle)
    /\ UNCHANGED <<storeVars, cache, workerVars, remembered, history, counts>>

\* A request goes on with its world, or has been answered.
Proceed(t, w) ==
    LET me == thread[t]
    IN  Become(t, IF me.call \notin {"remember", "answer"}
                  THEN [me EXCEPT !.w = w, !.call = After(me.kind, me.call)]
                  ELSE IF me.kind = "read" THEN [me EXCEPT !.at = "done"] ELSE Idle)

\* put_world, put_timeline, put_control.
PutRecord(t) ==
    LET me == thread[t]
    IN  /\ me.at = "calls"
        /\ \/ me.call = "world" /\ worlds' = worlds \cup {me.w.world}
              /\ UNCHANGED <<timelines, control>>
           \/ me.call = "timeline" /\ PutTimeline(me.id, me.record)
              /\ UNCHANGED <<worlds, control>>
           \/ /\ me.call = "control"
              /\ control' = [control EXCEPT ![me.record.world][me.id] =
                                             [running |-> FALSE, scenario |-> FALSE]]
              /\ UNCHANGED <<worlds, timelines>>
        /\ Proceed(t, me.w)
        /\ UNCHANGED <<store, snapshots, live, cache, workerVars, remembered, history, counts>>

\* write_snapshot of a new timeline's first world.
PutSnapshot(t) ==
    LET me == thread[t]
    IN  /\ me.at = "calls" /\ me.call = "snapshot"
        /\ IF Refused(me.id, me.w)
           THEN Reject(t) /\ UNCHANGED was
           ELSE /\ WriteSnapshot(me.id, me.w)
                /\ was' = [was EXCEPT ![me.id] = @ \cup {me.w}]
                /\ Proceed(t, me.w)
                /\ UNCHANGED <<store, worlds, live, control, cache, remembered, asked>>
        /\ UNCHANGED <<workerVars, disturbed, counts>>

\* Mutant: what is read back is the parent's.
Mutant_Reread(t) ==
    LET me == thread[t]
        w  == snapshots[me.record.parent][me.w.tick]
    IN  /\ me.at = "calls" /\ me.call = "reread"
        /\ IF w # None THEN Proceed(t, w) ELSE Become(t, [me EXCEPT !.call = "control"])
        /\ UNCHANGED <<storeVars, cache, workerVars, remembered, history, counts>>

\* What a fork publishes is what it reads back.
Reread(t) ==
    LET me == thread[t]
        w  == snapshots[me.id][me.w.tick]
    IN  /\ me.at = "calls" /\ me.call = "reread"
        /\ IF w # None THEN Proceed(t, w) ELSE Become(t, [me EXCEPT !.call = "control"])
        /\ UNCHANGED <<storeVars, cache, workerVars, remembered, history, counts>>

\* write_live, of a new timeline's world or of what a read has missed.
PutLive(t) ==
    LET me == thread[t]
    IN  /\ me.at = "calls"
        /\ \/ me.call = "live" /\ StoreLive(me.id, me.w)
           \/ me.call = "cache" /\ SetCache(me.id, me.w)
        /\ Proceed(t, me.w)
        /\ UNCHANGED <<workerVars, remembered, history, counts>>

\* The API remembers a world, and answers.
Answer(t) ==
    LET me == thread[t]
    IN  /\ me.at = "calls"
        /\ \/ /\ me.call = "remember"
              /\ remembered' = [remembered EXCEPT ![me.id] = me.w]
           \/ me.call = "answer" /\ UNCHANGED remembered
        /\ asked' = IF me.kind = "read" THEN asked ELSE asked \cup {me.record}
        /\ Proceed(t, me.w)
        /\ UNCHANGED <<storeVars, cache, workerVars, was, disturbed, counts>>

\* The API's process is replaced while it works on a request.
ApiRestart ==
    /\ counts.incidents < Most[store].incidents
    /\ \E t \in Threads : thread[t].at \notin {"idle", "done"}
    /\ thread' = [t \in Threads |-> Idle]
    /\ remembered' = [id \in Ids |-> None]
    /\ counts' = [counts EXCEPT !.incidents = @ + 1]
    /\ UNCHANGED <<storeVars, cache, workerVars, history>>

-----------------------------------------------------------------------------
(* The operator's set_control, whose own races are in Worker, and Redis'   *)
(* clock.  A pause is left out: it is the worker taking no step.            *)

\* set_control of a timeline the Observatory lists, half-made ones too: without
\* a control record it starts from the default one.
SetControl(id) ==
    LET now == IF Control(id) # None THEN Control(id) ELSE [running |-> FALSE, scenario |-> FALSE]
    IN  /\ timelines[id] # None
        /\ \/ /\ ~now.running
              /\ control' = [control EXCEPT ![timelines[id].world][id] =
                                             [now EXCEPT !.running = TRUE]]
              /\ UNCHANGED counts
           \/ /\ counts.incidents < Most[store].incidents
              /\ control' = [control EXCEPT ![timelines[id].world][id] =
                                             [now EXCEPT !.scenario = TRUE]]
              /\ counts' = [counts EXCEPT !.incidents = @ + 1]
        /\ disturbed' = IF Making(id) THEN disturbed \cup {id} ELSE disturbed
        /\ UNCHANGED <<store, worlds, timelines, snapshots, live, cache, workerVars, apiVars,
                       was, asked>>

\* LIVE_TTL_SECONDS have passed.
Expire(id) ==
    /\ cache[id] # None
    /\ cache' = [cache EXCEPT ![id] = None]
    /\ UNCHANGED <<storeVars, workerVars, apiVars, history, counts>>

Serving(t) ==
    \/ Replay(t) \/ Name(t) \/ Look(t) \/ Fetch(t)
    \/ PutRecord(t) \/ PutSnapshot(t) \/ Reread(t) \/ PutLive(t) \/ Answer(t)

Next ==
    \/ \E id \in Ids :
        \/ Load(id) \/ ApplyScenario(id) \/ Tick(id)
        \/ Flush(id) \/ HookSnapshot(id) \/ Publish(id)
        \/ SetControl(id) \/ Expire(id)
    \/ WorkerCrash \/ ApiRestart
    \/ \E t \in Threads :
        AskCreate(t) \/ AskFork(t) \/ AskReplay(t) \/ AskRead(t) \/ Serving(t)

Spec == Init /\ [][Next]_vars

-----------------------------------------------------------------------------
(* Properties.  Those of the passing run speak of the timelines nobody      *)
(* disturbed; ForksDiverge, of any.                                        *)

\* Without Redis, whose copy may be stale until it expires, a reader never gets a
\* world older than the one that was published when it asked: what WorldService
\* remembers is judged by a head read earlier, while worker and other threads
\* go on.
ReadIsFresh ==
    ~store.redis => \A t \in Threads :
        thread[t].at = "done" /\ thread[t].kind = "read" /\ thread[t].id \notin disturbed
            => thread[t].w.tick >= thread[t].floor

\* w is v, less the scenarios applied since a tick.
Continues(v, w, from) ==
    /\ v.world = w.world /\ v.branch = w.branch
    /\ IsPrefix(w.inputs, v.inputs)
    /\ \A k \in (Len(w.inputs) + 1)..Len(v.inputs) : v.inputs[k] >= from

FaithfulTo(w, from, id) == \E v \in was[id] : v.tick = w.tick /\ Continues(v, w, from)

\* Without Redis, whose copy may put a timeline back on an older run, a replay
\* of a tick that was published arrives at a world the timeline has been at
\* that tick, less the scenarios applied since the snapshot; so do the pasts of
\* forks, of forks of forks, of timelines whose worker or API died in between
\* and of half-made ones that were started, whatever snapshots a run left behind
\* that was killed before it was published.
ReplayFaithful ==
    ~store.redis => \A t \in Threads :
        LET me == thread[t]
        IN  /\ me.at = "done" /\ me.kind = "replay" /\ me.published /\ me.id \notin disturbed
                => me.w.tick = me.tick /\ FaithfulTo(me.w, me.from, me.id)
            /\ (/\ me.at = "calls" /\ me.kind = "fork" /\ me.published
                /\ me.record.parent \notin disturbed)
                => /\ me.old.tick = me.record.forkTick
                   /\ FaithfulTo(me.old, me.from, me.record.parent)

\* The id of a record that create or fork has put.
IdOf(record) == IF record.branch = <<>> THEN Zero ELSE Last(record.branch).id

\* A world or a fork that was answered stays what it was: its record, and the
\* world it starts from, whatever was created or forked before, at the same time,
\* half way or since.
ForksAreKept ==
    \A r \in asked :
        LET id == IdOf(r)
        IN  id \notin disturbed =>
                /\ timelines[id] # None /\ [timelines[id] EXCEPT !.head = r.head] = r
                /\ snapshots[id][r.forkTick] # None
                /\ snapshots[id][r.forkTick].branch = r.branch

\* What was answered can be run: it has a control record and a world to load.
\* What create and fork leave half made when they die anywhere can be run too, and
\* is passed over or loads a world that belongs to its record.
RunnableIsLoadable ==
    /\ \A r \in asked : IdOf(r) \notin disturbed =>
          Control(IdOf(r)) # None /\ Stored(IdOf(r)) # None
    /\ \A id \in Ids \ disturbed : Stored(id) # None =>
          /\ timelines[id] # None
          /\ Stored(id).world = timelines[id].world /\ Stored(id).branch = timelines[id].branch

\* "Two forks of the same tick with the same salt produce the same history; with
\* different salts they diverge the way two runs of the same experiment do" (the
\* docstring of fork.py): two forks that were answered are two timelines.
ForksDiverge ==
    \A r, s \in asked :
        r # s /\ r.parent # None /\ r.parent = s.parent /\ r.forkTick = s.forkTick
            => IdOf(r) # IdOf(s)
=============================================================================
