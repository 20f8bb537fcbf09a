-------------------------- MODULE TimelinesProofs --------------------------
(***************************************************************************)
(* Proofs about Timelines, for any store with or without Redis, any number   *)
(* of worlds, threads, forks, ticks, requests, crashes and restarts:        *)
(*   TypeCorrect         Spec => []TypeOK                                   *)
(*   RunnableLoads       Spec => []RunnableIsLoadable                       *)
(*   ForksKept           Spec => []ForksAreKept                             *)
(*   ReadsAreFresh       Spec => []ReadIsFresh                              *)
(*   ReplaysAreFaithful  Spec => []ReplayFaithful                           *)
(* LineageInv says that whatever is kept of a timeline is of the lineage in  *)
(* its record and how far each create and fork has come; FreshInv that the   *)
(* worker is never behind what is published; HistoryInv that a timeline is   *)
(* on one run, whose snapshots every later world goes on from.  Snapshots    *)
(* that a killed run left behind are of a later tick than what was published *)
(* (OnRun), and the run that follows overwrites them before it gets there.   *)
(* All of them speak of the timelines that nobody disturbed (Kept): where a  *)
(* second request is given an id, or the operator starts a timeline that is  *)
(* being made, none of this is so.                                          *)
(***************************************************************************)
EXTENDS Timelines, SequenceTheorems, WellFoundedInduction, TLAPS

-----------------------------------------------------------------------------
(* Records and what is kept with them.                                     *)

\* The timelines that are spoken of.
Kept == Ids \ disturbed

\* A thread that makes the calls of create or of fork.
Builds(t) == thread[t].at = "calls" /\ thread[t].kind \in {"create", "fork"}

\* A world of a timeline.
Belongs(w, id) == w.world = timelines[id].world /\ w.branch = timelines[id].branch

\* Nothing is kept under an id that has no record.
Blank(id) ==
    /\ live[id] = None /\ cache[id] = None /\ mem[id] = None
    /\ was[id] = {} /\ \A k \in Ticks : snapshots[id][k] = None
    /\ \A w \in Worlds : control[w][id] = None

\* A record comes after its world, and only what has one is loaded.
RecordInv ==
    \A id \in Ids :
        /\ timelines[id] # None => timelines[id].world \in worlds
        /\ mem[id] # None => timelines[id] # None

\* All that is kept of a timeline is of its lineage.
Lineal(id) ==
    /\ timelines[id] = None => Blank(id)
    /\ \A w \in was[id] : Belongs(w, id)
    /\ live[id] # None => Belongs(live[id], id)
    /\ cache[id] # None => Belongs(cache[id], id)
    /\ mem[id] # None => Belongs(mem[id], id)
    /\ \A k \in Ticks : snapshots[id][k] # None => Belongs(snapshots[id][k], id)

BelongInv == \A id \in Kept : Lineal(id)

\* What a thread works on has a record, of which it knows the lineage.
Knows(t) ==
    LET me == thread[t]
    IN  /\ me # Idle /\ ~Builds(t) => timelines[me.id] # None
        /\ me.at \in {"load", "name"} /\ me.kind = "fork" => me.parent.world \in worlds
        /\ me.at = "load" /\ me.kind = "fork" /\ me.id \in Kept => Belongs(me.parent, me.id)
        /\ me.at = "name" /\ me.id \in Kept =>
            Belongs(me.parent, me.id) /\ Belongs(me.w, me.id) /\ me.w.tick = me.tick
        /\ me.at = "done" /\ me.kind = "replay" /\ me.id \in Kept => Belongs(me.w, me.id)
        /\ me.at = "calls" /\ me.kind = "read" /\ me.id \in Kept =>
            /\ Belongs(me.w, me.id)
            /\ me.call # "remember" => live[me.id] # None /\ store.redis

\* The world of a new timeline is there before its record, and the record before the rest.
Hosted(t) ==
    LET me == thread[t]
    IN  /\ IdOf(me.record) = me.id
        /\ IF me.call = "world" THEN me.record.world = me.w.world
           ELSE me.record.world \in worlds
        /\ me.call \notin {"world", "timeline"} => timelines[me.id] # None
        /\ me.kind = "fork" => /\ me.call # "world" /\ me.record.parent \in Ids
                               /\ timelines[me.record.parent] # None

\* How far a new timeline is: the record, the snapshot, the live state, the
\* control record, in this order, and nobody runs it before.
Started(t) ==
    LET me == thread[t]
        r  == me.record
    IN  /\ r.head = me.w.tick /\ r.forkTick = me.w.tick
        /\ r.world = me.w.world /\ r.branch = me.w.branch
        /\ me.kind = "create" => me.call \notin {"reread", "answer"}
        /\ me.kind = "fork" =>
            /\ me.call # "remember" /\ me.id # Zero /\ me.old.tick = r.forkTick
            /\ r.parent \in Kept => Belongs(me.old, r.parent)
        /\ IF me.call \in {"world", "timeline"} THEN timelines[me.id] = None
           ELSE timelines[me.id] # None /\ [timelines[me.id] EXCEPT !.head = r.head] = r
        /\ me.call = "snapshot" => Blank(me.id)
        /\ me.call \in {"reread", "live"} =>
            /\ snapshots[me.id][me.w.tick] = me.w /\ was[me.id] = {me.w} /\ live[me.id] = None
        /\ me.call \notin {"world", "timeline", "snapshot", "reread", "live"} => live[me.id] # None
        /\ IF me.call \in {"remember", "answer"} THEN Control(me.id) # None
           ELSE Control(me.id) = None /\ mem[me.id] = None
        /\ me.call \notin {"world", "timeline", "snapshot"} =>
            snapshots[me.id][r.forkTick] # None

\* What a thread minds: what it reads, replays or forks, or what it makes.
Minds(t) == Knows(t) /\ (Builds(t) => Hosted(t) /\ (thread[t].id \in Kept => Started(t)))

ThreadsInv == \A t \in Threads : Minds(t)

\* Nobody makes what another makes.
AloneInv ==
    \A t, u \in Threads :
        t # u /\ Builds(t) /\ Builds(u) /\ thread[t].id = thread[u].id => thread[t].id \notin Kept

\* A record that was answered is kept, and can be run.
Answered(r) ==
    LET id == IdOf(r)
    IN  id \in Kept =>
            /\ timelines[id] # None /\ [timelines[id] EXCEPT !.head = r.head] = r
            /\ snapshots[id][r.forkTick] # None
            /\ live[id] # None /\ Control(id) # None

AskedInv == \A r \in asked : Answered(r)

\* The lineage of timelines.
LineageInv == RecordInv /\ BelongInv /\ ThreadsInv /\ AloneInv /\ AskedInv

\* Without Redis: what is loaded is not behind what was published, and what a
\* reader has to get is not newer than the live state.
Ahead == \A id \in Kept : mem[id] # None /\ live[id] # None => live[id].tick <= mem[id].tick

\* The floor of a read is the tick of a live state there was.
Least(floor, id) == IF live[id] = None THEN floor = 0 ELSE floor <= live[id].tick

\* What a thread knows of the tick it has to reach.
Floor(t) ==
    LET me == thread[t]
    IN  /\ me.at \in {"look", "fetch"} => me.floor <= me.head /\ Least(me.floor, me.id)
        /\ me.at \in {"calls", "done"} /\ me.kind = "read" => me.w.tick >= me.floor

\* What ReadIsFresh rests on.
FreshInv ==
    ~store.redis =>
        Ahead /\ \A t \in Threads : thread[t] # Idle /\ thread[t].id \in Kept => Floor(t)

-----------------------------------------------------------------------------
(* The run a timeline is on.                                               *)

\* A batch's world that is not kept yet.
Unkept(id) == Doing("flush", id) \/ Doing("snapshot", id)

\* A snapshot of the run, as opposed to one that a killed run left behind.
OnRun(id, k) ==
    IF mem[id] # None
    THEN k <= mem[id].tick /\ ~(k = mem[id].tick /\ Unkept(id))
    ELSE live[id] # None => k <= live[id].tick

\* The run has passed every tick up to one.
Passed(id, tick) == \A j \in timelines[id].forkTick..tick : \E v \in was[id] : v.tick = j

\* Every world since the fork is of the run, up to what is loaded and published, and
\* all worlds of the run go on from the snapshots of the run.  Before anything is
\* published the last snapshot is what is loaded, and all of them are of the run.
Run(id) ==
    /\ live[id] # None =>
        /\ live[id] \in was[id] /\ timelines[id].forkTick <= live[id].tick
        /\ Passed(id, live[id].tick)
    /\ mem[id] # None =>
        /\ mem[id] \in was[id] /\ Passed(id, mem[id].tick)
        /\ timelines[id].forkTick <= mem[id].tick
        /\ \A v \in was[id] : v.tick <= mem[id].tick
    /\ \A k \in Ticks : snapshots[id][k] # None =>
        /\ timelines[id].forkTick <= k
        /\ k = timelines[id].forkTick \/ SnapshotDue(k)
        /\ OnRun(id, k) => \A v \in was[id] : v.tick >= k => Continues(v, snapshots[id][k], k)
        /\ live[id] = None => Passed(id, k) /\ OnRun(id, k) /\ snapshots[id][k] \in was[id]
    /\ Unkept(id) =>
        /\ live[id] # None => live[id].tick < mem[id].tick
        /\ \A v \in was[id] : v.tick = mem[id].tick => v = mem[id]
    /\ Doing("snapshot", id) => SnapshotDue(mem[id].tick)

\* A replay arrived at what all worlds of the run at its tick go on from.
Replayed(w, from, id) ==
    /\ live[id] # None /\ w.tick <= live[id].tick
    /\ timelines[id].forkTick <= from /\ from <= w.tick
    /\ \A v \in was[id] : v.tick = w.tick => Continues(v, w, from)

\* What a replay of a published tick arrives at is a past of the run, also while it is
\* being made a fork.
Past(t) ==
    LET me == thread[t]
    IN  /\ me.at = "done" /\ me.kind = "replay" /\ me.published /\ me.id \in Kept
            => me.w.tick = me.tick /\ Replayed(me.w, me.from, me.id)
        /\ me.at = "name" /\ me.published /\ me.id \in Kept => Replayed(me.w, me.from, me.id)
        /\ me.at = "calls" /\ me.kind = "fork" /\ me.published /\ me.record.parent \in Kept
            => me.old.tick = me.record.forkTick
               /\ Replayed(me.old, me.from, me.record.parent)

\* What ReplayFaithful rests on.
HistoryInv == ~store.redis => (\A id \in Kept : Run(id)) /\ (\A t \in Threads : Past(t))

-----------------------------------------------------------------------------
(* Types.                                                                  *)

\* The constants that count something, and the ids.
LEMMA Counts ==
    /\ SnapshotInterval \in Nat /\ SnapshotInterval >= 1
    /\ CheckpointInterval \in Nat /\ CheckpointInterval >= 1
    /\ MaxTick \in Nat /\ Ticks = 0..MaxTick
    /\ \A s \in Stores : /\ Most[s].ticks \in Ticks
                         /\ Most[s].requests \in Nat /\ Most[s].incidents \in Nat
    /\ \A s \in Stores : s.postgres \in BOOLEAN /\ s.redis \in BOOLEAN
    /\ Zero \in Ids /\ \A k \in DOMAIN ForkIds : ForkIds[k] \in Ids /\ ForkIds[k] # Zero
BY TimelinesAssumption DEF Ids, Ticks, Range

\* Python's None is no world, no record, no control record and no batch.
LEMMA NoneIsNone ==
    None \notin World /\ None \notin TimelineRecord /\ None \notin Controls /\ None \notin Batches
BY NoneAssumption

\* What a thread works on, told by its fields.
LEMMA Shapes ==
    ASSUME NEW me \in Requests \cup {Idle}
    PROVE  /\ me.at \in {"idle", "load", "name", "calls", "done", "look", "fetch"}
           /\ me.at = "idle" <=> me = Idle
           /\ me.at = "load" /\ me.kind = "replay" => me \in ToReplay
           /\ me.at = "load" /\ me.kind = "fork" => me \in ToFork
           /\ me.at = "load" => me.kind \in {"replay", "fork"}
           /\ me.at = "name" => me \in ToName
           /\ me.at = "calls" /\ me.kind = "fork" => me \in Forking
           /\ me.at = "calls" /\ me.kind = "create" => me \in Creating
           /\ me.at \in {"look", "fetch"} => me \in ToRead
           /\ me.at \in {"calls", "done"} /\ me.kind = "read" => me \in Reading
           /\ me.at = "done" /\ me.kind # "read" => me \in ReplayedTo
           /\ me.at = "calls" => me.kind \in {"fork", "create", "read"}
BY DEF Requests, Idle, ToReplay, ToFork, ToName, Forking, ReplayedTo, Creating, ToRead,
   Reading

\* A record that is put has the types of one.
LEMMA Bumps ==
    ASSUME NEW records \in [Ids -> TimelineRecord \cup {None}], NEW id \in Ids, NEW tick \in Ticks
    PROVE  /\ Bumped(records, id, tick) \in [Ids -> TimelineRecord \cup {None}]
           /\ \A j \in Ids : LET r == Bumped(records, id, tick)[j]
                             IN  /\ r = None <=> records[j] = None
                                 /\ j # id => r = records[j]
                                 /\ r # None => /\ r.world = records[j].world
                                                /\ r.parent = records[j].parent
                                                /\ r.forkTick = records[j].forkTick
                                                /\ r.branch = records[j].branch
                                                /\ r.sealed = records[j].sealed
                                                /\ records[j].head <= r.head
                                                /\ j = id => tick <= r.head
<1>1. CASE records[id] = None
  BY <1>1, NoneIsNone, Counts DEF Bumped, TimelineRecord, Ticks
<1>2. CASE records[id] # None
  <2>1. records[id] \in TimelineRecord /\ Later(records[id].head, tick) \in Ticks
    BY <1>2, Counts DEF Later, TimelineRecord
  <2>2. [records[id] EXCEPT !.head = Later(records[id].head, tick)] \in TimelineRecord
    BY <2>1 DEF TimelineRecord
  <2>3. Bumped(records, id, tick) = [records EXCEPT ![id] =
            [records[id] EXCEPT !.head = Later(records[id].head, tick)]]
    BY <1>2 DEF Bumped
  <2>4. Later(records[id].head, tick) >= records[id].head
        /\ Later(records[id].head, tick) >= tick
    BY <2>1, Counts DEF Later, TimelineRecord
  <2>5. \A j \in Ids : records[j] # None => records[j] \in TimelineRecord
                                            /\ records[j].head <= records[j].head
    BY Counts DEF TimelineRecord
  <2> QED
    BY <1>2, <2>1, <2>2, <2>3, <2>4, <2>5, NoneIsNone DEF TimelineRecord
<1> QED
  BY <1>1, <1>2

\* A set of natural numbers has a least one.
LEMMA LeastOne ==
    ASSUME NEW S \in SUBSET Nat, S # {}
    PROVE  \E n \in S : \A m \in S : n <= m
<1> DEFINE R == OpToRel(<, Nat)
<1>1. IsWellFoundedOn(R, Nat)
  BY NatLessThanWellFounded
<1>2. \A x, y \in Nat : <<x, y>> \in R <=> x < y
  BY DEF OpToRel
<1> HIDE DEF R
<1>3. PICK n \in S : \A m \in S : ~(<<m, n>> \in R)
  BY <1>1, WFMin
<1>4. n \in Nat /\ \A m \in S : m \in Nat /\ ~(m < n)
  BY <1>2, <1>3
<1> QED
  BY <1>4

\* nearest_snapshot is the last one up to a tick, if there is one.
LEMMA NearestIsLast ==
    ASSUME TypeOK, NEW id \in Ids, NEW tick \in Ticks
    PROVE  \/ /\ Nearest(id, tick) = None
              /\ \A k \in 0..tick : snapshots[id][k] = None
           \/ /\ Nearest(id, tick) \in World /\ Nearest(id, tick) # None
              /\ Nearest(id, tick).tick \in 0..tick
              /\ Nearest(id, tick) = snapshots[id][Nearest(id, tick).tick]
              /\ \A k \in (Nearest(id, tick).tick + 1)..tick : snapshots[id][k] = None
<1>1. tick \in Nat /\ \A k \in 0..tick : k \in Ticks
  BY Counts
<1>2. CASE SnapshotTicks(id, tick) = {}
  BY <1>2 DEF Nearest, SnapshotTicks
<1>3. CASE SnapshotTicks(id, tick) # {}
  <2> DEFINE Ages == {n \in 0..tick : tick - n \in SnapshotTicks(id, tick)}
  <2>1. Ages \in SUBSET Nat /\ Ages # {}
    <3>1. PICK k \in SnapshotTicks(id, tick) : TRUE
      BY <1>3
    <3>2. k \in 0..tick /\ tick - k \in 0..tick /\ tick - (tick - k) = k
      BY <3>1, <1>1 DEF SnapshotTicks
    <3> QED
      BY <3>1, <3>2
  <2>2. PICK n \in Ages : \A m \in Ages : n <= m
    BY <2>1, LeastOne
  <2>3. tick - n \in SnapshotTicks(id, tick)
    BY <2>2
  <2>4. ASSUME NEW j \in SnapshotTicks(id, tick) PROVE j <= tick - n
    <3>1. j \in 0..tick /\ tick - j \in 0..tick /\ tick - (tick - j) = j
      BY <1>1 DEF SnapshotTicks
    <3>2. tick - j \in Ages
      BY <3>1
    <3>3. n <= tick - j /\ n \in Nat
      BY <2>1, <2>2, <3>2
    <3> QED
      BY <3>1, <3>3, <1>1
  <2>5. PICK k : /\ k = CHOOSE i \in SnapshotTicks(id, tick) :
                            \A j \in SnapshotTicks(id, tick) : j <= i
                 /\ k \in SnapshotTicks(id, tick)
                 /\ \A j \in SnapshotTicks(id, tick) : j <= k
    BY <2>3, <2>4
  <2>6. Nearest(id, tick) = snapshots[id][k]
    BY <1>3, <2>5 DEF Nearest
  <2>7. k \in 0..tick /\ k \in Ticks /\ snapshots[id][k] # None
    BY <1>1, <2>5 DEF SnapshotTicks
  <2>8. snapshots[id][k] \in World /\ snapshots[id][k].tick = k
    BY <2>7 DEF TypeOK
  <2>9. \A i \in (k + 1)..tick : snapshots[id][i] = None
    BY <1>1, <2>5, <2>7 DEF SnapshotTicks
  <2> QED
    BY <2>6, <2>7, <2>8, <2>9
<1> QED
  BY <1>2, <1>3

\* What _load finds is a world.
LEMMA StoredIsWorld ==
    ASSUME TypeOK, NEW id \in Ids, Stored(id) # None
    PROVE  Stored(id) \in World
BY NearestIsLast, Counts DEF Stored, TypeOK

\* The next call of a request is one.
LEMMA AfterIsCall ==
    ASSUME NEW kind \in {"create", "fork", "read"}, NEW call \in Calls \ {"remember", "answer"}
    PROVE  /\ After(kind, call) \in Calls
           /\ kind = "read" /\ call \in {"live", "cache"} => After(kind, call) \in {"cache", "remember"}
BY DEF After, Calls
-----------------------------------------------------------------------------
(* Every step keeps the types, and a batch is of a world that is loaded.   *)

\* The worker works on what it has loaded, and only with Redis is there a cache to set.
TypeInv ==
    /\ TypeOK
    /\ batch # None => mem[batch.id] # None /\ (batch.call = "cache" => store.redis)
    /\ \A t \in Threads : thread[t].at = "calls" /\ thread[t].call = "cache" => store.redis

\* What the worker has, by type.
LEMMA WorkerHas ==
    ASSUME TypeInv
    PROVE  /\ \A id \in Ids : mem[id] # None => mem[id] \in World /\ mem[id].tick \in Ticks
           /\ \A id \in Ids : live[id] # None => live[id] \in World /\ live[id].tick \in Ticks
           /\ batch # None => /\ batch \in Batches /\ batch.id \in Ids /\ batch.flushed \in Ticks
                              /\ batch.publishes \in BOOLEAN /\ mem[batch.id] # None
BY DEF TypeInv, TypeOK, Batches, World

LEMMA LoadTypes == ASSUME TypeInv, NEW id \in Ids, Load(id) PROVE TypeInv'
<1>1. Stored(id) \in World
  BY StoredIsWorld DEF Load, TypeInv
<1> QED
  BY <1>1 DEF TypeInv, TypeOK, Load, storeVars, apiVars

LEMMA ApplyScenarioTypes == ASSUME TypeInv, NEW id \in Ids, ApplyScenario(id) PROVE TypeInv'
<1>0. timelines[id] # None /\ Control(id) # None /\ timelines[id] \in TimelineRecord
  BY DEF ApplyScenario, Shaken, Control, TypeInv, TypeOK
<1> DEFINE w == timelines[id].world
<1>1. mem[id] \in World /\ mem[id] # None /\ w \in Worlds /\ control[w][id] \in Controls
  BY <1>0, WorkerHas DEF ApplyScenario, Control, TimelineRecord, TypeInv, TypeOK
<1>2. mem[id].tick \in Ticks /\ mem[id].inputs \in Seq(Ticks)
  BY <1>1 DEF World
<1>3. Append(mem[id].inputs, mem[id].tick) \in Seq(Ticks)
  BY <1>2
<1>4. [mem[id] EXCEPT !.inputs = Append(@, mem[id].tick)] \in World
  BY <1>1, <1>3 DEF World
<1>5. mem' = [mem EXCEPT ![id] = [mem[id] EXCEPT !.inputs = Append(@, mem[id].tick)]]
      /\ mem' \in [Ids -> World \cup {None}] /\ mem'[id] \in World
  BY <1>4 DEF ApplyScenario, TypeInv, TypeOK
<1>6. [control[w][id] EXCEPT !.scenario = FALSE] \in Controls
  BY <1>1 DEF Controls
<1>7. control' = [control EXCEPT ![w][id] = [control[w][id] EXCEPT !.scenario = FALSE]]
      /\ control' \in [Worlds -> [Ids -> Controls \cup {None}]]
  BY <1>6 DEF ApplyScenario, TypeInv, TypeOK
<1>8. batch' \in Batches \cup {None} /\ (batch' # None => batch'.id = id /\ batch'.call = "tick")
  BY <1>2 DEF ApplyScenario, Begin, Batches
<1>9. was' \in [Ids -> SUBSET World]
  BY <1>5 DEF ApplyScenario, TypeInv, TypeOK
<1>10. UNCHANGED <<store, worlds, timelines, snapshots, live, cache, thread, remembered, asked,
                   disturbed, counts>>
  BY DEF ApplyScenario, apiVars
<1>11. batch' # None => mem'[batch'.id] # None /\ batch'.call # "cache"
  BY <1>5, <1>8, NoneIsNone
<1>12. mem' \in [Ids -> World \cup {None}] /\ control' \in [Worlds -> [Ids -> Controls \cup {None}]]
       /\ batch' \in Batches \cup {None}
  BY <1>5, <1>7, <1>8
<1> QED
  BY <1>9, <1>10, <1>11, <1>12 DEF TypeInv, TypeOK

LEMMA TickTypes == ASSUME TypeInv, NEW id \in Ids, Tick(id) PROVE TypeInv'
<1>1. mem[id] \in World /\ mem[id] # None /\ mem[id].tick \in Ticks /\ store \in Stores
  BY WorkerHas DEF Tick, TypeInv, TypeOK
<1>2. mem[id].tick + 1 \in Ticks
  BY <1>1, Counts DEF Tick
<1>3. [mem[id] EXCEPT !.tick = @ + 1] \in World
  BY <1>1, <1>2 DEF World
<1>4. mem' = [mem EXCEPT ![id] = [mem[id] EXCEPT !.tick = @ + 1]]
      /\ mem' \in [Ids -> World \cup {None}] /\ mem'[id] \in World
  BY <1>3 DEF Tick, TypeInv, TypeOK
<1>5. was' \in [Ids -> SUBSET World]
  <2>1. was' = [was EXCEPT ![id] = @ \cup {mem'[id]}]
    BY DEF Tick
  <2> QED
    BY <1>4, <2>1 DEF TypeInv, TypeOK
<1>6. batch' \in Batches /\ batch'.id = id /\ batch'.call # "cache"
  <2> DEFINE now == IF batch = None THEN Begin(id) ELSE batch
  <2>1. now \in Batches /\ now.id = id /\ now.call = "tick"
    BY <1>1, WorkerHas DEF Tick, Begin, Batches
  <2>2. PICK full, publishes \in BOOLEAN :
          batch' = [now EXCEPT !.publishes = publishes,
             !.call = IF full \/ publishes \/ SnapshotDue(mem'[id].tick) THEN "flush" ELSE "tick"]
    BY DEF Tick
  <2> HIDE DEF now
  <2> QED
    BY <2>1, <2>2 DEF Batches
<1> QED
  BY <1>4, <1>5, <1>6, NoneIsNone DEF Tick, TypeInv, TypeOK, storeVars, apiVars

LEMMA FlushTypes == ASSUME TypeInv, NEW id \in Ids, Flush(id) PROVE TypeInv'
<1>1. batch \in Batches /\ mem[id] \in World /\ mem[id].tick \in Ticks /\ mem[id] # None
      /\ batch.id = id
  BY WorkerHas DEF Flush, Doing
<1>2. CASE Sealed(id, batch.flushed + 1)
  BY <1>2 DEF Flush, Die, TypeInv, TypeOK, history, storeVars, apiVars
<1>3. CASE ~Sealed(id, batch.flushed + 1)
  <2>0. timelines' = Bumped(timelines, id, mem[id].tick)
    BY <1>3 DEF Flush
  <2>1. timelines' \in [Ids -> TimelineRecord \cup {None}]
    <3>1. timelines \in [Ids -> TimelineRecord \cup {None}]
      BY DEF TypeInv, TypeOK
    <3> QED
      BY <1>1, <2>0, <3>1, Bumps
  <2>2. batch' \in Batches /\ batch'.id = id /\ batch'.call # "cache"
    BY <1>1, <1>3 DEF Flush, Batches
  <2> QED
    BY <1>1, <1>3, <2>1, <2>2 DEF Flush, TypeInv, TypeOK, history, apiVars
<1> QED
  BY <1>2, <1>3

\* Snapshots are kept under their ticks.
LEMMA SnapshotTicksMatch ==
    TypeOK => \A id \in Ids, k \in Ticks : snapshots[id][k] # None => snapshots[id][k].tick = k
BY DEF TypeOK

\* A written snapshot has its tick.
LEMMA Written ==
    ASSUME TypeOK, NEW id \in Ids, NEW w \in World, WriteSnapshot(id, w)
    PROVE  /\ timelines' \in [Ids -> TimelineRecord \cup {None}]
           /\ snapshots' \in [Ids -> [Ticks -> World \cup {None}]]
           /\ \A j \in Ids, k \in Ticks :
                snapshots'[j][k] = IF j = id /\ k = w.tick THEN w ELSE snapshots[j][k]
<1>1. w.tick \in Ticks
  BY DEF World
<1> QED
  BY <1>1, Bumps DEF WriteSnapshot, TypeOK

LEMMA HookSnapshotTypes == ASSUME TypeInv, NEW id \in Ids, HookSnapshot(id) PROVE TypeInv'
<1>1. batch \in Batches /\ mem[id] \in World /\ mem[id].tick \in Ticks /\ mem[id] # None
      /\ batch.id = id
  BY WorkerHas DEF HookSnapshot, Doing
<1>2. CASE Refused(id, mem[id])
  BY <1>2 DEF HookSnapshot, Die, TypeInv, TypeOK, history, storeVars, apiVars
<1>3. CASE ~Refused(id, mem[id])
  <2>1. WriteSnapshot(id, mem[id])
    BY <1>3 DEF HookSnapshot
  <2>2. batch' \in Batches /\ batch'.id = id /\ batch'.call # "cache"
    BY <1>1, <1>3 DEF HookSnapshot, Goes, Batches
  <2>3. /\ timelines' \in [Ids -> TimelineRecord \cup {None}]
        /\ snapshots' \in [Ids -> [Ticks -> World \cup {None}]]
        /\ \A j \in Ids, k \in Ticks :
             snapshots'[j][k] = IF j = id /\ k = mem[id].tick THEN mem[id] ELSE snapshots[j][k]
    BY <1>1, <2>1, Written DEF TypeInv
  <2>4. \A j \in Ids, k \in Ticks : snapshots'[j][k] # None => snapshots'[j][k].tick = k
    BY <2>3, SnapshotTicksMatch DEF TypeInv
  <2> QED
    BY <1>1, <1>3, <2>2, <2>3, <2>4 DEF HookSnapshot, TypeInv, TypeOK, history, apiVars
<1> QED
  BY <1>2, <1>3

\* What write_live leaves.
LEMMA LivePut ==
    ASSUME TypeOK, NEW id \in Ids, NEW w \in World, StoreLive(id, w)
    PROVE  /\ timelines' \in [Ids -> TimelineRecord \cup {None}]
           /\ live' \in [Ids -> World \cup {None}]
<1>1. w.tick \in Ticks
  BY DEF World
<1> QED
  BY <1>1, Bumps DEF StoreLive, TypeOK

LEMMA PublishTypes == ASSUME TypeInv, NEW id \in Ids, Publish(id) PROVE TypeInv'
<1>1. batch \in Batches /\ mem[id] \in World /\ mem[id].tick \in Ticks /\ mem[id] # None
      /\ batch.id = id
  BY WorkerHas DEF Publish, Doing
<1>2. batch' \in Batches \cup {None}
      /\ (batch' # None => batch'.id = id /\ (batch'.call = "cache" => store.redis))
  BY <1>1 DEF Publish, Published, Goes, Batches
<1>3. CASE StoreLive(id, mem[id])
  <2>1. timelines' \in [Ids -> TimelineRecord \cup {None}] /\ live' \in [Ids -> World \cup {None}]
    BY <1>1, <1>3, LivePut DEF TypeInv
  <2> QED
    BY <1>1, <1>2, <1>3, <2>1 DEF Publish, StoreLive, TypeInv, TypeOK, history, apiVars
<1>4. CASE Doing("cache", id) /\ SetCache(id, mem[id])
  <2>1. store.redis
    BY <1>4 DEF Doing, TypeInv
  <2>2. cache' \in [Ids -> World \cup {None}]
    BY <1>1, <1>4 DEF SetCache, TypeInv, TypeOK
  <2> QED
    BY <1>1, <1>2, <1>4, <2>1, <2>2 DEF Publish, SetCache, TypeInv, TypeOK, history,
       apiVars,
       storeVars
<1> QED
  BY <1>3, <1>4 DEF Publish

\* The operator, Redis' clock, and the ends of the processes.
LEMMA OthersTypes ==
    ASSUME TypeInv, \/ WorkerCrash \/ ApiRestart
                    \/ \E id \in Ids : SetControl(id) \/ Expire(id)
    PROVE  TypeInv'
<1>1. CASE WorkerCrash
  BY <1>1 DEF WorkerCrash, Die, TypeInv, TypeOK, history, storeVars, apiVars
<1>2. CASE ApiRestart
  BY <1>2, NoneIsNone DEF ApiRestart, TypeInv, TypeOK, history, storeVars, workerVars,
     Idle
<1>3. ASSUME NEW id \in Ids, SetControl(id) PROVE TypeInv'
  <2> DEFINE w == timelines[id].world
             now == IF Control(id) # None THEN Control(id) ELSE [running |-> FALSE, scenario |-> FALSE]
  <2>1. timelines[id] \in TimelineRecord /\ w \in Worlds
    BY <1>3 DEF SetControl, TimelineRecord, TypeInv, TypeOK
  <2>2. control[w][id] \in Controls \cup {None} /\ [running |-> FALSE, scenario |-> FALSE] \in Controls
    BY <2>1 DEF TypeInv, TypeOK, Controls
  <2>3. now \in Controls
    BY <2>2 DEF Control
  <2>4. PICK c \in Controls : control' = [control EXCEPT ![w][id] = c]
    <3>1. [now EXCEPT !.running = TRUE] \in Controls /\ [now EXCEPT !.scenario = TRUE] \in Controls
      BY <2>3 DEF Controls
    <3>2. \/ control' = [control EXCEPT ![w][id] = [now EXCEPT !.running = TRUE]]
          \/ control' = [control EXCEPT ![w][id] = [now EXCEPT !.scenario = TRUE]]
      BY <1>3 DEF SetControl
    <3> QED
      BY <3>1, <3>2
  <2>5. control \in [Worlds -> [Ids -> Controls \cup {None}]]
    BY DEF TypeInv, TypeOK
  <2> HIDE DEF now, w
  <2>6. control' \in [Worlds -> [Ids -> Controls \cup {None}]]
    BY <2>1, <2>4, <2>5
  <2>7. disturbed' \subseteq Ids
    BY <1>3 DEF SetControl, TypeInv, TypeOK
  <2>8. counts' \in [requests : Nat, incidents : Nat]
    BY <1>3 DEF SetControl, TypeInv, TypeOK
  <2> QED
    BY <1>3, <2>6, <2>7, <2>8 DEF SetControl, TypeInv, TypeOK, workerVars, apiVars
<1>4. ASSUME NEW id \in Ids, Expire(id) PROVE TypeInv'
  BY <1>4 DEF Expire, TypeInv, TypeOK, history, storeVars, workerVars, apiVars
<1> QED
  BY <1>1, <1>2, <1>3, <1>4

\* A request that is taken up or put down, when nothing else changes.
LEMMA TakenUp ==
    ASSUME TypeInv, NEW t \in Threads, NEW record \in Requests \cup {Idle},
           record.at = "calls" /\ record.call = "cache" => store.redis,
           Become(t, record), UNCHANGED <<storeVars, cache, workerVars, remembered, was, asked>>,
           counts' \in [requests : Nat, incidents : Nat], disturbed' \subseteq Ids
    PROVE  TypeInv'
<1>1. thread' = [thread EXCEPT ![t] = record] /\ thread' \in [Threads -> Requests \cup {Idle}]
  BY DEF Become, TypeInv, TypeOK
<1>2. \A u \in Threads : thread'[u] = IF u = t THEN record ELSE thread[u]
  BY <1>1 DEF TypeInv, TypeOK
<1>3. \A u \in Threads : thread'[u].at = "calls" /\ thread'[u].call = "cache" => store.redis
  BY <1>2 DEF TypeInv
<1> QED
  BY <1>1, <1>3 DEF TypeInv, TypeOK, storeVars, workerVars

\* A request that is taken up is counted.
LEMMA Counted ==
    ASSUME TypeInv, NEW t \in Threads, NEW kind, Free(t, kind)
    PROVE  counts' \in [requests : Nat, incidents : Nat]
BY DEF Free, TypeInv, TypeOK

\* A thread takes a request.
LEMMA AskTypes ==
    ASSUME TypeInv, NEW t \in Threads, AskCreate(t) \/ AskFork(t) \/ AskReplay(t) \/ AskRead(t)
    PROVE  TypeInv'
<1>1. CASE AskCreate(t)
  <2>1. PICK w \in Worlds \ worlds :
          Become(t, [at |-> "calls", kind |-> "create", id |-> Zero,
                     w |-> [tick |-> 0, world |-> w, branch |-> <<>>, inputs |-> <<>>],
                     record |-> [world |-> w, parent |-> None, forkTick |-> 0,
                                 branch |-> <<>>, sealed |-> TRUE, head |-> 0],
                     call |-> "world"])
    BY <1>1 DEF AskCreate
  <2> DEFINE genesis == [tick |-> 0, world |-> w, branch |-> <<>>, inputs |-> <<>>]
             record == [world |-> w, parent |-> None, forkTick |-> 0, branch |-> <<>>,
                        sealed |-> TRUE, head |-> 0]
             me == [at |-> "calls", kind |-> "create", id |-> Zero, w |-> genesis,
                    record |-> record, call |-> "world"]
  <2>2. 0 \in Ticks /\ <<>> \in Seq(Fork) /\ <<>> \in Seq(Ticks)
    BY Counts
  <2>3. genesis \in World /\ record \in TimelineRecord
    BY <2>2 DEF World, TimelineRecord
  <2>4. me \in Requests
    BY <2>3 DEF Requests, Creating, Calls
  <2>5. Become(t, me) /\ me.call # "cache"
    BY <2>1
  <2>6. disturbed' \subseteq Ids
    BY <1>1, Counts DEF AskCreate, TypeInv, TypeOK
  <2> HIDE DEF me
  <2> QED
    BY <1>1, <2>4, <2>5, <2>6, Counted, TakenUp DEF AskCreate
<1>2. CASE AskFork(t)
  <2>0. PICK id \in Ids, salt \in Salts :
          /\ timelines[id] # None
          /\ \E tick \in 0..timelines[id].head :
               Become(t, [at |-> "load", kind |-> "fork", id |-> id, tick |-> tick,
                          salt |-> salt, parent |-> timelines[id]])
    BY <1>2 DEF AskFork
  <2>1. PICK tick \in 0..timelines[id].head :
          Become(t, [at |-> "load", kind |-> "fork", id |-> id, tick |-> tick,
                     salt |-> salt, parent |-> timelines[id]])
    BY <2>0
  <2> DEFINE me == [at |-> "load", kind |-> "fork", id |-> id, tick |-> tick,
                    salt |-> salt, parent |-> timelines[id]]
  <2>2. timelines[id] \in TimelineRecord
    BY <2>0 DEF TypeInv, TypeOK
  <2>3. tick \in Ticks
    BY <2>2, Counts DEF TimelineRecord
  <2>4. me \in ToFork
    BY <2>2, <2>3 DEF ToFork
  <2>5. me \in Requests /\ me.at = "load" /\ Become(t, me)
    BY <2>1, <2>4 DEF Requests
  <2> HIDE DEF me
  <2> QED
    BY <1>2, <2>5, Counted, TakenUp DEF AskFork, history, TypeInv, TypeOK
<1>3. CASE AskReplay(t)
  <2>1. PICK id \in Ids, tick \in Ticks :
          Become(t, [at |-> "load", kind |-> "replay", id |-> id, tick |-> tick])
    BY <1>3 DEF AskReplay, Ticks
  <2> DEFINE me == [at |-> "load", kind |-> "replay", id |-> id, tick |-> tick]
  <2>2. me \in ToReplay
    BY DEF ToReplay
  <2>3. me \in Requests /\ me.at = "load" /\ Become(t, me)
    BY <2>1, <2>2 DEF Requests
  <2> HIDE DEF me
  <2> QED
    BY <1>3, <2>3, Counted, TakenUp DEF AskReplay, history, TypeInv, TypeOK
<1>4. CASE AskRead(t)
  <2>1. PICK id \in Ids :
          /\ timelines[id] # None
          /\ Become(t, [at |-> "look", kind |-> "read", id |-> id, head |-> timelines[id].head,
                        floor |-> IF live[id] = None THEN 0
                                  ELSE IF live[id].tick < timelines[id].head
                                       THEN live[id].tick ELSE timelines[id].head])
    BY <1>4 DEF AskRead
  <2> DEFINE floor == IF live[id] = None THEN 0
                      ELSE IF live[id].tick < timelines[id].head
                           THEN live[id].tick ELSE timelines[id].head
             me == [at |-> "look", kind |-> "read", id |-> id, head |-> timelines[id].head,
                    floor |-> floor]
  <2>2. timelines[id] \in TimelineRecord
    BY <2>1 DEF TypeInv, TypeOK
  <2>3. timelines[id].head \in Ticks /\ floor \in Ticks
    BY <2>2, WorkerHas, Counts DEF TimelineRecord
  <2>4. me \in ToRead
    BY <2>3 DEF ToRead
  <2>5. me \in Requests /\ me.at = "look" /\ Become(t, me)
    BY <2>1, <2>4 DEF Requests
  <2> HIDE DEF me
  <2> QED
    BY <1>4, <2>5, Counted, TakenUp DEF AskRead, history, TypeInv, TypeOK
<1> QED
  BY <1>1, <1>2, <1>3, <1>4

\* The state's own part of the types, for threads.
LEMMA ThreadHas ==
    ASSUME TypeInv, NEW t \in Threads
    PROVE  thread[t] \in Requests \cup {Idle}
BY DEF TypeInv, TypeOK

LEMMA ReplayTypes == ASSUME TypeInv, NEW t \in Threads, Replay(t) PROVE TypeInv'
<1> DEFINE me == thread[t]
           from == Nearest(me.id, me.tick)
           w == Resimulated(from, me.tick)
           published == live[me.id] # None /\ me.tick <= live[me.id].tick
<1>1. me \in Requests \cup {Idle} /\ me.at = "load"
  BY ThreadHas DEF Replay
<1>2. /\ me.kind \in {"replay", "fork"} /\ me.id \in Ids /\ me.tick \in Ticks
      /\ me.kind = "fork" => me \in ToFork
  BY <1>1, Shapes DEF ToReplay, ToFork
<1>3. /\ counts' \in [requests : Nat, incidents : Nat] /\ disturbed' \subseteq Ids
      /\ UNCHANGED <<workerVars, was>>
  BY DEF Replay, TypeInv, TypeOK
<1>4. CASE Reject(t)
  <2>1. Idle.at # "calls" /\ Idle \in Requests \cup {Idle}
    BY DEF Idle
  <2> QED
    BY <1>3, <1>4, <2>1, TakenUp DEF Reject
<1>5. CASE ~Reject(t)
  <2>1. from # None /\ UNCHANGED <<storeVars, cache, remembered, asked>>
        /\ Become(t,
             IF me.kind = "fork"
             THEN [at |-> "name", kind |-> "fork", id |-> me.id, tick |-> me.tick,
                   salt |-> me.salt, parent |-> me.parent, from |-> from.tick, w |-> w,
                   published |-> published]
             ELSE [at |-> "done", kind |-> "replay", id |-> me.id, tick |-> me.tick,
                   from |-> from.tick, w |-> w, published |-> published])
    BY <1>5 DEF Replay
  <2>2. from \in World
    BY <1>2, <2>1, NearestIsLast DEF TypeInv
  <2>3. w \in World /\ from.tick \in Ticks
    BY <1>2, <2>2 DEF World, Resimulated
  <2>4. published \in BOOLEAN
    OBVIOUS
  <2>5. CASE me.kind = "fork"
    <3> DEFINE new == [at |-> "name", kind |-> "fork", id |-> me.id, tick |-> me.tick,
                       salt |-> me.salt, parent |-> me.parent, from |-> from.tick, w |-> w,
                       published |-> published]
    <3>1. me.salt \in Salts /\ me.parent \in TimelineRecord
      BY <1>2, <2>5 DEF ToFork
    <3> HIDE DEF published, w, from
    <3>2. new \in ToName
      BY <1>2, <2>3, <2>4, <3>1 DEF ToName
    <3>3. new \in Requests /\ new.at = "name" /\ Become(t, new)
      BY <2>1, <2>5, <3>2 DEF Requests
    <3> HIDE DEF new
    <3> QED
      BY <1>3, <2>1, <3>3, TakenUp
  <2>6. CASE me.kind # "fork"
    <3> DEFINE new == [at |-> "done", kind |-> "replay", id |-> me.id, tick |-> me.tick,
                       from |-> from.tick, w |-> w, published |-> published]
    <3> HIDE DEF published, w, from
    <3>1. new \in ReplayedTo
      BY <1>2, <2>3, <2>4 DEF ReplayedTo
    <3>2. new \in Requests /\ new.at = "done" /\ Become(t, new)
      BY <2>1, <2>6, <3>1 DEF Requests
    <3> HIDE DEF new
    <3> QED
      BY <1>3, <2>1, <3>2, TakenUp
  <2> QED
    BY <2>5, <2>6
<1> QED
  BY <1>4, <1>5

LEMMA NameTypes == ASSUME TypeInv, NEW t \in Threads, Name(t) PROVE TypeInv'
<1> DEFINE me == thread[t]
<1>1. me \in ToName
  BY ThreadHas, Shapes DEF Name
<1>2. PICK k \in DOMAIN ForkIds :
        LET fork == [id |-> ForkIds[k], tick |-> me.tick, salt |-> me.salt]
        IN  Become(t, [at |-> "calls", kind |-> "fork", id |-> fork.id,
                       w |-> [me.w EXCEPT !.branch = Append(@, fork)],
                       record |-> [world |-> me.parent.world, parent |-> me.id,
                                   forkTick |-> me.tick,
                                   branch |-> Append(me.parent.branch, fork),
                                   sealed |-> FALSE, head |-> me.tick],
                       from |-> me.from, old |-> me.w, published |-> me.published,
                       call |-> "timeline"])
  BY DEF Name, Unused
<1> DEFINE fork == [id |-> ForkIds[k], tick |-> me.tick, salt |-> me.salt]
           w == [me.w EXCEPT !.branch = Append(@, fork)]
           record == [world |-> me.parent.world, parent |-> me.id, forkTick |-> me.tick,
                      branch |-> Append(me.parent.branch, fork), sealed |-> FALSE,
                      head |-> me.tick]
           new == [at |-> "calls", kind |-> "fork", id |-> fork.id, w |-> w, record |-> record,
                   from |-> me.from, old |-> me.w, published |-> me.published,
                   call |-> "timeline"]
<1>3. fork.id \in Ids /\ fork \in Fork
  BY <1>1, Counts DEF ToName, Fork
<1> HIDE DEF fork
<1>4. me.w \in World /\ me.parent \in TimelineRecord /\ me.id \in Ids /\ me.tick \in Ticks
      /\ me.from \in Ticks /\ me.published \in BOOLEAN
  BY <1>1 DEF ToName
<1>5. Append(me.w.branch, fork) \in Seq(Fork) /\ Append(me.parent.branch, fork) \in Seq(Fork)
  BY <1>3, <1>4 DEF World, TimelineRecord
<1>6. w \in World
  BY <1>4, <1>5 DEF World
<1>7. record \in TimelineRecord
  BY <1>4, <1>5 DEF TimelineRecord
<1> HIDE DEF w, record
<1>8. new \in Forking
  BY <1>3, <1>4, <1>6, <1>7 DEF Forking, Calls
<1>9. new \in Requests /\ new.call # "cache" /\ Become(t, new)
  BY <1>2, <1>8 DEF Requests, fork, w, record
<1>10. /\ counts' \in [requests : Nat, incidents : Nat] /\ disturbed' \subseteq Ids
       /\ UNCHANGED <<storeVars, cache, workerVars, remembered, was, asked>>
  BY Counts DEF Name, Unused, TypeInv, TypeOK
<1> HIDE DEF new
<1> QED
  BY <1>9, <1>10, TakenUp

LEMMA LookTypes == ASSUME TypeInv, NEW t \in Threads, Look(t) PROVE TypeInv'
<1> DEFINE me == thread[t]
           known == remembered[me.id]
<1>1. me \in ToRead /\ me.id \in Ids /\ me.floor \in Ticks
  BY ThreadHas, Shapes DEF Look, ToRead
<1>2. /\ counts' \in [requests : Nat, incidents : Nat] /\ disturbed' \subseteq Ids
      /\ UNCHANGED <<storeVars, cache, workerVars, remembered, was, asked>>
  BY DEF Look, history, TypeInv, TypeOK
<1>3. CASE Current(known, me.head)
  <2> DEFINE new == [at |-> "done", kind |-> "read", floor |-> me.floor, id |-> me.id,
                     w |-> known, call |-> "remember"]
  <2>1. known \in World
    BY <1>1, <1>3 DEF Current, TypeInv, TypeOK
  <2> HIDE DEF known
  <2>2. new \in Reading
    BY <1>1, <2>1 DEF Reading, Calls
  <2>3. new \in Requests /\ new.at = "done" /\ Become(t, new)
    BY <1>3, <2>2 DEF Requests, Become, Look, known
  <2> HIDE DEF new
  <2> QED
    BY <1>2, <2>3, TakenUp
<1>4. CASE ~Current(known, me.head)
  <2>1. [me EXCEPT !.at = "fetch"] \in ToRead
    BY <1>1 DEF ToRead
  <2>2. [me EXCEPT !.at = "fetch"] \in Requests /\ [me EXCEPT !.at = "fetch"].at = "fetch"
        /\ Become(t, [me EXCEPT !.at = "fetch"])
    BY <1>1, <1>4, <2>1 DEF Requests, Become, Look, ToRead
  <2> QED
    BY <1>2, <2>2, TakenUp
<1> QED
  BY <1>3, <1>4

LEMMA FetchTypes == ASSUME TypeInv, NEW t \in Threads, Fetch(t) PROVE TypeInv'
<1> DEFINE me == thread[t]
           new(w, call) == [at |-> "calls", kind |-> "read", floor |-> me.floor,
                            id |-> me.id, w |-> w, call |-> call]
<1>1. me \in ToRead /\ me.id \in Ids /\ me.floor \in Ticks
  BY ThreadHas, Shapes DEF Fetch, ToRead
<1>2. /\ counts' \in [requests : Nat, incidents : Nat] /\ disturbed' \subseteq Ids
      /\ UNCHANGED <<storeVars, cache, workerVars, remembered, was, asked>>
  BY DEF Fetch, history, TypeInv, TypeOK
<1>3. ASSUME NEW w \in World, NEW call \in {"remember", "live"}, Become(t, new(w, call))
      PROVE  TypeInv'
  <2>1. new(w, call) \in Reading
    BY <1>1 DEF Reading, Calls
  <2>2. new(w, call) \in Requests /\ new(w, call).call # "cache"
    BY <2>1 DEF Requests
  <2> HIDE DEF new
  <2> QED
    BY <1>2, <1>3, <2>2, TakenUp
<1>4. CASE Become(t, Idle)
  <2>1. Idle.at # "calls" /\ Idle \in Requests \cup {Idle}
    BY DEF Idle
  <2> QED
    BY <1>2, <1>4, <2>1, TakenUp
<1>5. \/ Become(t, Idle)
      \/ \E w \in World, call \in {"remember", "live"} : Become(t, new(w, call))
  <2>1. cache[me.id] # None => cache[me.id] \in World
    BY <1>1 DEF TypeInv, TypeOK
  <2>2. live[me.id] # None => live[me.id] \in World
    BY <1>1, WorkerHas
  <2>3. Nearest(me.id, MaxTick) # None => Nearest(me.id, MaxTick) \in World
    BY <1>1, NearestIsLast, Counts DEF TypeInv
  <2> QED
    BY <2>1, <2>2, <2>3 DEF Fetch
<1> QED
  BY <1>3, <1>4, <1>5

\* What the thread that makes a call is.
LEMMA Calling ==
    ASSUME TypeInv, NEW t \in Threads, thread[t].at = "calls"
    PROVE  LET me == thread[t]
           IN  /\ me.kind \in {"fork", "create", "read"}
               /\ me.kind = "fork" => me \in Forking
               /\ me.kind = "create" => me \in Creating
               /\ me.kind = "read" => me \in Reading
               /\ me.id \in Ids /\ me.w \in World /\ me.call \in Calls
               /\ me.kind # "read" => me.record \in TimelineRecord
               /\ me.kind = "read" => me.call \in {"live", "cache", "remember"}
<1>1. thread[t] \in Requests \cup {Idle}
  BY ThreadHas
<1>2. /\ thread[t].kind \in {"fork", "create", "read"}
      /\ thread[t].kind = "fork" => thread[t] \in Forking
      /\ thread[t].kind = "create" => thread[t] \in Creating
      /\ thread[t].kind = "read" => thread[t] \in Reading
  BY <1>1, Shapes
<1> QED
  BY <1>2, Counts DEF Forking, Creating, Reading, Calls

\* Only one thread moves.
LEMMA Moves ==
    ASSUME TypeInv, NEW t \in Threads, NEW record, Become(t, record)
    PROVE  \A u \in Threads : thread'[u] = IF u = t THEN record ELSE thread[u]
BY DEF Become, TypeInv, TypeOK

\* What comes after a call.
LEMMA Proceeds ==
    ASSUME TypeInv, NEW t \in Threads, thread[t].at = "calls", NEW w \in World, Proceed(t, w)
    PROVE  LET me == thread[t]
               next == thread'[t]
           IN  /\ \A u \in Threads : u # t => thread'[u] = thread[u]
               /\ thread' \in [Threads -> Requests \cup {Idle}]
               /\ \A u \in Threads : thread'[u].at = "calls" /\ thread'[u].call = "cache" => store.redis
               /\ me.call \notin {"remember", "answer"} =>
                    next = [me EXCEPT !.w = w, !.call = After(me.kind, me.call)]
               /\ me.call \in {"remember", "answer"} =>
                    next = IF me.kind = "read" THEN [me EXCEPT !.at = "done"] ELSE Idle
<1> DEFINE me == thread[t]
<1>1. /\ me.kind \in {"fork", "create", "read"} /\ me.call \in Calls
      /\ me.kind = "fork" => me \in Forking
      /\ me.kind = "create" => me \in Creating
      /\ me.kind = "read" => me \in Reading
  BY Calling
<1>2. CASE me.call \notin {"remember", "answer"}
  <2> DEFINE new == [me EXCEPT !.w = w, !.call = After(me.kind, me.call)]
  <2>1. After(me.kind, me.call) \in Calls
        /\ (me.kind = "read" => After(me.kind, me.call) \in {"cache", "remember"})
    BY <1>1, <1>2, AfterIsCall DEF Reading
  <2>2. new \in Requests /\ new.at = "calls" /\ new.call = After(me.kind, me.call)
    <3>1. CASE me.kind = "fork"
      <4>1. new \in Forking
        BY <1>1, <2>1, <3>1 DEF Forking
      <4> QED
        BY <1>1, <3>1, <4>1 DEF Requests, Forking
    <3>2. CASE me.kind = "create"
      <4>1. new \in Creating
        BY <1>1, <2>1, <3>2 DEF Creating
      <4> QED
        BY <1>1, <3>2, <4>1 DEF Requests, Creating
    <3>3. CASE me.kind = "read"
      <4>1. new \in Reading
        BY <1>1, <2>1, <3>3 DEF Reading
      <4> QED
        BY <1>1, <3>3, <4>1 DEF Requests, Reading
    <3> QED
      BY <1>1, <3>1, <3>2, <3>3
  <2>3. new.call = "cache" => store.redis
    BY <1>1, <1>2, <2>2 DEF After, Calls
  <2>4. Become(t, new)
    BY <1>2 DEF Proceed
  <2> HIDE DEF new
  <2>5. thread' \in [Threads -> Requests \cup {Idle}]
    BY <2>2, <2>4 DEF Become, TypeInv, TypeOK
  <2>6. \A u \in Threads : thread'[u] = IF u = t THEN new ELSE thread[u]
    BY <2>4, Moves
  <2>7. \A u \in Threads : thread'[u].at = "calls" /\ thread'[u].call = "cache" => store.redis
    BY <2>3, <2>6 DEF TypeInv
  <2> QED
    BY <1>2, <2>5, <2>6, <2>7 DEF new
<1>3. CASE me.call \in {"remember", "answer"}
  <2> DEFINE new == IF me.kind = "read" THEN [me EXCEPT !.at = "done"] ELSE Idle
  <2>1. new \in Requests \cup {Idle} /\ new.at # "calls"
    <3>1. CASE me.kind = "read"
      <4>1. [me EXCEPT !.at = "done"] \in Reading /\ [me EXCEPT !.at = "done"].at = "done"
        BY <1>1, <3>1 DEF Reading
      <4> QED
        BY <3>1, <4>1 DEF Requests
    <3> QED
      BY <3>1 DEF Idle
  <2>2. Become(t, new)
    BY <1>3 DEF Proceed
  <2> HIDE DEF new
  <2>3. thread' \in [Threads -> Requests \cup {Idle}]
    BY <2>1, <2>2 DEF Become, TypeInv, TypeOK
  <2>4. \A u \in Threads : thread'[u] = IF u = t THEN new ELSE thread[u]
    BY <2>2, Moves
  <2>5. \A u \in Threads : thread'[u].at = "calls" /\ thread'[u].call = "cache" => store.redis
    BY <2>1, <2>4 DEF TypeInv
  <2> QED
    BY <1>3, <2>3, <2>4, <2>5 DEF new
<1> QED
  BY <1>2, <1>3

\* A record that is put has the types of one.
LEMMA RecordPut ==
    ASSUME TypeInv, NEW id \in Ids, NEW record \in TimelineRecord, PutTimeline(id, record)
    PROVE  timelines' \in [Ids -> TimelineRecord \cup {None}]
<1> DEFINE old == timelines[id]
           new == IF store.postgres /\ old # None
                  THEN [old EXCEPT !.sealed = record.sealed, !.head = Later(old.head, record.head)]
                  ELSE record
<1>1. new \in TimelineRecord
  <2>1. CASE store.postgres /\ old # None
    <3>1. old \in TimelineRecord
      BY <2>1 DEF TypeInv, TypeOK
    <3>2. Later(old.head, record.head) \in Ticks /\ record.sealed \in BOOLEAN
      BY <3>1 DEF Later, TimelineRecord
    <3> QED
      BY <2>1, <3>1, <3>2 DEF TimelineRecord
  <2> QED
    BY <2>1
<1>2. timelines' = [timelines EXCEPT ![id] = new]
  <2>1. CASE store.postgres /\ old # None
    BY <2>1 DEF PutTimeline
  <2>2. CASE ~(store.postgres /\ old # None)
    BY <2>2 DEF PutTimeline
  <2> QED
    BY <2>1, <2>2
<1> HIDE DEF new
<1> QED
  BY <1>1, <1>2 DEF TypeInv, TypeOK

LEMMA PutRecordTypes == ASSUME TypeInv, NEW t \in Threads, PutRecord(t) PROVE TypeInv'
<1> DEFINE me == thread[t]
<1>1. me.at = "calls" /\ Proceed(t, me.w)
      /\ UNCHANGED <<store, snapshots, live, cache, workerVars, remembered, was, asked,
                     disturbed,
                     counts>>
  BY DEF PutRecord, history
<1>2. me.kind \in {"fork", "create", "read"} /\ me.id \in Ids /\ me.w \in World
      /\ (me.kind # "read" => me.record \in TimelineRecord)
      /\ (me.kind = "read" => me.call \in {"live", "cache", "remember"})
  BY <1>1, Calling
<1>3. thread' \in [Threads -> Requests \cup {Idle}]
      /\ \A u \in Threads : thread'[u].at = "calls" /\ thread'[u].call = "cache" => store.redis
  BY <1>1, <1>2, Proceeds
<1>4. worlds' \subseteq Worlds /\ timelines' \in [Ids -> TimelineRecord \cup {None}]
      /\ control' \in [Worlds -> [Ids -> Controls \cup {None}]]
  <2>1. CASE me.call = "world" /\ worlds' = worlds \cup {me.w.world}
             /\ UNCHANGED <<timelines, control>>
    BY <1>2, <2>1 DEF TypeInv, TypeOK, World
  <2>2. CASE me.call = "timeline" /\ PutTimeline(me.id, me.record) /\ UNCHANGED <<worlds, control>>
    <3>1. me.record \in TimelineRecord
      BY <1>2, <2>2
    <3>2. timelines' \in [Ids -> TimelineRecord \cup {None}]
      BY <1>2, <2>2, <3>1, RecordPut
    <3> QED
      BY <2>2, <3>2 DEF TypeInv, TypeOK
  <2>3. CASE /\ me.call = "control" /\ UNCHANGED <<worlds, timelines>>
             /\ control' = [control EXCEPT ![me.record.world][me.id] =
                                            [running |-> FALSE, scenario |-> FALSE]]
    <3>1. [running |-> FALSE, scenario |-> FALSE] \in Controls
          /\ me.record.world \in Worlds
      BY <1>2, <2>3 DEF Controls, TimelineRecord
    <3> QED
      BY <1>2, <2>3, <3>1 DEF TypeInv, TypeOK
  <2> QED
    BY <2>1, <2>2, <2>3 DEF PutRecord
<1> QED
  BY <1>1, <1>3, <1>4 DEF TypeInv, TypeOK, workerVars

LEMMA PutSnapshotTypes == ASSUME TypeInv, NEW t \in Threads, PutSnapshot(t) PROVE TypeInv'
<1> DEFINE me == thread[t]
<1>1. me.at = "calls" /\ UNCHANGED <<workerVars, disturbed, counts>>
  BY DEF PutSnapshot
<1>2. me.id \in Ids /\ me.w \in World
  BY <1>1, Calling
<1>3. CASE Refused(me.id, me.w)
  <2>1. Reject(t) /\ UNCHANGED was
    BY <1>3 DEF PutSnapshot
  <2>2. Idle.at # "calls" /\ Idle \in Requests \cup {Idle}
        /\ counts' \in [requests : Nat, incidents : Nat]
    BY <1>1 DEF Idle, TypeInv, TypeOK
  <2> QED
    BY <1>1, <2>1, <2>2, TakenUp DEF Reject, TypeInv, TypeOK
<1>4. CASE ~Refused(me.id, me.w)
  <2>1. /\ WriteSnapshot(me.id, me.w) /\ Proceed(t, me.w)
        /\ was' = [was EXCEPT ![me.id] = @ \cup {me.w}]
        /\ UNCHANGED <<store, worlds, live, control, cache, remembered, asked>>
    BY <1>4 DEF PutSnapshot
  <2>2. thread' \in [Threads -> Requests \cup {Idle}]
        /\ \A u \in Threads : thread'[u].at = "calls" /\ thread'[u].call = "cache" => store.redis
    BY <1>1, <1>2, <2>1, Proceeds
  <2>3. /\ timelines' \in [Ids -> TimelineRecord \cup {None}]
        /\ snapshots' \in [Ids -> [Ticks -> World \cup {None}]]
        /\ \A j \in Ids, k \in Ticks :
             snapshots'[j][k] = IF j = me.id /\ k = me.w.tick THEN me.w ELSE snapshots[j][k]
    BY <1>2, <2>1, Written DEF TypeInv
  <2>4. \A j \in Ids, k \in Ticks : snapshots'[j][k] # None => snapshots'[j][k].tick = k
    BY <2>3, SnapshotTicksMatch DEF TypeInv
  <2>5. was' \in [Ids -> SUBSET World]
    BY <1>2, <2>1 DEF TypeInv, TypeOK
  <2> HIDE DEF me
  <2> QED
    BY <1>1, <2>1, <2>2, <2>3, <2>4, <2>5 DEF TypeInv, TypeOK, workerVars
<1> QED
  BY <1>3, <1>4

LEMMA RereadTypes == ASSUME TypeInv, NEW t \in Threads, Reread(t) PROVE TypeInv'
<1> DEFINE me == thread[t]
           w == snapshots[me.id][me.w.tick]
<1>1. me.at = "calls" /\ me.call = "reread"
      /\ UNCHANGED <<storeVars, cache, workerVars, remembered, was, asked, disturbed,
                     counts>>
  BY DEF Reread, history
<1>2. me.id \in Ids /\ me.w \in World /\ me.kind \in {"fork", "create"}
      /\ (me.kind = "fork" => me \in Forking) /\ (me.kind = "create" => me \in Creating)
  BY <1>1, Calling
<1>3. counts' \in [requests : Nat, incidents : Nat]
  BY <1>1 DEF TypeInv, TypeOK
<1>4. CASE w # None
  <2>1. w \in World
    BY <1>2, <1>4 DEF World, TypeInv, TypeOK
  <2>2. Proceed(t, w)
    BY <1>4 DEF Reread
  <2> HIDE DEF w
  <2>3. thread' \in [Threads -> Requests \cup {Idle}]
        /\ \A u \in Threads : thread'[u].at = "calls" /\ thread'[u].call = "cache" => store.redis
    BY <1>1, <2>1, <2>2, Proceeds
  <2> HIDE DEF me
  <2> QED
    BY <1>1, <2>3 DEF TypeInv, TypeOK, storeVars, workerVars
<1>5. CASE w = None
  <2> DEFINE new == [me EXCEPT !.call = "control"]
  <2>1. Become(t, new)
    BY <1>5 DEF Reread
  <2>2. new \in Requests /\ new.call # "cache"
    <3>1. CASE me.kind = "fork"
      <4>1. new \in Forking /\ new.call = "control"
        BY <1>2, <3>1 DEF Forking, Calls
      <4> QED
        BY <4>1 DEF Requests
    <3>2. CASE me.kind = "create"
      <4>1. new \in Creating /\ new.call = "control"
        BY <1>2, <3>2 DEF Creating, Calls
      <4> QED
        BY <4>1 DEF Requests
    <3> QED
      BY <1>2, <3>1, <3>2
  <2> HIDE DEF new
  <2> QED
    BY <1>1, <1>3, <2>1, <2>2, TakenUp DEF TypeInv, TypeOK
<1> QED
  BY <1>4, <1>5

LEMMA PutLiveTypes == ASSUME TypeInv, NEW t \in Threads, PutLive(t) PROVE TypeInv'
<1> DEFINE me == thread[t]
<1>1. me.at = "calls" /\ Proceed(t, me.w)
      /\ UNCHANGED <<workerVars, remembered, was, asked, disturbed, counts>>
  BY DEF PutLive, history
<1>2. me.id \in Ids /\ me.w \in World
  BY <1>1, Calling
<1>3. thread' \in [Threads -> Requests \cup {Idle}]
      /\ \A u \in Threads : thread'[u].at = "calls" /\ thread'[u].call = "cache" => store.redis
  BY <1>1, <1>2, Proceeds
<1>4. CASE StoreLive(me.id, me.w)
  <2>1. timelines' \in [Ids -> TimelineRecord \cup {None}] /\ live' \in [Ids -> World \cup {None}]
    BY <1>2, <1>4, LivePut DEF TypeInv
  <2> HIDE DEF me
  <2> QED
    BY <1>1, <1>3, <1>4, <2>1 DEF StoreLive, TypeInv, TypeOK, workerVars
<1>5. CASE me.call = "cache" /\ SetCache(me.id, me.w)
  <2>1. store.redis /\ cache' \in [Ids -> World \cup {None}]
    BY <1>1, <1>2, <1>5 DEF SetCache, TypeInv, TypeOK
  <2> HIDE DEF me
  <2> QED
    BY <1>1, <1>3, <1>5, <2>1 DEF SetCache, TypeInv, TypeOK, storeVars, workerVars
<1> QED
  BY <1>4, <1>5 DEF PutLive

LEMMA AnswerTypes == ASSUME TypeInv, NEW t \in Threads, Answer(t) PROVE TypeInv'
<1> DEFINE me == thread[t]
<1>1. me.at = "calls" /\ Proceed(t, me.w)
      /\ UNCHANGED <<storeVars, cache, workerVars, was, disturbed, counts>>
  BY DEF Answer
<1>2. me.id \in Ids /\ me.w \in World /\ (me.kind # "read" => me.record \in TimelineRecord)
      /\ (me.call = "answer" => me.kind # "read")
  BY <1>1, Calling
<1>3. thread' \in [Threads -> Requests \cup {Idle}]
      /\ \A u \in Threads : thread'[u].at = "calls" /\ thread'[u].call = "cache" => store.redis
  BY <1>1, <1>2, Proceeds
<1>4. remembered' \in [Ids -> World \cup {None}] /\ asked' \subseteq TimelineRecord
  BY <1>2 DEF Answer, TypeInv, TypeOK
<1> HIDE DEF me
<1> QED
  BY <1>1, <1>3, <1>4 DEF TypeInv, TypeOK, storeVars, workerVars

LEMMA TypesNext == TypeInv /\ [Next]_vars => TypeInv'
<1> SUFFICES ASSUME TypeInv, [Next]_vars PROVE TypeInv'
  OBVIOUS
<1>1. ASSUME NEW id \in Ids, \/ Load(id) \/ ApplyScenario(id) \/ Tick(id)
                             \/ Flush(id) \/ HookSnapshot(id) \/ Publish(id)
      PROVE  TypeInv'
  BY <1>1, LoadTypes, ApplyScenarioTypes, TickTypes, FlushTypes, HookSnapshotTypes,
     PublishTypes
<1>2. ASSUME NEW t \in Threads, AskCreate(t) \/ AskFork(t) \/ AskReplay(t) \/ AskRead(t)
      PROVE  TypeInv'
  BY <1>2, AskTypes
<1>3. ASSUME NEW t \in Threads, Serving(t) PROVE TypeInv'
  BY <1>3, ReplayTypes, NameTypes, LookTypes, FetchTypes, PutRecordTypes,
     PutSnapshotTypes,
     RereadTypes, PutLiveTypes, AnswerTypes DEF Serving
<1>4. CASE UNCHANGED vars
  BY <1>4 DEF TypeInv, TypeOK, vars, storeVars, workerVars, apiVars, history
<1> QED
  BY <1>1, <1>2, <1>3, <1>4, OthersTypes DEF Next

LEMMA TypesInit == Init => TypeInv
<1> SUFFICES ASSUME Init PROVE TypeInv
  OBVIOUS
<1>1. TypeOK
  BY Counts DEF Init, TypeOK, Idle
<1> QED
  BY <1>1 DEF Init, TypeInv, Idle

LEMMA TypesHold == Spec => []TypeInv
BY TypesInit, TypesNext, PTL DEF Spec

\* The state has its types.
THEOREM TypeCorrect == Spec => []TypeOK
<1>1. TypeInv => TypeOK
  BY DEF TypeInv
<1> QED
  BY <1>1, TypesHold, PTL

-----------------------------------------------------------------------------
(* What a step keeps.                                                      *)

\* A record keeps its lineage.
RecordKept(id) ==
    timelines[id] # None =>
        /\ timelines'[id] # None
        /\ timelines'[id].world = timelines[id].world
        /\ timelines'[id].parent = timelines[id].parent
        /\ timelines'[id].forkTick = timelines[id].forkTick
        /\ timelines'[id].branch = timelines[id].branch
        /\ timelines'[id].sealed = timelines[id].sealed

\* What no step takes back, of any timeline.
Grows ==
    /\ store' = store /\ worlds \subseteq worlds' /\ disturbed \subseteq disturbed'
    /\ \A id \in Ids : timelines[id] # None => timelines'[id] # None

\* Nothing is lost but what the cache, the worker and the API remember.
NothingLost(id) ==
    /\ RecordKept(id)
    /\ live[id] # None => live'[id] # None
    /\ Control(id) # None => Control(id)' # None
    /\ \A k \in Ticks : snapshots[id][k] # None => snapshots'[id][k] # None

\* A timeline that is being made is left to the thread that makes it.
LeftAlone(id) ==
    /\ timelines[id] = None => timelines'[id] = None
    /\ Making(id) /\ Control(id) = None /\ mem[id] = None =>
        /\ mem'[id] = None /\ \A w \in Worlds : control'[w][id] = control[w][id]
        /\ live[id] = None =>
            /\ live'[id] = None /\ was'[id] = was[id] /\ cache'[id] \in {cache[id], None}
            /\ snapshots'[id] = snapshots[id]

\* What every step keeps.
Steady == Grows /\ \A id \in Kept' : NothingLost(id)

\* What a step of the worker, or of a reader, does to a timeline.
Within(id) == NothingLost(id) /\ LeftAlone(id) /\ Lineal(id)'

\* A step has nothing to do with a timeline.
Still(id) ==
    /\ timelines'[id] = timelines[id] /\ live'[id] = live[id] /\ cache'[id] = cache[id]
    /\ mem'[id] = mem[id] /\ was'[id] = was[id] /\ snapshots'[id] = snapshots[id]
    /\ \A w \in Worlds : control'[w][id] = control[w][id]

\* A record is the same up to its head if its lineage is.
LEMMA SameRecord ==
    ASSUME NEW q \in TimelineRecord, NEW r \in TimelineRecord, NEW h,
           q.world = r.world, q.parent = r.parent, q.forkTick = r.forkTick,
           q.branch = r.branch, q.sealed = r.sealed
    PROVE  [q EXCEPT !.head = h] = [r EXCEPT !.head = h]
BY DEF TimelineRecord

\* A record keeps all but its head.
LEMMA RecordsKept ==
    ASSUME TypeInv, TypeInv', NEW id \in Ids, RecordKept(id), timelines[id] # None, NEW h
    PROVE  /\ timelines'[id] # None
           /\ [timelines'[id] EXCEPT !.head = h] = [timelines[id] EXCEPT !.head = h]
<1>1. timelines[id] \in TimelineRecord /\ timelines'[id] \in TimelineRecord
  BY DEF TypeInv, TypeOK, RecordKept
<1> QED
  BY <1>1, SameRecord DEF RecordKept

\* A record that matches another has its lineage.
LEMMA RecordMatches ==
    ASSUME TypeInv, NEW id \in Ids, timelines[id] # None, NEW r \in TimelineRecord,
           [timelines[id] EXCEPT !.head = r.head] = r
    PROVE  /\ timelines[id].world = r.world /\ timelines[id].parent = r.parent
           /\ timelines[id].forkTick = r.forkTick /\ timelines[id].branch = r.branch
<1>1. timelines[id] \in TimelineRecord
  BY DEF TypeInv, TypeOK
<1> QED
  BY <1>1 DEF TimelineRecord

\* The control record is found where it was.
LEMMA SameControl ==
    ASSUME TypeInv, NEW id \in Ids, RecordKept(id),
           timelines[id] # None \/ timelines'[id] = None,
           \A w \in Worlds : control'[w][id] = control[w][id]
    PROVE  Control(id)' = Control(id)
<1>1. timelines[id] # None => timelines[id].world \in Worlds
  BY DEF TypeInv, TypeOK, TimelineRecord
<1> QED
  BY <1>1 DEF Control, RecordKept

\* What is spoken of has been spoken of.
LEMMA KeptWas == ASSUME Grows PROVE Kept' \subseteq Kept
BY DEF Grows, Kept

\* What a step has nothing to do with stays within its lineage.
LEMMA StillWithin ==
    ASSUME TypeInv, BelongInv, NEW id \in Kept, Still(id)
    PROVE  Within(id)
<1>0. id \in Ids
  BY DEF Kept
<1>1. RecordKept(id) /\ (timelines[id] # None \/ timelines'[id] = None)
  BY DEF RecordKept, Still
<1>2. Control(id)' = Control(id)
  BY <1>0, <1>1, SameControl DEF Still
<1>3. NothingLost(id)
  BY <1>1, <1>2 DEF NothingLost, Still
<1>4. LeftAlone(id)
  BY DEF LeftAlone, Still
<1>5. Lineal(id)'
  <2>1. Lineal(id)
    BY DEF BelongInv
  <2> QED
    BY <2>1 DEF Lineal, Blank, Belongs, Still
<1> QED
  BY <1>3, <1>4, <1>5 DEF Within

\* What a thread knows stays so.
LEMMA KnowsKept ==
    ASSUME TypeInv, Grows, \A id \in Kept' : NothingLost(id),
           NEW t \in Threads, Knows(t), thread'[t] = thread[t]
    PROVE  Knows(t)'
<1> DEFINE me == thread[t]
<1>1. me \in Requests \cup {Idle}
  BY ThreadHas
<1>2. me # Idle /\ ~Builds(t) => me.id \in Ids
  BY <1>1, Shapes DEF Builds, ToReplay, ToFork, ToName, ReplayedTo, ToRead, Reading
<1>3. CASE me = Idle
  BY <1>3 DEF Knows, Builds, Idle
<1>4. CASE Builds(t)
  BY <1>4 DEF Knows, Builds
<1>5. CASE me # Idle /\ ~Builds(t)
  <2>1. timelines[me.id] # None /\ timelines'[me.id] # None /\ worlds \subseteq worlds'
        /\ store' = store
    BY <1>2, <1>5 DEF Knows, Grows
  <2>2. ASSUME me.id \in Kept'
        PROVE  /\ me.id \in Kept /\ (live[me.id] # None => live'[me.id] # None)
               /\ timelines'[me.id].world = timelines[me.id].world
               /\ timelines'[me.id].branch = timelines[me.id].branch
    BY <2>1, <2>2, KeptWas DEF NothingLost, RecordKept
  <2> QED
    BY <1>5, <2>1, <2>2 DEF Knows, Builds, Belongs
<1> QED
  BY <1>3, <1>4, <1>5

\* What is made goes on, whatever the others do.
LEMMA StartedKept ==
    ASSUME TypeInv, TypeInv', Grows, \A id \in Kept' : NothingLost(id),
           NEW t \in Threads, Builds(t), thread[t].id \in Kept', LeftAlone(thread[t].id),
           Hosted(t), Started(t), thread'[t] = thread[t]
    PROVE  Started(t)'
<1> DEFINE me == thread[t]
           r == me.record
<1>1. me.id \in Ids /\ me.w \in World /\ r \in TimelineRecord /\ me.at = "calls" /\ me.kind # "read"
  BY Calling DEF Builds
<1>2. me.w.tick \in Ticks /\ r.forkTick \in Ticks
  BY <1>1 DEF World, TimelineRecord
<1>3. /\ r.head = me.w.tick /\ r.forkTick = me.w.tick
      /\ r.world = me.w.world /\ r.branch = me.w.branch
      /\ me.kind = "create" => me.call \notin {"reread", "answer"}
      /\ me.kind = "fork" => me.call # "remember" /\ me.id # Zero /\ me.old.tick = r.forkTick
  BY DEF Started
<1>4. me.kind = "fork" /\ r.parent \in Kept' => Belongs(me.old, r.parent)'
  <2>1. ASSUME me.kind = "fork", r.parent \in Kept' PROVE Belongs(me.old, r.parent)'
    <3>1. r.parent \in Kept /\ timelines[r.parent] # None /\ RecordKept(r.parent)
      BY <2>1, KeptWas DEF Hosted, NothingLost
    <3>2. Belongs(me.old, r.parent)
      BY <2>1, <3>1 DEF Started
    <3> QED
      BY <3>1, <3>2 DEF Belongs, RecordKept
  <2> QED
    BY <2>1
<1>5. NothingLost(me.id) /\ RecordKept(me.id)
  BY DEF NothingLost
<1>6. IF me.call \in {"world", "timeline"} THEN timelines'[me.id] = None
      ELSE timelines'[me.id] # None /\ [timelines'[me.id] EXCEPT !.head = r.head] = r
  <2>1. CASE me.call \in {"world", "timeline"}
    BY <2>1 DEF Started, LeftAlone
  <2>2. CASE me.call \notin {"world", "timeline"}
    <3>1. timelines[me.id] # None /\ [timelines[me.id] EXCEPT !.head = r.head] = r
      BY <2>2 DEF Started
    <3> QED
      BY <1>1, <1>5, <2>2, <3>1, RecordsKept
  <2> QED
    BY <2>1, <2>2
<1>7. me.call \notin {"remember", "answer"} =>
        /\ Making(me.id) /\ Control(me.id) = None /\ mem[me.id] = None
        /\ mem'[me.id] = None /\ \A w \in Worlds : control'[w][me.id] = control[w][me.id]
        /\ live[me.id] = None =>
            /\ live'[me.id] = None /\ was'[me.id] = was[me.id]
            /\ cache'[me.id] \in {cache[me.id], None} /\ snapshots'[me.id] = snapshots[me.id]
  BY DEF Builds, Making, Started, LeftAlone
<1>8. me.call \notin {"remember", "answer"} => Control(me.id)' = None /\ mem'[me.id] = None
  <2>1. timelines[me.id] # None \/ timelines'[me.id] = None
    BY DEF LeftAlone
  <2> QED
    BY <1>1, <1>5, <1>7, <2>1, SameControl
<1>9. me.call = "snapshot" => Blank(me.id)'
  <2>1. me.call = "snapshot" => Blank(me.id)
    BY DEF Started
  <2> QED
    BY <1>7, <2>1 DEF Blank
<1>10. me.call \in {"reread", "live"} =>
        /\ snapshots'[me.id][me.w.tick] = me.w /\ was'[me.id] = {me.w} /\ live'[me.id] = None
  BY <1>7 DEF Started
<1>11. /\ me.call \notin {"world", "timeline", "snapshot", "reread", "live"} => live'[me.id] # None
       /\ me.call \notin {"world", "timeline", "snapshot"} => snapshots'[me.id][r.forkTick] # None
       /\ me.call \in {"remember", "answer"} => Control(me.id)' # None
  BY <1>2, <1>5 DEF Started, NothingLost
<1>12. thread'[t] = thread[t]
  OBVIOUS
<1> QED
  BY <1>3, <1>4, <1>6, <1>8, <1>9, <1>10, <1>11, <1>12 DEF Started

\* The worlds and forks that were answered stay.
LEMMA AskedKept ==
    ASSUME TypeInv, TypeInv', Grows, \A id \in Kept' : NothingLost(id), AskedInv
    PROVE  \A r \in asked : Answered(r)'
<1> SUFFICES ASSUME NEW r \in asked, IdOf(r) \in Kept'
             PROVE  /\ timelines'[IdOf(r)] # None
                    /\ [timelines'[IdOf(r)] EXCEPT !.head = r.head] = r
                    /\ snapshots'[IdOf(r)][r.forkTick] # None
                    /\ live'[IdOf(r)] # None /\ Control(IdOf(r))' # None
  BY DEF Answered
<1> DEFINE id == IdOf(r)
<1>1. id \in Kept /\ id \in Ids /\ NothingLost(id) /\ RecordKept(id)
  BY KeptWas DEF Kept, NothingLost
<1>2. /\ timelines[id] # None /\ [timelines[id] EXCEPT !.head = r.head] = r
      /\ snapshots[id][r.forkTick] # None /\ r.forkTick \in Ticks
      /\ live[id] # None /\ Control(id) # None
  BY <1>1 DEF AskedInv, Answered, TypeInv, TypeOK, TimelineRecord
<1> HIDE DEF id
<1>3. timelines'[id] # None /\ [timelines'[id] EXCEPT !.head = r.head] = r
  BY <1>1, <1>2, RecordsKept
<1>4. snapshots'[id][r.forkTick] # None /\ live'[id] # None /\ Control(id)' # None
  BY <1>1, <1>2 DEF NothingLost
<1> QED
  BY <1>3, <1>4 DEF id

\* The world of what a thread makes stays, and so does its record.
LEMMA HostedKept ==
    ASSUME TypeInv, Grows, NEW t \in Threads, Builds(t), Hosted(t), thread'[t] = thread[t]
    PROVE  Hosted(t)'
<1>1. thread[t].id \in Ids
  BY Calling DEF Builds
<1> QED
  BY <1>1 DEF Hosted, Grows

\* A thread that does not move, and whose timeline is left alone.
LEMMA ThreadKept ==
    ASSUME TypeInv, TypeInv', Grows, \A id \in Kept' : NothingLost(id), LineageInv,
           NEW t \in Threads, thread'[t] = thread[t],
           Builds(t) /\ thread[t].id \in Kept' => LeftAlone(thread[t].id)
    PROVE  Minds(t)'
<1>1. Minds(t)
  BY DEF LineageInv, ThreadsInv
<1>2. Knows(t)'
  BY <1>1, KnowsKept DEF Minds
<1>3. ASSUME Builds(t)' PROVE Hosted(t)' /\ (thread'[t].id \in Kept' => Started(t)')
  <2>1. Builds(t)
    BY <1>3 DEF Builds
  <2>2. Hosted(t)'
    BY <1>1, <2>1, HostedKept DEF Minds
  <2>3. ASSUME thread[t].id \in Kept' PROVE Started(t)'
    <3>1. thread[t].id \in Kept
      BY <2>3, KeptWas
    <3> QED
      BY <1>1, <2>1, <2>3, <3>1, StartedKept DEF Minds
  <2> QED
    BY <2>2, <2>3
<1> QED
  BY <1>2, <1>3 DEF Minds

\* Nobody takes up what another makes.
LEMMA AloneKept ==
    ASSUME Grows, AloneInv,
           \A t \in Threads : Builds(t)' => Builds(t) /\ thread'[t].id = thread[t].id
    PROVE  AloneInv'
BY KeptWas DEF AloneInv

\* A step within the timelines that are there, and what it leaves of the lineages.
LEMMA StepLineage ==
    ASSUME TypeInv, TypeInv', LineageInv, RecordInv', Grows,
           \A id \in Kept' : NothingLost(id) /\ Lineal(id)',
           \A t \in Threads : Minds(t)',
           AloneInv', \A r \in asked' \ asked : Answered(r)'
    PROVE  LineageInv'
<1>1. BelongInv'
  BY DEF BelongInv
<1>2. AskedInv'
  BY AskedKept DEF AskedInv, LineageInv
<1> QED
  BY <1>1, <1>2 DEF LineageInv, ThreadsInv

\* A step of the worker, the clock of Redis or the operator: no thread moves.
LEMMA WorkerKeeps ==
    ASSUME TypeInv, TypeInv', LineageInv, RecordInv', Grows, \A id \in Kept' : Within(id),
           UNCHANGED <<thread, asked>>
    PROVE  LineageInv'
<1>1. \A t \in Threads : Minds(t)'
  BY ThreadKept DEF Within
<1>2. AloneInv'
  BY AloneKept DEF Builds, LineageInv
<1> QED
  BY <1>1, <1>2, StepLineage DEF Within

\* A step of one thread that makes nothing, or goes on making.
LEMMA ThreadStep ==
    ASSUME TypeInv, TypeInv', LineageInv, RecordInv', Grows,
           \A id \in Kept' : NothingLost(id) /\ Lineal(id)',
           NEW t \in Threads, \A u \in Threads : u # t => thread'[u] = thread[u],
           \A id \in Kept' : LeftAlone(id) \/ (Builds(t) /\ thread[t].id = id),
           Minds(t)', Builds(t)' => Builds(t) /\ thread'[t].id = thread[t].id,
           \A r \in asked' \ asked : Answered(r)'
    PROVE  LineageInv'
<1>1. ASSUME NEW u \in Threads, u # t PROVE Minds(u)'
  <2>1. ASSUME Builds(u), thread[u].id \in Kept' PROVE LeftAlone(thread[u].id)
    <3>1. thread[u].id \in Kept
      BY <2>1, KeptWas
    <3>2. ~(Builds(t) /\ thread[t].id = thread[u].id)
      BY <1>1, <2>1, <3>1 DEF LineageInv, AloneInv
    <3> QED
      BY <2>1, <3>2
  <2> QED
    BY <1>1, <2>1, ThreadKept
<1>2. AloneInv'
  BY AloneKept DEF Builds, LineageInv
<1> QED
  BY <1>1, <1>2, StepLineage


\* A step keeps the records, or bumps a head.
LEMMA RecordKeeps ==
    ASSUME TypeInv, RecordInv, store' = store, worlds' = worlds, disturbed \subseteq disturbed',
           \/ timelines' = timelines
           \/ \E id \in Ids, tick \in Ticks : timelines' = Bumped(timelines, id, tick),
           \A id \in Ids : mem'[id] # None => timelines[id] # None
    PROVE  RecordInv' /\ Grows
<1>1. timelines \in [Ids -> TimelineRecord \cup {None}]
  BY DEF TypeInv, TypeOK
<1>2. \A id \in Ids : /\ timelines'[id] = None <=> timelines[id] = None
                      /\ timelines[id] # None => timelines'[id].world = timelines[id].world
  BY <1>1, Bumps
<1> QED
  BY <1>2 DEF RecordInv, Grows

\* A new head leaves the lineages alone.
LEMMA BumpKeeps ==
    ASSUME TypeInv, NEW id \in Ids, NEW tick \in Ticks, timelines' = Bumped(timelines, id, tick)
    PROVE  \A j \in Ids : RecordKept(j) /\ (timelines[j] = None => timelines'[j] = None)
                          /\ (j # id => timelines'[j] = timelines[j])
<1>1. timelines \in [Ids -> TimelineRecord \cup {None}]
  BY DEF TypeInv, TypeOK
<1> QED
  BY <1>1, Bumps DEF RecordKept, Bumped

\* What is kept of a timeline is of its lineage as long as its record is.
LEMMA LinealKept ==
    ASSUME NEW id, timelines[id] # None, RecordKept(id),
           \A w \in was'[id] : Belongs(w, id),
           live'[id] # None => Belongs(live'[id], id),
           cache'[id] # None => Belongs(cache'[id], id),
           mem'[id] # None => Belongs(mem'[id], id),
           \A k \in Ticks : snapshots'[id][k] # None => Belongs(snapshots'[id][k], id)
    PROVE  Lineal(id)'
BY DEF Lineal, Belongs, RecordKept

\* What _load finds is of the timeline.
LEMMA StoredBelongs ==
    ASSUME TypeInv, BelongInv, NEW id \in Kept, Stored(id) # None
    PROVE  Belongs(Stored(id), id)
<1>1. MaxTick \in Ticks /\ id \in Ids
  BY Counts DEF Kept
<1>2. Nearest(id, MaxTick) # None => Belongs(Nearest(id, MaxTick), id)
  <2>1. ASSUME Nearest(id, MaxTick) # None
        PROVE  /\ Nearest(id, MaxTick).tick \in Ticks
               /\ Nearest(id, MaxTick) = snapshots[id][Nearest(id, MaxTick).tick]
    BY <1>1, <2>1, NearestIsLast, Counts DEF TypeInv
  <2> HIDE DEF Nearest
  <2> QED
    BY <2>1 DEF BelongInv, Lineal
<1> QED
  BY <1>2 DEF Stored, BelongInv, Lineal

\* The steps of the worker stay within the lineage of the timeline.
LEMMA LoadWithin ==
    ASSUME TypeInv, LineageInv, NEW id \in Ids, Load(id)
    PROVE  RecordInv' /\ Grows /\ \A j \in Kept : Within(j)
<1>1. Stored(id) \in World /\ mem' = [mem EXCEPT ![id] = Stored(id)]
      /\ cache' \in {cache, [cache EXCEPT ![id] = Stored(id)]}
      /\ was' = [was EXCEPT ![id] = {w \in @ : w.tick < Stored(id).tick} \cup {Stored(id)}]
      /\ UNCHANGED <<store, worlds, timelines, snapshots, live, control, disturbed>>
  BY StoredIsWorld DEF Load, TypeInv, storeVars
<1>2. Control(id) # None /\ timelines[id] # None
  BY DEF Load, Visits, Runs, Shaken, Control
<1>3. \A j \in Ids : /\ mem'[j] = IF j = id THEN Stored(id) ELSE mem[j]
                     /\ cache'[j] = cache[j] \/ (j = id /\ cache'[j] = Stored(id))
                     /\ was'[j] = IF j = id THEN {w \in was[id] : w.tick < Stored(id).tick} \cup {Stored(id)}
                                  ELSE was[j]
  BY <1>1 DEF TypeInv, TypeOK
<1>4. Stored(id) # None
  BY DEF Load
<1> HIDE DEF Stored
<1>5. RecordInv' /\ Grows
  <2>1. \A j \in Ids : mem'[j] # None => timelines[j] # None
    BY <1>2, <1>3 DEF LineageInv, RecordInv
  <2> QED
    BY <1>1, <2>1, RecordKeeps DEF LineageInv
<1>6. ASSUME NEW j \in Kept PROVE Within(j)
  <2>1. CASE j # id
    BY <1>1, <1>3, <2>1, StillWithin DEF Still, Kept, LineageInv
  <2>2. CASE j = id
    <3>1. Lineal(id) /\ Belongs(Stored(id), id)
      BY <1>4, <2>2, StoredBelongs DEF LineageInv, BelongInv
    <3>2. RecordKept(id)
      BY <1>1 DEF RecordKept
    <3>3. NothingLost(id)
      BY <1>1, <3>2 DEF NothingLost, Control
    <3>4. LeftAlone(id)
      BY <1>2 DEF LeftAlone
    <3>5. \A w \in was'[id] : Belongs(w, id)
      BY <1>3, <3>1 DEF Lineal
    <3>6. Lineal(id)'
      BY <1>1, <1>2, <1>3, <3>1, <3>2, <3>5, LinealKept DEF Lineal
    <3> QED
      BY <2>2, <3>3, <3>4, <3>6 DEF Within
  <2> QED
    BY <2>1, <2>2
<1> QED
  BY <1>5, <1>6

\* mem moves on: a world of the same lineage.
LEMMA MemWithin ==
    ASSUME TypeInv, LineageInv, NEW id \in Ids, mem[id] # None, NEW w \in World,
           w.world = mem[id].world, w.branch = mem[id].branch,
           mem' = [mem EXCEPT ![id] = w], was' = [was EXCEPT ![id] = @ \cup {w}],
           Control(id) # None => Control(id)' # None,
           \A j \in Ids \ {id}, v \in Worlds : control'[v][j] = control[v][j],
           UNCHANGED <<store, worlds, timelines, snapshots, live, cache, disturbed>>
    PROVE  RecordInv' /\ Grows /\ \A j \in Kept : Within(j)
<1>1. timelines[id] # None
  BY DEF LineageInv, RecordInv
<1>2. \A j \in Ids : /\ mem'[j] = IF j = id THEN w ELSE mem[j]
                     /\ was'[j] = IF j = id THEN was[id] \cup {w} ELSE was[j]
  BY DEF TypeInv, TypeOK
<1>3. RecordInv' /\ Grows
  <2>1. \A j \in Ids : mem'[j] # None => timelines[j] # None
    BY <1>1, <1>2 DEF LineageInv, RecordInv
  <2> QED
    BY <2>1, RecordKeeps DEF LineageInv
<1>4. ASSUME NEW j \in Kept PROVE Within(j)
  <2>1. CASE j # id
    BY <1>2, <2>1, StillWithin DEF Still, Kept, LineageInv
  <2>2. CASE j = id
    <3>1. Lineal(id) /\ Belongs(w, id)
      BY <2>2 DEF LineageInv, BelongInv, Lineal, Belongs
    <3>2. RecordKept(id)
      BY DEF RecordKept
    <3>3. NothingLost(id)
      BY <3>2 DEF NothingLost
    <3>4. LeftAlone(id)
      BY <1>1 DEF LeftAlone
    <3>5. Lineal(id)'
      BY <1>1, <1>2, <3>1, <3>2, LinealKept DEF Lineal
    <3> QED
      BY <2>2, <3>3, <3>4, <3>5 DEF Within
  <2> QED
    BY <2>1, <2>2
<1> QED
  BY <1>3, <1>4

\* _apply_scenario.
LEMMA ApplyScenarioWithin ==
    ASSUME TypeInv, LineageInv, NEW id \in Ids, ApplyScenario(id)
    PROVE  RecordInv' /\ Grows /\ \A j \in Kept : Within(j)
<1> DEFINE w == [mem[id] EXCEPT !.inputs = Append(@, mem[id].tick)]
           v == timelines[id].world
           record == [control[v][id] EXCEPT !.scenario = FALSE]
<1>1. mem[id] \in World /\ mem[id] # None /\ mem[id].tick \in Ticks
      /\ timelines[id] # None /\ v \in Worlds /\ control[v][id] \in Controls
  BY WorkerHas DEF ApplyScenario, Shaken, Control, TypeInv, TypeOK, TimelineRecord
<1>2. w \in World /\ w.world = mem[id].world /\ w.branch = mem[id].branch
  <2>1. mem[id].inputs \in Seq(Ticks)
    BY <1>1 DEF World
  <2>2. Append(mem[id].inputs, mem[id].tick) \in Seq(Ticks)
    BY <1>1, <2>1
  <2> QED
    BY <1>1, <2>2 DEF World
<1>3. mem' = [mem EXCEPT ![id] = w] /\ was' = [was EXCEPT ![id] = @ \cup {w}]
      /\ UNCHANGED <<store, worlds, timelines, snapshots, live, cache, disturbed>>
  BY <1>1 DEF ApplyScenario, TypeInv, TypeOK
<1>4. record \in Controls
  BY <1>1 DEF Controls
<1>5. control' = [control EXCEPT ![v][id] = record]
  BY <1>1 DEF ApplyScenario, TypeInv, TypeOK
<1> HIDE DEF w, record, v
<1>6. control'[v][id] # None /\ \A j \in Ids \ {id}, u \in Worlds : control'[u][j] = control[u][j]
  BY <1>1, <1>4, <1>5, NoneIsNone DEF TypeInv, TypeOK
<1>7. Control(id)' # None
  BY <1>1, <1>3, <1>6 DEF Control, v
<1> QED
  BY <1>1, <1>2, <1>3, <1>6, <1>7, MemWithin

LEMMA TickWithin ==
    ASSUME TypeInv, LineageInv, NEW id \in Ids, Tick(id)
    PROVE  RecordInv' /\ Grows /\ \A j \in Kept : Within(j)
<1> DEFINE w == [mem[id] EXCEPT !.tick = @ + 1]
<1>1. mem[id] \in World /\ mem[id] # None /\ mem[id].tick + 1 \in Ticks
  <2>1. mem[id] # None /\ mem[id].tick < Most[store].ticks /\ store \in Stores
    BY DEF Tick, TypeInv, TypeOK
  <2> QED
    BY <2>1, WorkerHas, Counts
<1>2. w \in World /\ w.world = mem[id].world /\ w.branch = mem[id].branch
  BY <1>1 DEF World
<1>3. mem' = [mem EXCEPT ![id] = w]
      /\ UNCHANGED <<store, worlds, timelines, snapshots, live, cache, control,
                     disturbed>>
  BY DEF Tick, storeVars
<1>4. was' = [was EXCEPT ![id] = @ \cup {w}]
  <2>1. was' = [was EXCEPT ![id] = @ \cup {mem'[id]}] /\ mem'[id] = w
    BY <1>3 DEF Tick, TypeInv, TypeOK
  <2> QED
    BY <2>1
<1> HIDE DEF w
<1>5. Control(id)' = Control(id)
  BY <1>3 DEF Control
<1> QED
  BY <1>1, <1>2, <1>3, <1>4, <1>5, MemWithin

LEMMA DieWithin ==
    ASSUME TypeInv, LineageInv, Die, UNCHANGED <<storeVars, cache, was, disturbed>>
    PROVE  RecordInv' /\ Grows /\ \A j \in Kept : Within(j)
<1>1. \A j \in Ids : mem'[j] = None
  BY DEF Die
<1>2. RecordInv' /\ Grows
  BY <1>1, RecordKeeps DEF LineageInv, storeVars
<1>3. ASSUME NEW j \in Kept PROVE Within(j)
  <2>1. j \in Ids /\ Lineal(j)
    BY DEF Kept, LineageInv, BelongInv
  <2>2. NothingLost(j)
    BY DEF NothingLost, RecordKept, Control, storeVars
  <2>3. LeftAlone(j)
    BY <1>1, <2>1 DEF LeftAlone, storeVars
  <2>4. Lineal(j)'
    BY <1>1, <2>1 DEF Lineal, Blank, Belongs, storeVars
  <2> QED
    BY <2>2, <2>3, <2>4 DEF Within
<1> QED
  BY <1>2, <1>3

\* A head that is bumped, and a world of the timeline put with it: a live state
\* or a snapshot.
LEMMA PutWithin ==
    ASSUME TypeInv, LineageInv, NEW id \in Ids, NEW tick \in Ticks,
           timelines' = Bumped(timelines, id, tick),
           UNCHANGED <<store, worlds, control, cache, mem, was, disturbed>>,
           \A j \in Ids : \/ live'[j] = live[j]
                          \/ j = id /\ live'[j] # None /\ (j \in Kept => Belongs(live'[j], j)),
           \A j \in Ids, k \in Ticks :
                \/ snapshots'[j][k] = snapshots[j][k]
                \/ /\ j = id /\ snapshots'[j][k] # None
                   /\ j \in Kept => Belongs(snapshots'[j][k], j),
           \A j \in Ids : j # id => snapshots'[j] = snapshots[j]
    PROVE  /\ RecordInv' /\ Grows
           /\ \A j \in Kept : NothingLost(j) /\ (j # id => Within(j))
           /\ id \in Kept /\ timelines[id] # None => Lineal(id)'
           /\ /\ id \in Kept /\ timelines[id] # None
              /\ mem[id] # None \/ (live[id] # None /\ \A k \in Ticks : snapshots'[id][k] = snapshots[id][k])
              => Within(id)
<1>1. \A j \in Ids : /\ RecordKept(j) /\ (timelines[j] = None => timelines'[j] = None)
                     /\ (j # id => timelines'[j] = timelines[j])
  BY BumpKeeps
<1>2. RecordInv' /\ Grows
  BY RecordKeeps DEF LineageInv, RecordInv
<1>3. ASSUME NEW j \in Kept PROVE NothingLost(j) /\ (j # id => Within(j))
  <2>1. j \in Ids /\ Control(j)' = Control(j)
    BY <1>1, SameControl DEF Kept
  <2>2. NothingLost(j)
    BY <1>1, <2>1 DEF NothingLost
  <2>3. j # id => Still(j)
    BY <1>1, <2>1 DEF Still
  <2> QED
    BY <2>2, <2>3, StillWithin DEF LineageInv
<1>4. ASSUME id \in Kept, timelines[id] # None PROVE Lineal(id)'
  <2>1. Lineal(id)
    BY <1>4 DEF LineageInv, BelongInv
  <2> QED
    BY <1>1, <1>4, <2>1, LinealKept DEF Lineal
<1>5. ASSUME id \in Kept, timelines[id] # None,
             mem[id] # None \/ (live[id] # None /\ \A k \in Ticks : snapshots'[id][k] = snapshots[id][k])
      PROVE  Within(id)
  <2>1. LeftAlone(id)
    BY <1>5 DEF LeftAlone
  <2> QED
    BY <1>3, <1>4, <1>5, <2>1 DEF Within
<1> QED
  BY <1>2, <1>3, <1>4, <1>5

LEMMA FlushWithin ==
    ASSUME TypeInv, LineageInv, NEW id \in Ids, Flush(id)
    PROVE  RecordInv' /\ Grows /\ \A j \in Kept : Within(j)
<1>1. mem[id] # None /\ mem[id].tick \in Ticks /\ UNCHANGED <<cache, was, disturbed>>
  BY WorkerHas DEF Flush, Doing, history
<1>2. CASE Sealed(id, batch.flushed + 1)
  BY <1>1, <1>2, DieWithin DEF Flush
<1>3. CASE ~Sealed(id, batch.flushed + 1)
  <2>1. timelines' = Bumped(timelines, id, mem[id].tick)
        /\ UNCHANGED <<store, worlds, snapshots, live, control, mem>>
    BY <1>3 DEF Flush
  <2>2. timelines[id] # None
    BY <1>1 DEF LineageInv, RecordInv
  <2>3. /\ RecordInv' /\ Grows
        /\ \A j \in Kept : j # id => Within(j)
        /\ id \in Kept => Within(id)
    BY <1>1, <2>1, <2>2, PutWithin
  <2> QED
    BY <2>3
<1> QED
  BY <1>2, <1>3

LEMMA HookSnapshotWithin ==
    ASSUME TypeInv, LineageInv, NEW id \in Ids, HookSnapshot(id)
    PROVE  RecordInv' /\ Grows /\ \A j \in Kept : Within(j)
<1>1. mem[id] # None /\ mem[id] \in World /\ mem[id].tick \in Ticks
      /\ UNCHANGED <<cache, was, disturbed>>
      /\ (id \in Kept => Belongs(mem[id], id)) /\ timelines[id] # None
  BY WorkerHas DEF HookSnapshot, Doing, LineageInv, BelongInv, Lineal, RecordInv,
     history
<1>2. CASE Refused(id, mem[id])
  BY <1>1, <1>2, DieWithin DEF HookSnapshot
<1>3. CASE ~Refused(id, mem[id])
  <2>1. WriteSnapshot(id, mem[id]) /\ UNCHANGED <<store, worlds, live, control, mem>>
    BY <1>3 DEF HookSnapshot
  <2>2. \A j \in Ids, k \in Ticks :
          snapshots'[j][k] = IF j = id /\ k = mem[id].tick THEN mem[id] ELSE snapshots[j][k]
    BY <1>1, <2>1, Written DEF TypeInv
  <2>3. timelines' = Bumped(timelines, id, mem[id].tick)
        /\ \A j \in Ids : j # id => snapshots'[j] = snapshots[j]
    BY <2>1 DEF WriteSnapshot, TypeInv, TypeOK
  <2>4. /\ RecordInv' /\ Grows
        /\ \A j \in Kept : j # id => Within(j)
        /\ id \in Kept => Within(id)
    BY <1>1, <2>1, <2>2, <2>3, PutWithin
  <2> QED
    BY <2>4
<1> QED
  BY <1>2, <1>3

\* write_live and the cache, by whoever has a world of a timeline.
LEMMA LiveWithin ==
    ASSUME TypeInv, LineageInv, NEW id \in Ids, NEW w \in World, id \in Kept => Belongs(w, id),
           timelines[id] # None, StoreLive(id, w) \/ SetCache(id, w),
           UNCHANGED <<mem, was, disturbed>>
    PROVE  /\ RecordInv' /\ Grows
           /\ \A j \in Kept : NothingLost(j) /\ Lineal(j)' /\ (j # id => Within(j))
           /\ id \in Kept /\ (mem[id] # None \/ live[id] # None) => Within(id)
<1>1. w.tick \in Ticks /\ w # None
  BY NoneIsNone DEF World
<1>2. CASE StoreLive(id, w)
  <2>1. \A j \in Ids : live'[j] = IF j = id THEN w ELSE live[j]
    BY <1>2 DEF StoreLive, TypeInv, TypeOK
  <2>2. timelines' = Bumped(timelines, id, w.tick)
        /\ UNCHANGED <<store, worlds, snapshots, control, cache, mem, was, disturbed>>
    BY <1>2 DEF StoreLive
  <2>3. /\ RecordInv' /\ Grows
        /\ \A j \in Kept : NothingLost(j) /\ (j # id => Within(j))
        /\ id \in Kept => Lineal(id)'
        /\ id \in Kept /\ (mem[id] # None \/ live[id] # None) => Within(id)
    BY <1>1, <2>1, <2>2, PutWithin
  <2> QED
    BY <2>3 DEF Within
<1>3. CASE SetCache(id, w)
  <2>1. \A j \in Ids : cache'[j] = cache[j] \/ (j = id /\ cache'[j] = w)
    BY <1>3 DEF SetCache, TypeInv, TypeOK
  <2>2. UNCHANGED <<store, worlds, timelines, snapshots, live, control, mem, was, disturbed>>
    BY <1>3 DEF SetCache, storeVars
  <2>3. RecordInv' /\ Grows
    BY <2>2, RecordKeeps DEF LineageInv, RecordInv
  <2>4. \A j \in Kept : j # id => Within(j)
    BY <2>1, <2>2, StillWithin DEF Still, Kept, LineageInv
  <2>5. \A j \in Ids : NothingLost(j)
    BY <2>2 DEF NothingLost, RecordKept, Control
  <2>6. ASSUME id \in Kept PROVE Lineal(id)'
    <3>1. Lineal(id) /\ Belongs(w, id) /\ RecordKept(id)
      BY <2>2, <2>6 DEF LineageInv, BelongInv, RecordKept
    <3> QED
      BY <2>1, <2>2, <3>1, LinealKept DEF Lineal
  <2>7. mem[id] # None \/ live[id] # None => LeftAlone(id)
    BY <2>2 DEF LeftAlone
  <2>8. \A j \in Kept : Lineal(j)'
    BY <2>4, <2>6 DEF Within
  <2> QED
    BY <2>3, <2>4, <2>5, <2>6, <2>7, <2>8 DEF Within, Kept
<1> QED
  BY <1>2, <1>3

LEMMA PublishWithin ==
    ASSUME TypeInv, LineageInv, NEW id \in Ids, Publish(id)
    PROVE  RecordInv' /\ Grows /\ \A j \in Kept : Within(j)
<1>1. mem[id] \in World /\ (id \in Kept => Belongs(mem[id], id)) /\ timelines[id] # None
      /\ mem[id] # None /\ UNCHANGED <<mem, was, disturbed>>
  BY WorkerHas DEF Publish, Doing, LineageInv, BelongInv, Lineal, RecordInv, history
<1>2. StoreLive(id, mem[id]) \/ SetCache(id, mem[id])
  BY DEF Publish
<1>3. /\ RecordInv' /\ Grows
      /\ \A j \in Kept : j # id => Within(j)
      /\ id \in Kept => Within(id)
  BY <1>1, <1>2, LiveWithin
<1> QED
  BY <1>3

\* Whoever sends a control to what is being made disturbs it.
LEMMA SetControlWithin ==
    ASSUME TypeInv, LineageInv, NEW id \in Ids, SetControl(id)
    PROVE  RecordInv' /\ Grows /\ \A j \in Kept' : Within(j)
<1> DEFINE v == timelines[id].world
           now == IF Control(id) # None THEN Control(id) ELSE [running |-> FALSE, scenario |-> FALSE]
<1>1. timelines[id] # None /\ disturbed' = (IF Making(id) THEN disturbed \cup {id} ELSE disturbed)
      /\ UNCHANGED <<store, worlds, timelines, snapshots, live, cache, mem, was>>
  BY DEF SetControl, workerVars
<1>2. v \in Worlds
  BY <1>1 DEF TypeInv, TypeOK, TimelineRecord
<1>3. now \in Controls
  BY <1>1, <1>2 DEF Control, Controls, TypeInv, TypeOK
<1>4. PICK record \in Controls : control' = [control EXCEPT ![v][id] = record]
  <2>1. [now EXCEPT !.running = TRUE] \in Controls /\ [now EXCEPT !.scenario = TRUE] \in Controls
    BY <1>3 DEF Controls
  <2> QED
    BY <2>1 DEF SetControl
<1> HIDE DEF v, now
<1>5. /\ control'[v][id] # None
      /\ \A j \in Ids \ {id}, w \in Worlds : control'[w][j] = control[w][j]
  BY <1>2, <1>4, NoneIsNone DEF TypeInv, TypeOK
<1>6. Control(id)' # None
  BY <1>1, <1>5 DEF Control, v
<1>7. RecordInv' /\ Grows
  BY <1>1, RecordKeeps DEF LineageInv, RecordInv
<1>8. ASSUME NEW j \in Kept' PROVE Within(j)
  <2>1. j \in Kept
    BY <1>7, <1>8, KeptWas
  <2>2. CASE j # id
    BY <1>1, <1>5, <2>1, <2>2, StillWithin DEF Still, Kept, LineageInv
  <2>3. CASE j = id
    <3>1. ~Making(id)
      BY <1>1, <1>8, <2>3 DEF Kept
    <3>2. RecordKept(id) /\ Lineal(id)
      BY <1>1, <2>1, <2>3 DEF RecordKept, LineageInv, BelongInv
    <3>3. NothingLost(id)
      BY <1>1, <1>6, <3>2 DEF NothingLost
    <3>4. LeftAlone(id)
      BY <1>1, <3>1 DEF LeftAlone
    <3>5. Lineal(id)'
      BY <1>1, <3>2, LinealKept DEF Lineal
    <3> QED
      BY <2>3, <3>3, <3>4, <3>5 DEF Within
  <2> QED
    BY <2>2, <2>3
<1> QED
  BY <1>7, <1>8

LEMMA ExpireWithin ==
    ASSUME TypeInv, LineageInv, NEW id \in Ids, Expire(id)
    PROVE  RecordInv' /\ Grows /\ \A j \in Kept : Within(j)
<1>1. UNCHANGED <<store, worlds, timelines, snapshots, live, control, mem, was, disturbed>>
      /\ \A j \in Ids : cache'[j] \in {cache[j], None}
  BY DEF Expire, storeVars, workerVars, history, TypeInv, TypeOK
<1>2. RecordInv' /\ Grows
  BY <1>1, RecordKeeps DEF LineageInv, RecordInv
<1>3. ASSUME NEW j \in Kept PROVE Within(j)
  <2>1. j \in Ids /\ Lineal(j)
    BY DEF Kept, LineageInv, BelongInv
  <2>2. NothingLost(j) /\ LeftAlone(j)
    BY <1>1, <2>1 DEF NothingLost, LeftAlone, RecordKept, Control
  <2>3. Lineal(j)'
    BY <1>1, <2>1 DEF Lineal, Blank, Belongs
  <2> QED
    BY <2>2, <2>3 DEF Within
<1> QED
  BY <1>2, <1>3

\* Every step of the worker, of Redis' clock and of the operator's control.
LEMMA WorkerLineage ==
    ASSUME TypeInv, TypeInv', LineageInv, NEW id \in Ids,
           \/ Load(id) \/ ApplyScenario(id) \/ Tick(id) \/ Flush(id) \/ HookSnapshot(id)
           \/ Publish(id) \/ SetControl(id) \/ Expire(id) \/ WorkerCrash
    PROVE  LineageInv' /\ Steady /\ UNCHANGED <<thread, asked>>
<1>1. UNCHANGED <<thread, asked>>
  BY DEF Load, ApplyScenario, Tick, Flush, HookSnapshot, Publish, SetControl, Expire,
         WorkerCrash, apiVars, workerVars, storeVars, history
<1>2. WorkerCrash => RecordInv' /\ Grows /\ \A j \in Kept : Within(j)
  BY DieWithin DEF WorkerCrash, history
<1>3. RecordInv' /\ Grows /\ ((\A j \in Kept : Within(j)) \/ (\A j \in Kept' : Within(j)))
  BY <1>2, LoadWithin, ApplyScenarioWithin, TickWithin, FlushWithin, HookSnapshotWithin,
     PublishWithin, SetControlWithin, ExpireWithin
<1>4. \A j \in Kept' : Within(j)
  BY <1>3, KeptWas
<1> QED
  BY <1>1, <1>3, <1>4, WorkerKeeps DEF Steady, Within

-----------------------------------------------------------------------------
(* The threads of the API.                                                 *)

\* A step that only takes up a request, or puts it down.
LEMMA Undisturbed ==
    ASSUME TypeInv, LineageInv, UNCHANGED <<storeVars, cache, workerVars, was>>,
           disturbed \subseteq disturbed'
    PROVE  RecordInv' /\ Grows /\ Steady /\ \A j \in Kept : Within(j)
<1>1. RecordInv' /\ Grows
  BY RecordKeeps DEF LineageInv, RecordInv, storeVars, workerVars
<1>2. \A j \in Kept : Within(j)
  BY StillWithin DEF Still, LineageInv, storeVars, workerVars
<1> QED
  BY <1>1, <1>2, KeptWas DEF Steady, Within

\* A step of one thread that puts nothing.
LEMMA ThreadTurns ==
    ASSUME TypeInv, TypeInv', LineageInv,
           UNCHANGED <<storeVars, cache, workerVars, was, disturbed>>,
           NEW t \in Threads, \A u \in Threads : u # t => thread'[u] = thread[u],
           Minds(t)', Builds(t)' => Builds(t) /\ thread'[t].id = thread[t].id,
           \A r \in asked' \ asked : Answered(r)'
    PROVE  LineageInv' /\ Steady
<1>1. RecordInv' /\ Grows /\ Steady /\ \A j \in Kept' : Within(j)
  BY Undisturbed, KeptWas
<1> QED
  BY <1>1, ThreadStep DEF Within

\* A thread begins to make a timeline.
LEMMA ThreadBegins ==
    ASSUME TypeInv, TypeInv', LineageInv,
           UNCHANGED <<storeVars, cache, workerVars, was, asked>>,
                       disturbed \subseteq disturbed',
           NEW t \in Threads, \A u \in Threads : u # t => thread'[u] = thread[u], Minds(t)',
           \A u \in Threads :
                u # t /\ Builds(u) /\ thread[u].id = thread'[t].id => thread'[t].id \notin Kept'
    PROVE  LineageInv' /\ Steady
<1>1. RecordInv' /\ Grows /\ Steady /\ \A j \in Kept' : Within(j)
  BY Undisturbed, KeptWas
<1>2. \A u \in Threads : Minds(u)'
  <2> SUFFICES ASSUME NEW u \in Threads, u # t PROVE Minds(u)'
    OBVIOUS
  <2> QED
    BY <1>1, ThreadKept DEF Within
<1>3. AloneInv'
  <2> SUFFICES ASSUME NEW u \in Threads, NEW v \in Threads, u # v, Builds(u)', Builds(v)',
                      thread'[u].id = thread'[v].id
               PROVE  thread'[u].id \notin Kept'
    BY DEF AloneInv
  <2>1. CASE u # t /\ v # t
    BY <1>1, <2>1, KeptWas DEF AloneInv, LineageInv, Builds
  <2>2. CASE u = t \/ v = t
    BY <2>2 DEF Builds
  <2> QED
    BY <2>1, <2>2
<1> QED
  BY <1>1, <1>2, <1>3, StepLineage DEF Within

\* A request that is put down, because it was refused, failed, or answered.
LEMMA PutDown ==
    ASSUME NEW t \in Threads, thread'[t] = Idle
    PROVE  Minds(t)' /\ ~Builds(t)'
BY DEF Minds, Knows, Builds, Idle

\* A thread that makes nothing.
LEMMA OnlyKnows ==
    ASSUME NEW t \in Threads, ~Builds(t)', Knows(t)' PROVE Minds(t)'
BY DEF Minds

\* An id that nothing was made of, and that nobody makes.
LEMMA NotTaken ==
    ASSUME TypeInv, LineageInv, NEW id \in Ids, NEW world,
           timelines[id] = None \/ timelines[id].world # world \/ world \notin worlds
    PROVE  \/ Taken(id, world)
           \/ /\ timelines[id] = None /\ mem[id] = None /\ Control(id) = None
              /\ \A u \in Threads : Builds(u) => thread[u].id # id
<1> SUFFICES ASSUME ~Taken(id, world)
             PROVE  /\ timelines[id] = None /\ mem[id] = None /\ Control(id) = None
                    /\ \A u \in Threads : Builds(u) => thread[u].id # id
  OBVIOUS
<1>1. timelines[id] = None
  BY DEF Taken, LineageInv, RecordInv
<1>2. mem[id] = None /\ Control(id) = None
  BY <1>1 DEF LineageInv, RecordInv, Control
<1>3. ASSUME NEW u \in Threads, Builds(u), thread[u].id = id PROVE FALSE
  <2>1. thread[u].call \in {"remember", "answer"}
    BY <1>3 DEF Taken, Making, Builds
  <2>2. timelines[id] # None
    BY <1>3, <2>1 DEF LineageInv, ThreadsInv, Minds, Hosted
  <2> QED
    BY <1>1, <2>2
<1> QED
  BY <1>1, <1>2, <1>3

\* What is asked of a thread.
LEMMA AskLineage ==
    ASSUME TypeInv, TypeInv', LineageInv, NEW t \in Threads,
           AskCreate(t) \/ AskFork(t) \/ AskReplay(t) \/ AskRead(t)
    PROVE  LineageInv' /\ Steady
<1>1. UNCHANGED <<storeVars, cache, workerVars, was, asked>>
  BY DEF AskCreate, AskFork, AskReplay, AskRead, history
<1>2. CASE AskCreate(t)
  <2>1. PICK w \in Worlds \ worlds :
          /\ Become(t, [at |-> "calls", kind |-> "create", id |-> Zero,
                        w |-> [tick |-> 0, world |-> w, branch |-> <<>>, inputs |-> <<>>],
                        record |-> [world |-> w, parent |-> None, forkTick |-> 0,
                                    branch |-> <<>>, sealed |-> TRUE, head |-> 0],
                        call |-> "world"])
          /\ disturbed' = IF Taken(Zero, w) THEN disturbed \cup {Zero} ELSE disturbed
    BY <1>2 DEF AskCreate
  <2> DEFINE record == [world |-> w, parent |-> None, forkTick |-> 0, branch |-> <<>>,
                        sealed |-> TRUE, head |-> 0]
             genesis == [tick |-> 0, world |-> w, branch |-> <<>>, inputs |-> <<>>]
             me == [at |-> "calls", kind |-> "create", id |-> Zero, w |-> genesis,
                    record |-> record, call |-> "world"]
  <2>2. thread'[t] = me /\ \A u \in Threads : u # t => thread'[u] = thread[u]
    BY <2>1, Moves
  <2>3. Zero \in Kept' => /\ timelines[Zero] = None /\ mem[Zero] = None /\ Control(Zero) = None
                          /\ \A u \in Threads : Builds(u) => thread[u].id # Zero
    <3>1. Zero \in Kept' => ~Taken(Zero, w)
      BY <2>1 DEF Kept
    <3> QED
      BY <2>1, <3>1, NotTaken, Counts
  <2>4. Knows(t)'
    BY <2>2 DEF Knows, Builds
  <2>5. Hosted(t)'
    BY <2>2 DEF Hosted, IdOf
  <2>6. ASSUME Zero \in Kept' PROVE Started(t)'
    <3>1. timelines'[Zero] = None /\ mem'[Zero] = None /\ Control(Zero)' = None
      BY <1>1, <2>3, <2>6 DEF storeVars, workerVars, Control
    <3> QED
      BY <2>2, <3>1 DEF Started
  <2>7. Minds(t)'
    BY <2>2, <2>4, <2>5, <2>6 DEF Minds
  <2> QED
    BY <1>1, <2>1, <2>2, <2>3, <2>7, ThreadBegins
<1>3. ASSUME NEW record, Become(t, record), record # Idle, record.at \in {"load", "look"},
             timelines[record.id] # None,
             record.at = "load" => record.kind \in {"fork", "replay"},
             record.kind = "fork" => /\ record.parent = timelines[record.id]
                                     /\ record.parent.world \in worlds,
             disturbed' = disturbed
      PROVE  LineageInv' /\ Steady
  <2>1. thread'[t] = record /\ \A u \in Threads : u # t => thread'[u] = thread[u]
    BY <1>3, Moves
  <2>2. ~Builds(t)' /\ Knows(t)'
    BY <1>1, <1>3, <2>1 DEF Knows, Builds, Belongs, storeVars
  <2> QED
    BY <1>1, <1>3, <2>1, <2>2, OnlyKnows, ThreadTurns
<1>4. CASE AskFork(t)
  <2>1. PICK id \in Ids, salt \in Salts :
          /\ timelines[id] # None
          /\ \E tick \in 0..timelines[id].head :
               Become(t, [at |-> "load", kind |-> "fork", id |-> id, tick |-> tick,
                          salt |-> salt, parent |-> timelines[id]])
    BY <1>4 DEF AskFork
  <2>2. PICK tick \in 0..timelines[id].head :
          Become(t, [at |-> "load", kind |-> "fork", id |-> id, tick |-> tick,
                     salt |-> salt, parent |-> timelines[id]])
    BY <2>1
  <2>3. timelines[id].world \in worlds /\ disturbed' = disturbed
    BY <1>4, <2>1 DEF AskFork, history, LineageInv, RecordInv
  <2> QED
    BY <1>3, <2>1, <2>2, <2>3 DEF Idle
<1>5. CASE AskReplay(t)
  <2>1. PICK id \in Ids, tick \in 0..MaxTick :
          /\ timelines[id] # None
          /\ Become(t, [at |-> "load", kind |-> "replay", id |-> id, tick |-> tick])
    BY <1>5 DEF AskReplay
  <2>2. disturbed' = disturbed
    BY <1>5 DEF AskReplay, history
  <2> QED
    BY <1>3, <2>1, <2>2 DEF Idle
<1>6. CASE AskRead(t)
  <2>1. PICK id \in Ids :
          /\ timelines[id] # None
          /\ Become(t, [at |-> "look", kind |-> "read", id |-> id, head |-> timelines[id].head,
                        floor |-> IF live[id] = None THEN 0
                                  ELSE IF live[id].tick < timelines[id].head
                                       THEN live[id].tick ELSE timelines[id].head])
    BY <1>6 DEF AskRead
  <2>2. disturbed' = disturbed
    BY <1>6 DEF AskRead, history
  <2> QED
    BY <1>3, <2>1, <2>2 DEF Idle
<1> QED
  BY <1>2, <1>4, <1>5, <1>6

\* Where a replay starts from is of the timeline, and so is where it arrives.
LEMMA Resimulates ==
    ASSUME TypeInv, NEW id \in Ids, NEW tick \in Ticks, Nearest(id, tick) # None
    PROVE  /\ Nearest(id, tick) \in World
           /\ Resimulated(Nearest(id, tick), tick) \in World
           /\ Resimulated(Nearest(id, tick), tick).tick = tick
<1>1. Nearest(id, tick) \in World
  BY NearestIsLast, Counts DEF TypeInv
<1> HIDE DEF Nearest
<1> QED
  BY <1>1 DEF Resimulated, World

LEMMA ResimulatedBelongs ==
    ASSUME TypeInv, BelongInv, NEW id \in Kept, NEW tick \in Ticks, Nearest(id, tick) # None
    PROVE  /\ Belongs(Nearest(id, tick), id)
           /\ Belongs(Resimulated(Nearest(id, tick), tick), id)
<1>0. id \in Ids
  BY DEF Kept
<1>1. /\ Nearest(id, tick) \in World /\ Nearest(id, tick).tick \in Ticks
      /\ Nearest(id, tick) = snapshots[id][Nearest(id, tick).tick]
  BY <1>0, NearestIsLast, Counts DEF TypeInv
<1> HIDE DEF Nearest
<1>2. Belongs(Nearest(id, tick), id)
  BY <1>1 DEF BelongInv, Lineal
<1> QED
  BY <1>1, <1>2 DEF Belongs, Resimulated, World

\* The steps of a thread that change nothing that is kept.
LEMMA ReplayLineage ==
    ASSUME TypeInv, TypeInv', LineageInv, NEW t \in Threads, Replay(t)
    PROVE  LineageInv' /\ Steady
<1> DEFINE me == thread[t]
           from == Nearest(me.id, me.tick)
           w == Resimulated(from, me.tick)
           published == live[me.id] # None /\ me.tick <= live[me.id].tick
<1>1. UNCHANGED <<storeVars, cache, workerVars, was, asked, disturbed>>
  BY DEF Replay, Reject
<1>2. me \in Requests \cup {Idle} /\ me.at = "load"
  BY ThreadHas DEF Replay
<1>3. /\ me.kind \in {"replay", "fork"} /\ me.id \in Ids /\ me.tick \in Ticks /\ me # Idle
      /\ me.kind = "fork" => me \in ToFork
  BY <1>2, Shapes DEF ToReplay, ToFork
<1>4. /\ timelines[me.id] # None
      /\ me.kind = "fork" => /\ me.parent.world \in worlds
                             /\ me.id \in Kept => Belongs(me.parent, me.id)
  BY <1>2, <1>3 DEF LineageInv, ThreadsInv, Minds, Knows, Builds
<1>5. CASE Reject(t)
  <2>1. thread'[t] = Idle /\ \A u \in Threads : u # t => thread'[u] = thread[u]
    BY <1>5, Moves DEF Reject
  <2> QED
    BY <1>1, <2>1, PutDown, ThreadTurns
<1>6. CASE ~Reject(t)
  <2> DEFINE new == IF me.kind = "fork"
                    THEN [at |-> "name", kind |-> "fork", id |-> me.id, tick |-> me.tick,
                          salt |-> me.salt, parent |-> me.parent, from |-> from.tick, w |-> w,
                          published |-> published]
                    ELSE [at |-> "done", kind |-> "replay", id |-> me.id, tick |-> me.tick,
                          from |-> from.tick, w |-> w, published |-> published]
  <2>1. from # None /\ Become(t, new)
    BY <1>6 DEF Replay
  <2>2. thread'[t] = new /\ \A u \in Threads : u # t => thread'[u] = thread[u]
    BY <2>1, Moves
  <2>3. w.tick = me.tick /\ (me.id \in Kept => Belongs(w, me.id))
    BY <1>3, <2>1, Resimulates, ResimulatedBelongs DEF LineageInv
  <2> HIDE DEF w, from, published
  <2>4. /\ new # Idle /\ new.kind = me.kind /\ new.id = me.id /\ new.w = w
        /\ me.kind = "fork" => new.at = "name" /\ new.parent = me.parent /\ new.tick = me.tick
        /\ me.kind # "fork" => new.at = "done"
    BY <1>3 DEF Idle
  <2> HIDE DEF new
  <2>5. ~Builds(t)'
    BY <1>3, <2>2, <2>4 DEF Builds
  <2>6. /\ timelines' = timelines /\ worlds' = worlds /\ Kept' = Kept
        /\ \A v : Belongs(v, me.id) <=> v.world = timelines[me.id].world
                                        /\ v.branch = timelines[me.id].branch
    BY <1>1 DEF storeVars, Belongs, Kept
  <2>7. Knows(t)'
    BY <1>3, <1>4, <2>2, <2>3, <2>4, <2>5, <2>6 DEF Knows, Belongs
  <2> QED
    BY <1>1, <2>2, <2>5, <2>7, OnlyKnows, ThreadTurns
<1> QED
  BY <1>5, <1>6

LEMMA LookLineage ==
    ASSUME TypeInv, TypeInv', LineageInv, NEW t \in Threads, Look(t)
    PROVE  LineageInv' /\ Steady
<1> DEFINE me == thread[t]
           known == remembered[me.id]
           new == IF Current(known, me.head)
                  THEN [at |-> "done", kind |-> "read", floor |-> me.floor, id |-> me.id,
                        w |-> known, call |-> "remember"]
                  ELSE [me EXCEPT !.at = "fetch"]
<1>1. UNCHANGED <<storeVars, cache, workerVars, was, asked, disturbed>>
  BY DEF Look, history
<1>2. me \in ToRead /\ me.id \in Ids
  BY ThreadHas, Shapes DEF Look, ToRead
<1>3. timelines[me.id] # None
  BY <1>2 DEF LineageInv, ThreadsInv, Minds, Knows, Builds, Idle, ToRead
<1>4. thread'[t] = new /\ \A u \in Threads : u # t => thread'[u] = thread[u]
  BY DEF Look, TypeInv, TypeOK
<1>5. new.kind = "read" /\ new.id = me.id /\ new.at \in {"done", "fetch"} /\ new # Idle
  BY <1>2 DEF ToRead, Idle
<1> HIDE DEF new
<1>6. ~Builds(t)'
  BY <1>4, <1>5 DEF Builds
<1>7. Knows(t)'
  BY <1>1, <1>3, <1>4, <1>5, <1>6 DEF Knows, storeVars
<1> QED
  BY <1>1, <1>4, <1>6, <1>7, OnlyKnows, ThreadTurns

LEMMA FetchLineage ==
    ASSUME TypeInv, TypeInv', LineageInv, NEW t \in Threads, Fetch(t)
    PROVE  LineageInv' /\ Steady
<1> DEFINE me == thread[t]
           new(w, call) == [at |-> "calls", kind |-> "read", floor |-> me.floor,
                            id |-> me.id, w |-> w, call |-> call]
<1>1. UNCHANGED <<storeVars, cache, workerVars, was, asked, disturbed>>
  BY DEF Fetch, history
<1>2. me \in ToRead /\ me.id \in Ids
  BY ThreadHas, Shapes DEF Fetch, ToRead
<1>3. timelines[me.id] # None /\ (me.id \in Kept => Lineal(me.id))
  BY <1>2 DEF LineageInv, BelongInv, ThreadsInv, Minds, Knows, Builds, Idle, ToRead
<1>4. ASSUME NEW w, NEW call, Become(t, new(w, call)), me.id \in Kept => Belongs(w, me.id),
             call # "remember" => live[me.id] # None /\ store.redis
      PROVE  LineageInv' /\ Steady
  <2>1. thread'[t] = new(w, call) /\ \A u \in Threads : u # t => thread'[u] = thread[u]
    BY <1>4, Moves
  <2>2. ~Builds(t)'
    BY <2>1 DEF Builds
  <2>3. Knows(t)'
    BY <1>1, <1>3, <1>4, <2>1 DEF Knows, Builds, Belongs, Kept, storeVars
  <2> QED
    BY <1>1, <2>1, <2>2, <2>3, OnlyKnows, ThreadTurns
<1>5. CASE Become(t, Idle)
  <2>1. thread'[t] = Idle /\ \A u \in Threads : u # t => thread'[u] = thread[u]
    BY <1>5, Moves
  <2> QED
    BY <1>1, <2>1, PutDown, ThreadTurns
<1>6. CASE cache[me.id] # None
  <2>1. me.id \in Kept => Belongs(cache[me.id], me.id)
    BY <1>3, <1>6 DEF Lineal
  <2> QED
    BY <1>4, <1>6, <2>1 DEF Fetch
<1>7. CASE cache[me.id] = None /\ live[me.id] # None
  <2>1. me.id \in Kept => Belongs(live[me.id], me.id)
    BY <1>3, <1>7 DEF Lineal
  <2> QED
    BY <1>4, <1>7, <2>1 DEF Fetch
<1>8. CASE cache[me.id] = None /\ live[me.id] = None /\ Nearest(me.id, MaxTick) # None
  <2>1. me.id \in Kept => Belongs(Nearest(me.id, MaxTick), me.id)
    BY <1>8, ResimulatedBelongs, Counts DEF LineageInv
  <2> QED
    BY <1>4, <1>8, <2>1 DEF Fetch
<1> QED
  BY <1>5, <1>6, <1>7, <1>8 DEF Fetch

\* A world of another branch.
LEMMA Branched ==
    ASSUME NEW w \in World, NEW branch
    PROVE  LET v == [w EXCEPT !.branch = branch]
           IN  v.tick = w.tick /\ v.world = w.world /\ v.inputs = w.inputs /\ v.branch = branch
BY DEF World

\* The child is of its parent, one fork further; where another makes one of this id,
\* or had made it, this is disturbed.
LEMMA NameLineage ==
    ASSUME TypeInv, TypeInv', LineageInv, NEW t \in Threads, Name(t)
    PROVE  LineageInv' /\ Steady
<1> DEFINE me == thread[t]
<1>1. UNCHANGED <<storeVars, cache, workerVars, was, asked>>
  BY DEF Name
<1>2. me \in ToName /\ me.at = "name"
  BY ThreadHas, Shapes DEF Name
<1>3. /\ me.w \in World /\ me.parent \in TimelineRecord /\ me.id \in Ids /\ me.tick \in Ticks
      /\ me.kind = "fork" /\ me # Idle
  BY <1>2 DEF ToName, Idle
<1>4. /\ timelines[me.id] # None /\ me.parent.world \in worlds
      /\ me.id \in Kept => Belongs(me.parent, me.id) /\ Belongs(me.w, me.id) /\ me.w.tick = me.tick
  BY <1>2, <1>3 DEF LineageInv, ThreadsInv, Minds, Knows, Builds
<1>5. PICK k \in Unused(me.parent.world) :
        LET fork == [id |-> ForkIds[k], tick |-> me.tick, salt |-> me.salt]
        IN  /\ Become(t, [at |-> "calls", kind |-> "fork", id |-> fork.id,
                          w |-> [me.w EXCEPT !.branch = Append(@, fork)],
                          record |-> [world |-> me.parent.world, parent |-> me.id,
                                      forkTick |-> me.tick,
                                      branch |-> Append(me.parent.branch, fork),
                                      sealed |-> FALSE, head |-> me.tick],
                          from |-> me.from, old |-> me.w, published |-> me.published,
                          call |-> "timeline"])
            /\ disturbed' = IF Taken(fork.id, me.parent.world) \/ me.id \in disturbed
                            THEN disturbed \cup {fork.id} ELSE disturbed
  BY DEF Name
<1> DEFINE fork == [id |-> ForkIds[k], tick |-> me.tick, salt |-> me.salt]
           w == [me.w EXCEPT !.branch = Append(@, fork)]
           record == [world |-> me.parent.world, parent |-> me.id, forkTick |-> me.tick,
                      branch |-> Append(me.parent.branch, fork), sealed |-> FALSE,
                      head |-> me.tick]
           new == [at |-> "calls", kind |-> "fork", id |-> fork.id, w |-> w, record |-> record,
                   from |-> me.from, old |-> me.w, published |-> me.published,
                   call |-> "timeline"]
<1>6. thread'[t] = new /\ \A u \in Threads : u # t => thread'[u] = thread[u]
  BY <1>5, Moves
<1>7. fork.id \in Ids /\ fork.id # Zero /\ fork \in Fork
  BY <1>2, Counts DEF ToName, Fork, Unused
<1>8. timelines[fork.id] = None \/ timelines[fork.id].world # me.parent.world
  BY <1>5 DEF Unused
<1>9. /\ disturbed \subseteq disturbed'
      /\ fork.id \notin disturbed' => me.id \in Kept /\ ~Taken(fork.id, me.parent.world)
  BY <1>3, <1>5 DEF Kept
<1> HIDE DEF fork
<1>10. fork.id \notin disturbed' =>
         /\ timelines[fork.id] = None /\ mem[fork.id] = None /\ Control(fork.id) = None
         /\ \A u \in Threads : Builds(u) => thread[u].id # fork.id
  BY <1>7, <1>8, <1>9, NotTaken
<1>11. me.parent.branch \in Seq(Fork) /\ me.w.branch \in Seq(Fork)
  BY <1>3 DEF TimelineRecord, World
<1>12. Append(me.parent.branch, fork) # <<>> /\ Last(Append(me.parent.branch, fork)) = fork
  BY <1>7, <1>11 DEF Last
<1>13. w.tick = me.w.tick /\ w.world = me.w.world /\ w.branch = Append(me.w.branch, fork)
  BY <1>3, Branched
<1>14. /\ record.head = me.tick /\ record.forkTick = me.tick /\ record.world = me.parent.world
       /\ record.branch = Append(me.parent.branch, fork) /\ record.parent = me.id
  OBVIOUS
<1>15. IdOf(record) = fork.id
  BY <1>12, <1>14 DEF IdOf
<1> HIDE DEF w, record
<1>16. /\ thread'[t].record = record /\ thread'[t].w = w /\ thread'[t].id = fork.id
       /\ thread'[t].kind = "fork" /\ thread'[t].call = "timeline" /\ thread'[t].old = me.w
       /\ thread'[t].at = "calls"
  BY <1>6
<1> HIDE DEF new, me
<1>17. Knows(t)' /\ Builds(t)'
  BY <1>16 DEF Knows, Builds
<1>18. timelines' = timelines /\ worlds' = worlds
  BY <1>1 DEF storeVars
<1>19. Hosted(t)'
  BY <1>3, <1>4, <1>14, <1>15, <1>16, <1>18 DEF Hosted
<1>20. ASSUME thread'[t].id \in Kept' PROVE Started(t)'
  <2>1. Belongs(me.parent, me.id) /\ Belongs(me.w, me.id) /\ me.w.tick = me.tick
    BY <1>4, <1>9, <1>16, <1>20 DEF Kept
  <2>2. /\ record.head = w.tick /\ record.forkTick = w.tick /\ record.world = w.world
        /\ record.branch = w.branch /\ me.w.tick = record.forkTick
    BY <1>13, <1>14, <2>1 DEF Belongs
  <2>3. me.w.world = timelines'[me.id].world /\ me.w.branch = timelines'[me.id].branch
    BY <1>18, <2>1 DEF Belongs
  <2> DEFINE child == ForkIds[k]
  <2>4. fork.id = child
    BY DEF fork
  <2>5. timelines[child] = None /\ mem[child] = None
    BY <1>10, <1>16, <1>20, <2>4 DEF Kept
  <2>6. timelines'[child] = None /\ mem'[child] = None
    BY <1>1, <2>5 DEF storeVars, workerVars
  <2> HIDE DEF child
  <2>7. Control(child)' = None
    BY <2>6 DEF Control
  <2>8. thread'[t].id = child /\ child # Zero
    BY <1>7, <1>16, <2>4
  <2> QED
    BY <1>14, <1>16, <2>2, <2>3, <2>6, <2>7, <2>8 DEF Started, Belongs
<1>21. Minds(t)'
  BY <1>16, <1>17, <1>19, <1>20 DEF Minds
<1>22. \A u \in Threads :
         u # t /\ Builds(u) /\ thread[u].id = thread'[t].id => thread'[t].id \notin Kept'
  BY <1>10, <1>16 DEF Kept
<1> QED
  BY <1>1, <1>6, <1>9, <1>21, <1>22, ThreadBegins

\* What a thread knows that makes a timeline.
LEMMA Maker ==
    ASSUME TypeInv, LineageInv, NEW t \in Threads, Builds(t)
    PROVE  LET me == thread[t]
           IN  /\ me.at = "calls" /\ me.kind \in {"create", "fork"} /\ me \in Requests
               /\ me.id \in Ids /\ me.w \in World /\ me.record \in TimelineRecord
               /\ me.w # None /\ me.record # None
               /\ me.w.tick \in Ticks /\ me.record.forkTick \in Ticks /\ me.call \in Calls
               /\ me.kind = "create" => me.id = Zero
               /\ Hosted(t) /\ (me.id \in Kept => Started(t))
<1>1. thread[t].at = "calls" /\ thread[t].kind \in {"create", "fork"} /\ thread[t] # Idle
  BY DEF Builds, Idle
<1>2. thread[t] \in Requests
  BY <1>1, ThreadHas
<1>3. Hosted(t) /\ (thread[t].id \in Kept => Started(t))
  BY <1>1 DEF LineageInv, ThreadsInv, Minds, Builds
<1>4. /\ thread[t].id \in Ids /\ thread[t].w \in World /\ thread[t].record \in TimelineRecord
      /\ thread[t].call \in Calls
      /\ thread[t].kind = "create" => thread[t].id = Zero
  BY <1>1, Calling DEF Creating
<1>5. thread[t].w.tick \in Ticks /\ thread[t].record.forkTick \in Ticks
  BY <1>4 DEF World, TimelineRecord
<1> QED
  BY <1>1, <1>2, <1>3, <1>4, <1>5, NoneIsNone

\* What comes after the maker's call.
LEMMA MakerGoes ==
    ASSUME TypeInv, LineageInv, NEW t \in Threads, Builds(t), NEW w \in World, Proceed(t, w)
    PROVE  LET me == thread[t]
               next == thread'[t]
           IN  /\ \A u \in Threads : u # t => thread'[u] = thread[u]
               /\ me.call \in {"remember", "answer"} => next = Idle
               /\ me.call \notin {"remember", "answer"} =>
                    /\ Builds(t)' /\ next.kind = me.kind /\ next.id = me.id
                    /\ next.record = me.record /\ next.w = w
                    /\ next.call = After(me.kind, me.call)
                    /\ me.kind = "fork" => next.old = me.old /\ next.from = me.from
                                           /\ next.published = me.published
<1> DEFINE me == thread[t]
<1>1. me.at = "calls" /\ me.kind \in {"create", "fork"}
  BY DEF Builds
<1>2. (me.kind = "fork" => me \in Forking) /\ (me.kind = "create" => me \in Creating)
  BY <1>1, Calling
<1>3. /\ \A u \in Threads : u # t => thread'[u] = thread[u]
      /\ me.call \notin {"remember", "answer"} =>
           thread'[t] = [me EXCEPT !.w = w, !.call = After(me.kind, me.call)]
      /\ me.call \in {"remember", "answer"} => thread'[t] = Idle
  BY <1>1, Proceeds
<1>4. ASSUME me.call \notin {"remember", "answer"}
      PROVE  /\ Builds(t)' /\ thread'[t].kind = me.kind /\ thread'[t].id = me.id
             /\ thread'[t].record = me.record /\ thread'[t].w = w
             /\ thread'[t].call = After(me.kind, me.call)
             /\ me.kind = "fork" => thread'[t].old = me.old /\ thread'[t].from = me.from
                                    /\ thread'[t].published = me.published
  BY <1>1, <1>2, <1>3, <1>4 DEF Builds, Forking, Creating
<1> QED
  BY <1>3, <1>4

\* Who makes a call that no reader makes makes a timeline.
LEMMA MakerCalls ==
    ASSUME TypeInv, NEW t \in Threads, thread[t].at = "calls",
           thread[t].call \notin {"live", "cache", "remember"}
    PROVE  Builds(t)
BY Calling DEF Builds

\* What a thread has made so far hosts what it makes next.
LEMMA MakerMinds ==
    ASSUME TypeInv, LineageInv, Grows, NEW t \in Threads, Builds(t), Builds(t)',
           thread'[t].id = thread[t].id, thread'[t].kind = thread[t].kind,
           thread'[t].record = thread[t].record,
           thread'[t].call # "world", thread[t].record.world \in worlds',
           thread'[t].call # "timeline" => timelines'[thread[t].id] # None,
           thread[t].id \in Kept' => Started(t)'
    PROVE  Minds(t)'
<1>1. Hosted(t)
  BY Maker
<1>2. Hosted(t)'
  BY <1>1 DEF Hosted, Grows
<1>3. Knows(t)'
  BY DEF Knows, Builds
<1> QED
  BY <1>2, <1>3 DEF Minds

\* put_world, put_timeline and put_control.
LEMMA PutRecordLineage ==
    ASSUME TypeInv, TypeInv', LineageInv, NEW t \in Threads, PutRecord(t)
    PROVE  LineageInv' /\ Steady
<1> DEFINE me == thread[t]
           r == me.record
<1>1. me.at = "calls" /\ Proceed(t, me.w) /\ me.call \in {"world", "timeline", "control"}
      /\ UNCHANGED <<store, snapshots, live, cache, mem, was, asked, disturbed>>
  BY DEF PutRecord, workerVars, history
<1>2. Builds(t)
  BY <1>1, MakerCalls
<1>3. /\ me.kind \in {"create", "fork"} /\ me.id \in Ids /\ me.w \in World /\ r \in TimelineRecord
      /\ me.w.tick \in Ticks /\ r.forkTick \in Ticks /\ r # None
      /\ Hosted(t) /\ (me.id \in Kept => Started(t)) /\ (me.kind = "create" => me.id = Zero)
  BY <1>2, Maker
<1>4. /\ \A u \in Threads : u # t => thread'[u] = thread[u]
      /\ Builds(t)' /\ thread'[t].kind = me.kind /\ thread'[t].id = me.id
      /\ thread'[t].record = r /\ thread'[t].w = me.w /\ thread'[t].call = After(me.kind, me.call)
      /\ me.kind = "fork" => thread'[t].old = me.old
  BY <1>1, <1>2, <1>3, MakerGoes
<1>5. me.id \in Kept =>
        /\ r.head = me.w.tick /\ r.forkTick = me.w.tick
        /\ r.world = me.w.world /\ r.branch = me.w.branch
        /\ me.kind = "fork" =>
             /\ me.id # Zero /\ me.old.tick = r.forkTick
             /\ r.parent \in Kept => Belongs(me.old, r.parent)
        /\ Control(me.id) = None /\ mem[me.id] = None
  BY <1>1, <1>3 DEF Started
<1>6. Kept' = Kept
  BY <1>1 DEF Kept
<1>10. PICK id \in Ids : id = me.id
  BY <1>3
<1>7. CASE me.call = "world" /\ worlds' = worlds \cup {me.w.world} /\ UNCHANGED <<timelines, control>>
  <2>1. RecordInv' /\ Grows
    BY <1>1, <1>7 DEF LineageInv, RecordInv, Grows
  <2>2. \A j \in Kept : Within(j)
    BY <1>1, <1>7, StillWithin DEF Still, LineageInv
  <2>3. thread'[t].call = "timeline" /\ r.world \in worlds' /\ me.kind = "create"
    BY <1>3, <1>4, <1>7 DEF After, Hosted
  <2>4. ASSUME me.id \in Kept PROVE Started(t)'
    <3>1. timelines'[me.id] = None /\ mem'[me.id] = None /\ Control(me.id) = None
      BY <1>1, <1>3, <1>5, <1>7, <2>4 DEF Started
    <3>2. Control(me.id)' = None
      BY <1>1, <1>4, <1>7, <3>1 DEF Control
    <3> QED
      BY <1>4, <1>5, <2>3, <2>4, <3>1, <3>2 DEF Started
  <2>5. Minds(t)'
    BY <1>2, <1>4, <1>6, <2>1, <2>3, <2>4, MakerMinds
  <2> QED
    BY <1>1, <1>2, <1>4, <1>6, <2>1, <2>2, <2>5, ThreadStep DEF Within, Steady
<1>8. CASE me.call = "timeline" /\ PutTimeline(me.id, r) /\ UNCHANGED <<worlds, control>>
  <2>1. r.world \in worlds
    BY <1>3, <1>8 DEF Hosted
  <2>2. \A j \in Ids : j # me.id => timelines'[j] = timelines[j]
    BY <1>8 DEF PutTimeline, TypeInv, TypeOK
  <2>3. timelines'[me.id] # None /\ timelines'[me.id].world \in worlds
    <3>1. CASE store.postgres /\ timelines[me.id] # None
      <4>1. timelines[me.id] \in TimelineRecord /\ timelines[me.id].world \in worlds
        BY <1>3, <3>1 DEF TypeInv, TypeOK, LineageInv, RecordInv
      <4>2. timelines'[me.id] = [timelines[me.id] EXCEPT !.sealed = r.sealed,
                                      !.head = Later(timelines[me.id].head, r.head)]
        BY <1>3, <1>8, <3>1 DEF PutTimeline, TypeInv, TypeOK
      <4>3. timelines'[me.id] \in TimelineRecord
        <5>1. Later(timelines[me.id].head, r.head) \in Ticks
          BY <1>3, <4>1 DEF Later, TimelineRecord
        <5> QED
          BY <1>3, <4>1, <4>2, <5>1 DEF TimelineRecord
      <4> QED
        BY <4>1, <4>2, <4>3, NoneIsNone DEF TimelineRecord
    <3>2. CASE ~(store.postgres /\ timelines[me.id] # None)
      BY <1>3, <1>8, <2>1, <3>2 DEF PutTimeline, TypeInv, TypeOK
    <3> QED
      BY <3>1, <3>2
  <2>4. RecordInv' /\ Grows
    BY <1>1, <1>8, <2>2, <2>3 DEF LineageInv, RecordInv, Grows
  <2>5. \A j \in Kept : j # me.id => Within(j)
    BY <1>1, <1>8, <2>2, StillWithin DEF Still, LineageInv, Kept
  <2>6. thread'[t].call = "snapshot"
    BY <1>4, <1>8 DEF After
  <2>7. ASSUME me.id \in Kept
        PROVE  NothingLost(me.id) /\ Lineal(id)' /\ Started(t)'
    <3>1. timelines[me.id] = None /\ Blank(me.id)
      BY <1>3, <1>8, <2>7 DEF Started, LineageInv, BelongInv, Lineal
    <3>2. timelines'[me.id] = r
      BY <1>3, <1>8, <3>1 DEF PutTimeline, TypeInv, TypeOK
    <3>3. NothingLost(me.id)
      BY <1>1, <3>1 DEF NothingLost, RecordKept, Blank, Control
    <3>4. Blank(me.id)'
      BY <1>1, <1>4, <1>8, <3>1 DEF Blank
    <3>5. Lineal(id)'
      BY <1>1, <1>10, <2>3, <3>1 DEF Lineal, Blank
    <3>6. [timelines'[me.id] EXCEPT !.head = r.head] = r
      BY <1>3, <3>2 DEF TimelineRecord
    <3>7. Control(me.id)' = None
      <4>1. r.world \in Worlds
        BY <1>3 DEF TimelineRecord
      <4>2. control'[r.world][me.id] = None
        BY <1>8, <3>1, <4>1 DEF Blank
      <4> QED
        BY <1>4, <3>2, <4>2 DEF Control
    <3>8. me.kind = "fork" /\ r.parent \in Kept =>
            /\ me.old.world = timelines'[r.parent].world
            /\ me.old.branch = timelines'[r.parent].branch
      <4>1. me.kind = "fork" => r.parent \in Ids /\ timelines[r.parent] # None
        BY <1>3 DEF Hosted
      <4> QED
        BY <1>5, <2>2, <2>7, <3>1, <4>1 DEF Belongs
    <3>9. mem'[me.id] = None
      BY <1>1, <3>1 DEF Blank
    <3>10. Started(t)'
      BY <1>4, <1>5, <1>6, <2>3, <2>6, <2>7, <3>4, <3>6, <3>7, <3>8, <3>9 DEF Started,
         Belongs
    <3> QED
      BY <3>3, <3>5, <3>10
  <2>8. Minds(t)'
    BY <1>2, <1>4, <1>6, <1>8, <2>1, <2>3, <2>4, <2>6, <2>7, MakerMinds
  <2>9. \A j \in Kept : /\ NothingLost(j) /\ Lineal(j)'
                        /\ LeftAlone(j) \/ (Builds(t) /\ thread[t].id = j)
    BY <1>2, <1>10, <2>5, <2>7 DEF Within
  <2> QED
    BY <1>1, <1>2, <1>4, <1>6, <2>4, <2>8, <2>9, ThreadStep DEF Steady
<1>9. CASE /\ me.call = "control"
           /\ control' = [control EXCEPT ![r.world][me.id] = [running |-> FALSE, scenario |-> FALSE]]
           /\ UNCHANGED <<worlds, timelines>>
  <2>1. r.world \in worlds /\ timelines[me.id] # None /\ r.world \in Worlds
    BY <1>3, <1>9 DEF Hosted, TimelineRecord
  <2>2. RecordInv' /\ Grows
    BY <1>1, <1>9 DEF LineageInv, RecordInv, Grows
  <2>3. /\ control'[r.world][me.id] # None
        /\ \A j \in Ids \ {me.id}, w \in Worlds : control'[w][j] = control[w][j]
    <3>1. [running |-> FALSE, scenario |-> FALSE] \in Controls
      BY DEF Controls
    <3>2. /\ control'[r.world][me.id] = [running |-> FALSE, scenario |-> FALSE]
          /\ \A j \in Ids \ {me.id}, w \in Worlds : control'[w][j] = control[w][j]
      <4>1. control \in [Worlds -> [Ids -> Controls \cup {None}]]
        BY DEF TypeInv, TypeOK
      <4> HIDE DEF me, r
      <4> QED
        BY <1>3, <1>9, <2>1, <4>1
    <3> QED
      BY <3>1, <3>2, NoneIsNone
  <2>4. \A j \in Kept : j # me.id => Within(j)
    BY <1>1, <1>9, <2>3, StillWithin DEF Still, LineageInv, Kept
  <2>5. thread'[t].call = IF me.kind = "create" THEN "remember" ELSE "answer"
    BY <1>3, <1>4, <1>9 DEF After
  <2>6. ASSUME me.id \in Kept
        PROVE  NothingLost(me.id) /\ Lineal(id)' /\ Started(t)'
    <3>1. /\ live[me.id] # None /\ [timelines[me.id] EXCEPT !.head = r.head] = r
          /\ snapshots[me.id][r.forkTick] # None
      BY <1>3, <1>9, <2>6 DEF Started
    <3>2. timelines[me.id].world = r.world
      BY <1>3, <2>1, <3>1, RecordMatches
    <3>3. timelines'[me.id] = timelines[me.id]
      BY <1>9
    <3>4. Control(me.id)' # None
      BY <1>4, <2>1, <2>3, <3>2, <3>3 DEF Control
    <3>5. NothingLost(me.id)
      BY <1>1, <1>9, <3>4 DEF NothingLost, RecordKept
    <3>6. Lineal(id)'
      <4>1. Lineal(id)
        BY <1>10, <2>6 DEF LineageInv, BelongInv
      <4> QED
        BY <1>1, <1>9, <1>10, <2>1, <4>1 DEF Lineal, Belongs
    <3>7. me.kind = "fork" /\ r.parent \in Kept =>
            me.old.world = timelines'[r.parent].world /\ me.old.branch = timelines'[r.parent].branch
      BY <1>5, <1>9, <2>6 DEF Belongs
    <3>8. thread'[t].call \in {"remember", "answer"}
          /\ (me.kind = "create" => thread'[t].call = "remember")
          /\ (me.kind = "fork" => thread'[t].call = "answer")
      BY <1>3, <2>5
    <3>9. live'[me.id] # None /\ snapshots'[me.id][r.forkTick] # None
          /\ timelines'[me.id] # None /\ [timelines'[me.id] EXCEPT !.head = r.head] = r
          /\ thread'[t].id = me.id /\ thread'[t].record = r
      BY <1>1, <1>4, <1>9, <2>1, <3>1
    <3>10. Control(thread[t].id)' # None
      BY <1>4, <3>4
    <3>11. Started(t)'
      BY <1>4, <1>5, <1>6, <2>6, <3>7, <3>8, <3>9, <3>10 DEF Started, Belongs
    <3> QED
      BY <3>5, <3>6, <3>11
  <2>7. Minds(t)'
    BY <1>2, <1>3, <1>4, <1>6, <1>9, <2>1, <2>2, <2>5, <2>6, MakerMinds
  <2>8. \A j \in Kept : /\ NothingLost(j) /\ Lineal(j)'
                        /\ LeftAlone(j) \/ (Builds(t) /\ thread[t].id = j)
    BY <1>2, <1>10, <2>4, <2>6 DEF Within
  <2> QED
    BY <1>1, <1>2, <1>4, <1>6, <2>2, <2>7, <2>8, ThreadStep DEF Steady
<1> QED
  BY <1>7, <1>8, <1>9 DEF PutRecord

\* The first snapshot of a new timeline.
LEMMA PutSnapshotLineage ==
    ASSUME TypeInv, TypeInv', LineageInv, NEW t \in Threads, PutSnapshot(t)
    PROVE  LineageInv' /\ Steady
<1> DEFINE me == thread[t]
           r == me.record
<1>1. me.at = "calls" /\ me.call = "snapshot" /\ UNCHANGED <<workerVars, mem, disturbed>>
  BY DEF PutSnapshot, workerVars
<1>2. Builds(t)
  BY <1>1, MakerCalls
<1>3. /\ me.kind \in {"create", "fork"} /\ me.id \in Ids /\ me.w \in World /\ r \in TimelineRecord
      /\ me.w.tick \in Ticks /\ r.forkTick \in Ticks /\ r # None /\ me.w # None
      /\ Hosted(t) /\ (me.id \in Kept => Started(t))
  BY <1>2, Maker
<1>4. CASE Refused(me.id, me.w)
  <2>1. Reject(t) /\ UNCHANGED was
    BY <1>4 DEF PutSnapshot
  <2>2. thread'[t] = Idle /\ \A u \in Threads : u # t => thread'[u] = thread[u]
    BY <2>1, Moves DEF Reject
  <2> QED
    BY <1>1, <2>1, <2>2, PutDown, ThreadTurns DEF Reject
<1>5. CASE ~Refused(me.id, me.w)
  <2>1. /\ WriteSnapshot(me.id, me.w) /\ Proceed(t, me.w)
        /\ was' = [was EXCEPT ![me.id] = @ \cup {me.w}]
        /\ UNCHANGED <<store, worlds, live, control, cache, asked>>
    BY <1>5 DEF PutSnapshot
  <2>2. /\ \A u \in Threads : u # t => thread'[u] = thread[u]
        /\ Builds(t)' /\ thread'[t].kind = me.kind /\ thread'[t].id = me.id
        /\ thread'[t].record = r /\ thread'[t].w = me.w /\ thread'[t].call = After(me.kind, me.call)
        /\ me.kind = "fork" => thread'[t].old = me.old
    BY <1>1, <1>2, <1>3, <2>1, MakerGoes
  <2>3. PICK id \in Ids : id = me.id
    BY <1>3
  <2>4. \A j \in Ids, k \in Ticks :
          snapshots'[j][k] = IF j = id /\ k = me.w.tick THEN me.w ELSE snapshots[j][k]
    BY <1>3, <2>1, <2>3, Written DEF TypeInv
  <2>5. \A j \in Ids : /\ was'[j] = IF j = id THEN was[j] \cup {me.w} ELSE was[j]
                       /\ j # id => snapshots'[j] = snapshots[j]
    BY <2>1, <2>3 DEF WriteSnapshot, TypeInv, TypeOK
  <2>6. timelines' = Bumped(timelines, id, me.w.tick)
    BY <2>1, <2>3 DEF WriteSnapshot
  <2>7. \A j \in Ids : /\ RecordKept(j) /\ (timelines[j] = None => timelines'[j] = None)
                       /\ (j # id => timelines'[j] = timelines[j])
    BY <1>3, <2>6, BumpKeeps
  <2>8. RecordInv' /\ Grows
    BY <1>1, <1>3, <2>1, <2>6, RecordKeeps DEF LineageInv, RecordInv
  <2>9. \A j \in Kept : j # id => Within(j)
    BY <1>1, <2>1, <2>5, <2>7, StillWithin DEF Still, LineageInv, Kept
  <2>10. timelines[id] # None /\ r.world \in worlds'
    BY <1>1, <2>1, <1>3, <2>3 DEF Hosted
  <2>11. thread'[t].call \in {"live", "reread"} /\ (me.kind = "create" => thread'[t].call = "live")
    BY <1>1, <1>3, <2>2 DEF After
  <2>12. ASSUME id \in Kept PROVE NothingLost(id) /\ Lineal(id)' /\ Started(t)'
    <3>1. /\ r.head = me.w.tick /\ r.forkTick = me.w.tick
          /\ r.world = me.w.world /\ r.branch = me.w.branch
          /\ me.kind = "fork" =>
               /\ me.id # Zero /\ me.old.tick = r.forkTick
               /\ r.parent \in Kept => Belongs(me.old, r.parent)
          /\ Control(id) = None /\ Blank(id) /\ mem[id] = None
          /\ [timelines[id] EXCEPT !.head = r.head] = r
      BY <1>1, <1>3, <2>3, <2>12 DEF Started
    <3>2. Control(id)' = Control(id)
      BY <2>1, <2>7, SameControl
    <3>3. NothingLost(id)
      BY <1>3, <2>1, <2>4, <2>7, <3>2 DEF NothingLost
    <3>4. timelines'[id] # None /\ [timelines'[id] EXCEPT !.head = r.head] = r
      BY <1>3, <2>7, <2>10, <3>1, RecordsKept
    <3>5. Belongs(me.w, id)
      BY <1>3, <2>10, <3>1, RecordMatches DEF Belongs
    <3>6. was'[id] = {me.w} /\ live'[id] = None /\ cache'[id] = None /\ mem'[id] = None
          /\ \A k \in Ticks : snapshots'[id][k] # None => snapshots'[id][k] = me.w
      BY <1>1, <2>1, <2>4, <2>5, <3>1 DEF Blank
    <3>7. Lineal(id)'
      BY <2>7, <2>10, <3>5, <3>6, LinealKept
    <3>8. me.kind = "fork" /\ r.parent \in Kept =>
            /\ me.old.world = timelines'[r.parent].world
            /\ me.old.branch = timelines'[r.parent].branch
      <4>1. me.kind = "fork" => r.parent \in Ids /\ timelines[r.parent] # None
        BY <1>3 DEF Hosted
      <4> QED
        BY <2>7, <3>1, <4>1 DEF Belongs, RecordKept
    <3>9. snapshots'[id][me.w.tick] = me.w /\ Control(id)' = None
      BY <1>3, <2>4, <3>1, <3>2
    <3>10. thread'[t].id = id /\ Kept' = Kept
      BY <1>1, <2>2, <2>3 DEF Kept
    <3>11. Started(t)'
      BY <1>3, <2>2, <2>11, <3>1, <3>4, <3>6, <3>8, <3>9, <3>10 DEF Started, Belongs
    <3> QED
      BY <3>3, <3>7, <3>11
  <2>13. Minds(t)'
    BY <1>2, <2>2, <2>3, <2>7, <2>8, <2>10, <2>11, <2>12, KeptWas, MakerMinds
       DEF RecordKept
  <2>14. \A j \in Kept : /\ NothingLost(j) /\ Lineal(j)'
                         /\ LeftAlone(j) \/ (Builds(t) /\ thread[t].id = j)
    BY <1>2, <2>3, <2>9, <2>12 DEF Within
  <2> QED
    BY <1>2, <2>1, <2>2, <2>8, <2>13, <2>14, KeptWas, ThreadStep DEF Steady
<1> QED
  BY <1>4, <1>5

\* A fork reads back what it has just written.
LEMMA Rereads ==
    ASSUME TypeInv, LineageInv, NEW t \in Threads, Reread(t)
    PROVE  /\ Builds(t)
           /\ thread[t].id \in Kept =>
                thread[t].kind = "fork" /\ Proceed(t, thread[t].w)
<1>1. thread[t].at = "calls" /\ thread[t].call = "reread"
  BY DEF Reread
<1>2. Builds(t)
  BY <1>1, MakerCalls
<1>3. thread[t].kind \in {"create", "fork"} /\ thread[t].w # None
      /\ (thread[t].id \in Kept => Started(t))
  BY <1>2, Maker
<1>4. thread[t].id \in Kept =>
        thread[t].kind = "fork" /\ snapshots[thread[t].id][thread[t].w.tick] = thread[t].w
  BY <1>1, <1>3 DEF Started
<1> QED
  BY <1>2, <1>3, <1>4 DEF Reread

LEMMA RereadLineage ==
    ASSUME TypeInv, TypeInv', LineageInv, NEW t \in Threads, Reread(t)
    PROVE  LineageInv' /\ Steady
<1> DEFINE me == thread[t]
           r == me.record
<1>1. me.at = "calls" /\ me.call = "reread"
      /\ UNCHANGED <<storeVars, cache, workerVars, was, asked, disturbed>>
  BY DEF Reread, history
<1>2. Builds(t)
  BY Rereads
<1>3. /\ me.kind \in {"create", "fork"} /\ me.id \in Ids /\ me.w \in World /\ me.w # None
      /\ me.w.tick \in Ticks /\ Hosted(t) /\ (me.id \in Kept => Started(t))
  BY <1>2, Maker
<1>4. /\ \A u \in Threads : u # t => thread'[u] = thread[u]
      /\ Builds(t)' /\ thread'[t].kind = me.kind /\ thread'[t].id = me.id
      /\ thread'[t].record = r /\ thread'[t].call \in {"live", "control"}
  <2> DEFINE w == snapshots[me.id][me.w.tick]
  <2>1. CASE w # None
    <3>1. w \in World /\ Proceed(t, w)
      BY <1>3, <2>1 DEF Reread, TypeInv, TypeOK
    <3> HIDE DEF w
    <3> QED
      BY <1>1, <1>2, <1>3, <3>1, MakerGoes DEF After
  <2>2. CASE w = None
    <3>1. /\ \A u \in Threads : u # t => thread'[u] = thread[u]
          /\ thread'[t] = [me EXCEPT !.call = "control"]
      BY <2>2, Moves DEF Reread
    <3>2. (me.kind = "fork" => me \in Forking) /\ (me.kind = "create" => me \in Creating)
      BY <1>1, Calling
    <3> QED
      BY <1>1, <1>3, <3>1, <3>2 DEF Builds, Forking, Creating
  <2> QED
    BY <2>1, <2>2
<1>5. ASSUME me.id \in Kept PROVE Started(t)'
  <2>1. Proceed(t, me.w) /\ me.kind = "fork"
    BY <1>5, Rereads
  <2>2. thread'[t].w = me.w /\ thread'[t].old = me.old /\ thread'[t].call = "live"
    BY <1>1, <1>2, <1>3, <2>1, MakerGoes DEF After
  <2>3. Control(me.id) = None
    BY <1>1, <1>3, <1>5 DEF Started
  <2>4. Control(thread[t].id)' = None
    BY <1>1, <1>4, <2>3 DEF Control, storeVars
  <2> QED
    BY <1>1, <1>3, <1>4, <1>5, <2>1, <2>2, <2>4
       DEF Started, Belongs, Kept, storeVars, workerVars
<1>6. Grows
  BY <1>1, Undisturbed
<1>7. Minds(t)'
  <2>1. me.record.world \in worlds' /\ timelines'[me.id] # None
    BY <1>1, <1>3 DEF Hosted, storeVars
  <2> QED
    BY <1>2, <1>4, <1>5, <1>6, <2>1, KeptWas, MakerMinds
<1> QED
  BY <1>1, <1>2, <1>4, <1>7, ThreadTurns

\* The live state of a new timeline, or of what a reader found behind the cache.
LEMMA PutLiveLineage ==
    ASSUME TypeInv, TypeInv', LineageInv, NEW t \in Threads, PutLive(t)
    PROVE  LineageInv' /\ Steady
<1> DEFINE me == thread[t]
           r == me.record
<1>1. /\ me.at = "calls" /\ Proceed(t, me.w) /\ UNCHANGED <<mem, was, asked, disturbed>>
      /\ \/ me.call = "live" /\ StoreLive(me.id, me.w)
         \/ me.call = "cache" /\ SetCache(me.id, me.w)
  BY DEF PutLive, workerVars, history
<1>2. /\ me.kind \in {"create", "fork", "read"} /\ me.w \in World /\ me # Idle
      /\ me.kind = "read" => me \in Reading
  BY <1>1, Calling DEF Idle
<1>3. PICK id \in Ids : id = me.id
  BY <1>1, Calling
<1>4. Kept' = Kept
  BY <1>1 DEF Kept
<1>5. /\ timelines[id] # None /\ (id \in Kept => Belongs(me.w, id))
      /\ me.kind = "read" => ~Builds(t) /\ (id \in Kept => live[id] # None /\ store.redis)
      /\ me.kind # "read" => /\ Builds(t) /\ Hosted(t) /\ (id \in Kept => Started(t))
                             /\ r \in TimelineRecord /\ r.forkTick \in Ticks
  <2>1. CASE me.kind = "read"
    <3>1. Knows(t) /\ ~Builds(t)
      BY <2>1 DEF LineageInv, ThreadsInv, Minds, Builds
    <3> QED
      BY <1>1, <1>2, <1>3, <2>1, <3>1 DEF Knows
  <2>2. CASE me.kind # "read"
    <3>1. Builds(t)
      BY <1>1, <1>2, <2>2 DEF Builds
    <3>2. /\ Hosted(t) /\ (id \in Kept => Started(t)) /\ r \in TimelineRecord
          /\ r.forkTick \in Ticks
      BY <1>3, <3>1, Maker
    <3>3. timelines[id] # None
      BY <1>1, <1>3, <3>2 DEF Hosted
    <3>4. ASSUME id \in Kept PROVE Belongs(me.w, id)
      <4>1. /\ [timelines[id] EXCEPT !.head = r.head] = r
            /\ r.world = me.w.world /\ r.branch = me.w.branch
        BY <1>1, <1>3, <3>2, <3>4 DEF Started
      <4> QED
        BY <3>2, <3>3, <4>1, RecordMatches DEF Belongs
    <3> QED
      BY <2>2, <3>1, <3>2, <3>3, <3>4
  <2> QED
    BY <2>1, <2>2
<1>6. StoreLive(id, me.w) \/ SetCache(id, me.w)
  BY <1>1, <1>3
<1>7. /\ RecordInv' /\ Grows
      /\ \A j \in Kept : NothingLost(j) /\ Lineal(j)' /\ (j # id => Within(j))
      /\ id \in Kept /\ live[id] # None => Within(id)
  BY <1>1, <1>2, <1>5, <1>6, LiveWithin
<1>8. \A j \in Kept' : LeftAlone(j) \/ (Builds(t) /\ thread[t].id = j)
  BY <1>2, <1>3, <1>4, <1>5, <1>7 DEF Within
<1>9. CASE me.kind = "read"
  <2>1. /\ \A u \in Threads : u # t => thread'[u] = thread[u]
        /\ thread'[t] = [me EXCEPT !.w = me.w, !.call = After(me.kind, me.call)]
    BY <1>1, <1>2, Proceeds
  <2>2. me.at = "calls" /\ (me.call = "cache" => store.redis)
    BY <1>1 DEF TypeInv, TypeOK
  <2>3. After(me.kind, me.call) = IF me.call = "live" /\ store.redis THEN "cache" ELSE "remember"
    BY <1>1, <1>9 DEF After
  <2>4. /\ thread'[t].at = "calls" /\ thread'[t].kind = "read" /\ thread'[t].id = id
        /\ thread'[t].w = me.w /\ thread'[t] # Idle
        /\ thread'[t].call = IF me.call = "live" /\ store.redis THEN "cache" ELSE "remember"
    BY <1>1, <1>2, <1>3, <1>9, <2>1, <2>3 DEF Reading, Idle
  <2>5. ~Builds(t)'
    BY <2>4 DEF Builds
  <2>6. timelines'[id] # None /\ (id \in Kept => Belongs(me.w, id) /\ RecordKept(id) /\ live'[id] # None
        /\ store.redis /\ store' = store)
    BY <1>5, <1>7, <1>9 DEF Grows, NothingLost
  <2>7. Knows(t)'
    BY <1>4, <1>5, <2>4, <2>5, <2>6 DEF Knows, Belongs, RecordKept
  <2> QED
    BY <1>1, <1>4, <1>7, <1>8, <2>1, <2>5, <2>7, OnlyKnows, ThreadStep DEF Steady
<1>10. CASE me.kind # "read"
  <2>1. /\ \A u \in Threads : u # t => thread'[u] = thread[u]
        /\ Builds(t)' /\ thread'[t].kind = me.kind /\ thread'[t].id = id
        /\ thread'[t].record = r /\ thread'[t].w = me.w /\ thread'[t].call = After(me.kind, me.call)
        /\ me.kind = "fork" => thread'[t].old = me.old
    BY <1>1, <1>2, <1>3, <1>5, <1>10, MakerGoes
  <2>2. thread'[t].call \in {"cache", "control"}
    BY <1>1, <1>2, <1>10, <2>1 DEF After
  <2>3. ASSUME id \in Kept PROVE Started(t)'
    <3>1. /\ r.head = me.w.tick /\ r.forkTick = me.w.tick
          /\ r.world = me.w.world /\ r.branch = me.w.branch
          /\ me.kind = "fork" =>
               /\ me.id # Zero /\ me.old.tick = r.forkTick
               /\ r.parent \in Kept => Belongs(me.old, r.parent)
          /\ Control(id) = None /\ mem[id] = None
          /\ [timelines[id] EXCEPT !.head = r.head] = r
          /\ snapshots[id][r.forkTick] # None
          /\ (me.call = "cache" => live[id] # None)
      BY <1>1, <1>3, <1>5, <1>10, <2>3 DEF Started
    <3>2. NothingLost(id) /\ RecordKept(id)
      BY <1>7, <2>3 DEF NothingLost
    <3>3. timelines'[id] # None /\ [timelines'[id] EXCEPT !.head = r.head] = r
      BY <1>5, <1>10, <3>1, <3>2, RecordsKept
    <3>4. Control(id)' = None
      <4>1. control' = control
        BY <1>6 DEF StoreLive, SetCache, storeVars
      <4> QED
        BY <1>5, <3>1, <3>2, <4>1, SameControl
    <3>5. live'[id] # None
      <4>1. CASE me.call = "live"
        <5>1. live' = [live EXCEPT ![id] = me.w] /\ me.w # None
          BY <1>1, <1>2, <1>3, <4>1, NoneIsNone DEF StoreLive
        <5> QED
          BY <5>1 DEF TypeInv, TypeOK
      <4>2. CASE me.call # "live"
        BY <1>1, <3>1, <3>2, <4>2 DEF NothingLost
      <4> QED
        BY <4>1, <4>2
    <3>6. snapshots'[id][r.forkTick] # None /\ mem'[id] = None
      BY <1>1, <1>5, <1>10, <3>1, <3>2 DEF NothingLost
    <3>7. me.kind = "fork" /\ r.parent \in Kept =>
            /\ me.old.world = timelines'[r.parent].world
            /\ me.old.branch = timelines'[r.parent].branch
      <4>1. me.kind = "fork" => r.parent \in Ids /\ timelines[r.parent] # None
        BY <1>5, <1>10 DEF Hosted
      <4>2. r.parent \in Kept => RecordKept(r.parent)
        BY <1>7 DEF NothingLost
      <4> QED
        BY <3>1, <4>1, <4>2 DEF Belongs, RecordKept
    <3> QED
      BY <1>3, <1>4, <2>1, <2>2, <3>1, <3>3, <3>4, <3>5, <3>6, <3>7 DEF Started, Belongs
  <2>4. Minds(t)'
    <3>1. timelines'[id] # None /\ me.record.world \in worlds'
      BY <1>1, <1>5, <1>7, <1>10 DEF Hosted, Grows
    <3> QED
      BY <1>3, <1>4, <1>5, <1>7, <1>10, <2>1, <2>2, <2>3, <3>1, MakerMinds
  <2> QED
    BY <1>1, <1>3, <1>4, <1>5, <1>7, <1>8, <1>10, <2>1, <2>4, ThreadStep DEF Steady
<1> QED
  BY <1>9, <1>10

\* The answer: what is answered of a fork is on record.
LEMMA AnswerLineage ==
    ASSUME TypeInv, TypeInv', LineageInv, NEW t \in Threads, Answer(t)
    PROVE  LineageInv' /\ Steady
<1> DEFINE me == thread[t]
           r == me.record
<1>1. me.at = "calls" /\ Proceed(t, me.w) /\ me.call \in {"remember", "answer"}
      /\ UNCHANGED <<storeVars, cache, workerVars, was, disturbed>>
      /\ asked' = IF me.kind = "read" THEN asked ELSE asked \cup {r}
  BY DEF Answer
<1>2. me.kind \in {"create", "fork", "read"} /\ me.id \in Ids /\ me.w \in World
      /\ (me.kind = "read" => me \in Reading /\ me.call = "remember")
  BY <1>1, Calling
<1>3. CASE me.kind = "read"
  <2>1. Knows(t) /\ ~Builds(t) /\ me # Idle
    BY <1>1, <1>3 DEF LineageInv, ThreadsInv, Minds, Builds, Idle
  <2>2. timelines[me.id] # None
    BY <2>1 DEF Knows
  <2>3. /\ \A u \in Threads : u # t => thread'[u] = thread[u]
        /\ thread'[t] = [me EXCEPT !.at = "done"]
    BY <1>1, <1>2, <1>3, Proceeds
  <2>4. thread'[t].at = "done" /\ thread'[t].kind = "read" /\ thread'[t].id = me.id
        /\ thread'[t] # Idle
    BY <1>2, <1>3, <2>3 DEF Reading, Idle
  <2>5. ~Builds(t)'
    BY <2>4 DEF Builds
  <2>6. Knows(t)'
    BY <1>1, <2>2, <2>4 DEF Knows, Builds, storeVars
  <2> QED
    BY <1>1, <1>3, <2>3, <2>5, <2>6, OnlyKnows, ThreadTurns
<1>4. CASE me.kind # "read"
  <2>1. Builds(t)
    BY <1>1, <1>2, <1>4 DEF Builds
  <2>2. Hosted(t) /\ (me.id \in Kept => Started(t))
    BY <2>1, Maker
  <2>3. /\ \A u \in Threads : u # t => thread'[u] = thread[u]
        /\ thread'[t] = Idle
    BY <1>1, <1>2, <2>1, MakerGoes
  <2>4. PICK q : q = r
    OBVIOUS
  <2>5. Answered(q)'
    <3>1. PICK id \in Ids : id = me.id
      BY <1>2
    <3>2. IdOf(q) = id
      BY <2>2, <2>4, <3>1 DEF Hosted
    <3> SUFFICES ASSUME id \in Kept'
                 PROVE  /\ timelines'[id] # None /\ [timelines'[id] EXCEPT !.head = q.head] = q
                        /\ snapshots'[id][q.forkTick] # None
                        /\ live'[id] # None /\ Control(id)' # None
      BY <3>2 DEF Answered, IdOf
    <3>3. id \in Kept
      BY <1>1 DEF Kept
    <3>4. /\ timelines[id] # None /\ [timelines[id] EXCEPT !.head = q.head] = q
          /\ snapshots[id][q.forkTick] # None
          /\ live[id] # None /\ Control(id) # None
      BY <1>1, <2>2, <2>4, <3>1, <3>3 DEF Started
    <3> QED
      BY <1>1, <3>4 DEF storeVars, Control
  <2>6. \A s \in asked' \ asked : Answered(s)'
    BY <1>1, <1>4, <2>4, <2>5
  <2> QED
    BY <1>1, <2>3, <2>6, PutDown, ThreadTurns
<1> QED
  BY <1>3, <1>4

LEMMA LineageInit == Init => LineageInv
<1> SUFFICES ASSUME Init PROVE LineageInv
  OBVIOUS
<1>1. RecordInv /\ BelongInv /\ AskedInv
  BY DEF Init, RecordInv, BelongInv, Lineal, AskedInv, Blank, Kept
<1>2. ThreadsInv /\ AloneInv
  BY DEF Init, ThreadsInv, AloneInv, Minds, Knows, Builds, Idle
<1> QED
  BY <1>1, <1>2 DEF LineageInv

LEMMA RestartLineage ==
    ASSUME TypeInv, TypeInv', LineageInv, ApiRestart
    PROVE  LineageInv' /\ Steady
<1>1. UNCHANGED <<storeVars, cache, workerVars, was, asked, disturbed>>
      /\ thread' = [t \in Threads |-> Idle]
  BY DEF ApiRestart, history
<1>2. RecordInv' /\ Grows /\ Steady /\ \A j \in Kept' : Within(j)
  BY <1>1, Undisturbed, KeptWas
<1>3. \A t \in Threads : Minds(t)' /\ ~Builds(t)'
  BY <1>1, PutDown
<1>4. AloneInv'
  BY <1>3 DEF AloneInv
<1> QED
  BY <1>1, <1>2, <1>3, <1>4, StepLineage DEF Within

LEMMA LineageNext ==
    ASSUME TypeInv, TypeInv', LineageInv, [Next]_vars
    PROVE  LineageInv' /\ Steady
<1>1. ASSUME NEW t \in Threads, AskCreate(t) \/ AskFork(t) \/ AskReplay(t) \/ AskRead(t)
      PROVE  LineageInv' /\ Steady
  BY <1>1, AskLineage
<1>2. ASSUME NEW t \in Threads, Serving(t) PROVE LineageInv' /\ Steady
  BY <1>2, ReplayLineage, NameLineage, LookLineage, FetchLineage, PutRecordLineage,
     PutSnapshotLineage, RereadLineage, PutLiveLineage, AnswerLineage DEF Serving
<1>3. CASE UNCHANGED vars
  <2>1. UNCHANGED <<storeVars, cache, workerVars, was, asked, disturbed, thread>>
    BY <1>3 DEF vars, apiVars, history
  <2>2. RecordInv' /\ Grows /\ Steady /\ \A j \in Kept' : Within(j)
    BY <2>1, Undisturbed, KeptWas
  <2> QED
    BY <2>1, <2>2, WorkerKeeps
<1>4. ASSUME NEW id \in Ids,
             \/ Load(id) \/ ApplyScenario(id) \/ Tick(id) \/ Flush(id) \/ HookSnapshot(id)
             \/ Publish(id) \/ SetControl(id) \/ Expire(id)
      PROVE  LineageInv' /\ Steady
  BY <1>4, WorkerLineage
<1>5. WorkerCrash => LineageInv' /\ Steady
  BY WorkerLineage, Counts
<1> QED
  BY <1>1, <1>2, <1>3, <1>4, <1>5, RestartLineage DEF Next

LEMMA LineageHolds == Spec => [](TypeInv /\ LineageInv)
<1>1. Init => TypeInv /\ LineageInv
  BY TypesInit, LineageInit
<1>2. TypeInv /\ LineageInv /\ [Next]_vars => (TypeInv /\ LineageInv)'
  BY TypesNext, LineageNext
<1> QED
  BY <1>1, <1>2, PTL DEF Spec

\* What was answered has an id.
LEMMA IdOfRecord == \A r \in TimelineRecord : IdOf(r) \in Ids
<1> SUFFICES ASSUME NEW r \in TimelineRecord PROVE IdOf(r) \in Ids
  OBVIOUS
<1>1. r.branch \in Seq(Fork)
  BY DEF TimelineRecord
<1>2. r.branch # <<>> => Last(r.branch) \in Fork
  BY <1>1 DEF Last
<1> QED
  BY <1>2, Counts DEF IdOf, Fork

\* What was answered can be run, and what was left half made and is run belongs to its
\* record: of any number of threads that create and fork at the same time, and of
\* worlds, for the timelines that nobody disturbed.
THEOREM RunnableLoads == Spec => []RunnableIsLoadable
<1>1. TypeInv /\ LineageInv => RunnableIsLoadable
  <2> SUFFICES ASSUME TypeInv, LineageInv PROVE RunnableIsLoadable
    OBVIOUS
  <2>1. ASSUME NEW r \in asked, IdOf(r) \notin disturbed
        PROVE  Control(IdOf(r)) # None /\ Stored(IdOf(r)) # None
    <3>1. IdOf(r) \in Ids
      BY IdOfRecord DEF TypeInv, TypeOK
    <3>2. live[IdOf(r)] # None /\ Control(IdOf(r)) # None
      BY <2>1, <3>1 DEF LineageInv, AskedInv, Answered, Kept
    <3> QED
      BY <3>2 DEF Stored
  <2>2. ASSUME NEW id \in Ids \ disturbed, Stored(id) # None
        PROVE  timelines[id] # None /\ Belongs(Stored(id), id)
    <3>1. id \in Kept /\ Belongs(Stored(id), id)
      BY <2>2, StoredBelongs DEF LineageInv, Kept
    <3>2. ASSUME timelines[id] = None PROVE FALSE
      <4>1. Blank(id)
        BY <3>1, <3>2 DEF LineageInv, BelongInv, Lineal
      <4>2. Nearest(id, MaxTick) = None
        <5>1. Nearest(id, MaxTick) # None =>
                /\ Nearest(id, MaxTick).tick \in Ticks
                /\ Nearest(id, MaxTick) = snapshots[id][Nearest(id, MaxTick).tick]
          BY NearestIsLast, Counts DEF TypeInv
        <5> HIDE DEF Nearest
        <5> QED
          BY <4>1, <5>1 DEF Blank
      <4> QED
        BY <2>2, <4>1, <4>2 DEF Stored, Blank
    <3> QED
      BY <3>1, <3>2
  <2> QED
    BY <2>1, <2>2 DEF RunnableIsLoadable, Belongs
<1> QED
  BY <1>1, LineageHolds, PTL

\* A world or a fork that was answered keeps its record and the world it starts from,
\* whatever is created, forked or started at the same time, unless it was disturbed.
THEOREM ForksKept == Spec => []ForksAreKept
<1>1. TypeInv /\ LineageInv => ForksAreKept
  <2> SUFFICES ASSUME TypeInv, LineageInv, NEW r \in asked, IdOf(r) \notin disturbed
               PROVE  /\ timelines[IdOf(r)] # None
                      /\ [timelines[IdOf(r)] EXCEPT !.head = r.head] = r
                      /\ snapshots[IdOf(r)][r.forkTick] # None
                      /\ snapshots[IdOf(r)][r.forkTick].branch = r.branch
    BY DEF ForksAreKept
  <2>1. PICK id \in Kept : id = IdOf(r)
    BY IdOfRecord DEF TypeInv, TypeOK, Kept
  <2>2. /\ id \in Ids /\ timelines[id] # None /\ [timelines[id] EXCEPT !.head = r.head] = r
        /\ snapshots[id][r.forkTick] # None /\ r.forkTick \in Ticks /\ r \in TimelineRecord
    BY <2>1 DEF LineageInv, AskedInv, Answered, TypeInv, TypeOK, TimelineRecord, Kept
  <2>3. timelines[id].branch = r.branch
    BY <2>2, RecordMatches
  <2>4. snapshots[id][r.forkTick].branch = timelines[id].branch
    BY <2>1, <2>2 DEF LineageInv, BelongInv, Lineal, Belongs
  <2> QED
    BY <2>1, <2>2, <2>3, <2>4
<1> QED
  BY <1>1, LineageHolds, PTL

-----------------------------------------------------------------------------
(* What readers get.                                                       *)

\* Live states only move on.
LiveGrows ==
    \A id \in Kept : \/ live'[id] = live[id]
                     \/ live'[id] # None /\ (live[id] = None \/ live[id].tick <= live'[id].tick)

\* Without Redis a live state is what is loaded.
LEMMA LoadsLive ==
    ASSUME TypeInv, ~store.redis, NEW id \in Ids, live[id] # None
    PROVE  Stored(id) = live[id]
BY DEF Stored, TypeInv, TypeOK

\* Without Redis there is no cache to set, and a reader puts nothing.
LEMMA NoCache ==
    ASSUME TypeInv, LineageInv, ~store.redis
    PROVE  /\ \A id \in Ids : cache[id] = None /\ ~Doing("cache", id)
           /\ \A t \in Threads : thread[t].at = "calls" =>
                /\ thread[t].call # "cache"
                /\ thread[t].kind = "read" /\ thread[t].id \in Kept => thread[t].call = "remember"
<1>1. \A t \in Threads :
        thread[t].at = "calls" /\ thread[t].kind = "read" /\ thread[t].id \in Kept
          => thread[t].call = "remember"
  BY DEF LineageInv, ThreadsInv, Minds, Knows
<1> QED
  BY <1>1 DEF TypeInv, TypeOK, Doing

\* Live states grow: the worker publishes what is ahead of them,
LEMMA AheadWorker ==
    ASSUME TypeInv, LineageInv, ~store.redis, Ahead, Grows, NEW id \in Ids,
           \/ Load(id) \/ ApplyScenario(id) \/ Tick(id) \/ Flush(id) \/ HookSnapshot(id)
           \/ Publish(id) \/ SetControl(id) \/ Expire(id) \/ WorkerCrash
    PROVE  Ahead' /\ LiveGrows
<1>0. Kept' \subseteq Kept /\ Kept \subseteq Ids
  BY KeptWas DEF Kept
<1>1. CASE Load(id)
  <2>1. live' = live /\ mem' = [mem EXCEPT ![id] = Stored(id)]
    BY <1>1 DEF Load, storeVars
  <2>2. live[id] # None => Stored(id) = live[id] /\ live[id].tick <= live[id].tick
    BY LoadsLive, WorkerHas, Counts
  <2> HIDE DEF Stored
  <2> QED
    BY <1>0, <2>1, <2>2 DEF Ahead, LiveGrows, TypeInv, TypeOK
<1>2. CASE ApplyScenario(id)
  <2>1. /\ live' = live /\ \A j \in Ids : j # id => mem'[j] = mem[j]
        /\ mem'[id] = [mem[id] EXCEPT !.inputs = Append(@, mem[id].tick)]
        /\ mem[id] # None
    BY <1>2 DEF ApplyScenario, TypeInv, TypeOK
  <2>2. mem'[id].tick = mem[id].tick
    BY <2>1, WorkerHas DEF World
  <2> QED
    BY <1>0, <2>1, <2>2 DEF Ahead, LiveGrows
<1>3. CASE Tick(id)
  <2>1. /\ live' = live /\ \A j \in Ids : j # id => mem'[j] = mem[j]
        /\ mem'[id] = [mem[id] EXCEPT !.tick = @ + 1]
        /\ mem[id] # None
    BY <1>3 DEF Tick, TypeInv, TypeOK, storeVars
  <2>2. mem'[id].tick = mem[id].tick + 1 /\ mem[id].tick \in Ticks
    BY <2>1, WorkerHas DEF World
  <2>3. live[id] # None => live[id].tick \in Ticks
    BY WorkerHas
  <2>4. id \in Kept /\ live[id] # None => live[id].tick <= mem[id].tick + 1
    BY <2>1, <2>2, <2>3, Counts DEF Ahead
  <2> QED
    BY <1>0, <2>1, <2>2, <2>4 DEF Ahead, LiveGrows
<1>4. CASE Flush(id)
  BY <1>0, <1>4 DEF Flush, Die, Ahead, LiveGrows, storeVars
<1>5. CASE HookSnapshot(id)
  BY <1>0, <1>5 DEF HookSnapshot, Die, Ahead, LiveGrows, storeVars
<1>6. CASE Publish(id)
  <2>1. StoreLive(id, mem[id]) /\ mem' = mem /\ mem[id] # None /\ mem[id].tick \in Ticks
    BY <1>6, NoCache, WorkerHas DEF Publish, Doing
  <2>2. \A j \in Ids : live'[j] = IF j = id THEN mem[id] ELSE live[j]
    BY <2>1 DEF StoreLive, TypeInv, TypeOK
  <2>3. mem[id].tick <= mem[id].tick
    BY <2>1, Counts
  <2> QED
    BY <1>0, <2>1, <2>2, <2>3 DEF Ahead, LiveGrows
<1>7. CASE SetControl(id) \/ Expire(id)
  BY <1>0, <1>7 DEF SetControl, Expire, Ahead, LiveGrows, storeVars, workerVars
<1>8. CASE WorkerCrash
  BY <1>0, <1>8 DEF WorkerCrash, Die, Ahead, LiveGrows, storeVars
<1> QED
  BY <1>1, <1>2, <1>3, <1>4, <1>5, <1>6, <1>7, <1>8

\* The only live state that a thread puts is the first of a new timeline.
LEMMA ThreadPutsLive ==
    ASSUME TypeInv, LineageInv, ~store.redis, NEW t \in Threads, PutLive(t)
    PROVE  LET me == thread[t]
           IN  /\ me.at = "calls" /\ me.id \in Ids /\ me.w \in World /\ StoreLive(me.id, me.w)
               /\ \A j \in Ids : live'[j] = IF j = me.id THEN me.w ELSE live[j]
               /\ me.id \in Kept =>
                    /\ Builds(t) /\ me.call = "live" /\ live[me.id] = None
                    /\ me.w # None /\ mem[me.id] = None
<1> DEFINE me == thread[t]
<1>1. me.at = "calls" /\ me.call = "live" /\ StoreLive(me.id, me.w)
      /\ (me.id \in Kept => me.kind # "read")
  BY NoCache DEF PutLive
<1>2. me.id \in Ids /\ me.w \in World /\ (me.id \in Kept => Builds(t))
  BY <1>1, Calling DEF Builds
<1>3. me.id \in Kept => me.w # None /\ Started(t)
  BY <1>2, Maker
<1>4. me.id \in Kept => live[me.id] = None /\ mem[me.id] = None
  BY <1>1, <1>3 DEF Started
<1>5. \A j \in Ids : live'[j] = IF j = me.id THEN me.w ELSE live[j]
  BY <1>1, <1>2 DEF StoreLive, TypeInv, TypeOK
<1> QED
  BY <1>1, <1>2, <1>3, <1>4, <1>5

\* and the API publishes first worlds.
LEMMA AheadThreads ==
    ASSUME TypeInv, LineageInv, ~store.redis, Ahead, Grows, NEW t \in Threads,
           AskCreate(t) \/ AskFork(t) \/ AskReplay(t) \/ AskRead(t) \/ Serving(t) \/ ApiRestart
    PROVE  Ahead' /\ LiveGrows
<1>0. Kept' \subseteq Kept /\ Kept \subseteq Ids
  BY KeptWas DEF Kept
<1>1. CASE PutLive(t)
  <2>1. mem' = mem
    BY <1>1 DEF PutLive, workerVars
  <2> QED
    BY <1>0, <1>1, <2>1, ThreadPutsLive DEF Ahead, LiveGrows
<1>2. CASE ~PutLive(t)
  <2>1. live' = live /\ mem' = mem
    <3>1. CASE AskCreate(t) \/ AskFork(t) \/ AskReplay(t) \/ AskRead(t) \/ ApiRestart
      BY <3>1 DEF AskCreate, AskFork, AskReplay, AskRead, ApiRestart, storeVars,
         workerVars
    <3>2. CASE Serving(t)
      BY <1>2, <3>2 DEF Serving, Replay, Reject, Name, Look, Fetch, PutRecord,
         PutSnapshot, Reread,
                        Answer, storeVars, workerVars
    <3> QED
      BY <3>1, <3>2
  <2> QED
    BY <1>0, <2>1 DEF Ahead, LiveGrows
<1> QED
  BY <1>1, <1>2

\* What a reader has to get stays what it can get.
LEMMA FloorKept ==
    ASSUME TypeInv, TypeInv', LiveGrows, NEW t \in Threads, Floor(t), thread'[t] = thread[t],
           thread[t].id \in Kept
    PROVE  Floor(t)'
<1> DEFINE me == thread[t]
<1>1. me \in Requests \cup {Idle}
  BY ThreadHas
<1>2. me.at \in {"look", "fetch"} => me.id \in Ids /\ me.floor \in Nat
  BY <1>1, Shapes, Counts DEF ToRead
<1>3. ASSUME me.at \in {"look", "fetch"} PROVE Least(me.floor, me.id)'
  <2>1. /\ me.id \in Ids /\ me.floor \in Nat /\ Least(me.floor, me.id) /\ thread'[t] = thread[t]
        /\ \/ live'[me.id] = live[me.id]
           \/ live'[me.id] # None
              /\ (live[me.id] = None \/ live[me.id].tick <= live'[me.id].tick)
    BY <1>2, <1>3 DEF Floor, LiveGrows
  <2>2. /\ live[me.id] # None => live[me.id].tick \in Nat
        /\ live'[me.id] # None => live'[me.id].tick \in Nat
    BY <2>1, Counts DEF TypeInv, TypeOK, World
  <2> QED
    BY <2>1, <2>2 DEF Least
<1> QED
  BY <1>3 DEF Floor

\* The thread that moves.
LEMMA FloorNext ==
    ASSUME TypeInv, TypeInv', LineageInv, ~store.redis, NEW t \in Threads, LiveGrows,
           Kept' \subseteq Kept, thread[t] # Idle /\ thread[t].id \in Kept => Floor(t),
           AskCreate(t) \/ AskFork(t) \/ AskReplay(t) \/ AskRead(t) \/ Serving(t)
    PROVE  /\ thread'[t] # Idle /\ thread'[t].id \in Kept' => Floor(t)'
           /\ \A u \in Threads : u # t => thread'[u] = thread[u]
<1> DEFINE me == thread[t]
<1>1. ASSUME NEW record, Become(t, record)
      PROVE  thread'[t] = record /\ \A u \in Threads : u # t => thread'[u] = thread[u]
  BY <1>1, Moves
<1>2. ASSUME Become(t, Idle)
      PROVE  thread'[t] = Idle /\ \A u \in Threads : u # t => thread'[u] = thread[u]
  BY <1>1, <1>2
<1>3. CASE AskCreate(t) \/ AskFork(t) \/ AskReplay(t)
  <2>1. PICK record : Become(t, record) /\ record.kind # "read" /\ record.at \in {"calls", "load"}
    <3>1. CASE AskCreate(t)
      BY <3>1 DEF AskCreate
    <3>2. CASE AskFork(t)
      BY <3>2 DEF AskFork
    <3>3. CASE AskReplay(t)
      BY <3>3 DEF AskReplay
    <3> QED
      BY <1>3, <3>1, <3>2, <3>3
  <2> QED
    BY <1>1, <2>1 DEF Floor
<1>4. CASE AskRead(t)
  <2>1. PICK id \in Ids :
          /\ timelines[id] # None
          /\ Become(t, [at |-> "look", kind |-> "read", id |-> id, head |-> timelines[id].head,
                        floor |-> IF live[id] = None THEN 0
                                  ELSE IF live[id].tick < timelines[id].head
                                       THEN live[id].tick ELSE timelines[id].head])
    BY <1>4 DEF AskRead
  <2> DEFINE floor == IF live[id] = None THEN 0
                      ELSE IF live[id].tick < timelines[id].head
                           THEN live[id].tick ELSE timelines[id].head
             new == [at |-> "look", kind |-> "read", id |-> id, head |-> timelines[id].head,
                     floor |-> floor]
  <2>2. timelines[id].head \in Nat /\ (live[id] # None => live[id].tick \in Nat)
    BY <2>1, Counts DEF TypeInv, TypeOK, World, TimelineRecord
  <2>3. floor <= timelines[id].head /\ Least(floor, id)
    BY <2>2 DEF Least
  <2>4. thread'[t] = new /\ live' = live
    BY <1>1, <1>4, <2>1 DEF AskRead, storeVars
  <2> HIDE DEF floor
  <2> QED
    BY <1>1, <2>1, <2>3, <2>4 DEF Floor, Least
<1>5. CASE Replay(t) \/ Name(t)
  <2>1. me.at \in {"load", "name"}
    BY <1>5 DEF Replay, Name
  <2>2. PICK record : Become(t, record) /\ (record = Idle \/ (record.kind # "read" /\ record.at \in {"name", "done", "calls"}))
    <3>1. CASE Replay(t)
      BY <3>1 DEF Replay, Reject
    <3>2. CASE Name(t)
      BY <3>2 DEF Name
    <3> QED
      BY <1>5, <3>1, <3>2
  <2> QED
    BY <1>1, <2>2 DEF Floor
<1>6. CASE Look(t)
  <2>1. me \in ToRead /\ me.id \in Ids /\ me.floor \in Nat /\ me.head \in Nat /\ me.at = "look"
    BY <1>6, ThreadHas, Shapes, Counts DEF Look, ToRead
  <2>2. /\ me.id \in Kept => me.floor <= me.head /\ Least(me.floor, me.id)
        /\ live' = live
    BY <1>6, <2>1 DEF Floor, Look, storeVars, Idle
  <2>3. CASE Current(remembered[me.id], me.head)
    <3>1. remembered[me.id] \in World /\ remembered[me.id].tick >= me.head
      BY <2>1, <2>3 DEF Current, TypeInv, TypeOK
    <3>2. me.id \in Kept => remembered[me.id].tick >= me.floor
      BY <2>1, <2>2, <3>1, Counts DEF World
    <3>3. Become(t, [at |-> "done", kind |-> "read", floor |-> me.floor, id |-> me.id,
                     w |-> remembered[me.id], call |-> "remember"])
      BY <1>6, <2>3 DEF Look, Become
    <3> QED
      BY <1>1, <3>2, <3>3 DEF Floor
  <2>4. CASE ~Current(remembered[me.id], me.head)
    <3>1. Become(t, [me EXCEPT !.at = "fetch"])
      BY <1>6, <2>4 DEF Look, Become
    <3>2. /\ [me EXCEPT !.at = "fetch"].at = "fetch" /\ [me EXCEPT !.at = "fetch"].floor = me.floor
          /\ [me EXCEPT !.at = "fetch"].head = me.head /\ [me EXCEPT !.at = "fetch"].id = me.id
      BY <2>1 DEF ToRead
    <3> QED
      BY <1>1, <2>2, <3>1, <3>2 DEF Floor, Least
  <2> QED
    BY <2>3, <2>4
<1>7. CASE Fetch(t)
  <2>1. me \in ToRead /\ me.id \in Ids /\ me.floor \in Nat /\ me.at = "fetch"
    BY <1>7, ThreadHas, Shapes, Counts DEF Fetch, ToRead
  <2>2. (me.id \in Kept => Least(me.floor, me.id)) /\ cache[me.id] = None
    BY <2>1, NoCache DEF Floor, Idle
  <2>3. ASSUME NEW w \in World, me.id \in Kept => me.floor <= w.tick,
               Become(t, [at |-> "calls", kind |-> "read", floor |-> me.floor, id |-> me.id,
                          w |-> w, call |-> "remember"])
        PROVE  /\ thread'[t].id \in Kept' => Floor(t)'
               /\ \A u \in Threads : u # t => thread'[u] = thread[u]
    BY <1>1, <2>1, <2>3, Counts DEF Floor, World
  <2>4. CASE live[me.id] # None
    <3>1. live[me.id] \in World /\ (me.id \in Kept => me.floor <= live[me.id].tick)
      BY <2>1, <2>2, <2>4 DEF Least, TypeInv, TypeOK
    <3> QED
      BY <1>1, <1>7, <2>2, <2>3, <2>4, <3>1 DEF Fetch
  <2>5. CASE live[me.id] = None /\ Nearest(me.id, MaxTick) # None
    <3>1. Nearest(me.id, MaxTick) \in World /\ (me.id \in Kept => me.floor = 0)
          /\ Nearest(me.id, MaxTick).tick \in Ticks
      BY <2>1, <2>2, <2>5, NearestIsLast, Counts DEF Least, TypeInv, World
    <3> HIDE DEF Nearest
    <3>2. me.id \in Kept => me.floor <= Nearest(me.id, MaxTick).tick
      BY <3>1, Counts
    <3> QED
      BY <1>7, <2>2, <2>3, <2>5, <3>1, <3>2 DEF Fetch
  <2>6. CASE live[me.id] = None /\ Nearest(me.id, MaxTick) = None
    BY <1>1, <1>2, <1>7, <2>2, <2>6 DEF Fetch
  <2> QED
    BY <2>4, <2>5, <2>6
<1>8. CASE PutRecord(t) \/ PutSnapshot(t) \/ Reread(t) \/ PutLive(t) \/ Answer(t)
  <2>1. me.at = "calls"
    BY <1>8 DEF PutRecord, PutSnapshot, Reread, PutLive, Answer
  <2>2. me.kind \in {"fork", "create", "read"} /\ me.id \in Ids /\ me.w \in World
        /\ (me.kind = "fork" => me \in Forking) /\ (me.kind = "create" => me \in Creating)
        /\ (me.kind = "read" => me \in Reading)
        /\ (me.kind = "read" /\ me.id \in Kept => me.call = "remember" /\ Floor(t))
    BY <2>1, Calling, NoCache DEF Idle
  <2>3. ASSUME Become(t, Idle) PROVE thread'[t] = Idle /\ \A u \in Threads : u # t => thread'[u] = thread[u]
    BY <1>2, <2>3
  <2>4. ASSUME NEW w \in World, Proceed(t, w), me.kind = "read"
        PROVE  /\ thread'[t].id \in Kept' => Floor(t)'
               /\ \A u \in Threads : u # t => thread'[u] = thread[u]
    <3>1. CASE me.id \in Kept
      <4>1. thread'[t] = [me EXCEPT !.at = "done"] /\ \A u \in Threads : u # t => thread'[u] = thread[u]
        BY <2>1, <2>2, <2>4, <3>1, Proceeds
      <4>2. thread'[t].at = "done" /\ thread'[t].w = me.w /\ thread'[t].floor = me.floor
        BY <2>2, <2>4, <4>1 DEF Reading
      <4> QED
        BY <2>1, <2>2, <2>4, <3>1, <4>1, <4>2 DEF Floor
    <3>2. CASE me.id \notin Kept
      <4>1. /\ \A u \in Threads : u # t => thread'[u] = thread[u]
            /\ \/ thread'[t] = [me EXCEPT !.w = w, !.call = After(me.kind, me.call)]
               \/ thread'[t] = [me EXCEPT !.at = "done"]
        BY <2>1, <2>4, Proceeds
      <4>2. thread'[t].id = me.id
        BY <2>2, <2>4, <4>1 DEF Reading
      <4> QED
        BY <3>2, <4>1, <4>2
    <3> QED
      BY <3>1, <3>2
  <2>5. ASSUME NEW w \in World, Proceed(t, w), me.kind # "read"
        PROVE  Floor(t)' /\ \A u \in Threads : u # t => thread'[u] = thread[u]
    <3>1. Builds(t)
      BY <2>1, <2>2, <2>5 DEF Builds
    <3>2. thread'[t] = Idle \/ (thread'[t].at = "calls" /\ thread'[t].kind # "read")
      BY <2>5, <3>1, MakerGoes DEF Builds
    <3> QED
      BY <2>5, <3>1, <3>2, MakerGoes DEF Floor, Idle
  <2>6. CASE PutSnapshot(t)
    BY <2>2, <2>3, <2>4, <2>5, <2>6 DEF PutSnapshot, Reject
  <2>7. CASE Reread(t)
    <3>1. me.kind # "read"
      BY <2>7, MakerCalls DEF Reread, Builds
    <3>2. CASE snapshots[me.id][me.w.tick] # None
      <4>1. snapshots[me.id][me.w.tick] \in World
        BY <2>2, <3>2 DEF World, TypeInv, TypeOK
      <4> QED
        BY <2>5, <2>7, <3>1, <3>2, <4>1 DEF Reread
    <3>3. CASE snapshots[me.id][me.w.tick] = None
      <4>1. Become(t, [me EXCEPT !.call = "control"])
        BY <2>7, <3>3 DEF Reread
      <4>2. [me EXCEPT !.call = "control"].at = "calls"
            /\ [me EXCEPT !.call = "control"].kind # "read"
        BY <2>1, <2>2, <3>1 DEF Forking, Creating
      <4> QED
        BY <1>1, <4>1, <4>2 DEF Floor
    <3> QED
      BY <3>2, <3>3
  <2>8. CASE PutRecord(t) \/ PutLive(t) \/ Answer(t)
    <3>1. Proceed(t, me.w)
      BY <2>8 DEF PutRecord, PutLive, Answer
    <3> QED
      BY <2>2, <2>4, <2>5, <3>1
  <2> QED
    BY <1>8, <2>6, <2>7, <2>8
<1> QED
  BY <1>1, <1>3, <1>4, <1>5, <1>6, <1>7, <1>8, Moves DEF Serving

\* Every step keeps what readers have reached.
LEMMA FreshNext ==
    ASSUME TypeInv, TypeInv', LineageInv, Steady, FreshInv, [Next]_vars
    PROVE  FreshInv'
<1>0. store' = store /\ Kept' \subseteq Kept /\ Grows
  BY KeptWas DEF Steady, Grows
<1> DEFINE Floors == \A t \in Threads : thread[t] # Idle /\ thread[t].id \in Kept => Floor(t)
<1> SUFFICES ASSUME ~store.redis, Ahead, Floors PROVE Ahead' /\ Floors'
  BY <1>0 DEF FreshInv
<1>1. ASSUME NEW id \in Ids,
             \/ Load(id) \/ ApplyScenario(id) \/ Tick(id) \/ Flush(id) \/ HookSnapshot(id)
             \/ Publish(id) \/ SetControl(id) \/ Expire(id) \/ WorkerCrash
      PROVE  Ahead' /\ Floors'
  <2>1. UNCHANGED thread
    BY <1>1 DEF Load, ApplyScenario, Tick, Flush, HookSnapshot, Publish, SetControl,
       Expire,
                WorkerCrash, apiVars
  <2>2. Ahead' /\ LiveGrows
    BY <1>0, <1>1, AheadWorker
  <2> QED
    BY <1>0, <2>1, <2>2, FloorKept
<1>2. ASSUME NEW t \in Threads, AskCreate(t) \/ AskFork(t) \/ AskReplay(t) \/ AskRead(t) \/ Serving(t)
      PROVE  Ahead' /\ Floors'
  <2>1. Ahead' /\ LiveGrows
    BY <1>0, <1>2, AheadThreads
  <2>2. /\ thread'[t] # Idle /\ thread'[t].id \in Kept' => Floor(t)'
        /\ \A u \in Threads : u # t => thread'[u] = thread[u]
    BY <1>0, <1>2, <2>1, FloorNext
  <2> QED
    BY <1>0, <2>1, <2>2, FloorKept
<1>3. CASE ApiRestart
  <2>1. mem' = mem /\ live' = live /\ thread' = [t \in Threads |-> Idle]
    BY <1>3 DEF ApiRestart, storeVars, workerVars
  <2> QED
    BY <1>0, <2>1 DEF Ahead
<1>4. CASE UNCHANGED vars
  BY <1>0, <1>4 DEF Ahead, Floor, Least, vars, storeVars, workerVars, apiVars
<1> QED
  BY <1>1, <1>2, <1>3, <1>4, Counts DEF Next

LEMMA FreshInit == Init => FreshInv
BY DEF Init, FreshInv, Ahead, Kept

\* Without Redis a reader of a timeline that nobody disturbed gets nothing older than
\* was published when it asked, whatever is created and forked at the same time.
THEOREM ReadsAreFresh == Spec => []ReadIsFresh
<1>1. TypeInv /\ LineageInv /\ FreshInv => ReadIsFresh
  <2> SUFFICES ASSUME TypeInv, FreshInv, ~store.redis, NEW t \in Threads,
                      thread[t].at = "done", thread[t].kind = "read", thread[t].id \notin disturbed
               PROVE  thread[t].w.tick >= thread[t].floor
    BY DEF ReadIsFresh
  <2>1. thread[t] \in Reading /\ thread[t] # Idle /\ thread[t].id \in Kept
    BY ThreadHas, Shapes DEF Idle, Reading, Kept
  <2> QED
    BY <2>1 DEF FreshInv, Floor
<1>2. Init => FreshInv
  BY FreshInit
<1>3. TypeInv /\ TypeInv' /\ LineageInv /\ FreshInv /\ [Next]_vars => FreshInv'
  BY FreshNext, LineageNext
<1> QED
  BY <1>1, <1>2, <1>3, LineageHolds, PTL DEF Spec


-----------------------------------------------------------------------------
(* The run: snapshots and the worlds that go on from them.                 *)

\* A world goes on from itself, at another tick, and with another scenario.
LEMMA GoesOn ==
    ASSUME NEW v \in World, NEW w \in World, NEW k \in Ticks
    PROVE  /\ Continues(w, w, k)
           /\ Continues(v, w, k) =>
                /\ \A j \in Ticks : Continues([v EXCEPT !.tick = j], w, k)
                /\ \A j \in Ticks : Continues(v, [w EXCEPT !.tick = j], k)
                /\ \A j \in Ticks : k <= j => Continues([v EXCEPT !.inputs = Append(@, j)], w, k)
<1>1. v.inputs \in Seq(Ticks) /\ w.inputs \in Seq(Ticks)
  BY DEF World
<1>2. Continues(w, w, k)
  BY <1>1 DEF Continues, IsPrefix
<1>3. ASSUME Continues(v, w, k), NEW j \in Ticks
      PROVE  Continues([v EXCEPT !.tick = j], w, k) /\ Continues(v, [w EXCEPT !.tick = j], k)
  BY <1>3 DEF Continues, World
<1>4. ASSUME Continues(v, w, k), NEW j \in Ticks, k <= j
      PROVE  Continues([v EXCEPT !.inputs = Append(@, j)], w, k)
  <2> DEFINE more == Append(v.inputs, j)
             u == [v EXCEPT !.inputs = more]
  <2>1. u.world = v.world /\ u.branch = v.branch /\ u.inputs = more
    BY DEF World
  <2>2. /\ more \in Seq(Ticks) /\ Len(more) = Len(v.inputs) + 1 /\ more[Len(v.inputs) + 1] = j
        /\ \A i \in 1..Len(v.inputs) : more[i] = v.inputs[i]
    BY <1>1
  <2> HIDE DEF more
  <2>3. Len(w.inputs) <= Len(v.inputs) /\ Len(w.inputs) \in Nat /\ Len(v.inputs) \in Nat
        /\ SubSeq(v.inputs, 1, Len(w.inputs)) = w.inputs
    BY <1>1, <1>4 DEF Continues, IsPrefix
  <2>4. SubSeq(more, 1, Len(w.inputs)) = SubSeq(v.inputs, 1, Len(w.inputs))
    BY <1>1, <2>2, <2>3
  <2>5. \A i \in (Len(w.inputs) + 1)..Len(more) : more[i] >= k
    <3> SUFFICES ASSUME NEW i \in (Len(w.inputs) + 1)..Len(more) PROVE more[i] >= k
      OBVIOUS
    <3>1. CASE i = Len(v.inputs) + 1
      BY <1>4, <2>2, <3>1, Counts
    <3>2. CASE i # Len(v.inputs) + 1
      <4>1. i \in (Len(w.inputs) + 1)..Len(v.inputs) /\ i \in 1..Len(v.inputs)
        BY <2>2, <2>3, <3>2
      <4> QED
        BY <1>4, <2>2, <4>1 DEF Continues
    <3> QED
      BY <3>1, <3>2
  <2>6. IsPrefix(w.inputs, more)
    BY <1>1, <2>2, <2>3, <2>4 DEF IsPrefix
  <2>7. Continues(u, w, k)
    BY <1>4, <2>1, <2>5, <2>6 DEF Continues
  <2> QED
    BY <2>7 DEF u, more
<1> QED
  BY <1>2, <1>3, <1>4

\* The worker goes about one timeline, and leaves the others.
Elsewhere(id) ==
    /\ timelines'[id].forkTick = timelines[id].forkTick
    /\ live'[id] = live[id] /\ mem'[id] = mem[id] /\ was'[id] = was[id]
    /\ snapshots'[id] = snapshots[id]
    /\ ~Doing("flush", id) /\ ~Doing("snapshot", id)
    /\ ~Doing("flush", id)' /\ ~Doing("snapshot", id)'

\* A step of one timeline leaves the runs of the others alone.
LEMMA RunElsewhere == ASSUME NEW id \in Ids, Run(id), Elsewhere(id) PROVE Run(id)'
BY DEF Run, Elsewhere, OnRun, Passed, Unkept

\* What does not touch the run leaves it.
LEMMA RunStays ==
    ASSUME NEW id \in Ids, Run(id), timelines'[id].forkTick = timelines[id].forkTick,
           snapshots'[id] = snapshots[id], live'[id] = live[id], mem'[id] = mem[id],
           was'[id] = was[id], batch' = batch
    PROVE  Run(id)'
BY DEF Run, OnRun, Passed, Unkept, Doing

\* How the numbers of a run lie.
LEMMA RunTicks ==
    ASSUME TypeInv, LineageInv, Ahead, NEW id \in Kept, Run(id)
    PROVE  /\ id \in Ids
           /\ timelines[id] # None => timelines[id].forkTick \in Nat
           /\ live[id] # None => /\ live[id] \in World /\ live[id].tick \in Nat
                                 /\ live[id].tick \in Ticks /\ timelines[id] # None
                                 /\ live[id] \in was[id] /\ Passed(id, live[id].tick)
                                 /\ timelines[id].forkTick <= live[id].tick
           /\ mem[id] # None => /\ mem[id] \in World /\ mem[id].tick \in Nat
                                /\ mem[id].tick \in Ticks /\ timelines[id] # None
                                /\ mem[id] \in was[id] /\ Passed(id, mem[id].tick)
                                /\ timelines[id].forkTick <= mem[id].tick
                                /\ live[id] # None => live[id].tick <= mem[id].tick
                                /\ \A v \in was[id] : v.tick <= mem[id].tick
           /\ \A v \in was[id] : v \in World /\ v.tick \in Nat /\ v.tick \in Ticks
           /\ \A k \in Ticks : k \in Nat /\ (snapshots[id][k] # None =>
                /\ snapshots[id][k] \in World /\ snapshots[id][k].tick = k
                /\ timelines[id].forkTick <= k
                /\ k = timelines[id].forkTick \/ SnapshotDue(k)
                /\ OnRun(id, k) => \A v \in was[id] : v.tick >= k => Continues(v, snapshots[id][k], k)
                /\ live[id] = None => Passed(id, k) /\ OnRun(id, k) /\ snapshots[id][k] \in was[id])
<1>0. id \in Ids
  BY DEF Kept
<1>1. \A v \in World : v.tick \in Nat /\ v.tick \in Ticks
  BY Counts DEF World
<1>2. timelines[id] # None => timelines[id].forkTick \in Nat
  BY <1>0, Counts DEF TypeInv, TypeOK, TimelineRecord
<1>3. (live[id] # None => timelines[id] # None) /\ (mem[id] # None => timelines[id] # None)
  BY <1>0 DEF LineageInv, RecordInv, BelongInv, Lineal, Blank
<1>4. (live[id] # None => live[id] \in World) /\ (mem[id] # None => mem[id] \in World)
      /\ \A v \in was[id] : v \in World
  BY <1>0, WorkerHas DEF TypeInv, TypeOK
<1>5. \A k \in Ticks : k \in Nat
         /\ (snapshots[id][k] # None => snapshots[id][k] \in World /\ snapshots[id][k].tick = k)
  BY <1>0, Counts DEF TypeInv, TypeOK
<1>6. mem[id] # None /\ live[id] # None => live[id].tick <= mem[id].tick
  BY DEF Ahead
<1> QED
  BY <1>0, <1>1, <1>2, <1>3, <1>4, <1>5, <1>6 DEF Run

\* What is loaded is of the run, and the snapshots of the run are no later.
LEMMA StoredOnRun ==
    ASSUME TypeInv, LineageInv, ~store.redis, Ahead, NEW id \in Kept, Run(id),
           mem[id] = None, Stored(id) # None
    PROVE  /\ Stored(id) \in World /\ Stored(id).tick \in Nat /\ Stored(id).tick \in Ticks
           /\ Stored(id) \in was[id] /\ Passed(id, Stored(id).tick)
           /\ timelines[id].forkTick \in Nat /\ timelines[id].forkTick <= Stored(id).tick
           /\ live[id] # None => Stored(id) = live[id]
           /\ \A k \in Ticks : snapshots[id][k] # None =>
                /\ k <= Stored(id).tick => OnRun(id, k)
                /\ live[id] = None =>
                     k <= Stored(id).tick /\ (k = Stored(id).tick => snapshots[id][k] = Stored(id))
<1>0. id \in Ids
  BY DEF Kept
<1>1. CASE live[id] # None
  <2>1. Stored(id) = live[id]
    BY <1>0, <1>1, LoadsLive
  <2>2. \A k \in Ticks : k <= live[id].tick => OnRun(id, k)
    BY DEF OnRun
  <2> HIDE DEF Stored
  <2> QED
    BY <1>1, <2>1, <2>2, RunTicks
<1>2. CASE live[id] = None
  <2>1. Stored(id) = Nearest(id, MaxTick) /\ MaxTick \in Ticks
    BY <1>0, <1>2, Counts DEF Stored, TypeInv, TypeOK
  <2> DEFINE s == Stored(id)
  <2>2. /\ s \in World /\ s.tick \in 0..MaxTick /\ s = snapshots[id][s.tick]
        /\ \A k \in (s.tick + 1)..MaxTick : snapshots[id][k] = None
    BY <1>0, <2>1, NearestIsLast DEF TypeInv
  <2> HIDE DEF s, Stored
  <2>3. s # None /\ s.tick \in Ticks /\ s.tick \in Nat
    BY <2>2, Counts DEF s
  <2>4. /\ timelines[id].forkTick <= s.tick
        /\ Passed(id, s.tick) /\ s \in was[id]
    BY <1>2, <2>2, <2>3, RunTicks
  <2>5. timelines[id].forkTick \in Nat
    <3>1. timelines[id] # None
      BY <2>2, <2>3, <1>0 DEF LineageInv, BelongInv, Lineal, Blank
    <3> QED
      BY <3>1, RunTicks
  <2>6. ASSUME NEW k \in Ticks, snapshots[id][k] # None
        PROVE  k <= s.tick /\ (k = s.tick => snapshots[id][k] = s) /\ OnRun(id, k)
    <3>1. k \in 0..MaxTick /\ k \notin (s.tick + 1)..MaxTick
      BY <2>2, <2>6, Counts
    <3>2. k <= s.tick
      BY <2>2, <3>1, Counts
    <3> QED
      BY <1>2, <2>2, <2>6, <3>2, RunTicks
  <2> QED
    BY <1>2, <2>2, <2>3, <2>4, <2>5, <2>6 DEF s
<1> QED
  BY <1>1, <1>2

\* _load: the world goes on from what was published, or from the last snapshot, and
\* what came after is no past of it.
LEMMA LoadRun ==
    ASSUME TypeInv, LineageInv, ~store.redis, Ahead, NEW id \in Kept, Run(id), Load(id)
    PROVE  Run(id)'
<1> DEFINE s == Stored(id)
<1>0. id \in Ids
  BY DEF Kept
<1>1. /\ mem[id] = None /\ batch = None /\ s # None
      /\ mem'[id] = s /\ was'[id] = {w \in was[id] : w.tick < s.tick} \cup {s}
      /\ UNCHANGED <<store, timelines, snapshots, live, batch>>
  BY <1>0 DEF Load, Visits, TypeInv, TypeOK, storeVars
<1>2. /\ s \in World /\ s.tick \in Nat /\ s.tick \in Ticks
      /\ s \in was[id] /\ Passed(id, s.tick)
      /\ timelines[id].forkTick \in Nat /\ timelines[id].forkTick <= s.tick
      /\ live[id] # None => s = live[id]
      /\ \A k \in Ticks : snapshots[id][k] # None =>
           /\ k <= s.tick => OnRun(id, k)
           /\ live[id] = None => k <= s.tick /\ (k = s.tick => snapshots[id][k] = s)
  BY <1>1, StoredOnRun
<1> HIDE DEF s
<1>3. /\ \A v \in was'[id] : v \in was[id] /\ v.tick <= s.tick
      /\ \A v \in was[id] : v.tick \in Nat
  BY <1>1, <1>2, RunTicks
<1>4. ASSUME NEW j \in timelines[id].forkTick..s.tick PROVE \E v \in was'[id] : v.tick = j
  <2>1. PICK v \in was[id] : v.tick = j
    BY <1>2 DEF Passed
  <2>2. CASE j = s.tick
    BY <1>1, <2>2
  <2>3. CASE j # s.tick
    <3>1. v.tick < s.tick
      BY <1>2, <2>1, <2>3
    <3> QED
      BY <1>1, <2>1, <3>1
  <2> QED
    BY <2>2, <2>3
<1>5. /\ mem'[id] \in was'[id] /\ Passed(id, mem[id].tick)'
      /\ timelines'[id].forkTick <= mem'[id].tick
      /\ \A v \in was'[id] : v.tick <= mem'[id].tick
  BY <1>1, <1>2, <1>3, <1>4 DEF Passed
<1>6. live[id] # None => /\ live'[id] \in was'[id] /\ timelines'[id].forkTick <= live'[id].tick
                         /\ Passed(id, live[id].tick)'
  BY <1>1, <1>2, <1>4 DEF Passed
<1>7. ~Unkept(id)' /\ ~Doing("snapshot", id)'
  BY <1>1 DEF Doing, Unkept
<1>8. \A k \in Ticks : OnRun(id, k)' <=> k <= s.tick
  <2>1. s # None
    BY <1>2, NoneIsNone
  <2> QED
    BY <1>1, <1>7, <2>1 DEF OnRun
<1>9. ASSUME NEW k \in Ticks, snapshots[id][k] # None
      PROVE  /\ timelines[id].forkTick <= k
             /\ k = timelines[id].forkTick \/ SnapshotDue(k)
             /\ OnRun(id, k)' => \A v \in was'[id] : v.tick >= k => Continues(v, snapshots[id][k], k)
             /\ live[id] = None => Passed(id, k)' /\ OnRun(id, k)' /\ snapshots[id][k] \in was'[id]
  <2>1. /\ timelines[id].forkTick <= k
        /\ k = timelines[id].forkTick \/ SnapshotDue(k)
        /\ OnRun(id, k) => \A v \in was[id] : v.tick >= k => Continues(v, snapshots[id][k], k)
        /\ snapshots[id][k].tick = k /\ k \in Nat
        /\ live[id] = None => Passed(id, k) /\ snapshots[id][k] \in was[id]
    BY <1>9, RunTicks
  <2>2. OnRun(id, k)' => \A v \in was'[id] : v.tick >= k => Continues(v, snapshots[id][k], k)
    BY <1>2, <1>3, <1>8, <1>9, <2>1
  <2>3. ASSUME live[id] = None
        PROVE  Passed(id, k)' /\ OnRun(id, k)' /\ snapshots[id][k] \in was'[id]
    <3>1. k <= s.tick /\ (k = s.tick => snapshots[id][k] = s)
      BY <1>2, <1>9, <2>3
    <3>2. \A j \in timelines[id].forkTick..k : \E v \in was'[id] : v.tick = j
      BY <1>2, <1>4, <2>1, <3>1
    <3>3. k < s.tick => snapshots[id][k] \in was'[id]
      BY <1>1, <2>1, <2>3
    <3> QED
      BY <1>1, <1>2, <1>8, <2>1, <3>1, <3>2, <3>3 DEF Passed
  <2> QED
    BY <2>1, <2>2, <2>3
<1> QED
  BY <1>1, <1>5, <1>6, <1>7, <1>9 DEF Run

\* _apply_scenario: what the world goes on from does not know of it.
LEMMA ApplyScenarioRun ==
    ASSUME TypeInv, LineageInv, ~store.redis, Ahead, NEW id \in Kept, Run(id), ApplyScenario(id)
    PROVE  Run(id)'
<1> DEFINE w == [mem[id] EXCEPT !.inputs = Append(@, mem[id].tick)]
<1>0. id \in Ids
  BY DEF Kept
<1>1. mem[id] # None /\ batch = None /\ UNCHANGED <<store, timelines, snapshots, live>>
  BY DEF ApplyScenario, Visits
<1>2. mem'[id] = w /\ was'[id] = was[id] \cup {w}
  BY <1>0, <1>1 DEF ApplyScenario, TypeInv, TypeOK
<1>3. /\ mem[id] \in World /\ mem[id].tick \in Nat /\ mem[id].tick \in Ticks /\ mem[id] \in was[id]
      /\ Passed(id, mem[id].tick) /\ timelines[id].forkTick <= mem[id].tick
      /\ \A v \in was[id] : v.tick <= mem[id].tick
  BY <1>1, RunTicks
<1>4. w.tick = mem[id].tick /\ w \in World
  <2>1. mem[id].inputs \in Seq(Ticks)
    BY <1>3 DEF World
  <2>2. Append(mem[id].inputs, mem[id].tick) \in Seq(Ticks)
    BY <1>3, <2>1
  <2> QED
    BY <1>3, <2>2 DEF World
<1>5. \A k \in Ticks : snapshots[id][k] # None /\ k <= mem[id].tick
                         /\ Continues(mem[id], snapshots[id][k], k) => Continues(w, snapshots[id][k], k)
  BY <1>3, RunTicks, GoesOn
<1>6. ~Unkept(id) /\ ~Unkept(id)' /\ ~Doing("snapshot", id)'
  BY <1>1 DEF Doing, Unkept, ApplyScenario, Begin
<1>7. mem'[id] # None
  BY <1>2, <1>4, NoneIsNone
<1> HIDE DEF w
<1>8. \A k \in Ticks : OnRun(id, k)' <=> OnRun(id, k)
  BY <1>1, <1>2, <1>4, <1>6, <1>7 DEF OnRun
<1>9. ASSUME NEW k \in Ticks, snapshots[id][k] # None, OnRun(id, k),
             NEW v \in was'[id], v.tick >= k
      PROVE  Continues(v, snapshots[id][k], k)
  <2>1. k <= mem[id].tick
    BY <1>1, <1>9 DEF OnRun
  <2>2. CASE v \in was[id]
    BY <1>9, <2>2, RunTicks
  <2>3. CASE v = w
    <3>1. Continues(mem[id], snapshots[id][k], k)
      BY <1>3, <1>4, <1>9, <2>3, RunTicks
    <3> QED
      BY <1>5, <1>9, <2>1, <2>3, <3>1
  <2> QED
    BY <1>2, <1>9, <2>2, <2>3
<1>10. \A n : Passed(id, n) => Passed(id, n)'
  BY <1>1, <1>2 DEF Passed
<1>11. /\ mem'[id] \in was'[id] /\ Passed(id, mem[id].tick)'
       /\ timelines'[id].forkTick <= mem'[id].tick
       /\ \A v \in was'[id] : v.tick <= mem'[id].tick
  <2>1. \A v \in was'[id] : v.tick <= mem'[id].tick
    BY <1>2, <1>3, <1>4
  <2>2. \A j \in timelines[id].forkTick..w.tick : \E v \in was'[id] : v.tick = j
    BY <1>2, <1>3, <1>4 DEF Passed
  <2> QED
    BY <1>1, <1>2, <1>3, <1>4, <2>1, <2>2 DEF Passed
<1>12. live'[id] # None => /\ live'[id] \in was'[id] /\ timelines'[id].forkTick <= live'[id].tick
                           /\ Passed(id, live[id].tick)'
  BY <1>1, <1>2, <1>10, RunTicks DEF Passed
<1>13. ASSUME NEW k \in Ticks, snapshots'[id][k] # None
       PROVE  /\ timelines'[id].forkTick <= k
              /\ k = timelines'[id].forkTick \/ SnapshotDue(k)
              /\ OnRun(id, k)' => \A v \in was'[id] : v.tick >= k => Continues(v, snapshots'[id][k], k)
              /\ live'[id] = None => Passed(id, k)' /\ OnRun(id, k)' /\ snapshots'[id][k] \in was'[id]
  BY <1>1, <1>2, <1>8, <1>9, <1>10, <1>13, RunTicks
<1> QED
  BY <1>6, <1>11, <1>12, <1>13 DEF Run

\* After a tick the batch flushes, at least where a snapshot is due.
LEMMA TickBatch ==
    ASSUME TypeInv, NEW id \in Ids, Tick(id)
    PROVE  /\ batch' # None /\ batch'.id = id
           /\ batch'.call = "flush" \/ (batch'.call = "tick" /\ ~SnapshotDue(mem'[id].tick))
<1>1. batch \in Batches \cup {None}
  BY DEF TypeInv, TypeOK
<1>2. Begin(id).id = id
  BY DEF Begin
<1> DEFINE now == IF batch = None THEN Begin(id) ELSE batch
<1>3. /\ now.id = id
      /\ \E full, publishes \in BOOLEAN :
           batch' = [now EXCEPT !.publishes = publishes,
                !.call = IF full \/ publishes \/ SnapshotDue(mem'[id].tick) THEN "flush" ELSE "tick"]
  BY DEF Tick
<1>4. now \in Batches
  <2>1. Begin(id) \in Batches
    <3>1. mem[id] # None
      BY DEF Tick
    <3>2. mem[id].tick \in Ticks
      BY <3>1, WorkerHas
    <3> QED
      BY <3>2 DEF Begin, Batches
  <2> QED
    BY <1>1, <2>1
<1> HIDE DEF now
<1>5. PICK full \in BOOLEAN, publishes \in BOOLEAN :
           batch' = [now EXCEPT !.publishes = publishes,
                !.call = IF full \/ publishes \/ SnapshotDue(mem'[id].tick) THEN "flush" ELSE "tick"]
  BY <1>3
<1>6. batch'.id = id
      /\ batch'.call = IF full \/ publishes \/ SnapshotDue(mem'[id].tick) THEN "flush" ELSE "tick"
  BY <1>3, <1>4, <1>5 DEF Batches
<1>7. batch' # None
  <2>1. batch' \in Batches
    BY <1>4, <1>5 DEF Batches
  <2> QED
    BY <2>1, NoneIsNone
<1> QED
  BY <1>6, <1>7

\* A tick: whatever snapshot there is at the tick it comes to was left by a run that
\* was killed, until it is overwritten.
LEMMA TickRun ==
    ASSUME TypeInv, LineageInv, ~store.redis, Ahead, NEW id \in Kept, Run(id), Tick(id)
    PROVE  Run(id)'
<1> DEFINE w == [mem[id] EXCEPT !.tick = @ + 1]
<1>0. id \in Ids
  BY DEF Kept
<1>1. /\ mem[id] # None /\ mem[id].tick < Most[store].ticks
      /\ UNCHANGED <<store, timelines, snapshots, live>>
      /\ batch # None => batch.id = id /\ batch.call = "tick"
  BY DEF Tick, storeVars
<1>2. mem'[id] = w /\ was'[id] = was[id] \cup {w}
  BY <1>0 DEF Tick, TypeInv, TypeOK
<1>3. /\ mem[id] \in World /\ mem[id].tick \in Nat /\ mem[id].tick \in Ticks /\ mem[id] \in was[id]
      /\ Passed(id, mem[id].tick) /\ timelines[id].forkTick <= mem[id].tick
      /\ timelines[id].forkTick \in Nat
      /\ live[id] # None => live[id].tick \in Nat /\ live[id].tick <= mem[id].tick
      /\ \A v \in was[id] : v.tick <= mem[id].tick /\ v.tick \in Nat
  BY <1>1, RunTicks
<1>4. w.tick = mem[id].tick + 1 /\ w \in World /\ w.tick \in Ticks
  <2>1. mem[id].tick + 1 \in Ticks
    BY <1>1, <1>3, Counts DEF TypeInv, TypeOK
  <2> QED
    BY <1>3, <2>1 DEF World
<1>5. /\ batch' # None /\ batch'.id = id
      /\ batch'.call = "flush" \/ (batch'.call = "tick" /\ ~SnapshotDue(mem'[id].tick))
  BY <1>0, TickBatch
<1>6. /\ ~Unkept(id) /\ ~Doing("snapshot", id)'
      /\ Unkept(id)' \/ ~SnapshotDue(w.tick)
  BY <1>1, <1>2, <1>5 DEF Doing, Unkept
<1>7. mem'[id] # None
  BY <1>2, <1>4, NoneIsNone
<1>8. \A k \in Ticks : snapshots[id][k] # None /\ Continues(mem[id], snapshots[id][k], k)
                         => Continues(w, snapshots[id][k], k)
  BY <1>3, <1>4, RunTicks, GoesOn
<1> HIDE DEF w
<1>9. ASSUME NEW k \in Ticks, snapshots[id][k] # None
      PROVE  OnRun(id, k)' <=> OnRun(id, k)
  <2>1. OnRun(id, k)' <=> k <= w.tick /\ ~(k = w.tick /\ Unkept(id)')
    BY <1>2, <1>7 DEF OnRun
  <2>2. OnRun(id, k) <=> k <= mem[id].tick
    BY <1>1, <1>6 DEF OnRun
  <2>3. k \in Nat /\ (k = timelines[id].forkTick \/ SnapshotDue(k))
    BY <1>9, RunTicks
  <2>4. CASE k = w.tick
    BY <1>3, <1>4, <1>6, <2>1, <2>2, <2>3, <2>4
  <2>5. CASE k # w.tick
    BY <1>3, <1>4, <2>1, <2>2, <2>3, <2>5
  <2> QED
    BY <2>4, <2>5
<1>10. ASSUME NEW k \in Ticks, snapshots[id][k] # None, OnRun(id, k),
              NEW v \in was'[id], v.tick >= k
       PROVE  Continues(v, snapshots[id][k], k)
  <2>1. CASE v \in was[id]
    BY <1>10, <2>1, RunTicks
  <2>2. CASE v = w
    <3>1. k <= mem[id].tick
      BY <1>1, <1>10 DEF OnRun
    <3>2. Continues(mem[id], snapshots[id][k], k)
      BY <1>3, <1>10, <3>1, RunTicks
    <3> QED
      BY <1>8, <1>10, <2>2, <3>2
  <2> QED
    BY <1>2, <1>10, <2>1, <2>2
<1>11. \A n : Passed(id, n) => Passed(id, n)'
  BY <1>1, <1>2 DEF Passed
<1>12. Passed(id, mem[id].tick)'
  <2> SUFFICES ASSUME NEW j \in timelines[id].forkTick..w.tick PROVE \E v \in was'[id] : v.tick = j
    BY <1>1, <1>2 DEF Passed
  <2>1. CASE j = w.tick
    BY <1>2, <2>1
  <2>2. CASE j # w.tick
    <3>1. j \in timelines[id].forkTick..mem[id].tick
      BY <1>3, <1>4, <2>2
    <3> QED
      BY <1>2, <1>3, <3>1 DEF Passed
  <2> QED
    BY <2>1, <2>2
<1>13. /\ mem'[id] \in was'[id] /\ timelines'[id].forkTick <= mem'[id].tick
       /\ \A v \in was'[id] : v.tick <= mem'[id].tick
       /\ \A v \in was'[id] : v.tick = mem'[id].tick => v = mem'[id]
       /\ live'[id] # None => live'[id].tick < mem'[id].tick
  <2>1. \A v \in was[id] : v.tick < w.tick
    BY <1>3, <1>4
  <2>2. w.tick <= w.tick /\ timelines[id].forkTick <= w.tick
        /\ (live[id] # None => live[id].tick < w.tick)
    BY <1>3, <1>4
  <2>3. \A v \in was'[id] : v = w \/ v.tick < w.tick
    BY <1>2, <2>1
  <2>4. \A v \in was[id] : v.tick <= w.tick /\ v.tick # w.tick
    BY <1>3, <1>4
  <2> QED
    BY <1>1, <1>2, <2>2, <2>4
<1>14. live'[id] # None => /\ live'[id] \in was'[id] /\ timelines'[id].forkTick <= live'[id].tick
                           /\ Passed(id, live[id].tick)'
  BY <1>1, <1>2, <1>11, RunTicks DEF Passed
<1>15. ASSUME NEW k \in Ticks, snapshots'[id][k] # None
       PROVE  /\ timelines'[id].forkTick <= k
              /\ k = timelines'[id].forkTick \/ SnapshotDue(k)
              /\ OnRun(id, k)' => \A v \in was'[id] : v.tick >= k => Continues(v, snapshots'[id][k], k)
              /\ live'[id] = None => Passed(id, k)' /\ OnRun(id, k)' /\ snapshots'[id][k] \in was'[id]
  BY <1>1, <1>2, <1>9, <1>10, <1>11, <1>15, RunTicks
<1> QED
  BY <1>6, <1>12, <1>13, <1>14, <1>15 DEF Run

\* A run that is killed goes back to what was published, of which the snapshots
\* up to there are, or to its last snapshot.
LEMMA DieRun ==
    ASSUME TypeInv, LineageInv, Ahead, NEW id \in Kept, Run(id), Die,
           UNCHANGED <<timelines, live, snapshots, was>>
    PROVE  Run(id)'
<1>0. id \in Ids
  BY DEF Kept
<1>1. mem'[id] = None /\ batch' = None
  BY <1>0 DEF Die
<1>2. \A k \in Ticks : OnRun(id, k)' <=> (live[id] # None => k <= live[id].tick)
  BY <1>1 DEF OnRun
<1>3. ASSUME NEW k \in Ticks, snapshots[id][k] # None, OnRun(id, k)' PROVE OnRun(id, k)
  <2>1. CASE live[id] = None
    BY <1>3, <2>1, RunTicks
  <2>2. CASE mem[id] = None
    BY <1>2, <1>3, <2>2 DEF OnRun
  <2>3. CASE mem[id] # None /\ live[id] # None
    <3>1. /\ live[id].tick \in Nat /\ mem[id].tick \in Nat /\ k \in Nat
          /\ live[id].tick <= mem[id].tick /\ k <= live[id].tick
      BY <1>2, <1>3, <2>3, RunTicks
    <3>2. Unkept(id) => live[id].tick < mem[id].tick
      BY <2>3 DEF Run
    <3> QED
      BY <2>3, <3>1, <3>2 DEF OnRun
  <2> QED
    BY <2>1, <2>2, <2>3
<1>4. ~Unkept(id)' /\ ~Doing("snapshot", id)'
  BY <1>1 DEF Doing, Unkept
<1>5. ASSUME NEW k \in Ticks, snapshots'[id][k] # None
      PROVE  /\ timelines'[id].forkTick <= k
             /\ k = timelines'[id].forkTick \/ SnapshotDue(k)
             /\ OnRun(id, k)' => \A v \in was'[id] : v.tick >= k => Continues(v, snapshots'[id][k], k)
             /\ live'[id] = None => Passed(id, k)' /\ OnRun(id, k)' /\ snapshots'[id][k] \in was'[id]
  BY <1>2, <1>3, <1>5, RunTicks DEF Passed
<1>6. live'[id] # None => /\ live'[id] \in was'[id] /\ timelines'[id].forkTick <= live'[id].tick
                          /\ Passed(id, live[id].tick)'
  BY RunTicks DEF Passed
<1> QED
  BY <1>1, <1>4, <1>5, <1>6 DEF Run

\* _bump_head moves no fork.
LEMMA BumpsFork ==
    ASSUME TypeInv, NEW id \in Ids, NEW tick \in Ticks, timelines' = Bumped(timelines, id, tick)
    PROVE  /\ timelines[id] # None => timelines'[id].forkTick = timelines[id].forkTick
           /\ \A j \in Ids : j # id => timelines'[j] = timelines[j]
<1>1. timelines \in [Ids -> TimelineRecord \cup {None}]
  BY DEF TypeInv, TypeOK
<1> QED
  BY <1>1, Bumps

\* What is known of a run while its worker writes.
LEMMA Writing ==
    ASSUME TypeInv, LineageInv, Ahead, NEW id \in Kept, Run(id), batch # None, batch.id = id
    PROVE  /\ mem[id] # None /\ mem[id] \in World /\ mem[id].tick \in Ticks
           /\ mem[id].tick \in Nat /\ timelines[id] # None /\ batch \in Batches
           /\ Unkept(id) => /\ live[id] # None => live[id].tick < mem[id].tick
                            /\ \A v \in was[id] : v.tick = mem[id].tick => v = mem[id]
           /\ Doing("snapshot", id) => SnapshotDue(mem[id].tick)
<1>1. mem[id] # None /\ batch \in Batches
  BY WorkerHas DEF TypeInv, TypeOK
<1>2. /\ Unkept(id) => /\ live[id] # None => live[id].tick < mem[id].tick
                       /\ \A v \in was[id] : v.tick = mem[id].tick => v = mem[id]
      /\ Doing("snapshot", id) => SnapshotDue(mem[id].tick)
  BY DEF Run
<1> QED
  BY <1>1, <1>2, RunTicks

\* Ledger.flush: without a snapshot to come the tick has none of a killed run.
LEMMA FlushRun ==
    ASSUME TypeInv, LineageInv, Ahead, NEW id \in Kept, Run(id), Flush(id), ~Die
    PROVE  Run(id)'
<1>0. id \in Ids
  BY DEF Kept
<1>1. batch # None /\ batch.id = id /\ Unkept(id)
  BY DEF Flush, Doing, Unkept
<1>2. /\ timelines' = Bumped(timelines, id, mem[id].tick)
      /\ batch' = [batch EXCEPT !.flushed = mem[id].tick,
             !.call = IF SnapshotDue(mem[id].tick) THEN "snapshot"
                      ELSE IF batch.publishes THEN "live" ELSE "tick"]
      /\ UNCHANGED <<snapshots, live, mem, was>>
  BY DEF Flush, history
<1>3. timelines'[id].forkTick = timelines[id].forkTick
  BY <1>0, <1>1, <1>2, Writing, BumpsFork
<1>4. batch' # None /\ batch'.id = id /\ batch'.call # "flush"
      /\ (batch'.call = "snapshot" <=> SnapshotDue(mem[id].tick))
  <2>1. batch \in Batches /\ mem[id].tick \in Ticks
    BY <1>1, Writing
  <2>2. batch' # None
    <3>1. batch' \in Batches
      BY <1>2, <2>1 DEF Batches
    <3> QED
      BY <3>1, NoneIsNone
  <2> QED
    BY <1>1, <1>2, <2>1, <2>2 DEF Batches
<1>5. /\ Unkept(id)' <=> SnapshotDue(mem[id].tick)
      /\ Doing("snapshot", id)' <=> SnapshotDue(mem[id].tick)
  BY <1>4 DEF Doing, Unkept
<1>6. ASSUME NEW k \in Ticks, snapshots[id][k] # None
      PROVE  OnRun(id, k)' <=> OnRun(id, k)
  <2>1. /\ OnRun(id, k)' <=> k <= mem[id].tick /\ ~(k = mem[id].tick /\ SnapshotDue(mem[id].tick))
        /\ OnRun(id, k) <=> k <= mem[id].tick /\ k # mem[id].tick
    BY <1>1, <1>2, <1>5, Writing DEF OnRun
  <2>2. CASE live[id] = None
    BY <1>6, <2>1, <2>2, RunTicks
  <2>3. CASE live[id] # None
    <3>1. /\ live[id].tick \in Nat /\ mem[id].tick \in Nat /\ live[id].tick < mem[id].tick
          /\ timelines[id].forkTick \in Nat /\ timelines[id].forkTick <= live[id].tick
          /\ k = timelines[id].forkTick \/ SnapshotDue(k)
      BY <1>1, <1>6, <2>3, Writing, RunTicks
    <3> QED
      BY <2>1, <3>1
  <2> QED
    BY <2>2, <2>3
<1>7. ASSUME NEW k \in Ticks, snapshots'[id][k] # None
      PROVE  /\ timelines'[id].forkTick <= k
             /\ k = timelines'[id].forkTick \/ SnapshotDue(k)
             /\ OnRun(id, k)' => \A v \in was'[id] : v.tick >= k => Continues(v, snapshots'[id][k], k)
             /\ live'[id] = None => Passed(id, k)' /\ OnRun(id, k)' /\ snapshots'[id][k] \in was'[id]
  BY <1>2, <1>3, <1>6, <1>7, RunTicks DEF Passed
<1>8. live'[id] # None => /\ live'[id] \in was'[id] /\ timelines'[id].forkTick <= live'[id].tick
                          /\ Passed(id, live[id].tick)'
  BY <1>2, <1>3, RunTicks DEF Passed
<1>9. /\ mem'[id] \in was'[id] /\ Passed(id, mem[id].tick)'
      /\ timelines'[id].forkTick <= mem'[id].tick
      /\ \A v \in was'[id] : v.tick <= mem'[id].tick
      /\ live'[id] # None => live'[id].tick < mem'[id].tick
      /\ \A v \in was'[id] : v.tick = mem'[id].tick => v = mem'[id]
  BY <1>1, <1>2, <1>3, Writing, RunTicks DEF Passed
<1>10. Doing("snapshot", id)' => SnapshotDue(mem'[id].tick)
  BY <1>2, <1>5
<1> QED
  BY <1>7, <1>8, <1>9, <1>10 DEF Run

\* The snapshot_hook overwrites what a killed run left at this tick.
LEMMA HookSnapshotRun ==
    ASSUME TypeInv, LineageInv, Ahead, NEW id \in Kept, Run(id), HookSnapshot(id), ~Die
    PROVE  Run(id)'
<1>0. id \in Ids
  BY DEF Kept
<1>1. batch # None /\ batch.id = id /\ Unkept(id) /\ Doing("snapshot", id)
  BY DEF HookSnapshot, Doing, Unkept
<1>2. /\ WriteSnapshot(id, mem[id]) /\ timelines' = Bumped(timelines, id, mem[id].tick)
      /\ batch' = [batch EXCEPT !.call = IF batch.publishes THEN "live" ELSE "tick"]
      /\ UNCHANGED <<live, mem, was>>
  BY DEF HookSnapshot, WriteSnapshot, Goes, history
<1>3. timelines'[id].forkTick = timelines[id].forkTick
  BY <1>0, <1>1, <1>2, Writing, BumpsFork
<1>4. ~Unkept(id)' /\ ~Doing("snapshot", id)'
  <2>1. batch \in Batches
    BY <1>1, Writing
  <2> QED
    BY <1>2, <2>1 DEF Doing, Unkept, Batches
<1>5. \A k \in Ticks : snapshots'[id][k] = IF k = mem[id].tick THEN mem[id] ELSE snapshots[id][k]
  <2>1. mem[id] \in World
    BY <1>1, Writing
  <2> QED
    BY <1>0, <1>2, <2>1, Written DEF TypeInv
<1>6. /\ mem[id] # None /\ mem[id] \in World /\ mem[id].tick \in Ticks /\ mem[id].tick \in Nat
      /\ mem[id] \in was[id] /\ Passed(id, mem[id].tick)
      /\ timelines[id].forkTick \in Nat /\ timelines[id].forkTick <= mem[id].tick
      /\ SnapshotDue(mem[id].tick)
      /\ \A v \in was[id] : v.tick <= mem[id].tick /\ v.tick \in Nat
      /\ \A v \in was[id] : v.tick = mem[id].tick => v = mem[id]
      /\ live[id] # None => live[id].tick < mem[id].tick
  BY <1>1, Writing, RunTicks
<1>7. \A n : Passed(id, n)' <=> Passed(id, n)
  BY <1>2, <1>3 DEF Passed
<1>8. ASSUME NEW k \in Ticks, snapshots'[id][k] # None
      PROVE  /\ timelines'[id].forkTick <= k
             /\ k = timelines'[id].forkTick \/ SnapshotDue(k)
             /\ OnRun(id, k)' => \A v \in was'[id] : v.tick >= k => Continues(v, snapshots'[id][k], k)
             /\ live'[id] = None => Passed(id, k)' /\ OnRun(id, k)' /\ snapshots'[id][k] \in was'[id]
  <2>1. CASE k = mem[id].tick
    <3>1. snapshots'[id][k] = mem[id]
      BY <1>5, <2>1
    <3>2. \A v \in was[id] : v.tick >= k => v = mem[id]
      BY <1>6, <2>1
    <3>3. Continues(mem[id], mem[id], k)
      BY <1>6, GoesOn
    <3>4. OnRun(id, k)'
      BY <1>2, <1>4, <1>6, <2>1 DEF OnRun
    <3> QED
      BY <1>2, <1>3, <1>6, <1>7, <2>1, <3>1, <3>2, <3>3, <3>4
  <2>2. CASE k # mem[id].tick
    <3>1. snapshots'[id][k] = snapshots[id][k] /\ snapshots[id][k] # None
      BY <1>5, <1>8, <2>2
    <3>2. OnRun(id, k)' <=> OnRun(id, k)
      BY <1>2, <1>4, <1>6, <2>2 DEF OnRun
    <3> QED
      BY <1>2, <1>3, <1>7, <3>1, <3>2, RunTicks
  <2> QED
    BY <2>1, <2>2
<1>9. live'[id] # None => /\ live'[id] \in was'[id] /\ timelines'[id].forkTick <= live'[id].tick
                          /\ Passed(id, live[id].tick)'
  BY <1>2, <1>3, RunTicks DEF Passed
<1>10. /\ mem'[id] \in was'[id] /\ Passed(id, mem[id].tick)'
       /\ timelines'[id].forkTick <= mem'[id].tick
       /\ \A v \in was'[id] : v.tick <= mem'[id].tick
  BY <1>2, <1>3, <1>6 DEF Passed
<1> QED
  BY <1>4, <1>8, <1>9, <1>10 DEF Run

\* write_live, without Redis.
LEMMA PublishRun ==
    ASSUME TypeInv, LineageInv, ~store.redis, Ahead, NEW id \in Kept, Run(id), Publish(id)
    PROVE  Run(id)'
<1>0. id \in Ids
  BY DEF Kept
<1>1. Doing("live", id) /\ StoreLive(id, mem[id]) /\ Published
  BY <1>0, NoCache DEF Publish
<1>2. /\ batch # None /\ batch.id = id /\ ~Unkept(id)
      /\ timelines' = Bumped(timelines, id, mem[id].tick) /\ UNCHANGED <<snapshots, mem, was>>
  BY <1>1 DEF Doing, Unkept, Publish, StoreLive, history
<1>3. /\ mem[id] # None /\ mem[id] \in World /\ mem[id].tick \in Ticks /\ timelines[id] # None
      /\ mem[id] \in was[id] /\ Passed(id, mem[id].tick)
      /\ timelines[id].forkTick <= mem[id].tick
      /\ \A v \in was[id] : v.tick <= mem[id].tick
  BY <1>2, Writing, RunTicks
<1>4. live'[id] = mem[id]
  BY <1>0, <1>1 DEF StoreLive, TypeInv, TypeOK
<1>5. timelines'[id].forkTick = timelines[id].forkTick
  BY <1>0, <1>2, <1>3, BumpsFork
<1>6. ~Unkept(id)' /\ ~Doing("snapshot", id)'
  <2>1. batch \in Batches
    BY <1>2, Writing
  <2> QED
    BY <1>1, <2>1 DEF Published, Doing, Unkept, Batches
<1>7. \A k \in Ticks : OnRun(id, k)' <=> OnRun(id, k)
  BY <1>2, <1>3, <1>6 DEF OnRun
<1>8. Passed(id, mem[id].tick)'
  BY <1>2, <1>3, <1>5 DEF Passed
<1>9. ASSUME NEW k \in Ticks, snapshots'[id][k] # None
      PROVE  /\ timelines'[id].forkTick <= k
             /\ k = timelines'[id].forkTick \/ SnapshotDue(k)
             /\ OnRun(id, k)' => \A v \in was'[id] : v.tick >= k => Continues(v, snapshots'[id][k], k)
  BY <1>2, <1>5, <1>7, <1>9, RunTicks
<1>10. Passed(id, live[id].tick)'
  BY <1>2, <1>4, <1>8
<1> QED
  BY <1>2, <1>3, <1>4, <1>5, <1>6, <1>8, <1>9, <1>10 DEF Run

\* The steps of the worker keep every run,
LEMMA WorkerRuns ==
    ASSUME TypeInv, LineageInv, ~store.redis, Ahead, \A j \in Kept : Run(j), NEW id \in Ids,
           \/ Load(id) \/ ApplyScenario(id) \/ Tick(id) \/ Flush(id) \/ HookSnapshot(id)
           \/ Publish(id) \/ SetControl(id) \/ Expire(id) \/ WorkerCrash
    PROVE  \A j \in Kept : Run(j)'
<1> DEFINE Others == \A j \in Ids : j # id => Elsewhere(j)
<1>0. /\ Kept \subseteq Ids
      /\ Others /\ (id \in Kept => Run(id)') => \A j \in Kept : Run(j)'
  BY RunElsewhere DEF Kept
<1>1. CASE Load(id)
  <2>1. Others
    BY <1>1 DEF Load, Visits, Elsewhere, Doing, TypeInv, TypeOK, storeVars
  <2> QED
    BY <1>0, <1>1, <2>1, LoadRun
<1>2. CASE ApplyScenario(id)
  <2>1. batch = None /\ batch' \in {None, Begin(id)} /\ Begin(id).call = "tick"
    BY <1>2 DEF ApplyScenario, Visits, Begin
  <2>2. Others
    BY <1>2, <2>1 DEF ApplyScenario, Elsewhere, Doing, TypeInv, TypeOK
  <2> QED
    BY <1>0, <1>2, <2>2, ApplyScenarioRun
<1>3. CASE Tick(id)
  <2>1. (batch # None => batch.id = id) /\ batch' # None /\ batch'.id = id
    BY <1>3, TickBatch DEF Tick
  <2>2. Others
    BY <1>3, <2>1 DEF Tick, Elsewhere, Doing, TypeInv, TypeOK, storeVars
  <2> QED
    BY <1>0, <1>3, <2>2, TickRun
<1>4. ASSUME Die, UNCHANGED <<storeVars, was>> PROVE \A j \in Kept : Run(j)'
  BY <1>4, DieRun DEF storeVars
<1>5. CASE Flush(id) \/ HookSnapshot(id)
  <2>1. CASE Die
    <3>1. UNCHANGED <<storeVars, was>>
      <4>1. batch # None
        BY <1>5 DEF Flush, HookSnapshot, Doing
      <4>2. batch' = None
        BY <2>1 DEF Die
      <4>3. batch \in Batches /\ \A call \in {"snapshot", "live", "tick"}, n \in Ticks :
               [batch EXCEPT !.flushed = n, !.call = call] # None /\ [batch EXCEPT !.call = call] # None
        <5>1. batch \in Batches
          BY <4>1 DEF TypeInv, TypeOK
        <5>2. \A call \in {"snapshot", "live", "tick"}, n \in Ticks :
               /\ [batch EXCEPT !.flushed = n, !.call = call] \in Batches
               /\ [batch EXCEPT !.call = call] \in Batches
          BY <5>1 DEF Batches
        <5> QED
          BY <5>1, <5>2, NoneIsNone
      <4>4. mem[id].tick \in Ticks
        BY <1>5, WorkerHas DEF Flush, HookSnapshot, Doing
      <4>5. CASE Flush(id)
        BY <4>2, <4>3, <4>4, <4>5 DEF Flush, history
      <4>6. CASE HookSnapshot(id)
        BY <4>2, <4>3, <4>4, <4>6 DEF HookSnapshot, Goes, history
      <4> QED
        BY <1>5, <4>5, <4>6
    <3> QED
      BY <1>4, <2>1, <3>1
  <2>2. CASE ~Die
    <3>1. batch # None /\ batch.id = id /\ batch \in Batches /\ mem[id].tick \in Ticks
      BY <1>5, WorkerHas DEF Flush, HookSnapshot, Doing
    <3>2. batch'.id = id
      BY <1>5, <2>2, <3>1 DEF Flush, HookSnapshot, Goes, Batches
    <3>3. UNCHANGED <<live, mem, was>> /\ \A j \in Ids : j # id => snapshots'[j] = snapshots[j]
      BY <1>5, <2>2 DEF Flush, HookSnapshot, WriteSnapshot, TypeInv, TypeOK, history
    <3>4. \A j \in Ids : j # id => timelines'[j] = timelines[j]
      <4>1. timelines' = Bumped(timelines, id, mem[id].tick)
        BY <1>5, <2>2 DEF Flush, HookSnapshot, WriteSnapshot
      <4> QED
        BY <3>1, <4>1, BumpsFork
    <3>5. Others
      BY <3>1, <3>2, <3>3, <3>4 DEF Elsewhere, Doing
    <3> QED
      BY <1>0, <1>5, <2>2, <3>5, FlushRun, HookSnapshotRun
  <2> QED
    BY <2>1, <2>2
<1>6. CASE Publish(id)
  <2>1. Doing("live", id) /\ StoreLive(id, mem[id]) /\ Published
    BY <1>6, NoCache DEF Publish
  <2>2. batch # None /\ batch.id = id /\ batch \in Batches /\ mem[id].tick \in Ticks
    BY <2>1, WorkerHas DEF Doing
  <2>3. batch' = None \/ batch'.id = id
    BY <2>1, <2>2 DEF Published, Batches
  <2>4. \A j \in Ids : j # id => timelines'[j] = timelines[j] /\ live'[j] = live[j]
    BY <2>1, <2>2, BumpsFork DEF StoreLive, TypeInv, TypeOK
  <2>5. UNCHANGED <<snapshots, mem, was>>
    BY <1>6, <2>1 DEF Publish, StoreLive, history
  <2>6. Others
    BY <2>2, <2>3, <2>4, <2>5 DEF Elsewhere, Doing
  <2> QED
    BY <1>0, <1>6, <2>6, PublishRun
<1>7. CASE SetControl(id) \/ Expire(id)
  BY <1>0, <1>7, RunStays DEF SetControl, Expire, storeVars, workerVars, history
<1>8. CASE WorkerCrash
  BY <1>4, <1>8 DEF WorkerCrash, history
<1> QED
  BY <1>1, <1>2, <1>3, <1>5, <1>6, <1>7, <1>8

\* Nothing is being done with a timeline that has nothing loaded.
LEMMA NotDone ==
    ASSUME TypeInv, NEW id \in Ids, mem[id] = None
    PROVE  ~Unkept(id) /\ ~Doing("snapshot", id)
BY WorkerHas DEF Doing, Unkept

\* The steps of threads that put nothing.
LEMMA ThreadStays ==
    ASSUME NEW t \in Threads,
           \/ AskCreate(t) \/ AskFork(t) \/ AskReplay(t) \/ AskRead(t)
           \/ Replay(t) \/ Name(t) \/ Look(t) \/ Fetch(t) \/ Reread(t) \/ Answer(t) \/ ApiRestart
    PROVE  UNCHANGED <<timelines, snapshots, live, mem, batch, was>>
BY DEF AskCreate, AskFork, AskReplay, AskRead, Replay, Reject, Name, Look, Fetch,
   Reread, Answer, ApiRestart, storeVars, workerVars, history

\* A thread that builds begins the run of its timeline.
LEMMA BuildRun ==
    ASSUME TypeInv, LineageInv, ~store.redis, NEW t \in Threads, NEW id \in Kept, Run(id),
           PutRecord(t) \/ PutSnapshot(t) \/ PutLive(t)
    PROVE  Run(id)'
<1> DEFINE me == thread[t]
           r == me.record
<1>0. id \in Ids
  BY DEF Kept
<1>1. me.at = "calls" /\ UNCHANGED <<mem, batch>> /\ me.id \in Ids /\ me.w \in World
      /\ me.w.tick \in Ticks
  <2>1. me.at = "calls" /\ UNCHANGED <<mem, batch>>
    BY DEF PutRecord, PutSnapshot, PutLive, workerVars
  <2>2. me.id \in Ids /\ me.w \in World
    BY <2>1, Calling
  <2> QED
    BY <2>1, <2>2 DEF World
<1>2. CASE me.id # id
  <2>1. /\ timelines'[id] = timelines[id] /\ snapshots'[id] = snapshots[id]
        /\ live'[id] = live[id] /\ was'[id] = was[id]
    <3>1. CASE PutRecord(t)
      <4>1. UNCHANGED <<snapshots, live, was>>
        BY <3>1 DEF PutRecord, history
      <4>2. timelines' = timelines \/ PutTimeline(me.id, r)
        BY <3>1 DEF PutRecord
      <4> QED
        BY <1>0, <1>1, <1>2, <4>1, <4>2 DEF PutTimeline, TypeInv, TypeOK
    <3>2. CASE PutSnapshot(t) /\ Refused(me.id, me.w)
      BY <3>2 DEF PutSnapshot, Reject, storeVars
    <3>3. CASE PutSnapshot(t) /\ ~Refused(me.id, me.w)
      <4>1. /\ snapshots' = [snapshots EXCEPT ![me.id][me.w.tick] = me.w]
            /\ timelines' = Bumped(timelines, me.id, me.w.tick) /\ live' = live
            /\ was' = [was EXCEPT ![me.id] = @ \cup {me.w}]
        BY <3>3 DEF PutSnapshot, WriteSnapshot
      <4>2. timelines'[id] = timelines[id]
        BY <1>0, <1>1, <1>2, <4>1, BumpsFork
      <4> QED
        BY <1>0, <1>1, <1>2, <4>1, <4>2 DEF TypeInv, TypeOK
    <3>4. CASE PutLive(t)
      <4>1. /\ live'[id] = live[id] /\ UNCHANGED <<snapshots, was>>
            /\ timelines' = Bumped(timelines, me.id, me.w.tick)
        BY <1>0, <1>2, <3>4, ThreadPutsLive DEF PutLive, StoreLive, history
      <4> QED
        BY <1>0, <1>1, <1>2, <4>1, BumpsFork
    <3> QED
      BY <3>1, <3>2, <3>3, <3>4
  <2> QED
    BY <1>0, <1>1, <2>1, RunStays
<1>3. CASE me.id = id
  <2>1. Builds(t)
    <3>1. me.call \in {"world", "timeline", "control", "snapshot", "live", "cache"}
      BY DEF PutRecord, PutSnapshot, PutLive
    <3> QED
      BY <1>1, <1>3, <3>1, NoCache, Calling DEF Builds
  <2>2. r \in TimelineRecord /\ r # None /\ me.w # None /\ Started(t)
    BY <1>3, <2>1, Maker
  <2> USE <1>3
  <2>3. CASE PutRecord(t)
    <3>1. UNCHANGED <<snapshots, live, was>>
      BY <2>3 DEF PutRecord, history
    <3>2. CASE UNCHANGED timelines
      BY <1>0, <1>1, <3>1, <3>2, RunStays
    <3>3. CASE me.call = "timeline" /\ PutTimeline(id, r)
      <4>1. timelines[id] = None /\ Blank(id)
        BY <2>2, <3>3 DEF Started, LineageInv, BelongInv, Lineal
      <4>2. /\ live'[id] = None /\ mem'[id] = None
            /\ \A k \in Ticks : snapshots'[id][k] = None
        BY <1>1, <3>1, <4>1 DEF Blank
      <4>3. ~Unkept(id)' /\ ~Doing("snapshot", id)'
        <5>1. ~Unkept(id) /\ ~Doing("snapshot", id)
          BY <1>0, <4>1, NotDone DEF Blank
        <5> QED
          BY <1>1, <5>1 DEF Doing, Unkept
      <4> QED
        BY <4>2, <4>3 DEF Run
    <3> QED
      BY <2>3, <3>2, <3>3 DEF PutRecord
  <2>4. CASE PutSnapshot(t)
    <3>1. CASE Refused(id, me.w)
      BY <1>0, <1>1, <2>4, <3>1, RunStays DEF PutSnapshot, Reject, storeVars
    <3>2. CASE ~Refused(id, me.w)
      <4>1. /\ WriteSnapshot(id, me.w) /\ timelines' = Bumped(timelines, id, me.w.tick)
            /\ was' = [was EXCEPT ![id] = @ \cup {me.w}] /\ live' = live
        BY <2>4, <3>2 DEF PutSnapshot, WriteSnapshot
      <4>2. /\ Blank(id) /\ timelines[id] # None
            /\ [timelines[id] EXCEPT !.head = r.head] = r /\ r.forkTick = me.w.tick
        BY <2>2, <2>4 DEF PutSnapshot, Started
      <4>3. timelines'[id].forkTick = me.w.tick
        <5>1. timelines[id].forkTick = r.forkTick
          BY <1>0, <2>2, <4>2, RecordMatches
        <5> QED
          BY <1>0, <1>1, <4>1, <4>2, <5>1, BumpsFork
      <4>4. \A k \in Ticks : snapshots'[id][k] = IF k = me.w.tick THEN me.w ELSE snapshots[id][k]
        BY <1>0, <1>1, <4>1, Written DEF TypeInv
      <4>5. was'[id] = {me.w} /\ live'[id] = None /\ mem'[id] = None
        BY <1>0, <1>1, <4>1, <4>2 DEF Blank, TypeInv, TypeOK
      <4>6. ~Unkept(id)' /\ ~Doing("snapshot", id)'
        <5>1. ~Unkept(id) /\ ~Doing("snapshot", id)
          BY <1>0, <4>2, NotDone DEF Blank
        <5> QED
          BY <1>1, <5>1 DEF Doing, Unkept
      <4>7. \A k \in Ticks : snapshots'[id][k] # None =>
               k = me.w.tick /\ snapshots'[id][k] = me.w /\ me.w.tick <= k /\ k \in Nat
        BY <1>1, <4>2, <4>4, Counts DEF Blank
      <4>8. Continues(me.w, me.w, me.w.tick)
        BY <1>1, GoesOn
      <4>9. \A k \in Ticks : snapshots'[id][k] # None => Passed(id, k)' /\ OnRun(id, k)'
        BY <4>3, <4>5, <4>7 DEF Passed, OnRun
      <4> QED
        BY <4>3, <4>5, <4>6, <4>7, <4>8, <4>9 DEF Run
    <3> QED
      BY <3>1, <3>2
  <2>5. CASE PutLive(t)
    <3>1. me.call = "live" /\ live[id] = None /\ mem[id] = None /\ live'[id] = me.w
          /\ StoreLive(id, me.w)
      BY <1>0, <2>5, ThreadPutsLive
    <3>2. timelines' = Bumped(timelines, id, me.w.tick) /\ UNCHANGED <<snapshots, was>>
      BY <2>5, <3>1 DEF PutLive, StoreLive, history
    <3>3. /\ was[id] = {me.w} /\ timelines[id] # None
          /\ [timelines[id] EXCEPT !.head = r.head] = r /\ r.forkTick = me.w.tick
      BY <2>2, <3>1 DEF Started
    <3>4. timelines'[id].forkTick = me.w.tick /\ timelines[id].forkTick = me.w.tick
      <4>1. timelines[id].forkTick = r.forkTick
        BY <1>0, <2>2, <3>3, RecordMatches
      <4> QED
        BY <1>0, <1>1, <3>2, <3>3, <4>1, BumpsFork
    <3>5. live'[id] # None /\ mem'[id] = None /\ was'[id] = {me.w}
      BY <1>1, <2>2, <3>1, <3>2, <3>3
    <3>6. ~Unkept(id)' /\ ~Doing("snapshot", id)'
      <4>1. ~Unkept(id) /\ ~Doing("snapshot", id)
        BY <1>0, <3>1, NotDone
      <4> QED
        BY <1>1, <4>1 DEF Doing, Unkept
    <3>7. Passed(id, live[id].tick)' /\ me.w.tick <= me.w.tick
      BY <1>1, <3>1, <3>4, <3>5, Counts DEF Passed
    <3>8. \A k \in Ticks : snapshots'[id][k] # None =>
             /\ me.w.tick <= k
             /\ k = me.w.tick \/ SnapshotDue(k)
             /\ \A v \in was'[id] : v.tick >= k => Continues(v, snapshots'[id][k], k)
      <4>1. \A k \in Ticks : OnRun(id, k)
        BY <3>1 DEF OnRun
      <4> QED
        BY <1>0, <3>2, <3>4, <4>1 DEF Run
    <3> QED
      BY <3>1, <3>4, <3>5, <3>6, <3>7, <3>8 DEF Run
  <2> QED
    BY <2>3, <2>4, <2>5
<1> QED
  BY <1>2, <1>3

\* and so does every step.
LEMMA RunNext ==
    ASSUME TypeInv, LineageInv, ~store.redis, Ahead, \A j \in Kept : Run(j), [Next]_vars
    PROVE  \A j \in Kept : Run(j)'
<1>0. Kept \subseteq Ids
  BY DEF Kept
<1>1. ASSUME NEW id \in Ids,
             \/ Load(id) \/ ApplyScenario(id) \/ Tick(id) \/ Flush(id) \/ HookSnapshot(id)
             \/ Publish(id) \/ SetControl(id) \/ Expire(id)
      PROVE  \A j \in Kept : Run(j)'
  BY <1>1, WorkerRuns
<1>2. CASE WorkerCrash
  BY <1>2, WorkerRuns, Counts
<1>3. ASSUME NEW t \in Threads,
             \/ AskCreate(t) \/ AskFork(t) \/ AskReplay(t) \/ AskRead(t)
             \/ Replay(t) \/ Name(t) \/ Look(t) \/ Fetch(t) \/ Reread(t) \/ Answer(t)
      PROVE  \A j \in Kept : Run(j)'
  BY <1>0, <1>3, ThreadStays, RunStays
<1>4. ASSUME NEW t \in Threads, PutRecord(t) \/ PutSnapshot(t) \/ PutLive(t)
      PROVE  \A j \in Kept : Run(j)'
  BY <1>4, BuildRun
<1>5. CASE ApiRestart
  BY <1>0, <1>5, RunStays DEF ApiRestart, storeVars, workerVars, history
<1>6. CASE UNCHANGED vars
  BY <1>0, <1>6, RunStays DEF vars, storeVars, workerVars, history
<1> QED
  BY <1>1, <1>2, <1>3, <1>4, <1>5, <1>6 DEF Next, Serving

-----------------------------------------------------------------------------
(* Replays.                                                                *)

\* A run goes on from what was published: with later ticks, and scenarios.
Extends(id) ==
    live[id] # None =>
        /\ timelines'[id].forkTick = timelines[id].forkTick
        /\ live'[id] # None /\ live[id].tick <= live'[id].tick
        /\ \A v \in was'[id] :
             \/ v \in was[id]
             \/ v.tick > live[id].tick
             \/ \E u \in was[id] : v = [u EXCEPT !.inputs = Append(@, u.tick)]

\* What was published stays so, in whatever step.
LEMMA StaysPublished ==
    ASSUME TypeInv, LineageInv, Ahead, Steady, LiveGrows, NEW id \in Kept', Run(id), live[id] # None
    PROVE  /\ id \in Kept /\ id \in Ids
           /\ timelines'[id].forkTick = timelines[id].forkTick
           /\ live[id].tick \in Nat /\ live'[id] # None /\ live[id].tick <= live'[id].tick
<1>1. id \in Kept /\ RecordKept(id)
  BY KeptWas DEF Steady, NothingLost
<1>2. /\ id \in Ids /\ timelines[id] # None /\ live[id].tick \in Nat
      /\ live[id].tick <= live[id].tick
  BY <1>1, RunTicks
<1> QED
  BY <1>1, <1>2 DEF LiveGrows, RecordKept

\* Each step of the worker extends the run of each timeline,
LEMMA WorkerExtends ==
    ASSUME TypeInv, LineageInv, ~store.redis, Ahead, Steady, \A j \in Kept : Run(j), NEW id \in Ids,
           \/ Load(id) \/ ApplyScenario(id) \/ Tick(id) \/ Flush(id) \/ HookSnapshot(id)
           \/ Publish(id) \/ SetControl(id) \/ Expire(id) \/ WorkerCrash,
           NEW j \in Kept'
    PROVE  Extends(j)
<1> SUFFICES ASSUME live[j] # None PROVE Extends(j)
  BY DEF Extends
<1>1. j \in Kept /\ j \in Ids /\ Run(j) /\ LiveGrows
  BY AheadWorker, KeptWas DEF Steady, Kept
<1>2. /\ timelines'[j].forkTick = timelines[j].forkTick
      /\ live[j].tick \in Nat /\ live'[j] # None /\ live[j].tick <= live'[j].tick
  BY <1>1, StaysPublished
<1>3. CASE UNCHANGED was
  BY <1>2, <1>3 DEF Extends
<1>4. CASE Load(id)
  <2>1. was'[j] \subseteq was[j] \cup {live[j]}
    <3>1. was' = [was EXCEPT ![id] = {w \in @ : w.tick < Stored(id).tick} \cup {Stored(id)}]
          /\ (j = id => Stored(id) = live[j])
      BY <1>1, <1>4, LoadsLive DEF Load
    <3> HIDE DEF Stored
    <3> QED
      BY <1>1, <3>1 DEF TypeInv, TypeOK
  <2>2. live[j] \in was[j]
    BY <1>1, RunTicks
  <2> QED
    BY <1>2, <2>1, <2>2 DEF Extends
<1>5. CASE ApplyScenario(id)
  <2>1. j = id => mem[id] # None /\ mem[id] \in was[id]
    BY <1>1, <1>5, RunTicks DEF ApplyScenario
  <2>2. was'[j] \subseteq was[j] \cup
          (IF j = id THEN {[mem[id] EXCEPT !.inputs = Append(@, mem[id].tick)]} ELSE {})
    BY <1>1, <1>5 DEF ApplyScenario, TypeInv, TypeOK
  <2> QED
    BY <1>2, <2>1, <2>2 DEF Extends
<1>6. CASE Tick(id)
  <2>1. mem[id] # None
    BY <1>6 DEF Tick
  <2>2. was'[j] \subseteq was[j] \cup (IF j = id THEN {[mem[id] EXCEPT !.tick = @ + 1]} ELSE {})
    <3>1. mem'[id] = [mem[id] EXCEPT !.tick = @ + 1] /\ was' = [was EXCEPT ![id] = @ \cup {mem'[id]}]
      BY <1>6 DEF Tick, TypeInv, TypeOK
    <3> QED
      BY <1>1, <3>1 DEF TypeInv, TypeOK
  <2>3. j = id => [mem[id] EXCEPT !.tick = @ + 1].tick > live[j].tick
    BY <1>1, <1>2, <2>1, RunTicks DEF World
  <2> QED
    BY <1>2, <2>2, <2>3 DEF Extends
<1> QED
  BY <1>3, <1>4, <1>5, <1>6 DEF Flush, HookSnapshot, Publish, SetControl, Expire,
     WorkerCrash, history

\* and so does each step of the API.
LEMMA ThreadExtends ==
    ASSUME TypeInv, LineageInv, ~store.redis, Ahead, Steady, \A j \in Kept : Run(j),
           NEW t \in Threads,
           AskCreate(t) \/ AskFork(t) \/ AskReplay(t) \/ AskRead(t) \/ Serving(t),
           NEW j \in Kept'
    PROVE  Extends(j)
<1> SUFFICES ASSUME live[j] # None PROVE Extends(j)
  BY DEF Extends
<1> DEFINE me == thread[t]
<1>1. j \in Kept /\ j \in Ids /\ Run(j) /\ LiveGrows
  BY AheadThreads, KeptWas DEF Steady, Kept
<1>2. /\ timelines'[j].forkTick = timelines[j].forkTick
      /\ live'[j] # None /\ live[j].tick <= live'[j].tick
  BY <1>1, StaysPublished
<1>3. was'[j] = was[j]
  <2>1. CASE PutSnapshot(t) /\ ~Refused(me.id, me.w)
    <3>1. was' = [was EXCEPT ![me.id] = @ \cup {me.w}] /\ me.at = "calls" /\ me.call = "snapshot"
      BY <2>1 DEF PutSnapshot
    <3>2. Builds(t)
      BY <3>1, MakerCalls
    <3>3. me.id \in Ids /\ (me.id \in Kept => live[me.id] = None)
      BY <3>1, <3>2, Maker DEF Started, Blank
    <3>4. me.id # j
      BY <1>1, <3>3
    <3> QED
      BY <1>1, <3>1, <3>3, <3>4 DEF TypeInv, TypeOK
  <2>2. CASE PutSnapshot(t) /\ Refused(me.id, me.w)
    BY <2>2 DEF PutSnapshot
  <2>3. CASE PutRecord(t) \/ PutLive(t)
    BY <2>3 DEF PutRecord, PutLive, history
  <2>4. CASE \/ AskCreate(t) \/ AskFork(t) \/ AskReplay(t) \/ AskRead(t)
             \/ Replay(t) \/ Name(t) \/ Look(t) \/ Fetch(t) \/ Reread(t) \/ Answer(t)
    BY <2>4, ThreadStays
  <2> QED
    BY <2>1, <2>2, <2>3, <2>4 DEF Serving
<1> QED
  BY <1>2, <1>3 DEF Extends

\* What a replay arrived at stays a past of the run, and is one when it arrives.
LEMMA StaysReplayed ==
    ASSUME TypeInv, TypeInv', LineageInv, ~store.redis, Ahead, NEW id \in Kept, Run(id), Extends(id),
           NEW w \in World, NEW from \in Ticks, Replayed(w, from, id)
    PROVE  Replayed(w, from, id)'
<1>1. /\ live[id] # None /\ w.tick <= live[id].tick
      /\ timelines[id].forkTick <= from /\ from <= w.tick
      /\ \A v \in was[id] : v.tick = w.tick => Continues(v, w, from)
  BY DEF Replayed
<1>2. /\ timelines'[id].forkTick = timelines[id].forkTick
      /\ live'[id] # None /\ live[id].tick <= live'[id].tick
      /\ \A v \in was'[id] :
           \/ v \in was[id]
           \/ v.tick > live[id].tick
           \/ \E u \in was[id] : v = [u EXCEPT !.inputs = Append(@, u.tick)]
  BY <1>1 DEF Extends
<1>3. live[id].tick \in Nat /\ live'[id].tick \in Nat /\ w.tick \in Nat /\ w.tick \in Ticks
  <2>1. id \in Ids /\ live'[id] \in World
    BY <1>2 DEF TypeInv, TypeOK, Kept
  <2> QED
    BY <1>1, <2>1, RunTicks, Counts DEF World
<1>4. ASSUME NEW v \in was'[id], v.tick = w.tick PROVE Continues(v, w, from)
  <2>1. CASE v \in was[id]
    BY <1>1, <1>4, <2>1
  <2>2. CASE v.tick > live[id].tick
    BY <1>1, <1>3, <1>4, <2>2
  <2>3. ASSUME NEW u \in was[id], v = [u EXCEPT !.inputs = Append(@, u.tick)]
        PROVE  Continues(v, w, from)
    <3>1. u \in World /\ u.tick \in Ticks
      BY RunTicks
    <3>2. u.tick = w.tick
      BY <1>4, <2>3, <3>1 DEF World
    <3>3. Continues(u, w, from) /\ from <= u.tick
      BY <1>1, <3>2
    <3> QED
      BY <2>3, <3>1, <3>3, GoesOn
  <2> QED
    BY <1>2, <2>1, <2>2, <2>3
<1>5. w.tick <= live'[id].tick
  BY <1>1, <1>2, <1>3
<1> QED
  BY <1>1, <1>2, <1>4, <1>5 DEF Replayed

\* From the nearest snapshot a replay of a published tick arrives at the run's past.
LEMMA ArrivesReplayed ==
    ASSUME TypeInv, LineageInv, ~store.redis, Ahead, NEW id \in Kept, Run(id), NEW tick \in Ticks,
           Nearest(id, tick) # None, live[id] # None, tick <= live[id].tick
    PROVE  Replayed(Resimulated(Nearest(id, tick), tick), Nearest(id, tick).tick, id)
<1> DEFINE from == Nearest(id, tick)
           w    == Resimulated(from, tick)
<1>0. id \in Ids
  BY DEF Kept
<1>1. /\ from \in World /\ from.tick \in 0..tick /\ from = snapshots[id][from.tick]
  BY <1>0, NearestIsLast DEF TypeInv
<1>2. w \in World /\ w.tick = tick
  BY <1>0, Resimulates
<1>3. tick \in Nat /\ from.tick \in Nat /\ from.tick \in Ticks /\ from.tick <= tick
  BY <1>1, Counts DEF World
<1>4. live[id].tick \in Nat /\ (mem[id] # None => mem[id].tick \in Nat /\ live[id].tick <= mem[id].tick)
  BY RunTicks
<1>5. OnRun(id, from.tick)
  <2>1. Unkept(id) => live[id].tick < mem[id].tick
    BY DEF Run
  <2> QED
    BY <1>3, <1>4, <2>1 DEF OnRun
<1>6. /\ timelines[id].forkTick <= from.tick
      /\ \A v \in was[id] : v.tick >= from.tick => Continues(v, from, from.tick)
  <2>1. snapshots[id][from.tick] # None
    BY <1>1, NoneIsNone
  <2> HIDE DEF from
  <2> QED
    BY <1>1, <1>3, <1>5, <2>1, RunTicks
<1>7. ASSUME NEW v \in was[id], v.tick = tick PROVE Continues(v, w, from.tick)
  <2>1. v \in World /\ Continues(v, from, from.tick)
    BY <1>3, <1>6, <1>7, RunTicks
  <2> QED
    BY <1>1, <1>3, <2>1, GoesOn DEF Resimulated
<1> HIDE DEF from, w
<1> QED
  BY <1>2, <1>3, <1>6, <1>7 DEF Replayed, from, w

\* What a thread that is left alone found stays.
LEMMA PastKept ==
    ASSUME TypeInv, TypeInv', LineageInv, ~store.redis, Ahead, Grows, \A j \in Kept : Run(j),
           \A j \in Kept' : Extends(j), NEW t \in Threads, Past(t), thread'[t] = thread[t]
    PROVE  Past(t)'
<1> DEFINE me == thread[t]
<1>0. me \in Requests \cup {Idle} /\ Kept' \subseteq Kept
  BY ThreadHas, KeptWas
<1>1. ASSUME NEW id \in Kept', NEW w \in World, NEW from \in Ticks, Replayed(w, from, id)
      PROVE  Replayed(w, from, id)'
  BY <1>0, <1>1, StaysReplayed
<1>2. ASSUME me.at = "done", me.kind = "replay", me.published, me.id \in Kept'
      PROVE  me.w.tick = me.tick /\ \E id, w, from : /\ id = me.id /\ w = me.w /\ from = me.from
                                                     /\ Replayed(w, from, id)'
  <2>1. me.w \in World /\ me.from \in Ticks
    BY <1>0, <1>2, Shapes DEF ReplayedTo
  <2>2. me.w.tick = me.tick /\ Replayed(me.w, me.from, me.id)
    BY <1>0, <1>2 DEF Past
  <2> QED
    BY <1>1, <1>2, <2>1, <2>2
<1>3. ASSUME me.at = "name", me.published, me.id \in Kept'
      PROVE  \E id, w, from : /\ id = me.id /\ w = me.w /\ from = me.from
                              /\ Replayed(w, from, id)'
  <2>1. me.w \in World /\ me.from \in Ticks
    BY <1>0, <1>3, Shapes DEF ToName
  <2>2. Replayed(me.w, me.from, me.id)
    BY <1>0, <1>3 DEF Past
  <2> QED
    BY <1>1, <1>3, <2>1, <2>2
<1>4. ASSUME me.at = "calls", me.kind = "fork", me.published, me.record.parent \in Kept'
      PROVE  /\ me.old.tick = me.record.forkTick
             /\ \E id, w, from : /\ id = me.record.parent /\ w = me.old /\ from = me.from
                                 /\ Replayed(w, from, id)'
  <2>1. me.old \in World /\ me.from \in Ticks
    BY <1>0, <1>4, Shapes DEF Forking
  <2>2. me.old.tick = me.record.forkTick /\ Replayed(me.old, me.from, me.record.parent)
    BY <1>0, <1>4 DEF Past
  <2> QED
    BY <1>1, <1>4, <2>1, <2>2
<1> QED
  BY <1>2, <1>3, <1>4 DEF Past, Replayed

\* A request that makes a timeline goes on with what it forked, or is over.
LEMMA MakerKeepsPast ==
    ASSUME TypeInv, LineageInv, NEW t \in Threads, Builds(t),
           PutRecord(t) \/ PutSnapshot(t) \/ Reread(t) \/ PutLive(t) \/ Answer(t)
    PROVE  LET me == thread[t]
               next == thread'[t]
           IN  \/ next = Idle
               \/ /\ next.at = "calls" /\ next.kind = me.kind /\ next.record = me.record
                  /\ me.kind = "fork" => /\ me.old \in World /\ me.from \in Ticks
                                         /\ next.old = me.old /\ next.from = me.from
                                         /\ next.published = me.published
<1> DEFINE me == thread[t]
<1>1. /\ me.at = "calls" /\ me.w \in World /\ me.id \in Ids /\ me.w.tick \in Ticks
      /\ (me.kind = "fork" => me \in Forking) /\ (me.kind = "create" => me \in Creating)
      /\ me.kind \in {"create", "fork"}
  BY Maker, Calling
<1>2. me.kind = "fork" => me.old \in World /\ me.from \in Ticks
  BY <1>1 DEF Forking
<1>3. CASE \E w \in World : Proceed(t, w)
  <2>1. PICK w \in World : Proceed(t, w)
    BY <1>3
  <2> QED
    BY <1>2, <2>1, MakerGoes DEF Builds
<1>4. CASE thread'[t] = Idle
  BY <1>4
<1>5. CASE Become(t, [me EXCEPT !.call = "control"])
  <2>1. thread'[t] = [me EXCEPT !.call = "control"]
    BY <1>5, Moves
  <2> QED
    BY <1>1, <1>2, <2>1 DEF Forking, Creating
<1>6. CASE Reread(t)
  <2> DEFINE w == snapshots[me.id][me.w.tick]
  <2>1. IF w # None THEN Proceed(t, w) ELSE Become(t, [me EXCEPT !.call = "control"])
    BY <1>6 DEF Reread
  <2>2. w # None => w \in World
    BY <1>1 DEF TypeInv, TypeOK
  <2> HIDE DEF w
  <2> QED
    BY <1>3, <1>5, <2>1, <2>2
<1>7. CASE PutSnapshot(t)
  BY <1>1, <1>3, <1>4, <1>7, Moves DEF PutSnapshot, Reject
<1> QED
  BY <1>1, <1>3, <1>6, <1>7 DEF PutRecord, PutLive, Answer

\* What a thread found that takes a step of its own.
LEMMA PastNext ==
    ASSUME TypeInv, TypeInv', LineageInv, ~store.redis, Ahead, Grows, \A j \in Kept : Run(j),
           \A j \in Kept' : Extends(j), NEW t \in Threads, Past(t),
           AskCreate(t) \/ AskFork(t) \/ AskReplay(t) \/ AskRead(t) \/ Serving(t)
    PROVE  Past(t)'
<1> DEFINE me == thread[t]
<1>0. me \in Requests \cup {Idle} /\ Kept' \subseteq Kept
  BY ThreadHas, KeptWas
<1>1. ASSUME NEW record, Become(t, record) PROVE thread'[t] = record
  BY <1>1, Moves
<1>2. ASSUME thread'[t].at \notin {"done", "name", "calls"} PROVE Past(t)'
  BY <1>2 DEF Past
<1>3. ASSUME thread'[t].kind \in {"create", "read"}, thread'[t].at # "name" PROVE Past(t)'
  BY <1>3 DEF Past
<1>4. CASE AskCreate(t) \/ AskFork(t) \/ AskReplay(t) \/ AskRead(t)
  <2>1. PICK record : Become(t, record)
           /\ (record.at \in {"load", "look"} \/ (record.kind = "create" /\ record.at = "calls"))
    <3>1. CASE AskCreate(t)
      BY <3>1 DEF AskCreate
    <3>2. CASE AskFork(t)
      BY <3>2 DEF AskFork
    <3>3. CASE AskReplay(t)
      BY <3>3 DEF AskReplay
    <3>4. CASE AskRead(t)
      BY <3>4 DEF AskRead
    <3> QED
      BY <1>4, <3>1, <3>2, <3>3, <3>4
  <2> QED
    BY <1>1, <1>2, <1>3, <2>1
<1>5. CASE Look(t) \/ Fetch(t)
  <2>1. me \in ToRead
    BY <1>0, <1>5, Shapes DEF Look, Fetch
  <2>2. thread'[t] = Idle \/ (thread'[t].kind = "read" /\ thread'[t].at # "name")
    <3>1. CASE Look(t)
      <4>1. thread'[t] = IF Current(remembered[me.id], me.head)
                         THEN [at |-> "done", kind |-> "read", floor |-> me.floor, id |-> me.id,
                               w |-> remembered[me.id], call |-> "remember"]
                         ELSE [me EXCEPT !.at = "fetch"]
        BY <3>1 DEF Look, TypeInv, TypeOK
      <4>2. [me EXCEPT !.at = "fetch"].kind = "read" /\ [me EXCEPT !.at = "fetch"].at = "fetch"
        BY <2>1 DEF ToRead
      <4> QED
        BY <4>1, <4>2
    <3>2. CASE Fetch(t)
      <4>1. PICK record : Become(t, record) /\ (record = Idle \/ (record.kind = "read" /\ record.at = "calls"))
        BY <3>2 DEF Fetch
      <4> QED
        BY <1>1, <4>1
    <3> QED
      BY <1>5, <3>1, <3>2
  <2> QED
    BY <1>2, <1>3, <2>2 DEF Idle
<1>6. CASE Replay(t)
  <2> DEFINE from      == Nearest(me.id, me.tick)
             w         == Resimulated(from, me.tick)
             published == live[me.id] # None /\ me.tick <= live[me.id].tick
  <2>1. me.at = "load" /\ me.id \in Ids /\ me.tick \in Ticks
    BY <1>0, <1>6, Shapes DEF Replay, ToReplay, ToFork
  <2>2. UNCHANGED <<timelines, snapshots, live, mem, batch, was>>
    BY <1>6, ThreadStays
  <2>3. PICK record :
          /\ Become(t, record)
          /\ \/ record = Idle
             \/ /\ from # None /\ record.id = me.id /\ record.tick = me.tick
                /\ record.from = from.tick /\ record.w = w /\ record.published = published
                /\ \/ record.at = "name"
                   \/ record.at = "done" /\ record.kind = "replay"
    <3>1. CASE Reject(t)
      BY <3>1 DEF Reject
    <3>2. CASE ~Reject(t)
      <4>1. from # None
            /\ Become(t,
                 IF me.kind = "fork"
                 THEN [at |-> "name", kind |-> "fork", id |-> me.id, tick |-> me.tick,
                       salt |-> me.salt, parent |-> me.parent, from |-> from.tick, w |-> w,
                       published |-> published]
                 ELSE [at |-> "done", kind |-> "replay", id |-> me.id, tick |-> me.tick,
                       from |-> from.tick, w |-> w, published |-> published])
        BY <1>6, <3>2 DEF Replay
      <4> HIDE DEF from, w, published
      <4> QED
        BY <4>1
    <3> QED
      BY <3>1, <3>2
  <2>4. thread'[t] = record
    BY <1>1, <2>3
  <2>5. CASE record = Idle
    BY <1>2, <2>4, <2>5 DEF Idle
  <2>6. CASE record # Idle
    <3>1. record.w.tick = record.tick
      BY <2>1, <2>3, <2>6, Resimulates
    <3>2. record.published /\ record.id \in Kept => Replayed(record.w, record.from, record.id)
      BY <2>1, <2>3, <2>6, ArrivesReplayed
    <3>3. record.published /\ record.id \in Kept' => Replayed(record.w, record.from, record.id)'
      BY <1>0, <2>2, <3>2 DEF Replayed
    <3> HIDE DEF from, w, published
    <3> QED
      BY <2>3, <2>4, <2>6, <3>1, <3>3 DEF Past, Replayed
  <2> QED
    BY <2>5, <2>6
<1>7. CASE Name(t)
  <2>1. me.at = "name" /\ me \in ToName /\ UNCHANGED <<timelines, live, was>>
    BY <1>0, <1>7, Shapes DEF Name, storeVars
  <2>2. PICK record :
          /\ Become(t, record) /\ record.at = "calls" /\ record.kind = "fork"
          /\ record.old = me.w /\ record.from = me.from /\ record.published = me.published
          /\ record.record.parent = me.id /\ record.record.forkTick = me.tick
    BY <1>7 DEF Name
  <2>3. thread'[t] = record
    BY <1>1, <2>2
  <2>4. me.published /\ me.id \in Kept' => Replayed(me.w, me.from, me.id) /\ me.w.tick = me.tick
    <3>1. Knows(t)
      BY DEF LineageInv, ThreadsInv, Minds
    <3> QED
      BY <1>0, <2>1, <3>1 DEF Past, Knows
  <2> HIDE DEF me
  <2> QED
    BY <2>1, <2>2, <2>3, <2>4 DEF Past, Replayed
<1>8. CASE (PutRecord(t) \/ PutSnapshot(t) \/ Reread(t) \/ PutLive(t) \/ Answer(t)) /\ Builds(t)
  <2>1. PICK next : /\ next = thread'[t]
                    /\ \/ next = Idle
                       \/ /\ next.at = "calls" /\ next.kind = me.kind /\ next.record = me.record
                          /\ me.kind = "fork" => /\ me.old \in World /\ me.from \in Ticks
                                                 /\ next.old = me.old /\ next.from = me.from
                                                 /\ next.published = me.published
    BY <1>8, MakerKeepsPast
  <2>2. me.at = "calls" /\ me.kind \in {"create", "fork"}
    BY <1>8 DEF Builds
  <2>3. CASE next = Idle
    BY <1>2, <2>1, <2>3 DEF Idle
  <2>4. CASE next # Idle /\ me.kind = "create"
    BY <1>3, <2>1, <2>4
  <2>5. CASE next # Idle /\ me.kind = "fork"
    <3>1. PICK parent, old, from : /\ parent = me.record.parent /\ old = me.old /\ from = me.from
                                   /\ old \in World /\ from \in Ticks
      BY <2>1, <2>5
    <3>2. ASSUME me.published, parent \in Kept'
          PROVE  old.tick = me.record.forkTick /\ Replayed(old, from, parent)'
      <4>1. parent \in Kept /\ old.tick = me.record.forkTick /\ Replayed(old, from, parent)
        BY <1>0, <2>2, <2>5, <3>1, <3>2 DEF Past
      <4> QED
        BY <3>1, <3>2, <4>1, StaysReplayed
    <3> HIDE DEF me
    <3> QED
      BY <2>1, <2>5, <3>1, <3>2 DEF Past, Replayed
  <2> QED
    BY <2>2, <2>3, <2>4, <2>5
<1>9. CASE (PutRecord(t) \/ PutSnapshot(t) \/ Reread(t) \/ PutLive(t) \/ Answer(t)) /\ ~Builds(t)
  <2>1. me.at = "calls"
    BY <1>9 DEF PutRecord, PutSnapshot, Reread, PutLive, Answer
  <2>2. me \in Reading /\ me.kind = "read" /\ me.call \in {"live", "cache", "remember"}
    BY <1>9, <2>1, Calling DEF Builds, Reading
  <2>3. Proceed(t, me.w)
    BY <1>9, <2>2 DEF PutRecord, PutSnapshot, Reread, PutLive, Answer
  <2>4. thread'[t] = [me EXCEPT !.w = me.w, !.call = After(me.kind, me.call)]
        \/ thread'[t] = [me EXCEPT !.at = "done"]
    BY <1>1, <2>2, <2>3 DEF Proceed
  <2>5. thread'[t].kind = "read" /\ thread'[t].at \in {"calls", "done"}
    BY <2>2, <2>4 DEF Reading
  <2> QED
    BY <1>3, <2>5
<1> QED
  BY <1>4, <1>5, <1>6, <1>7, <1>8, <1>9 DEF Serving

\* Every step keeps the runs and what was replayed of them.
LEMMA HistoryNext ==
    ASSUME TypeInv, TypeInv', LineageInv, Steady, FreshInv, HistoryInv, [Next]_vars
    PROVE  HistoryInv'
<1>0. store' = store /\ Kept' \subseteq Kept /\ Grows
  BY KeptWas DEF Steady, Grows
<1> SUFFICES ASSUME ~store.redis PROVE (\A j \in Kept : Run(j)') /\ (\A t \in Threads : Past(t)')
  BY <1>0 DEF HistoryInv
<1>1. Ahead /\ (\A j \in Kept : Run(j)) /\ (\A t \in Threads : Past(t))
  BY DEF FreshInv, HistoryInv
<1>2. \A j \in Kept : Run(j)'
  BY <1>1, RunNext
<1>3. ASSUME NEW id \in Ids,
             \/ Load(id) \/ ApplyScenario(id) \/ Tick(id) \/ Flush(id) \/ HookSnapshot(id)
             \/ Publish(id) \/ SetControl(id) \/ Expire(id) \/ WorkerCrash
      PROVE  \A t \in Threads : Past(t)'
  <2>1. UNCHANGED thread
    BY <1>3 DEF Load, ApplyScenario, Tick, Flush, HookSnapshot, Publish, SetControl,
       Expire,
                WorkerCrash, apiVars
  <2>2. \A j \in Kept' : Extends(j)
    BY <1>1, <1>3, WorkerExtends
  <2> QED
    BY <1>0, <1>1, <2>1, <2>2, PastKept
<1>4. ASSUME NEW t \in Threads, AskCreate(t) \/ AskFork(t) \/ AskReplay(t) \/ AskRead(t) \/ Serving(t)
      PROVE  \A u \in Threads : Past(u)'
  <2>1. \A j \in Kept' : Extends(j)
    BY <1>1, <1>4, ThreadExtends
  <2>2. Past(t)'
    BY <1>0, <1>1, <1>4, <2>1, PastNext
  <2>3. LiveGrows /\ (thread[t] # Idle /\ thread[t].id \in Kept => Floor(t))
    BY <1>0, <1>1, <1>4, AheadThreads DEF FreshInv
  <2>4. \A u \in Threads : u # t => thread'[u] = thread[u]
    BY <1>0, <1>4, <2>3, FloorNext
  <2> QED
    BY <1>0, <1>1, <2>1, <2>2, <2>4, PastKept
<1>5. CASE ApiRestart
  <2>1. thread' = [t \in Threads |-> Idle]
    BY <1>5 DEF ApiRestart
  <2> QED
    BY <1>2, <2>1 DEF Past, Idle
<1>6. CASE UNCHANGED vars
  <2>1. UNCHANGED <<thread, timelines, live, was, disturbed>>
    BY <1>6 DEF vars, storeVars, apiVars, history
  <2>2. ASSUME NEW t \in Threads PROVE Past(t)'
    <3>1. Past(t)
      BY <1>1
    <3> QED
      BY <2>1, <3>1 DEF Past, Replayed, Kept
  <2> QED
    BY <1>2, <2>2
<1>7. CASE WorkerCrash
  <2>1. Zero \in Ids
    BY Counts
  <2> QED
    BY <1>2, <1>3, <1>7, <2>1
<1> QED
  BY <1>2, <1>3, <1>4, <1>5, <1>6, <1>7 DEF Next

LEMMA HistoryInit == Init => HistoryInv
BY DEF Init, HistoryInv, Run, Past, Doing, Unkept, Idle, Kept

\* Without Redis a replay of a published tick, and what a fork begins with, is a past
\* of the timeline, less the scenarios applied since the snapshot; half-made
\* timelines that were started included.
THEOREM ReplaysAreFaithful == Spec => []ReplayFaithful
<1>1. ASSUME TypeInv, LineageInv, FreshInv, HistoryInv PROVE ReplayFaithful
  <2> SUFFICES ASSUME ~store.redis, NEW t \in Threads
               PROVE  LET me == thread[t]
                      IN  /\ me.at = "done" /\ me.kind = "replay" /\ me.published
                                 /\ me.id \notin disturbed
                               => me.w.tick = me.tick /\ FaithfulTo(me.w, me.from, me.id)
                          /\ me.at = "calls" /\ me.kind = "fork" /\ me.published
                                 /\ me.record.parent \notin disturbed
                               => /\ me.old.tick = me.record.forkTick
                                  /\ FaithfulTo(me.old, me.from, me.record.parent)
    BY DEF ReplayFaithful
  <2> DEFINE me == thread[t]
  <2>1. ASSUME NEW id \in Kept, NEW w \in World, NEW from \in Ticks, Replayed(w, from, id)
        PROVE  FaithfulTo(w, from, id)
    <3>1. Run(id) /\ Ahead
      BY <1>1 DEF FreshInv, HistoryInv
    <3>2. /\ live[id] # None /\ timelines[id].forkTick \in Nat /\ live[id].tick \in Nat
          /\ w.tick \in Nat /\ from \in Nat /\ Passed(id, live[id].tick)
      BY <1>1, <2>1, <3>1, RunTicks, Counts DEF Replayed, World
    <3>3. w.tick \in timelines[id].forkTick..live[id].tick
      BY <2>1, <3>2 DEF Replayed
    <3>4. PICK v \in was[id] : v.tick = w.tick
      BY <3>2, <3>3 DEF Passed
    <3> QED
      BY <2>1, <3>4 DEF Replayed, FaithfulTo
  <2>2. me \in Requests \cup {Idle}
    BY <1>1, ThreadHas
  <2>3. ASSUME me.at = "done", me.kind = "replay", me.published, me.id \notin disturbed
        PROVE  me.w.tick = me.tick /\ FaithfulTo(me.w, me.from, me.id)
    <3>1. me.id \in Kept /\ me.w \in World /\ me.from \in Ticks
      BY <2>2, <2>3, Shapes DEF ReplayedTo, Kept
    <3> QED
      BY <1>1, <2>1, <2>3, <3>1 DEF HistoryInv, Past
  <2>4. ASSUME me.at = "calls", me.kind = "fork", me.published, me.record.parent \notin disturbed
        PROVE  me.old.tick = me.record.forkTick /\ FaithfulTo(me.old, me.from, me.record.parent)
    <3>1. me.old \in World /\ me.from \in Ticks
      BY <2>2, <2>4, Shapes DEF Forking
    <3>2. me.record.parent \in Kept
      BY <1>1, <2>4, Maker DEF Hosted, Builds, Kept
    <3> QED
      BY <1>1, <2>1, <2>4, <3>1, <3>2 DEF HistoryInv, Past
  <2> QED
    BY <2>3, <2>4
<1>2. Init => FreshInv /\ HistoryInv
  BY FreshInit, HistoryInit
<1>3. TypeInv /\ TypeInv' /\ LineageInv /\ FreshInv /\ HistoryInv /\ [Next]_vars
        => FreshInv' /\ HistoryInv'
  BY FreshNext, HistoryNext, LineageNext
<1> QED
  BY <1>1, <1>2, <1>3, LineageHolds, PTL DEF Spec
=============================================================================
