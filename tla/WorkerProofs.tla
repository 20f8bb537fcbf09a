---------------------------- MODULE WorkerProofs ----------------------------
(*******************************************************************************)
(* Proofs about Worker, for every kind of store, batch, interval and bound, and*)
(* any requests the control record can hold:                                   *)
(*   TypeCorrect        Spec => []TypeOK                                       *)
(*   OverrunIsBounded   Spec => []OverrunBounded                               *)
(*   LossIsBounded      Spec => []LossBounded                                  *)
(*   RecoveryIsCovered  Spec => []RecoveryCovered                              *)
(* and of a worker that is not killed                                          *)
(*   RunsAreOrderly     Spec => [](counts.crashes = 0 => OrderlyRuns)          *)
(*   StepsAreComplete   Spec => [](counts.crashes = 0 => StepCompleteIsTrue)   *)
(*   KeepsHistory       MaxCrashes = 0 |- Spec => AppendOnlyHistory            *)
(* What is true between two calls depends on which calls are still to come, so *)
(* all of them rest on CallInv: what a queue of calls may look like (Shape,    *)
(* Appends), and what is in memory when its first call is made (MemoryInv).    *)
(* OrderlyInv ties the rows, the buffer and the events not yet handed over to  *)
(* the past of the world in memory, and the head to the rows; StepInv follows  *)
(* the operator's request through the record.  What is true after any kills    *)
(* rests on the course of the world no scenario is applied to (CourseInv),     *)
(* which is what is simulated again, and on what flushes still have to bring   *)
(* to the ledger (CoverInv).                                                   *)
(*******************************************************************************)
EXTENDS Worker, SequenceTheorems, FiniteSetTheorems, WellFoundedInduction, TLAPS

\* What the queue of calls may look like, whatever is in it: the ledger is
\* flushed before a world is written, a world is written before the head is
\* bumped, and what ends a pass comes last.
Shape(q) ==
    \A i \in 1..Len(q) :
        /\ q[i] \in {"snapshot", "live"} /\ i > 1 => q[i - 1] \in {"flush", "bump_events"}
        /\ q[i] = "bump" /\ i > 1 => q[i - 1] \in {"snapshot", "live"}
        /\ q[i] = "bump_events" => i = 1
        /\ q[i] \in {"settle", "exit"} /\ i > 1 => q[i - 1] = "bump"
        /\ q[i] \in {"settle", "exit"} /\ i > 2 => q[i - 2] = "live"
        /\ q[i] \in {"end_of_tick", "settle", "exit"} <=> i = Len(q)

\* The n appends still to come are next, or come after a flush.
Ahead(q)      == IF q # <<>> /\ q[1] \in {"flush", "bump_events"} THEN 1 ELSE 0
Appends(q, n) ==
    /\ Ahead(q) + n <= Len(q)
    /\ \A i \in 1..Len(q) : q[i] = "append" <=> i \in (Ahead(q) + 1)..(Ahead(q) + n)

Ends(q) == q # <<>> => q[Len(q)] \in (IF pc = "tick" THEN {"end_of_tick", "settle"} ELSE {"exit"})

QueueInv ==
    /\ Shape(calls) /\ Appends(calls, Len(fresh))
    /\ Ends(calls)
    /\ pc \notin {"tick", "poll"} => calls = <<>>

\* What is in memory when the next call is made.
MemoryInv ==
    /\ pc \in {"advance", "clear", "tick"} => mem \in World
    /\ mem = NoValue \/ (pc # "tick" /\ calls = <<>>) => buffer = <<>> /\ fresh = <<>>
    /\ mem = NoValue => \A i \in 1..Len(calls) : calls[i] = "exit"
    /\ calls = <<>> /\ pc = "tick" => left > 0 /\ mem.tick < MaxTick
    /\ NextCall("bump_events") => buffer # <<>>
    /\ calls # <<>> /\ calls[1] \in {"snapshot", "live", "bump", "settle", "exit"} => buffer = <<>>
    /\ calls # <<>> /\ calls[1] \in {"settle", "exit"} => mem = NoValue \/ live = mem
    /\ Len(calls) = 2 /\ calls[1] = "bump" /\ calls[2] \in {"settle", "exit"} => live = mem

CallInv == QueueInv /\ MemoryInv

\* The ticks run since the record stopped asking for any are those of one batch.
Longest == Larger(MaxStep, Larger(FastBatch, SlowBatch))
OverrunInv ==
    /\ Moving(control) => overrun = 0
    /\ batch <= Longest /\ left <= batch
    /\ pc \in {"advance", "clear"} /\ Moving(seen) => overrun = 0
    /\ overrun <= Longest
    /\ pc = "tick" => overrun <= batch - left

\* How far the world in memory is ahead of the published one.
LivePending == \E i \in 1..Len(calls) : calls[i] = "live"
LossInv ==
    /\ latest.tick <= live.tick + LiveEvery
    /\ mem \in World =>
        /\ latest = mem /\ live.tick <= mem.tick /\ lastLive <= mem.tick
        /\ LivePending \/ (mem.tick < live.tick + LiveEvery /\ lastLive <= live.tick)

Numbered(seq) == \A i, j \in DOMAIN seq : i < j => seq[i].id < seq[j].id

\* While the worker has not been killed: the past of the world in memory is what the
\* ledger, the buffer and the tick have of it, in the order of the ids, and what is
\* not recorded yet is later than the published world and than the head.
Orderly ==
    /\ counts.refused = 0
    /\ pc = "down" => mem = NoValue
    /\ mem = NoValue => live = latest /\ live.past = events
    /\ mem \in World => LedgerHoldsThePast
    /\ Numbered(latest.past)
    /\ \A i \in DOMAIN latest.past : latest.past[i].id <= Len(latest.past) + Len(latest.inputs)
    /\ head <= latest.tick /\ live.tick <= latest.tick
    /\ \A i \in DOMAIN buffer : /\ live.tick < buffer[i].tick /\ buffer[i].tick <= latest.tick
                                /\ head <= buffer[i].tick
    /\ \A i \in DOMAIN fresh : live.tick < fresh[i].tick /\ fresh[i].tick = latest.tick
OrderlyInv == counts.crashes = 0 => Orderly

\* While the worker has not been killed: the operator's first request, followed from
\* the record to its end.
SettlePending == \E i \in 1..Len(calls) : calls[i] = "settle"
Unasked ==
    /\ counts.requests = 0 => request = NoValue
    /\ counts.requests = 0 \/ (counts.requests = 1 /\ request # NoValue) =>
        /\ control = Idle /\ pc \in {"down", "poll"}
        /\ request # NoValue => request.control = Idle
Served ==
    /\ control.note = "step complete" =>
        /\ owed = 0 /\ live = latest /\ pc \in {"down", "poll"}
        /\ ~Moving(control) /\ ~control.scenario
    /\ pc # "tick" /\ control.step > 0 => owed = control.step
    /\ pc = "tick" /\ control.step > 0 =>
        /\ owed = control.step - (batch - left) /\ batch = Budget(control)
        /\ SettlePending => left = 0
Following ==
    /\ pc \in {"advance", "clear", "tick"} => seen = control
    /\ ~control.fast /\ latest.tick < MaxTick => Served
Stepping ==
    /\ Unasked
    /\ pc = "tick" => ~seen.scenario
    /\ counts.requests = 1 /\ request = NoValue => Following
StepInv == counts.crashes = 0 => Stepping

\* The world that no scenario is ever applied to, at every tick, and its events: what
\* a killed worker simulates again, and what PostgresStore drops as duplicates.
Course[t \in 0..MaxTick] == IF t = 0 THEN Genesis ELSE Ticked(Course[t - 1])
Expected == Course[MaxTick].past

OnCourse(w)      == w.inputs = <<>> => w.tick \in 0..MaxTick /\ w = Course[w.tick]
AsExpected(rows) == Len(rows) <= Len(Expected) /\ \A k \in 1..Len(rows) : rows[k] = Expected[k]
CourseInv ==
    /\ \A w \in snapshots \cup {live} : OnCourse(w)
    /\ mem \in World =>
        /\ OnCourse(mem)
        /\ \A i \in 1..Len(buffer) : buffer[i].inputs = mem.inputs
        /\ \A i \in 1..Len(fresh) : fresh[i].inputs = mem.inputs
    /\ store.postgres /\ NoScenarioYet => AsExpected(events)

\* Killed or not: a world the ledger answers for has its past there, but for what
\* the buffer and the tick still hold.
AnswersFor(w) == ~store.postgres \/ (NoScenarioYet /\ w.inputs = <<>>)
CoverInv ==
    /\ LedgerCoversRecovery
    /\ mem \in World =>
        \E past \in Seq(Event) :
            /\ mem.past = (past \o buffer) \o fresh
            /\ AnswersFor(mem) =>
                /\ Elements(past) \subseteq Elements(events)
                /\ NextCall("bump_events") => Elements(buffer) \subseteq Elements(events)

-----------------------------------------------------------------------------
(* Queues of calls. *)

\* What the head and the tail of a queue are.
LEMMA TailIs ==
    ASSUME NEW q \in Seq(Call), q # <<>>
    PROVE  /\ Tail(q) \in Seq(Call) /\ Len(q) \in Nat /\ Len(q) >= 1
           /\ Len(Tail(q)) = Len(q) - 1 /\ Head(q) = q[1] /\ q[1] \in Call
           /\ \A i \in 1..(Len(q) - 1) : Tail(q)[i] = q[i + 1]
           /\ Tail(q) = <<>> <=> Len(q) = 1
<1>1. Len(q) \in Nat /\ Len(q) >= 1 /\ q[1] \in Call
  BY EmptySeq, ElementOfSeq
<1>2. Tail(q) \in Seq(Call) /\ Len(Tail(q)) = Len(q) - 1
      /\ \A i \in 1..(Len(q) - 1) : Tail(q)[i] = q[i + 1]
  BY HeadTailProperties
<1>3. Tail(q) = <<>> <=> Len(q) = 1
  BY <1>1, <1>2, EmptySeq
<1> QED
  BY <1>1, <1>2, <1>3

\* What a queue is whose first call is replaced.
LEMMA PushIs ==
    ASSUME NEW q \in Seq(Call), q # <<>>, NEW c \in Call
    PROVE  /\ <<c>> \o Tail(q) \in Seq(Call) /\ <<c>> \o Tail(q) # <<>>
           /\ Len(<<c>> \o Tail(q)) = Len(q)
           /\ (<<c>> \o Tail(q))[1] = c
           /\ \A i \in 2..Len(q) : (<<c>> \o Tail(q))[i] = q[i]
<1>1. /\ Tail(q) \in Seq(Call) /\ Len(q) \in Nat /\ Len(q) >= 1
      /\ Len(Tail(q)) = Len(q) - 1
      /\ \A i \in 1..(Len(q) - 1) : Tail(q)[i] = q[i + 1]
  BY TailIs
<1>2. <<c>> \in Seq(Call) /\ Len(<<c>>) = 1 /\ <<c>>[1] = c
  OBVIOUS
<1> DEFINE new == <<c>> \o Tail(q)
<1>3. /\ new \in Seq(Call) /\ Len(new) = Len(q)
      /\ \A i \in 1..Len(q) : new[i] = IF i <= 1 THEN <<c>>[i] ELSE Tail(q)[i - 1]
  BY <1>1, <1>2, ConcatProperties
<1>4. new # <<>>
  BY <1>1, <1>3, EmptySeq
<1> HIDE DEF new
<1>5. new[1] = c
  BY <1>1, <1>2, <1>3
<1>6. ASSUME NEW i \in 2..Len(q) PROVE new[i] = q[i]
  <2>1. i - 1 \in 1..(Len(q) - 1) /\ i \in 1..Len(q) /\ ~(i <= 1) /\ (i - 1) + 1 = i
    BY <1>1
  <2>2. Tail(q)[i - 1] = q[i]
    BY <1>1, <2>1
  <2> QED
    BY <1>3, <2>1, <2>2
<1> QED
  BY <1>3, <1>4, <1>5, <1>6 DEF new

\* A call that returns leaves a queue of the same shape.
LEMMA ShapeOfTail == ASSUME NEW q \in Seq(Call), q # <<>>, Shape(q) PROVE Shape(Tail(q))
<1>1. PICK r \in Seq(Call) :
        /\ r = Tail(q) /\ Len(r) = Len(q) - 1 /\ Len(q) \in Nat
        /\ \A i \in 1..(Len(q) - 1) : r[i] = q[i + 1]
  BY TailIs
<1>2. SUFFICES ASSUME NEW i \in 1..Len(r)
               PROVE  /\ r[i] \in {"snapshot", "live"} /\ i > 1 => r[i - 1] \in {"flush", "bump_events"}
                      /\ r[i] = "bump" /\ i > 1 => r[i - 1] \in {"snapshot", "live"}
                      /\ r[i] = "bump_events" => i = 1
                      /\ r[i] \in {"settle", "exit"} /\ i > 1 => r[i - 1] = "bump"
                      /\ r[i] \in {"settle", "exit"} /\ i > 2 => r[i - 2] = "live"
                      /\ r[i] \in {"end_of_tick", "settle", "exit"} <=> i = Len(r)
  BY <1>1 DEF Shape
<1>3. i + 1 \in 1..Len(q) /\ i + 1 > 1 /\ r[i] = q[i + 1] /\ (i + 1) - 1 = i /\ (i + 1) - 2 = i - 1
  BY <1>1
<1>4. i > 1 => r[i - 1] = q[i] /\ i + 1 > 2
  BY <1>1, <1>3
<1>5. i > 2 => r[i - 2] = q[i - 1]
  BY <1>1, <1>3
<1>6. i = Len(r) <=> i + 1 = Len(q)
  BY <1>1
<1>7. r[i] # "bump_events"
  BY <1>3 DEF Shape
<1> QED
  BY <1>3, <1>4, <1>5, <1>6, <1>7 DEF Shape

\* Nor does the shape change when a flush is put in the place of an append, or the
\* end of append_events in the place of a flush.
LEMMA ShapeOfPush ==
    ASSUME NEW q \in Seq(Call), q # <<>>, Shape(q), q[1] \in {"append", "flush"},
           NEW c \in {"flush", "bump_events"}
    PROVE  Shape(<<c>> \o Tail(q))
<1>1. PICK r \in Seq(Call) :
        /\ r = <<c>> \o Tail(q) /\ Len(r) = Len(q) /\ r[1] = c
        /\ \A i \in 2..Len(q) : r[i] = q[i]
  <2>1. c \in Call
    BY DEF Call
  <2> QED
    BY <2>1, PushIs
<1>2. Len(q) \in Nat /\ Len(q) >= 1
  BY TailIs
<1>3. SUFFICES ASSUME NEW i \in 1..Len(r)
               PROVE  /\ r[i] \in {"snapshot", "live"} /\ i > 1 => r[i - 1] \in {"flush", "bump_events"}
                      /\ r[i] = "bump" /\ i > 1 => r[i - 1] \in {"snapshot", "live"}
                      /\ r[i] = "bump_events" => i = 1
                      /\ r[i] \in {"settle", "exit"} /\ i > 1 => r[i - 1] = "bump"
                      /\ r[i] \in {"settle", "exit"} /\ i > 2 => r[i - 2] = "live"
                      /\ r[i] \in {"end_of_tick", "settle", "exit"} <=> i = Len(r)
  BY <1>1 DEF Shape
<1>4. CASE i = 1
  <2>1. Len(q) # 1
    BY <1>2 DEF Shape
  <2> QED
    BY <1>1, <1>4, <2>1
<1>5. CASE i = 2
  <2>1. r[i] = q[i] /\ r[i - 1] = c /\ i \in 1..Len(q) /\ q[i - 1] = q[1]
    BY <1>1, <1>2, <1>5
  <2>2. /\ q[i] \in {"snapshot", "live"} /\ i > 1 => q[i - 1] \in {"flush", "bump_events"}
        /\ q[i] = "bump" /\ i > 1 => q[i - 1] \in {"snapshot", "live"}
        /\ q[i] = "bump_events" => i = 1
        /\ q[i] \in {"settle", "exit"} /\ i > 1 => q[i - 1] = "bump"
        /\ q[i] \in {"settle", "exit"} /\ i > 2 => q[i - 2] = "live"
        /\ q[i] \in {"end_of_tick", "settle", "exit"} <=> i = Len(q)
    BY <2>1 DEF Shape
  <2>3. q[i] \notin {"bump", "settle", "exit", "bump_events"}
    BY <1>5, <2>1, <2>2
  <2> QED
    BY <1>1, <1>5, <2>1, <2>2, <2>3
<1>6. CASE i > 2
  <2>1. r[i] = q[i] /\ r[i - 1] = q[i - 1] /\ i \in 1..Len(q)
    BY <1>1, <1>2, <1>6
  <2>2. i > 3 => r[i - 2] = q[i - 2]
    BY <1>1, <1>2, <1>6
  <2>3. i = 3 => q[i - 2] = q[1]
    OBVIOUS
  <2>4. /\ q[i] \in {"snapshot", "live"} /\ i > 1 => q[i - 1] \in {"flush", "bump_events"}
        /\ q[i] = "bump" /\ i > 1 => q[i - 1] \in {"snapshot", "live"}
        /\ q[i] = "bump_events" => i = 1
        /\ q[i] \in {"settle", "exit"} /\ i > 1 => q[i - 1] = "bump"
        /\ q[i] \in {"settle", "exit"} /\ i > 2 => q[i - 2] = "live"
        /\ q[i] \in {"end_of_tick", "settle", "exit"} <=> i = Len(q)
    BY <2>1 DEF Shape
  <2>5. q[i] \in {"settle", "exit"} => i # 3
    BY <2>3, <2>4
  <2>6. r[i] \in {"settle", "exit"} => r[i - 2] = "live"
    BY <1>6, <2>1, <2>2, <2>4, <2>5
  <2>7. i = Len(r) <=> i = Len(q)
    BY <1>1
  <2>8. r[i] # "bump_events" /\ i # 1
    BY <1>6, <2>1, <2>4
  <2> QED
    BY <1>6, <2>1, <2>4, <2>6, <2>7, <2>8
<1> QED
  BY <1>4, <1>5, <1>6

\* The appends still to come, after a call that is none of them.
LEMMA AppendsOfTail ==
    ASSUME NEW q \in Seq(Call), q # <<>>, NEW n \in Nat, Appends(q, n), q[1] # "append"
    PROVE  Appends(Tail(q), n)
<1>1. PICK r \in Seq(Call) :
        /\ r = Tail(q) /\ Len(r) = Len(q) - 1 /\ Len(q) \in Nat /\ Len(q) >= 1
        /\ \A i \in 1..(Len(q) - 1) : r[i] = q[i + 1]
        /\ r = <<>> <=> Len(q) = 1
  BY TailIs
<1>2. Ahead(q) \in {0, 1} /\ Ahead(r) \in {0, 1} /\ Ahead(q) + n <= Len(q)
  BY DEF Ahead, Appends
<1>3. \A i \in 1..Len(q) : q[i] = "append" <=> i \in (Ahead(q) + 1)..(Ahead(q) + n)
  BY DEF Appends
<1>4. CASE n = 0
  <2>1. \A i \in 1..Len(r) : r[i] # "append"
    <3>1. SUFFICES ASSUME NEW i \in 1..Len(r) PROVE r[i] # "append"
      OBVIOUS
    <3>2. i + 1 \in 1..Len(q) /\ r[i] = q[i + 1]
      BY <1>1
    <3> QED
      BY <1>2, <1>3, <1>4, <3>2
  <2>2. Ahead(r) <= Len(r)
    BY <1>1 DEF Ahead
  <2> QED
    BY <1>1, <1>2, <1>4, <2>1, <2>2 DEF Appends
<1>5. CASE n > 0
  <2>1. Ahead(q) = 1
    BY <1>1, <1>2, <1>3, <1>5
  <2>2. Len(q) >= 2 /\ q[2] = "append"
    BY <1>1, <1>2, <1>3, <1>5, <2>1
  <2>3. r # <<>> /\ r[1] = "append"
    BY <1>1, <2>2
  <2>4. Ahead(r) = 0
    BY <2>3 DEF Ahead
  <2>5. \A i \in 1..Len(r) : r[i] = "append" <=> i \in 1..n
    <3>1. SUFFICES ASSUME NEW i \in 1..Len(r) PROVE r[i] = "append" <=> i \in 1..n
      OBVIOUS
    <3>2. i + 1 \in 1..Len(q) /\ r[i] = q[i + 1]
      BY <1>1
    <3>3. q[i + 1] = "append" <=> i + 1 \in 2..(1 + n)
      BY <1>3, <2>1, <3>2
    <3> QED
      BY <3>2, <3>3
  <2> QED
    BY <1>1, <1>2, <2>1, <2>4, <2>5 DEF Appends
<1> QED
  BY <1>4, <1>5

\* ... after one of them ...
LEMMA AppendsOfPop ==
    ASSUME NEW q \in Seq(Call), q # <<>>, NEW n \in Nat, Appends(q, n), q[1] = "append"
    PROVE  n > 0 /\ Appends(Tail(q), n - 1)
<1>1. PICK r \in Seq(Call) :
        /\ r = Tail(q) /\ Len(r) = Len(q) - 1 /\ Len(q) \in Nat /\ Len(q) >= 1
        /\ \A i \in 1..(Len(q) - 1) : r[i] = q[i + 1]
        /\ r = <<>> <=> Len(q) = 1
  BY TailIs
<1>2. Ahead(q) = 0 /\ Ahead(r) \in {0, 1}
  BY DEF Ahead
<1>3. n <= Len(q) /\ \A i \in 1..Len(q) : q[i] = "append" <=> i \in 1..n
  BY <1>2 DEF Appends
<1>4. n > 0
  BY <1>1, <1>3
<1>5. \A i \in 1..Len(r) : r[i] = "append" <=> i \in 1..(n - 1)
  <2>1. SUFFICES ASSUME NEW i \in 1..Len(r) PROVE r[i] = "append" <=> i \in 1..(n - 1)
    OBVIOUS
  <2>2. i + 1 \in 1..Len(q) /\ r[i] = q[i + 1]
    BY <1>1
  <2> QED
    BY <1>3, <1>4, <2>2
<1>6. n = 1 => Appends(r, n - 1)
  <2>1. Ahead(r) <= Len(r)
    BY <1>1 DEF Ahead
  <2> QED
    BY <1>1, <1>2, <1>5, <2>1 DEF Appends
<1>7. n > 1 => Appends(r, n - 1)
  <2>1. n > 1 => r[1] = "append"
    BY <1>1, <1>3, <1>5
  <2>2. n > 1 => Ahead(r) = 0
    BY <2>1 DEF Ahead
  <2> QED
    BY <1>1, <1>3, <1>5, <2>2 DEF Appends
<1> QED
  BY <1>1, <1>4, <1>6, <1>7

\* ... when it has to flush ...
LEMMA AppendsOfFull ==
    ASSUME NEW q \in Seq(Call), q # <<>>, NEW n \in Nat, Appends(q, n), q[1] = "append"
    PROVE  Appends(<<"flush">> \o Tail(q), n - 1)
<1>1. PICK r \in Seq(Call) :
        /\ r = <<"flush">> \o Tail(q) /\ Len(r) = Len(q) /\ r[1] = "flush" /\ r # <<>>
        /\ \A i \in 2..Len(q) : r[i] = q[i]
  <2>1. "flush" \in Call
    BY DEF Call
  <2> QED
    BY <2>1, PushIs
<1>2. Len(q) \in Nat /\ Len(q) >= 1
  BY TailIs
<1>3. Ahead(q) = 0 /\ Ahead(r) = 1
  BY <1>1 DEF Ahead
<1>4. n <= Len(q) /\ \A i \in 1..Len(q) : q[i] = "append" <=> i \in 1..n
  BY <1>3 DEF Appends
<1>5. \A i \in 1..Len(r) : r[i] = "append" <=> i \in 2..n
  BY <1>1, <1>2, <1>4
<1> QED
  BY <1>1, <1>2, <1>3, <1>4, <1>5 DEF Appends

\* ... and while a flush is being carried out.
LEMMA AppendsOfFlush ==
    ASSUME NEW q \in Seq(Call), q # <<>>, NEW n \in Nat, Appends(q, n), q[1] = "flush"
    PROVE  Appends(<<"bump_events">> \o Tail(q), n)
<1>1. PICK r \in Seq(Call) :
        /\ r = <<"bump_events">> \o Tail(q) /\ Len(r) = Len(q) /\ r[1] = "bump_events"
        /\ r # <<>> /\ \A i \in 2..Len(q) : r[i] = q[i]
  <2>1. "bump_events" \in Call
    BY DEF Call
  <2> QED
    BY <2>1, PushIs
<1>2. Len(q) \in Nat /\ Len(q) >= 1
  BY TailIs
<1>3. Ahead(q) = 1 /\ Ahead(r) = 1
  BY <1>1 DEF Ahead
<1>4. \A i \in 1..Len(r) : r[i] = "append" <=> i \in 2..(1 + n)
  BY <1>1, <1>2, <1>3 DEF Appends
<1> QED
  BY <1>1, <1>2, <1>3, <1>4 DEF Appends

\* Where a queue has its appends ahead of it, they are all there is to hand over:
\* any other first call finds nothing fresh.
LEMMA NothingFresh ==
    ASSUME NEW q \in Seq(Call), NEW n \in Nat, Appends(q, n), n > 0
    PROVE  q # <<>> /\ q[1] \in {"append", "flush", "bump_events"}
<1>1. Len(q) \in Nat /\ Ahead(q) \in {0, 1} /\ Ahead(q) + n <= Len(q)
  BY LenProperties DEF Ahead, Appends
<1>2. q # <<>>
  BY <1>1, EmptySeq
<1>3. CASE Ahead(q) = 1
  BY <1>2, <1>3 DEF Ahead
<1>4. CASE Ahead(q) = 0
  BY <1>1, <1>4 DEF Appends
<1> QED
  BY <1>1, <1>2, <1>3, <1>4

\* A queue that holds nothing but the end of a pass.
LEMMA EndIs ==
    ASSUME NEW e \in {"end_of_tick", "settle", "exit"}
    PROVE  /\ <<e>> \in Seq(Call) /\ <<e>> # <<>> /\ <<e>>[1] = e /\ Len(<<e>>) = 1
           /\ Shape(<<e>>) /\ Appends(<<e>>, 0)
<1>1. PICK r \in Seq(Call) : r = <<e>> /\ r # <<>> /\ r[1] = e /\ Len(r) = 1
  <2>1. e \in Call
    BY DEF Call
  <2>2. <<e>> \in Seq(Call) /\ Len(<<e>>) = 1 /\ <<e>>[1] = e
    BY <2>1
  <2> QED
    BY <2>2, EmptySeq
<1>2. Shape(r)
  BY <1>1 DEF Shape
<1>3. Ahead(r) = 0
  BY <1>1 DEF Ahead
<1>4. Appends(r, 0)
  BY <1>1, <1>3 DEF Appends
<1> QED
  BY <1>1, <1>2, <1>4

\* A world is written ahead of what was queued: the ledger is flushed first and the
\* head bumped last.
LEMMA HookShape ==
    ASSUME NEW q \in Seq(Call), q # <<>>, Shape(q), Appends(q, 0),
           NEW w \in {"snapshot", "live"},
           q[1] \in {"flush", "end_of_tick"} \/ (w = "live" /\ q[1] \in {"settle", "exit"}),
           NEW h \in Seq(Call), h # <<>>, Len(h) = Len(q) + 3,
           h[1] = "flush", h[2] = w, h[3] = "bump", \A i \in 4..Len(h) : h[i] = q[i - 3]
    PROVE  h[Len(h)] = q[Len(q)] /\ Shape(h) /\ Appends(h, 0)
<1>1. Len(q) \in Nat /\ Len(q) >= 1
  BY TailIs
<1>3. Len(h) = 3 + Len(q) /\ Len(h) \in Nat
  BY <1>1
<1>4. h[1] = "flush" /\ h[2] = w /\ h[3] = "bump" /\ h # <<>>
  OBVIOUS
<1>5. \A i \in 4..Len(h) : i - 3 \in 1..Len(q) /\ h[i] = q[i - 3]
  BY <1>1, <1>3
<1>6. h[Len(h)] = q[Len(q)]
  BY <1>1, <1>3, <1>5
<1>7. Shape(h)
  <2>1. SUFFICES ASSUME NEW i \in 1..Len(h)
                 PROVE  /\ h[i] \in {"snapshot", "live"} /\ i > 1 => h[i - 1] \in {"flush", "bump_events"}
                        /\ h[i] = "bump" /\ i > 1 => h[i - 1] \in {"snapshot", "live"}
                        /\ h[i] = "bump_events" => i = 1
                        /\ h[i] \in {"settle", "exit"} /\ i > 1 => h[i - 1] = "bump"
                        /\ h[i] \in {"settle", "exit"} /\ i > 2 => h[i - 2] = "live"
                        /\ h[i] \in {"end_of_tick", "settle", "exit"} <=> i = Len(h)
    BY DEF Shape
  <2>2. CASE i \in {1, 2, 3}
    BY <1>1, <1>3, <1>4, <2>2
  <2>3. CASE i > 3
    <3>1. PICK j \in 1..Len(q) : j = i - 3 /\ h[i] = q[j]
      BY <1>5, <2>3
    <3>2. /\ q[j] \in {"snapshot", "live"} /\ j > 1 => q[j - 1] \in {"flush", "bump_events"}
          /\ q[j] = "bump" /\ j > 1 => q[j - 1] \in {"snapshot", "live"}
          /\ q[j] = "bump_events" => j = 1
          /\ q[j] \in {"settle", "exit"} /\ j > 1 => q[j - 1] = "bump"
          /\ q[j] \in {"settle", "exit"} /\ j > 2 => q[j - 2] = "live"
          /\ q[j] \in {"end_of_tick", "settle", "exit"} <=> j = Len(q)
      BY DEF Shape
    <3>3. j > 1 => h[i - 1] = q[j - 1]
      BY <1>3, <1>5, <3>1
    <3>4. j > 2 => h[i - 2] = q[j - 2]
      BY <1>3, <1>5, <3>1
    <3>5. j = Len(q) <=> i = Len(h)
      BY <1>1, <1>3, <3>1
    <3>6. CASE j = 1
      <4>1. h[i - 1] = "bump" /\ h[i - 2] = w /\ q[j] = q[1]
        BY <1>4, <3>1, <3>6
      <4>2. q[j] \in {"settle", "exit"} => w = "live"
        BY <4>1
      <4> QED
        BY <2>3, <3>1, <3>2, <3>5, <4>1, <4>2
    <3>7. CASE j = 2
      <4>1. q[j - 1] = q[1] /\ q[1] # "bump"
        BY <3>7
      <4>2. q[j] \notin {"settle", "exit"}
        BY <3>2, <3>7, <4>1
      <4> QED
        BY <2>3, <3>1, <3>2, <3>3, <3>5, <3>7, <4>2
    <3>8. CASE j > 2
      BY <2>3, <3>1, <3>2, <3>3, <3>4, <3>5, <3>8
    <3> QED
      BY <3>6, <3>7, <3>8
  <2> QED
    BY <2>2, <2>3
<1>8. Appends(h, 0)
  <2>1. Ahead(h) = 1 /\ Ahead(q) \in {0, 1}
    BY <1>4 DEF Ahead
  <2>2. \A j \in 1..Len(q) : q[j] # "append"
    BY <1>1, <2>1 DEF Appends
  <2>3. \A i \in 1..Len(h) : h[i] # "append"
    <3>1. SUFFICES ASSUME NEW i \in 1..Len(h) PROVE h[i] # "append"
      OBVIOUS
    <3>2. CASE i \in {1, 2, 3}
      BY <1>4, <3>2
    <3>3. CASE i > 3
      BY <1>5, <2>2, <3>3
    <3> QED
      BY <3>2, <3>3
  <2> QED
    BY <1>1, <1>3, <2>1, <2>3 DEF Appends
<1> QED
  BY <1>6, <1>7, <1>8

\* Two queues, one after the other.
LEMMA ConcatIs ==
    ASSUME NEW a \in Seq(Call), NEW b \in Seq(Call)
    PROVE  \E c \in Seq(Call) :
             /\ c = a \o b /\ Len(c) = Len(a) + Len(b)
             /\ \A i \in 1..Len(a) : c[i] = a[i]
             /\ \A i \in 1..Len(b) : c[Len(a) + i] = b[i]
<1>1. PICK c : c = a \o b
  OBVIOUS
<1>2. Len(a) \in Nat /\ Len(b) \in Nat
  BY LenProperties
<1>3. /\ c \in Seq(Call) /\ Len(c) = Len(a) + Len(b)
      /\ \A i \in 1..(Len(a) + Len(b)) : c[i] = IF i <= Len(a) THEN a[i] ELSE b[i - Len(a)]
  BY <1>1, ConcatProperties
<1>4. ASSUME NEW i \in 1..Len(b) PROVE c[Len(a) + i] = b[i]
  <2>1. /\ Len(a) + i \in 1..(Len(a) + Len(b)) /\ ~(Len(a) + i <= Len(a))
        /\ (Len(a) + i) - Len(a) = i
    BY <1>2
  <2> QED
    BY <1>3, <2>1
<1>5. \A i \in 1..Len(a) : c[i] = a[i]
  BY <1>2, <1>3
<1> QED
  BY <1>1, <1>3, <1>4, <1>5, Zenon

\* A queue can be put together from either end.
LEMMA CallsAssociate ==
    ASSUME NEW a \in Seq(Call), NEW b \in Seq(Call), NEW c \in Seq(Call)
    PROVE  (a \o b) \o c = a \o (b \o c)
  BY ConcatAssociative

\* The publication in front of a queue, and the snapshot hook.
LEMMA PublicationIs ==
    ASSUME NEW q \in Seq(Call), q # <<>>, Shape(q), Appends(q, 0),
           q[1] \in {"flush", "end_of_tick", "settle", "exit"}
    PROVE  \E h \in Seq(Call) :
             /\ h = Publication \o q /\ h # <<>> /\ Len(h) = Len(q) + 3
             /\ h[1] = "flush" /\ h[2] = "live" /\ h[Len(h)] = q[Len(q)]
             /\ Shape(h) /\ Appends(h, 0)
<1>1. Len(q) \in Nat /\ Len(q) >= 1
  BY TailIs
<1>2. PICK w \in {"snapshot", "live"} : w = "live"
  OBVIOUS
<1>3. /\ Publication \in Seq(Call) /\ Len(Publication) = 3
      /\ Publication[1] = "flush" /\ Publication[2] = w /\ Publication[3] = "bump"
  BY <1>2 DEF Publication, Call
<1>4. PICK h \in Seq(Call) :
        /\ h = Publication \o q /\ Len(h) = Len(Publication) + Len(q)
        /\ \A i \in 1..Len(Publication) : h[i] = Publication[i]
        /\ \A i \in 1..Len(q) : h[Len(Publication) + i] = q[i]
  BY <1>3, ConcatIs
<1>5. h # <<>> /\ Len(h) = Len(q) + 3 /\ h[1] = "flush" /\ h[2] = w /\ h[3] = "bump"
  BY <1>1, <1>3, <1>4, EmptySeq
<1>6. \A i \in 4..Len(h) : h[i] = q[i - 3]
  <2>1. SUFFICES ASSUME NEW i \in 4..Len(h) PROVE h[i] = q[i - 3]
    OBVIOUS
  <2>2. i - 3 \in 1..Len(q) /\ 3 + (i - 3) = i
    BY <1>1, <1>5
  <2> QED
    BY <1>3, <1>4, <2>2
<1>7. q[1] \in {"flush", "end_of_tick"} \/ (w = "live" /\ q[1] \in {"settle", "exit"})
  BY <1>2
<1>8. h[Len(h)] = q[Len(q)] /\ Shape(h) /\ Appends(h, 0)
  BY <1>5, <1>6, <1>7, HookShape
<1> QED
  BY <1>2, <1>4, <1>5, <1>8

LEMMA SnapshotHookIs ==
    ASSUME NEW q \in Seq(Call), q # <<>>, Shape(q), Appends(q, 0),
           q[1] \in {"flush", "end_of_tick"}
    PROVE  \E h \in Seq(Call) :
             /\ h = SnapshotHook \o q /\ h # <<>> /\ Len(h) = Len(q) + 3 /\ h[1] = "flush"
             /\ \A i \in 4..Len(h) : h[i] = q[i - 3]
             /\ h[Len(h)] = q[Len(q)] /\ Shape(h) /\ Appends(h, 0)
<1>1. Len(q) \in Nat /\ Len(q) >= 1
  BY TailIs
<1>2. PICK w \in {"snapshot", "live"} : w = "snapshot"
  OBVIOUS
<1>3. /\ SnapshotHook \in Seq(Call) /\ Len(SnapshotHook) = 3
      /\ SnapshotHook[1] = "flush" /\ SnapshotHook[2] = w /\ SnapshotHook[3] = "bump"
  BY <1>2 DEF SnapshotHook, Call
<1>4. PICK h \in Seq(Call) :
        /\ h = SnapshotHook \o q /\ Len(h) = Len(SnapshotHook) + Len(q)
        /\ \A i \in 1..Len(SnapshotHook) : h[i] = SnapshotHook[i]
        /\ \A i \in 1..Len(q) : h[Len(SnapshotHook) + i] = q[i]
  BY <1>3, ConcatIs
<1>5. h # <<>> /\ Len(h) = Len(q) + 3 /\ h[1] = "flush" /\ h[2] = w /\ h[3] = "bump"
  BY <1>1, <1>3, <1>4, EmptySeq
<1>6. \A i \in 4..Len(h) : h[i] = q[i - 3]
  <2>1. SUFFICES ASSUME NEW i \in 4..Len(h) PROVE h[i] = q[i - 3]
    OBVIOUS
  <2>2. i - 3 \in 1..Len(q) /\ 3 + (i - 3) = i
    BY <1>1, <1>5
  <2> QED
    BY <1>3, <1>4, <2>2
<1>7. h[Len(h)] = q[Len(q)] /\ Shape(h) /\ Appends(h, 0)
  BY <1>5, <1>6, HookShape
<1> QED
  BY <1>4, <1>5, <1>6, <1>7

\* The appends of a tick ahead of what else it queues.
LEMMA TickShape ==
    ASSUME NEW q \in Seq(Call), q # <<>>, Shape(q), Appends(q, 0), q[1] \in {"flush", "end_of_tick"},
           NEW n \in Nat, NEW t \in Seq(Call), t # <<>>, Len(t) = n + Len(q),
           \A i \in 1..Len(q) : t[n + i] = q[i], \A i \in 1..n : t[i] = "append"
    PROVE  /\ t[Len(t)] = q[Len(q)] /\ Shape(t) /\ Appends(t, n)
           /\ t[1] \in {"append", "flush", "end_of_tick"}
<1>1. Len(q) \in Nat /\ Len(q) >= 1
  BY TailIs
<1>4. Len(t) = n + Len(q) /\ Len(t) \in Nat
  BY <1>1
<1>6. \A i \in 1..Len(q) : t[n + i] = q[i]
  OBVIOUS
<1>7. \A i \in 1..n : t[i] = "append"
  OBVIOUS
<1>8. t[Len(t)] = q[Len(q)]
  BY <1>1, <1>4, <1>6
<1>9. Shape(t)
  <2>1. SUFFICES ASSUME NEW i \in 1..Len(t)
                 PROVE  /\ t[i] \in {"snapshot", "live"} /\ i > 1 => t[i - 1] \in {"flush", "bump_events"}
                        /\ t[i] = "bump" /\ i > 1 => t[i - 1] \in {"snapshot", "live"}
                        /\ t[i] = "bump_events" => i = 1
                        /\ t[i] \in {"settle", "exit"} /\ i > 1 => t[i - 1] = "bump"
                        /\ t[i] \in {"settle", "exit"} /\ i > 2 => t[i - 2] = "live"
                        /\ t[i] \in {"end_of_tick", "settle", "exit"} <=> i = Len(t)
    BY DEF Shape
  <2>2. CASE i <= n
    BY <1>1, <1>4, <1>7, <2>2
  <2>3. CASE i > n
    <3>1. PICK j \in 1..Len(q) : i = n + j /\ t[i] = q[j]
      <4>1. i - n \in 1..Len(q) /\ i = n + (i - n)
        BY <1>1, <1>4, <2>3
      <4> QED
        BY <1>6, <4>1
    <3>2. /\ q[j] \in {"snapshot", "live"} /\ j > 1 => q[j - 1] \in {"flush", "bump_events"}
          /\ q[j] = "bump" /\ j > 1 => q[j - 1] \in {"snapshot", "live"}
          /\ q[j] = "bump_events" => j = 1
          /\ q[j] \in {"settle", "exit"} /\ j > 1 => q[j - 1] = "bump"
          /\ q[j] \in {"settle", "exit"} /\ j > 2 => q[j - 2] = "live"
          /\ q[j] \in {"end_of_tick", "settle", "exit"} <=> j = Len(q)
      BY DEF Shape
    <3>9. i \in Int /\ j \in Int /\ i = n + j
      BY <1>1, <3>1
    <3>3. j > 1 => t[i - 1] = q[j - 1]
      <4>1. j > 1 => j - 1 \in 1..Len(q) /\ n + (j - 1) = i - 1
        BY <1>1, <3>9
      <4> QED
        BY <1>6, <4>1
    <3>4. j > 2 => t[i - 2] = q[j - 2]
      <4>1. j > 2 => j - 2 \in 1..Len(q) /\ n + (j - 2) = i - 2
        BY <1>1, <3>9
      <4> QED
        BY <1>6, <4>1
    <3>5. j = Len(q) <=> i = Len(t)
      <4>1. PICK m \in Nat : m = Len(q)
        BY <1>1
      <4>2. j = m <=> i = n + m
        BY <3>9
      <4> QED
        BY <1>4, <4>1, <4>2
    <3>6. CASE j = 1
      <4>1. q[j] \notin {"snapshot", "live", "bump", "settle", "exit", "bump_events"}
        BY <3>6
      <4> QED
        BY <3>1, <3>2, <3>5, <4>1
    <3>7. CASE j = 2
      <4>1. q[j - 1] # "bump"
        BY <3>7
      <4>2. q[j] \notin {"settle", "exit"}
        BY <3>2, <3>7, <4>1
      <4> QED
        BY <3>1, <3>2, <3>3, <3>5, <3>7, <4>2
    <3>8. CASE j > 2
      BY <3>1, <3>2, <3>3, <3>4, <3>5, <3>8
    <3> QED
      BY <3>6, <3>7, <3>8
  <2> QED
    BY <1>4, <2>2, <2>3
<1>10. Appends(t, n)
  <2>1. Ahead(q) \in {0, 1} /\ Ahead(t) \in {0, 1}
    BY DEF Ahead
  <2>2. \A j \in 1..Len(q) : q[j] # "append"
    BY <1>1, <2>1 DEF Appends
  <2>3. \A i \in 1..Len(t) : t[i] = "append" <=> i \in 1..n
    <3>1. SUFFICES ASSUME NEW i \in 1..Len(t), i > n PROVE t[i] # "append"
      BY <1>7
    <3>2. PICK j \in 1..Len(q) : i = n + j
      <4>1. i - n \in 1..Len(q) /\ i = n + (i - n)
        BY <1>1, <1>4, <3>1
      <4> QED
        BY <4>1
    <3>3. t[n + j] = q[j] /\ q[j] # "append"
      BY <1>6, <2>2, Zenon
    <3> QED
      BY <3>2, <3>3, Zenon
  <2>4. n > 0 => Ahead(t) = 0
    BY <1>7 DEF Ahead
  <2> QED
    <3>1. CASE n > 0
      <4>1. Ahead(t) = 0
        BY <2>4, <3>1
      <4> QED
        BY <1>1, <1>4, <2>3, <4>1 DEF Appends
    <3>2. CASE n = 0
      <4>1. Ahead(t) + n <= Len(t) /\ ~ \E i \in Int : i \in (Ahead(t) + 1)..(Ahead(t) + n)
        BY <1>1, <1>4, <2>1, <3>2
      <4>2. \A i \in 1..Len(t) : t[i] # "append"
        BY <2>3, <3>2
      <4> QED
        BY <1>1, <1>4, <4>1, <4>2 DEF Appends
    <3> QED
      BY <3>1, <3>2
<1>11. t[1] \in {"append", "flush", "end_of_tick"}
  <2>1. n = 0 => 1 \in 1..Len(q) /\ n + 1 = 1
    BY <1>1
  <2>2. n = 0 => t[1] = q[1]
    BY <1>6, <2>1
  <2> QED
    BY <1>7, <2>2
<1> QED
  BY <1>8, <1>9, <1>10, <1>11

\* What a tick hands to the ledger.
Handing(n) == [k \in 1..n |-> "append"]

LEMMA HandingIs ==
    ASSUME NEW n \in Nat
    PROVE  Handing(n) \in Seq(Call) /\ Len(Handing(n)) = n /\ \A k \in 1..n : Handing(n)[k] = "append"
<1>1. Handing(n) \in [1..n -> Call] /\ \A k \in 1..n : Handing(n)[k] = "append"
  BY DEF Handing, Call
<1>2. Handing(n) \in Seq(Call)
  BY <1>1, SeqDef
<1>3. Len(Handing(n)) = n
  BY <1>2, LenProperties DEF Handing
<1> QED
  BY <1>1, <1>2, <1>3

\* The calls a tick queues, with the snapshot and the live state due or not.
LEMMA TickQueue ==
    ASSUME NEW n \in Nat, NEW s \in {<<>>, SnapshotHook}, NEW p \in {<<>>, Publication}
    PROVE  \E t \in Seq(Call) :
             /\ t = Handing(n) \o s \o p \o <<"end_of_tick">>
             /\ t # <<>> /\ t[Len(t)] = "end_of_tick" /\ Shape(t) /\ Appends(t, n)
             /\ t[1] \in {"append", "flush", "end_of_tick"}
             /\ p = Publication => \E i \in 1..Len(t) : t[i] = "live"
<1>1. PICK a : a = Handing(n)
  OBVIOUS
<1>2. a \in Seq(Call) /\ Len(a) = n /\ \A k \in 1..n : a[k] = "append"
  BY <1>1, HandingIs
<1>3. s \in Seq(Call) /\ p \in Seq(Call)
  <2>1. SnapshotHook \in Seq(Call) /\ Publication \in Seq(Call)
    BY DEF SnapshotHook, Publication, Call
  <2> QED
    BY <2>1, EmptySeq
<1>4. PICK e : e = <<"end_of_tick">>
  OBVIOUS
<1>5. /\ e \in Seq(Call) /\ e # <<>> /\ e[1] = "end_of_tick" /\ Len(e) = 1
      /\ Shape(e) /\ Appends(e, 0)
  BY <1>4, EndIs
<1>6. PICK live1 : live1 = p \o e
  OBVIOUS
<1>7. /\ live1 \in Seq(Call) /\ live1 # <<>> /\ Shape(live1) /\ Appends(live1, 0)
      /\ live1[Len(live1)] = "end_of_tick" /\ live1[1] \in {"flush", "end_of_tick"}
      /\ p = Publication => Len(live1) >= 2 /\ live1[2] = "live"
  <2>1. CASE p = <<>>
    <3>1. live1 = e
      BY <1>5, <1>6, <2>1, ConcatEmptySeq
    <3>2. <<>> # Publication
      BY DEF Publication
    <3> QED
      BY <1>5, <2>1, <3>1, <3>2
  <2>2. CASE p = Publication
    <3>1. PICK h \in Seq(Call) :
            /\ h = Publication \o e /\ h # <<>> /\ Len(h) = Len(e) + 3
            /\ h[1] = "flush" /\ h[2] = "live" /\ h[Len(h)] = e[Len(e)]
            /\ Shape(h) /\ Appends(h, 0)
      BY <1>5, PublicationIs
    <3>2. live1 = h
      BY <1>6, <2>2, <3>1
    <3> QED
      BY <1>5, <3>1, <3>2
  <2> QED
    BY <2>1, <2>2
<1>8. PICK snap : snap = s \o live1
  OBVIOUS
<1>9. /\ snap \in Seq(Call) /\ snap # <<>> /\ Shape(snap) /\ Appends(snap, 0)
      /\ snap[Len(snap)] = "end_of_tick" /\ snap[1] \in {"flush", "end_of_tick"}
      /\ p = Publication => \E i \in 1..Len(snap) : snap[i] = "live"
  <2>0. Len(live1) \in Nat
    BY <1>7, LenProperties
  <2>1. CASE s = <<>>
    <3>1. snap = live1
      BY <1>7, <1>8, <2>1, ConcatEmptySeq
    <3>2. p = Publication => 2 \in 1..Len(live1)
      BY <1>7, <2>0
    <3> QED
      BY <1>7, <3>1, <3>2
  <2>2. CASE s = SnapshotHook
    <3>1. PICK h \in Seq(Call) :
            /\ h = SnapshotHook \o live1 /\ h # <<>> /\ Len(h) = Len(live1) + 3 /\ h[1] = "flush"
            /\ \A i \in 4..Len(h) : h[i] = live1[i - 3]
            /\ h[Len(h)] = live1[Len(live1)] /\ Shape(h) /\ Appends(h, 0)
      BY <1>7, <2>2, SnapshotHookIs
    <3>2. /\ snap \in Seq(Call) /\ snap # <<>> /\ Shape(snap) /\ Appends(snap, 0)
          /\ snap[1] = "flush" /\ snap[Len(snap)] = live1[Len(live1)]
          /\ Len(snap) = Len(live1) + 3 /\ \A i \in 4..Len(snap) : snap[i] = live1[i - 3]
      BY <1>8, <2>2, <3>1
    <3>3. p = Publication => 5 \in 4..Len(snap) /\ snap[5] = live1[2]
      BY <1>7, <2>0, <3>2
    <3> QED
      BY <1>7, <2>0, <3>2, <3>3
  <2> QED
    BY <2>1, <2>2
<1>10. PICK t \in Seq(Call) :
         /\ t = a \o snap /\ Len(t) = Len(a) + Len(snap)
         /\ \A i \in 1..Len(a) : t[i] = a[i]
         /\ \A i \in 1..Len(snap) : t[Len(a) + i] = snap[i]
  BY <1>2, <1>9, ConcatIs
<1>11. t = ((a \o s) \o p) \o e
  <2>1. PICK x \in Seq(Call) : x = a \o s
    BY <1>2, <1>3, ConcatIs
  <2>2. (x \o p) \o e = x \o (p \o e)
    BY <1>3, <1>5, <2>1, CallsAssociate
  <2>3. (a \o s) \o live1 = a \o (s \o live1)
    BY <1>2, <1>3, <1>7, CallsAssociate
  <2> QED
    BY <1>6, <1>8, <1>10, <2>1, <2>2, <2>3
<1>13. t # <<>> /\ Len(t) = n + Len(snap)
  BY <1>2, <1>9, <1>10, LenProperties, EmptySeq
<1>14. /\ \A i \in 1..Len(snap) : t[n + i] = snap[i]
       /\ \A i \in 1..n : t[i] = "append"
  BY <1>2, <1>10
<1>15. /\ t[Len(t)] = snap[Len(snap)] /\ Shape(t) /\ Appends(t, n)
       /\ t[1] \in {"append", "flush", "end_of_tick"}
  BY <1>9, <1>13, <1>14, TickShape
<1>12. p = Publication => \E i \in 1..Len(t) : t[i] = "live"
  <2>1. SUFFICES ASSUME p = Publication PROVE \E i \in 1..Len(t) : t[i] = "live"
    OBVIOUS
  <2>2. PICK i \in 1..Len(snap) : snap[i] = "live"
    BY <1>9, <2>1
  <2>3. Len(snap) \in Nat
    BY <1>9, LenProperties
  <2>4. n + i \in 1..Len(t)
    BY <1>13, <2>3
  <2> QED
    BY <1>14, <2>2, <2>4
<1> QED
  BY <1>1, <1>4, <1>9, <1>11, <1>12, <1>13, <1>15

\* The calls that end a batch or an orderly stop.
LEMMA EndQueue ==
    ASSUME NEW e \in {"settle", "exit"}
    PROVE  \E t \in Seq(Call) :
             /\ t = Publication \o <<e>> /\ t # <<>> /\ t[1] = "flush" /\ t[2] = "live"
             /\ Len(t) = 4 /\ t[Len(t)] = e /\ Shape(t) /\ Appends(t, 0)
<1>1. PICK r : r = <<e>>
  OBVIOUS
<1>2. r \in Seq(Call) /\ r # <<>> /\ r[1] = e /\ Len(r) = 1 /\ Shape(r) /\ Appends(r, 0)
  BY <1>1, EndIs
<1>3. PICK h \in Seq(Call) :
        /\ h = Publication \o r /\ h # <<>> /\ Len(h) = Len(r) + 3
        /\ h[1] = "flush" /\ h[2] = "live" /\ h[Len(h)] = r[Len(r)]
        /\ Shape(h) /\ Appends(h, 0)
  BY <1>2, PublicationIs
<1>4. Len(h) = 4 /\ h[Len(h)] = e
  BY <1>2, <1>3
<1> QED
  BY <1>1, <1>3, <1>4, Zenon

-----------------------------------------------------------------------------
(* Type correctness, and what is in memory when the next call is made. *)

\* The numbers of the model.
LEMMA Constants ==
    /\ BatchSize \in Nat /\ BatchSize >= 1 /\ LiveEvery \in Nat /\ LiveEvery >= 1
    /\ SnapshotInterval \in Nat /\ SnapshotInterval >= 1 /\ MaxTick \in Nat
    /\ MaxStep \in Nat /\ MaxStep >= 1 /\ FastBatch \in Nat /\ FastBatch >= 1
    /\ SlowBatch \in Nat /\ SlowBatch >= 1
    /\ NoValue \notin World /\ NoValue \notin Int
  BY WorkerAssumption

\* The events of a tick: consecutive ids, the tick and the inputs of the world.
LEMMA NewEventsAre ==
    ASSUME NEW w \in World, w.tick < MaxTick
    PROVE  /\ NewEvents(w) \in Seq(Event) /\ Len(NewEvents(w)) \in Nat
           /\ \A k \in 1..Len(NewEvents(w)) :
                /\ NewEvents(w)[k].id = Len(w.past) + Len(w.inputs) + k
                /\ NewEvents(w)[k].tick = w.tick + 1
                /\ NewEvents(w)[k].inputs = w.inputs
<1>1. w.tick \in Nat /\ w.inputs \in Seq(Nat) /\ w.past \in Seq(Event)
  BY DEF World
<1>2. Len(w.past) \in Nat /\ Len(w.inputs) \in Nat
  BY <1>1, LenProperties
<1>3. PICK n \in Nat : n = EventsAt[w.tick + 1]
  <2>1. w.tick + 1 \in 1..MaxTick /\ EventsAt \in [1..MaxTick -> Nat]
    BY <1>1, Constants, WorkerAssumption
  <2> QED
    BY <2>1
<1>4. PICK es : es = NewEvents(w)
  OBVIOUS
<1>5. es = [k \in 1..n |-> [id |-> Len(w.past) + Len(w.inputs) + k, tick |-> w.tick + 1,
                            inputs |-> w.inputs]]
  BY <1>3, <1>4 DEF NewEvents
<1>6. \A k \in 1..n : /\ es[k].id = Len(w.past) + Len(w.inputs) + k
                      /\ es[k].tick = w.tick + 1 /\ es[k].inputs = w.inputs
  BY <1>5
<1>7. es \in [1..n -> Event]
  <2>1. \A k \in 1..n : [id |-> Len(w.past) + Len(w.inputs) + k, tick |-> w.tick + 1,
                         inputs |-> w.inputs] \in Event
    <3>1. ASSUME NEW k \in 1..n
          PROVE  [id |-> Len(w.past) + Len(w.inputs) + k, tick |-> w.tick + 1,
                  inputs |-> w.inputs] \in Event
      <4>1. w.tick + 1 \in Nat
        BY <1>1
      <4>2. PICK a \in Nat, b \in Nat : a = Len(w.past) /\ b = Len(w.inputs)
        BY <1>2
      <4>3. a + b + k \in Nat
        OBVIOUS
      <4>4. Len(w.past) + Len(w.inputs) + k \in Nat
        BY <4>2, <4>3
      <4> QED
        BY <1>1, <4>1, <4>4 DEF Event
    <3> QED
      BY <3>1
  <2> QED
    BY <1>5, <2>1
<1>8. es \in Seq(Event)
  BY <1>7, SeqDef
<1>9. Len(es) = n
  BY <1>5, <1>8, LenProperties
<1> QED
  BY <1>4, <1>6, <1>8, <1>9

\* A tick's world.
LEMMA TickedIs ==
    ASSUME NEW w \in World, w.tick < MaxTick
    PROVE  /\ Ticked(w) \in World /\ Ticked(w).tick = w.tick + 1
           /\ Ticked(w).inputs = w.inputs /\ Ticked(w).past = w.past \o NewEvents(w)
<1>1. w.tick \in Nat /\ w.inputs \in Seq(Nat) /\ w.past \in Seq(Event)
  BY DEF World
<1>2. NewEvents(w) \in Seq(Event)
  BY NewEventsAre
<1>3. w.past \o NewEvents(w) \in Seq(Event)
  BY <1>1, <1>2, ConcatProperties
<1>4. PICK past \in Seq(Event) : past = w.past \o NewEvents(w)
  BY <1>3
<1>5. Ticked(w) = [w EXCEPT !.tick = @ + 1, !.past = past]
  BY <1>4 DEF Ticked
<1>6. Ticked(w).tick = w.tick + 1 /\ Ticked(w).inputs = w.inputs /\ Ticked(w).past = past
  BY <1>5 DEF World
<1>7. Ticked(w) \in World
  <2>1. PICK T, I, P : T = Nat /\ I = Seq(Nat) /\ P = Seq(Event)
    OBVIOUS
  <2>2. PICK t \in T : t = w.tick + 1
    BY <1>1, <2>1
  <2>3. w \in [tick : T, inputs : I, past : P] /\ past \in P
    BY <2>1 DEF World
  <2>4. [w EXCEPT !.tick = t, !.past = past] \in [tick : T, inputs : I, past : P]
    BY <2>3
  <2> QED
    BY <1>5, <2>1, <2>2, <2>4 DEF World
<1> QED
  BY <1>4, <1>6, <1>7

\* A scenario's world.
LEMMA ChangedWorldIs ==
    ASSUME NEW w \in World
    PROVE  /\ [w EXCEPT !.inputs = Append(@, w.tick)] \in World
           /\ [w EXCEPT !.inputs = Append(@, w.tick)].tick = w.tick
           /\ [w EXCEPT !.inputs = Append(@, w.tick)].inputs = Append(w.inputs, w.tick)
           /\ [w EXCEPT !.inputs = Append(@, w.tick)].past = w.past
<1>1. w.tick \in Nat /\ w.inputs \in Seq(Nat) /\ w.past \in Seq(Event)
  BY DEF World
<1>2. Append(w.inputs, w.tick) \in Seq(Nat)
  BY <1>1, AppendProperties
<1>3. [w EXCEPT !.inputs = Append(@, w.tick)]
        = [tick |-> w.tick, inputs |-> Append(w.inputs, w.tick), past |-> w.past]
  <2>1. w = [tick |-> w.tick, inputs |-> w.inputs, past |-> w.past]
    BY DEF World
  <2> QED
    BY <2>1
<1> QED
  BY <1>1, <1>2, <1>3 DEF World

\* The budget of a batch is never longer than the longest batch.
LEMMA BudgetIs ==
    ASSUME NEW c \in ControlState
    PROVE  /\ Budget(c) \in Nat /\ Budget(c) <= Longest /\ Longest \in Nat
           /\ Budget(c) > 0 <=> Moving(c)
<1>1. c.step \in Int
  BY DEF ControlState
<1> QED
  BY <1>1, Constants DEF Budget, Longest, Larger, Smaller, Moving

LEMMA ZeroIsAnInteger == 0 \in Int
  OBVIOUS

\* A record with some of its fields changed is a record.
LEMMA ControlIs ==
    ASSUME NEW c \in ControlState
    PROVE  /\ \A note \in {"", "reached target", "step complete"} :
                /\ Paused(c, note) \in ControlState
                /\ Paused(c, note).mode = "paused" /\ Paused(c, note).step = 0
                /\ Paused(c, note).note = note /\ Paused(c, note).fast = c.fast
                /\ Paused(c, note).scenario = c.scenario
           /\ [c EXCEPT !.scenario = FALSE] \in ControlState
           /\ \A n \in Int : [c EXCEPT !.step = n] \in ControlState
           /\ \A r \in Requests : Changed(c, r) \in ControlState
<1>1. /\ c.mode \in {"running", "paused", "stopped"} /\ c.fast \in BOOLEAN /\ c.step \in Int
      /\ c.target \in Int \cup {NoValue} /\ c.scenario \in BOOLEAN
      /\ c.note \in {"", "reached target", "step complete"}
  BY DEF ControlState
<1>2. c = [mode |-> c.mode, fast |-> c.fast, step |-> c.step, target |-> c.target,
           scenario |-> c.scenario, note |-> c.note]
  BY DEF ControlState
<1>3. ASSUME NEW note \in {"", "reached target", "step complete"}
      PROVE  /\ Paused(c, note) \in ControlState
             /\ Paused(c, note).mode = "paused" /\ Paused(c, note).step = 0
             /\ Paused(c, note).note = note /\ Paused(c, note).fast = c.fast
             /\ Paused(c, note).scenario = c.scenario
  <2>1. /\ Paused(c, note).mode = "paused" /\ Paused(c, note).step = 0
        /\ Paused(c, note).note = note
    BY DEF Paused, ControlState
  <2>2. Paused(c, note).fast = c.fast /\ Paused(c, note).scenario = c.scenario
    BY DEF Paused, ControlState
  <2>3. Paused(c, note) \in ControlState
    <3>1. PICK modes, notes, targets, steps, bools :
            /\ modes = {"running", "paused", "stopped"} /\ targets = Int \cup {NoValue} /\ steps = Int
            /\ notes = {"", "reached target", "step complete"} /\ bools = BOOLEAN
      OBVIOUS
    <3>2. PICK m \in modes, t \in targets, n \in notes, i \in steps :
            m = "paused" /\ t = NoValue /\ n = note /\ i = 0
      <4>1. "paused" \in modes /\ NoValue \in targets /\ note \in notes
        BY <3>1
      <4>2. 0 \in Int
        BY ZeroIsAnInteger
      <4>3. 0 \in steps
        BY <3>1, <4>2, Zenon
      <4> QED
        BY <4>1, <4>3
    <3>3. c \in [mode : modes, fast : bools, step : steps, target : targets, scenario : bools, note : notes]
      BY <3>1 DEF ControlState
    <3>4. [c EXCEPT !.mode = m, !.step = i, !.target = t, !.note = n]
            \in [mode : modes, fast : bools, step : steps, target : targets, scenario : bools, note : notes]
      BY <3>3
    <3> QED
      BY <3>1, <3>2, <3>4 DEF Paused, ControlState
  <2> QED
    BY <2>1, <2>2, <2>3
<1>4. [c EXCEPT !.scenario = FALSE] \in ControlState
  BY <1>1 DEF ControlState
<1>5. \A n \in Int : [c EXCEPT !.step = n] \in ControlState
  BY <1>1 DEF ControlState
<1>6. ASSUME NEW r \in Requests PROVE Changed(c, r) \in ControlState
  <2>1. DOMAIN c = {"mode", "fast", "step", "target", "scenario", "note"}
    BY <1>2
  <2>2. Changed(c, r) = [f \in {"mode", "fast", "step", "target", "scenario", "note"} |->
                            IF f \in DOMAIN r THEN r[f] ELSE c[f]]
    BY <2>1 DEF Changed
  <2>3. /\ Changed(c, r).mode \in {"running", "paused", "stopped"}
        /\ Changed(c, r).fast \in BOOLEAN /\ Changed(c, r).step \in Int
        /\ Changed(c, r).target \in Int \cup {NoValue} /\ Changed(c, r).scenario \in BOOLEAN
        /\ Changed(c, r).note \in {"", "reached target", "step complete"}
    BY <1>1, <2>2, RequestsAssumption
  <2>4. Changed(c, r) = [mode |-> Changed(c, r).mode, fast |-> Changed(c, r).fast,
                         step |-> Changed(c, r).step, target |-> Changed(c, r).target,
                         scenario |-> Changed(c, r).scenario, note |-> Changed(c, r).note]
    BY <2>2
  <2> QED
    BY <2>3, <2>4 DEF ControlState
<1> QED
  BY <1>3, <1>4, <1>5, <1>6

\* The parts of the type.
WorkerTyped ==
    /\ pc \in PC /\ calls \in Seq(Call) /\ mem \in World \cup {NoValue}
    /\ fresh \in Seq(Event) /\ buffer \in Seq(Event) /\ lastLive \in Nat
    /\ seen \in ControlState /\ batch \in Nat /\ left \in Nat
StoreTyped ==
    store \in Stores /\ events \in Seq(Event) /\ head \in Nat /\ snapshots \in SUBSET World
    /\ live \in World
RestTyped ==
    /\ control \in ControlState
    /\ request = NoValue \/ request \in [control : ControlState, change : Requests]
    /\ latest \in World /\ owed \in Int /\ overrun \in Nat
    /\ counts \in [{"crashes", "stops", "requests", "refused"} -> Nat]

LEMMA TypeParts == TypeOK <=> WorkerTyped /\ StoreTyped /\ RestTyped
  BY DEF TypeOK, WorkerTyped, StoreTyped, RestTyped

LEMMA TypePartsNext == TypeOK' <=> WorkerTyped' /\ StoreTyped' /\ RestTyped'
  BY DEF TypeOK, WorkerTyped, StoreTyped, RestTyped

LEMMA InitTyped == ASSUME Init PROVE TypeOK
<1>1. Genesis \in World
  BY DEF Genesis, World
<1>2. Idle \in ControlState
  BY DEF Idle, ControlState
<1> QED
  BY <1>1, <1>2 DEF Init, TypeOK, PC

\* What the next call finds in memory.
LEMMA CallFinds ==
    ASSUME TypeOK, CallInv, calls # <<>>
    PROVE  /\ Head(calls) = calls[1] /\ calls[1] \in Call /\ Len(calls) \in Nat /\ Len(calls) >= 1
           /\ calls[1] # "exit" => mem \in World
           /\ calls[1] = "append" => fresh # <<>>
           /\ calls[1] \notin {"append", "flush", "bump_events"} => fresh = <<>> /\ Len(fresh) = 0
           /\ pc \in {"tick", "poll"}
           /\ calls[1] \in {"end_of_tick", "settle"} => pc = "tick"
           /\ calls[1] = "exit" => pc = "poll"
           /\ calls[1] \in {"end_of_tick", "settle", "exit"} <=> Len(calls) = 1
<1>1. calls \in Seq(Call) /\ fresh \in Seq(Event) /\ mem \in World \cup {NoValue}
  BY DEF TypeOK
<1>2. Head(calls) = calls[1] /\ calls[1] \in Call /\ Len(calls) \in Nat /\ Len(calls) >= 1
  BY <1>1, TailIs
<1>3. Len(fresh) \in Nat /\ (Len(fresh) = 0 <=> fresh = <<>>)
  BY <1>1, EmptySeq
<1>4. calls[1] # "exit" => mem \in World
  BY <1>1, <1>2 DEF CallInv, MemoryInv
<1>5. calls[1] = "append" => fresh # <<>>
  <2>1. calls[1] = "append" => Len(fresh) > 0
    BY <1>1, <1>3, AppendsOfPop DEF CallInv, QueueInv
  <2> QED
    BY <1>3, <2>1
<1>6. calls[1] \notin {"append", "flush", "bump_events"} => fresh = <<>>
  <2>1. Len(fresh) > 0 => calls[1] \in {"append", "flush", "bump_events"}
    BY <1>1, <1>3, NothingFresh DEF CallInv, QueueInv
  <2> QED
    BY <1>3, <2>1
<1>7. pc \in {"tick", "poll"}
  BY DEF CallInv, QueueInv
<1>8. calls[1] \in {"end_of_tick", "settle", "exit"} <=> Len(calls) = 1
  <2>1. 1 \in 1..Len(calls) /\ Shape(calls)
    BY <1>2 DEF CallInv, QueueInv
  <2>2. calls[1] \in {"end_of_tick", "settle", "exit"} <=> 1 = Len(calls)
    BY <2>1 DEF Shape
  <2> QED
    BY <1>2, <2>2
<1>9. calls[Len(calls)] \in (IF pc = "tick" THEN {"end_of_tick", "settle"} ELSE {"exit"})
  BY DEF CallInv, QueueInv, Ends
<1>10. /\ calls[1] \in {"end_of_tick", "settle"} => pc = "tick"
       /\ calls[1] = "exit" => pc = "poll"
  <2>1. Len(calls) = 1 => calls[Len(calls)] = calls[1]
    OBVIOUS
  <2>2. pc = "tick" => calls[Len(calls)] \in {"end_of_tick", "settle"}
    BY <1>9
  <2>3. pc # "tick" => calls[Len(calls)] = "exit"
    BY <1>9
  <2> QED
    BY <1>7, <1>8, <2>1, <2>2, <2>3
<1> QED
  BY <1>2, <1>3, <1>4, <1>5, <1>6, <1>7, <1>8, <1>10

\* What the store does not see of a step it is not part of, and the rest of a death.
LEMMA DieTyped == ASSUME WorkerTyped, Die PROVE WorkerTyped'
<1>1. Idle \in ControlState
  BY DEF Idle, ControlState
<1>2. <<>> \in Seq(Call) /\ <<>> \in Seq(Event)
  BY EmptySeq
<1> QED
  BY <1>1, <1>2 DEF WorkerTyped, Die, PC

LEMMA HeadTyped ==
    ASSUME NEW m \in Nat, NEW n \in Nat
    PROVE  Larger(m, n) \in Nat /\ Larger(m, n) >= m /\ Larger(m, n) >= n /\ Larger(m, n) \in {m, n}
  BY DEF Larger

LEMMA CountTyped ==
    ASSUME RestTyped, NEW c \in {"crashes", "stops", "requests"}, Count(c)
    PROVE  counts' \in [{"crashes", "stops", "requests", "refused"} -> Nat]
  BY DEF RestTyped, Count

\* The operator's steps.
LEMMA OperatorTyped ==
    ASSUME TypeOK, GetControl \/ SetControl
    PROVE  TypeOK'
<1>1. WorkerTyped /\ StoreTyped /\ RestTyped
  BY TypeParts
<1>2. WorkerTyped' /\ StoreTyped'
  BY <1>1 DEF GetControl, SetControl, workerVars, storeVars, WorkerTyped, StoreTyped
<1>3. CASE GetControl
  <2>1. counts' \in [{"crashes", "stops", "requests", "refused"} -> Nat]
    BY <1>1, <1>3, CountTyped DEF GetControl
  <2>2. PICK r \in Requests : request' = [control |-> control, change |-> r]
    BY <1>3 DEF GetControl
  <2>3. request' \in [control : ControlState, change : Requests]
    BY <1>1, <2>2 DEF RestTyped
  <2>4. RestTyped'
    BY <1>1, <1>3, <2>1, <2>3 DEF GetControl, RestTyped
  <2> QED
    BY <1>2, <2>4, TypePartsNext
<1>4. CASE SetControl
  <2>1. request \in [control : ControlState, change : Requests]
    BY <1>1, <1>4 DEF SetControl, RestTyped
  <2>2. PICK r \in Requests, c \in ControlState : r = request.change /\ c = request.control
    BY <2>1
  <2>3. control' = Changed(c, r) /\ Changed(c, r) \in ControlState
    BY <1>4, <2>2, ControlIs DEF SetControl, PutControl
  <2>4. overrun' \in Nat
    BY <1>1, <1>4 DEF SetControl, PutControl, RestTyped
  <2>5. owed' \in Int
    BY <1>1, <1>4, <2>2, RequestsAssumption DEF SetControl, RestTyped
  <2>6. RestTyped'
    BY <1>1, <1>4, <2>3, <2>4, <2>5 DEF SetControl, RestTyped
  <2> QED
    BY <1>2, <2>6, TypePartsNext
<1> QED
  BY <1>3, <1>4

\* The worker's loop, up to a tick.
LEMMA LoopTyped ==
    ASSUME TypeOK, CallInv,
           Start \/ Poll \/ ApplyScenario \/ ClearScenario \/ NothingToRun \/ StartBatch
    PROVE  TypeOK'
<1>1. WorkerTyped /\ StoreTyped /\ RestTyped
  BY TypeParts
<1>2. StoreTyped'
  BY <1>1 DEF Start, Poll, ApplyScenario, ClearScenario, NothingToRun, StartBatch,
     storeVars, StoreTyped
<1>3. CASE Start \/ NothingToRun
  <2>1. WorkerTyped'
    BY <1>1, <1>3 DEF Start, NothingToRun, WorkerTyped, PC
  <2>2. RestTyped'
    BY <1>1, <1>3 DEF Start, NothingToRun, RestTyped, ghostVars
  <2> QED
    BY <1>2, <2>1, <2>2, TypePartsNext
<1>4. CASE Poll
  <2>1. mem' \in World /\ latest' = mem' /\ lastLive' \in Nat
    BY <1>1, <1>4 DEF Poll, WorkerTyped, StoreTyped, World
  <2>2. WorkerTyped'
    BY <1>1, <1>4, <2>1 DEF Poll, WorkerTyped, RestTyped, PC
  <2>3. RestTyped'
    BY <1>1, <1>4, <2>1 DEF Poll, RestTyped
  <2> QED
    BY <1>2, <2>2, <2>3, TypePartsNext
<1>5. CASE ApplyScenario
  <2>1. mem \in World
    BY <1>5 DEF ApplyScenario, CallInv, MemoryInv
  <2>2. mem' \in World /\ latest' = mem'
    BY <1>5, <2>1, ChangedWorldIs DEF ApplyScenario
  <2>3. WorkerTyped'
    BY <1>1, <1>5, <2>2 DEF ApplyScenario, WorkerTyped, PC
  <2>4. RestTyped'
    BY <1>1, <1>5, <2>2 DEF ApplyScenario, RestTyped
  <2> QED
    BY <1>2, <2>3, <2>4, TypePartsNext
<1>6. CASE ClearScenario
  <2>1. seen' \in ControlState
    BY <1>1, <1>6, ControlIs DEF ClearScenario, WorkerTyped
  <2>2. WorkerTyped'
    BY <1>1, <1>6, <2>1 DEF ClearScenario, WorkerTyped, PC
  <2>3. control' \in ControlState /\ overrun' \in Nat
    BY <1>1, <1>6, <2>1 DEF ClearScenario, PutControl, RestTyped
  <2>4. RestTyped'
    BY <1>1, <1>6, <2>3 DEF ClearScenario, RestTyped
  <2> QED
    BY <1>2, <2>2, <2>4, TypePartsNext
<1>7. CASE StartBatch
  <2>1. Budget(seen) \in Nat
    BY <1>1, BudgetIs DEF WorkerTyped
  <2>2. WorkerTyped'
    BY <1>1, <1>7, <2>1 DEF StartBatch, WorkerTyped, PC
  <2>3. RestTyped'
    BY <1>1, <1>7 DEF StartBatch, RestTyped, ghostVars
  <2> QED
    BY <1>2, <2>2, <2>3, TypePartsNext
<1> QED
  BY <1>3, <1>4, <1>5, <1>6, <1>7

\* What a tick does to the memory and what it queues.
LEMMA TickDoes ==
    ASSUME TypeOK, CallInv, Tick
    PROVE  /\ mem \in World /\ mem.tick < MaxTick /\ left > 0 /\ fresh = <<>> /\ pc = "tick"
           /\ mem' \in World /\ mem'.tick = mem.tick + 1 /\ mem'.inputs = mem.inputs
           /\ mem'.past = mem.past \o fresh' /\ fresh' = NewEvents(mem)
           /\ fresh' \in Seq(Event) /\ Len(fresh') \in Nat
           /\ \A k \in 1..Len(fresh') :
                /\ fresh'[k].id = Len(mem.past) + Len(mem.inputs) + k
                /\ fresh'[k].tick = mem.tick + 1 /\ fresh'[k].inputs = mem.inputs
           /\ calls' \in Seq(Call) /\ calls' # <<>> /\ calls'[Len(calls')] = "end_of_tick"
           /\ Shape(calls') /\ Appends(calls', Len(fresh'))
           /\ calls'[1] \in {"append", "flush", "end_of_tick"}
           /\ LiveDue(mem.tick + 1) => \E i \in 1..Len(calls') : calls'[i] = "live"
<1>1. mem \in World /\ mem.tick < MaxTick /\ left > 0 /\ pc = "tick" /\ calls = <<>>
  BY DEF Tick, CallInv, MemoryInv
<1>2. fresh = <<>>
  <2>1. Len(fresh) \in Nat /\ (Len(fresh) = 0 <=> fresh = <<>>)
    BY EmptySeq DEF TypeOK
  <2> QED
    <3>1. calls \in Seq(Call) /\ Appends(calls, Len(fresh))
      BY DEF TypeOK, CallInv, QueueInv
    <3>2. ~(Len(fresh) > 0)
      BY <1>1, <2>1, <3>1, NothingFresh
    <3> QED
      BY <2>1, <3>2
<1>3. /\ mem' \in World /\ mem'.tick = mem.tick + 1 /\ mem'.inputs = mem.inputs
      /\ mem'.past = mem.past \o NewEvents(mem)
  BY <1>1, TickedIs DEF Tick
<1>4. fresh' = NewEvents(mem)
  BY DEF Tick
<1>5. /\ NewEvents(mem) \in Seq(Event) /\ Len(NewEvents(mem)) \in Nat
      /\ \A k \in 1..Len(NewEvents(mem)) :
           /\ NewEvents(mem)[k].id = Len(mem.past) + Len(mem.inputs) + k
           /\ NewEvents(mem)[k].tick = mem.tick + 1
           /\ NewEvents(mem)[k].inputs = mem.inputs
  BY <1>1, NewEventsAre
<1>6. PICK s \in {<<>>, SnapshotHook}, p \in {<<>>, Publication}, n \in Nat :
        /\ n = Len(fresh') /\ (LiveDue(mem.tick + 1) => p = Publication)
        /\ calls' = Handing(n) \o s \o p \o <<"end_of_tick">>
  <2>1. PICK n \in Nat : n = Len(fresh')
    BY <1>4, <1>5
  <2>2. PICK s \in {<<>>, SnapshotHook} :
          s = IF mem'.tick % SnapshotInterval = 0 THEN SnapshotHook ELSE <<>>
    OBVIOUS
  <2>3. PICK p \in {<<>>, Publication} :
          p = IF LiveDue(mem'.tick) THEN Publication ELSE <<>>
    OBVIOUS
  <2>4. calls' = Handing(n) \o s \o p \o <<"end_of_tick">>
    BY <2>1, <2>2, <2>3 DEF Tick, Handing
  <2>5. LiveDue(mem.tick + 1) => p = Publication
    BY <1>3, <2>3
  <2> QED
    BY <2>1, <2>4, <2>5
<1>7. /\ calls' \in Seq(Call) /\ calls' # <<>> /\ calls'[Len(calls')] = "end_of_tick"
      /\ Shape(calls') /\ Appends(calls', n)
      /\ calls'[1] \in {"append", "flush", "end_of_tick"}
      /\ p = Publication => \E i \in 1..Len(calls') : calls'[i] = "live"
  <2>1. PICK t \in Seq(Call) :
          /\ t = Handing(n) \o s \o p \o <<"end_of_tick">>
          /\ t # <<>> /\ t[Len(t)] = "end_of_tick" /\ Shape(t) /\ Appends(t, n)
          /\ t[1] \in {"append", "flush", "end_of_tick"}
          /\ p = Publication => \E i \in 1..Len(t) : t[i] = "live"
    BY TickQueue
  <2>2. calls' = t
    BY <1>6, <2>1
  <2> QED
    BY <2>1, <2>2
<1> QED
  BY <1>1, <1>2, <1>3, <1>4, <1>5, <1>6, <1>7

LEMMA TickTyped == ASSUME TypeOK, CallInv, Tick PROVE TypeOK'
<1>1. WorkerTyped /\ StoreTyped /\ RestTyped
  BY TypeParts
<1>2. /\ mem' \in World /\ mem'.tick = mem.tick + 1 /\ fresh' \in Seq(Event)
      /\ calls' \in Seq(Call) /\ left > 0
  BY TickDoes
<1>3. lastLive' \in Nat /\ left' \in Nat
  BY <1>1, <1>2 DEF Tick, WorkerTyped, World
<1>4. WorkerTyped'
  BY <1>1, <1>2, <1>3 DEF Tick, WorkerTyped
<1>5. StoreTyped'
  BY <1>1 DEF Tick, storeVars, StoreTyped
<1>6. owed' \in Int /\ overrun' \in Nat
  BY <1>1 DEF Tick, RestTyped, Larger
<1>7. RestTyped'
  BY <1>1, <1>2, <1>6 DEF Tick, RestTyped
<1> QED
  BY <1>4, <1>5, <1>7, TypePartsNext

\* An orderly stop queues the publication of what is in memory.
LEMMA StopDoes ==
    ASSUME TypeOK, CallInv, Stop
    PROVE  /\ calls' \in Seq(Call) /\ calls' # <<>> /\ calls'[Len(calls')] = "exit"
           /\ Shape(calls') /\ Appends(calls', 0) /\ buffer = <<>> /\ fresh = <<>> /\ pc = "poll"
           /\ mem = NoValue => calls' = <<"exit">> /\ Len(calls') = 1 /\ calls'[1] = "exit"
           /\ mem # NoValue => /\ calls'[1] = "flush" /\ Len(calls') = 4
                               /\ \E i \in 1..Len(calls') : calls'[i] = "live"
<1>1. pc = "poll" /\ calls = <<>> /\ buffer = <<>> /\ fresh = <<>>
  BY DEF Stop, CallInv, MemoryInv
<1>2. CASE mem = NoValue
  <2>1. calls' = <<"exit">>
    BY <1>2 DEF Stop
  <2>2. PICK e \in {"end_of_tick", "settle", "exit"} : e = "exit"
    OBVIOUS
  <2>3. /\ <<e>> \in Seq(Call) /\ <<e>> # <<>> /\ <<e>>[1] = e /\ Len(<<e>>) = 1
        /\ Shape(<<e>>) /\ Appends(<<e>>, 0)
    BY EndIs
  <2> QED
    BY <1>1, <1>2, <2>1, <2>2, <2>3
<1>3. CASE mem # NoValue
  <2>1. PICK e \in {"settle", "exit"} : e = "exit"
    OBVIOUS
  <2>2. calls' = Publication \o <<e>>
    BY <1>3, <2>1 DEF Stop
  <2>3. PICK t \in Seq(Call) :
             /\ t = Publication \o <<e>> /\ t # <<>> /\ t[1] = "flush" /\ t[2] = "live"
             /\ Len(t) = 4 /\ t[Len(t)] = e /\ Shape(t) /\ Appends(t, 0)
    BY EndQueue
  <2>4. t = calls' /\ 2 \in 1..Len(t)
    BY <2>2, <2>3
  <2> QED
    BY <1>1, <1>3, <2>1, <2>3, <2>4
<1> QED
  BY <1>2, <1>3

\* So does the end of a batch.
LEMMA AfterLoopDoes ==
    ASSUME AfterLoop
    PROVE  /\ calls' \in Seq(Call) /\ calls' # <<>> /\ calls'[Len(calls')] = "settle"
           /\ Shape(calls') /\ Appends(calls', 0) /\ calls'[1] = "flush" /\ Len(calls') = 4
           /\ \E i \in 1..Len(calls') : calls'[i] = "live"
<1>1. PICK e \in {"settle", "exit"} : e = "settle"
  OBVIOUS
<1>2. calls' = Publication \o <<e>>
  BY <1>1 DEF AfterLoop
<1>3. PICK t \in Seq(Call) :
           /\ t = Publication \o <<e>> /\ t # <<>> /\ t[1] = "flush" /\ t[2] = "live"
           /\ Len(t) = 4 /\ t[Len(t)] = e /\ Shape(t) /\ Appends(t, 0)
  BY EndQueue
<1>4. t = calls' /\ 2 \in 1..Len(t)
  BY <1>2, <1>3
<1> QED
  BY <1>1, <1>3, <1>4

LEMMA StopTyped == ASSUME TypeOK, CallInv, Stop PROVE TypeOK'
<1>1. WorkerTyped /\ StoreTyped /\ RestTyped
  BY TypeParts
<1>2. WorkerTyped'
  BY <1>1, StopDoes DEF Stop, WorkerTyped
<1>3. StoreTyped'
  BY <1>1 DEF Stop, storeVars, StoreTyped
<1>4. counts' \in [{"crashes", "stops", "requests", "refused"} -> Nat]
  BY <1>1, CountTyped DEF Stop
<1>5. RestTyped'
  BY <1>1, <1>4 DEF Stop, RestTyped
<1> QED
  BY <1>2, <1>3, <1>5, TypePartsNext

-----------------------------------------------------------------------------
(* The rows of the ledger. *)

\* Induction on the natural numbers, for a set: the theorems of the library take a
\* predicate as a parameter.
LEMMA SetInduction ==
    ASSUME NEW T, 0 \in T, \A n \in Nat : n \in T => n + 1 \in T
    PROVE  Nat \subseteq T
<1>1. SUFFICES ASSUME Nat \ T # {} PROVE FALSE
  OBVIOUS
<1> DEFINE Below == OpToRel(<, Nat)
<1>2. IsWellFoundedOn(Below, Nat)
  BY NatLessThanWellFounded
<1>3. \A i, j : <<i, j>> \in Below <=> i \in Nat /\ j \in Nat /\ i < j
  BY DEF OpToRel
<1> HIDE DEF Below
<1>4. Nat \ T \subseteq Nat /\ Nat \ T # {}
  BY <1>1
<1>5. \E m \in Nat \ T : \A k \in Nat \ T : ~ (<<k, m>> \in Below)
  BY <1>2, <1>4, WFMin, Zenon
<1>6. PICK m \in Nat \ T : \A k \in Nat \ T : ~ (<<k, m>> \in Below)
  BY <1>5
<1>7. m # 0 /\ m - 1 \in Nat /\ (m - 1) + 1 = m /\ m - 1 < m
  OBVIOUS
<1>8. m - 1 \in T
  BY <1>3, <1>6, <1>7
<1> QED
  BY <1>6, <1>7, <1>8

\* Induction up to a bound.
LEMMA BoundedInduction ==
    ASSUME NEW n \in Nat, NEW T, 0 \in T, \A k \in 1..n : k - 1 \in T => k \in T
    PROVE  0..n \subseteq T
<1> DEFINE U == {k \in Nat : k > n \/ k \in T}
<1>1. 0 \in U
  OBVIOUS
<1>2. \A k \in Nat : k \in U => k + 1 \in U
  <2>1. SUFFICES ASSUME NEW k \in Nat, k \in U, ~(k + 1 > n) PROVE k + 1 \in T
    OBVIOUS
  <2>2. k + 1 \in 1..n /\ (k + 1) - 1 = k /\ k \in T
    BY <2>1
  <2> QED
    BY <2>2
<1>3. Nat \subseteq U
  <2> HIDE DEF U
  <2> QED
    BY <1>1, <1>2, SetInduction
<1> QED
  BY <1>3

\* What the ledger does with one more event of the buffer.
LEMMA InsertIs ==
    ASSUME NEW rows \in Seq(Event), NEW e \in Event
    PROVE  /\ Insert(rows, e) \in Seq(Event)
           /\ Insert(rows, e) = rows \/ Insert(rows, e) = Append(rows, e)
           /\ Insert(rows, e) = rows <=> store.postgres /\ \E k \in DOMAIN rows : rows[k].id = e.id
<1>1. /\ Append(rows, e) \in Seq(Event) /\ Len(Append(rows, e)) = Len(rows) + 1
      /\ Len(rows) \in Nat
  BY AppendProperties, LenProperties
<1>2. Append(rows, e) # rows
  BY <1>1
<1> QED
  BY <1>1, <1>2 DEF Insert

\* The recursion that inserts the buffer has a solution.
Inserts(g, n) ==
    /\ g \in [0..n -> Seq(Event)] /\ g[0] = events
    /\ \A k \in 1..n : g[k] = Insert(g[k - 1], buffer[k])

LEMMA SomethingInserts ==
    ASSUME events \in Seq(Event), buffer \in Seq(Event)
    PROVE  \E g : Inserts(g, Len(buffer))
<1>1. Len(buffer) \in Nat
  BY LenProperties
<1> DEFINE T == {n \in 0..Len(buffer) : \E g : Inserts(g, n)}
<1>2. 0 \in T
  <2>1. Inserts([k \in 0..0 |-> events], 0)
    BY DEF Inserts
  <2> QED
    BY <1>1, <2>1
<1>3. ASSUME NEW n \in 1..Len(buffer), n - 1 \in T PROVE n \in T
  <2>1. PICK g : Inserts(g, n - 1)
    BY <1>3
  <2>2. PICK h : h = [k \in 0..n |-> IF k = n THEN Insert(g[n - 1], buffer[n]) ELSE g[k]]
    OBVIOUS
  <2>3. n \in Nat /\ n - 1 \in Nat /\ buffer[n] \in Event /\ n - 1 \in 0..(n - 1)
    BY <1>1, ElementOfSeq
  <2>4. g[n - 1] \in Seq(Event) /\ \A k \in 0..(n - 1) : g[k] \in Seq(Event)
    BY <2>1, <2>3 DEF Inserts
  <2>5. Insert(g[n - 1], buffer[n]) \in Seq(Event)
    BY <2>3, <2>4, InsertIs
  <2>6. h \in [0..n -> Seq(Event)] /\ h[0] = events
    BY <2>1, <2>2, <2>3, <2>4, <2>5 DEF Inserts
  <2>7. ASSUME NEW k \in 1..n PROVE h[k] = Insert(h[k - 1], buffer[k])
    <3>1. k - 1 \in 0..n /\ k - 1 # n /\ h[k - 1] = g[k - 1]
      BY <2>2, <2>3
    <3>2. CASE k = n
      BY <2>2, <2>3, <3>1, <3>2
    <3>3. CASE k # n
      <4>1. k \in 1..(n - 1) /\ h[k] = g[k]
        BY <2>2, <2>3, <3>3
      <4> QED
        BY <2>1, <3>1, <4>1 DEF Inserts
    <3> QED
      BY <3>2, <3>3
  <2>8. Inserts(h, n)
    BY <2>6, <2>7 DEF Inserts
  <2> QED
    BY <1>1, <2>8
<1>4. 0..Len(buffer) \subseteq T
  <2> HIDE DEF T
  <2> QED
    BY <1>1, <1>2, <1>3, BoundedInduction
<1> QED
  BY <1>1, <1>4

LEMMA InsertedIs ==
    ASSUME events \in Seq(Event), buffer \in Seq(Event)
    PROVE  Inserts(Inserted, Len(buffer))
<1>1. PICK g : Inserts(g, Len(buffer))
  BY SomethingInserts
<1>2. g = [k \in 0..Len(buffer) |-> IF k = 0 THEN events ELSE Insert(g[k - 1], buffer[k])]
  <2>1. Len(buffer) \in Nat
    BY LenProperties
  <2>2. g \in [0..Len(buffer) -> Seq(Event)]
    BY <1>1 DEF Inserts
  <2>3. \A k \in 0..Len(buffer) : g[k] = IF k = 0 THEN events ELSE Insert(g[k - 1], buffer[k])
    BY <1>1, <2>1 DEF Inserts
  <2> QED
    BY <2>2, <2>3
<1> DEFINE Def(f) == f = [k \in 0..Len(buffer) |-> IF k = 0 THEN events ELSE Insert(f[k - 1], buffer[k])]
<1>3. Inserted = CHOOSE f : Def(f)
  BY DEF Inserted
<1>4. Def(Inserted)
  <2>1. Def(g)
    BY <1>2
  <2> HIDE DEF Def
  <2> QED
    BY <1>3, <2>1, Zenon
<1>5. /\ Inserted = [k \in 0..Len(buffer) |-> IF k = 0 THEN events ELSE Insert(Inserted[k - 1], buffer[k])]
      /\ Len(buffer) \in Nat
  BY <1>4, LenProperties
<1>10. PICK ins : ins = Inserted
  OBVIOUS
<1>6. Inserted[0] = events /\ \A k \in 1..Len(buffer) : Inserted[k] = Insert(Inserted[k - 1], buffer[k])
  <2>1. ins = [k \in 0..Len(buffer) |-> IF k = 0 THEN events ELSE Insert(ins[k - 1], buffer[k])]
    BY <1>5, <1>10
  <2>2. \A k \in 0..Len(buffer) : ins[k] = IF k = 0 THEN events ELSE Insert(ins[k - 1], buffer[k])
    BY <2>1
  <2>3. 0 \in 0..Len(buffer) /\ \A k \in 1..Len(buffer) : k \in 0..Len(buffer) /\ k # 0
    BY <1>5
  <2> QED
    BY <1>10, <2>2, <2>3
<1> DEFINE T == {k \in 0..Len(buffer) : Inserted[k] \in Seq(Event)}
<1>7. 0 \in T
  BY <1>5, <1>6
<1>8. \A k \in 1..Len(buffer) : k - 1 \in T => k \in T
  <2>1. SUFFICES ASSUME NEW k \in 1..Len(buffer), Inserted[k - 1] \in Seq(Event)
                 PROVE  Inserted[k] \in Seq(Event)
    <3>1. \A k \in 1..Len(buffer) : k \in 0..Len(buffer)
      BY LenProperties
    <3> QED
      BY <3>1
  <2>2. buffer[k] \in Event
    BY ElementOfSeq
  <2> QED
    BY <1>6, <2>1, <2>2, InsertIs
<1>9. 0..Len(buffer) \subseteq T
  <2> HIDE DEF T
  <2> QED
    BY <1>5, <1>7, <1>8, BoundedInduction
<1>11. ins \in [0..Len(buffer) -> Seq(Event)]
  <2>1. ins = [k \in 0..Len(buffer) |-> IF k = 0 THEN events ELSE Insert(ins[k - 1], buffer[k])]
    BY <1>5, <1>10
  <2>2. \A k \in 0..Len(buffer) : ins[k] \in Seq(Event)
    BY <1>9, <1>10
  <2> QED
    BY <2>1, <2>2
<1> QED
  BY <1>6, <1>10, <1>11 DEF Inserts

\* What holds of the ledger and goes on holding with every event of the buffer,
\* holds of what is flushed.
LEMMA FlushInduction ==
    ASSUME events \in Seq(Event), buffer \in Seq(Event), NEW R, <<0, events>> \in R,
           \A k \in 1..Len(buffer) : \A rows \in Seq(Event) :
               <<k - 1, rows>> \in R => <<k, Insert(rows, buffer[k])>> \in R
    PROVE  <<Len(buffer), Inserted[Len(buffer)]>> \in R
<1>1. Len(buffer) \in Nat
  BY LenProperties
<1>2. PICK ins : ins = Inserted /\ Inserts(ins, Len(buffer))
  BY InsertedIs
<1> DEFINE T == {k \in 0..Len(buffer) : <<k, ins[k]>> \in R}
<1>3. 0 \in T
  BY <1>1, <1>2 DEF Inserts
<1>4. ASSUME NEW k \in 1..Len(buffer), k - 1 \in T PROVE k \in T
  <2>1. k - 1 \in 0..Len(buffer) /\ k \in 0..Len(buffer)
    BY <1>1
  <2>2. ins[k - 1] \in Seq(Event) /\ ins[k] = Insert(ins[k - 1], buffer[k])
    BY <1>2, <2>1 DEF Inserts
  <2>3. <<k - 1, ins[k - 1]>> \in R
    BY <1>4
  <2> QED
    BY <2>1, <2>2, <2>3
<1>5. 0..Len(buffer) \subseteq T
  <2> HIDE DEF T
  <2> QED
    BY <1>1, <1>3, <1>4, BoundedInduction
<1> QED
  BY <1>1, <1>2, <1>5

\* A flush keeps the rows there are and adds events of the buffer.
LEMMA LedgerGrows ==
    ASSUME events \in Seq(Event), buffer \in Seq(Event)
    PROVE  \E rows \in Seq(Event) :
             /\ rows = Inserted[Len(buffer)] /\ Len(rows) >= Len(events)
             /\ \A i \in 1..Len(events) : rows[i] = events[i]
             /\ \A i \in 1..Len(rows) : i > Len(events) => \E j \in 1..Len(buffer) : rows[i] = buffer[j]
<1>1. Len(buffer) \in Nat /\ Len(events) \in Nat
  BY LenProperties
<1> DEFINE Good(rows) ==
      /\ Len(rows) >= Len(events) /\ \A i \in 1..Len(events) : rows[i] = events[i]
      /\ \A i \in 1..Len(rows) : i > Len(events) => \E j \in 1..Len(buffer) : rows[i] = buffer[j]
    R == {p \in Nat \X Seq(Event) : Good(p[2])}
<1>2. <<0, events>> \in R
  BY <1>1
<1>3. ASSUME NEW k \in 1..Len(buffer), NEW rows \in Seq(Event), <<k - 1, rows>> \in R
      PROVE  <<k, Insert(rows, buffer[k])>> \in R
  <2>1. Good(rows)
    BY <1>3
  <2>2. buffer[k] \in Event /\ k \in Nat
    BY <1>1, ElementOfSeq
  <2>3. PICK new \in Seq(Event) : new = Insert(rows, buffer[k]) /\ (new = rows \/ new = Append(rows, buffer[k]))
    <3>1. /\ Insert(rows, buffer[k]) \in Seq(Event)
          /\ Insert(rows, buffer[k]) = rows \/ Insert(rows, buffer[k]) = Append(rows, buffer[k])
      BY <2>2, InsertIs
    <3> QED
      BY <3>1, Zenon
  <2>4. CASE new = rows
    BY <2>1, <2>2, <2>3, <2>4
  <2>5. CASE new = Append(rows, buffer[k])
    <3>1. /\ Len(new) = Len(rows) + 1 /\ Len(rows) \in Nat
          /\ \A i \in 1..Len(rows) : new[i] = rows[i]
          /\ new[Len(rows) + 1] = buffer[k]
      BY <2>2, <2>5, AppendProperties, LenProperties
    <3>2. Good(new)
      <4>1. Len(new) >= Len(events) /\ \A i \in 1..Len(events) : new[i] = events[i]
        BY <1>1, <2>1, <3>1
      <4>2. ASSUME NEW i \in 1..Len(new), i > Len(events)
            PROVE  \E j \in 1..Len(buffer) : new[i] = buffer[j]
        <5>1. CASE i = Len(rows) + 1
          BY <3>1, <5>1
        <5>2. CASE i # Len(rows) + 1
          <6>1. i \in 1..Len(rows) /\ new[i] = rows[i]
            BY <3>1, <5>2
          <6> QED
            BY <2>1, <4>2, <6>1
        <5> QED
          BY <5>1, <5>2
      <4> QED
        BY <4>1, <4>2
    <3> QED
      BY <2>2, <2>3, <3>2
  <2> QED
    BY <2>3, <2>4, <2>5
<1>4. <<Len(buffer), Inserted[Len(buffer)]>> \in R
  <2> HIDE DEF R
  <2> QED
    BY <1>2, <1>3, FlushInduction
<1> QED
  BY <1>4

\* The calls that take from the queue and leave the record alone.
LEMMA ReturnTyped == ASSUME TypeOK, calls # <<>>, Return PROVE calls' \in Seq(Call)
  BY TailIs DEF TypeOK, Return

LEMMA AppendDoes ==
    ASSUME TypeOK, CallInv, AppendEvent
    PROVE  /\ mem \in World /\ fresh # <<>> /\ calls[1] = "append" /\ calls # <<>>
           /\ Head(fresh) = fresh[1] /\ fresh[1] \in Event /\ Len(fresh) \in Nat /\ Len(fresh) >= 1
           /\ buffer' = Append(buffer, fresh[1]) /\ buffer' \in Seq(Event) /\ buffer' # <<>>
           /\ fresh' = Tail(fresh) /\ fresh' \in Seq(Event) /\ Len(fresh') = Len(fresh) - 1
           /\ calls' = Tail(calls) \/ calls' = <<"flush">> \o Tail(calls)
           /\ calls' \in Seq(Call)
<1>1. calls # <<>> /\ calls[1] = "append" /\ mem \in World /\ fresh # <<>>
  BY CallFinds DEF AppendEvent, NextCall
<1>2. fresh \in Seq(Event) /\ buffer \in Seq(Event) /\ calls \in Seq(Call)
  BY DEF TypeOK
<1>3. /\ Head(fresh) = fresh[1] /\ fresh[1] \in Event /\ Len(fresh) \in Nat /\ Len(fresh) >= 1
      /\ Tail(fresh) \in Seq(Event) /\ Len(Tail(fresh)) = Len(fresh) - 1
  BY <1>1, <1>2, HeadTailProperties, EmptySeq
<1>4. /\ Append(buffer, fresh[1]) \in Seq(Event) /\ Append(buffer, fresh[1]) # <<>>
  BY <1>2, <1>3, AppendProperties
<1>5. Tail(calls) \in Seq(Call) /\ <<"flush">> \o Tail(calls) \in Seq(Call)
  BY <1>1, <1>2, TailIs, PushIs DEF Call
<1>6. calls' = Tail(calls) \/ calls' = <<"flush">> \o Tail(calls)
  <2>1. <<>> \o Tail(calls) = Tail(calls)
    BY <1>5, ConcatEmptySeq
  <2> QED
    BY <2>1 DEF AppendEvent
<1> QED
  BY <1>1, <1>3, <1>4, <1>5, <1>6 DEF AppendEvent

LEMMA LedgerTyped ==
    ASSUME TypeOK, CallInv,
           AppendEvent \/ FlushEmpty \/ Flush \/ FlushRefused \/ BumpEvents
    PROVE  TypeOK'
<1>1. WorkerTyped /\ StoreTyped /\ RestTyped
  BY TypeParts
<1>2. CASE AppendEvent
  <2>1. WorkerTyped'
    BY <1>1, <1>2, AppendDoes DEF AppendEvent, WorkerTyped
  <2>2. StoreTyped' /\ RestTyped'
    BY <1>1, <1>2 DEF AppendEvent, storeVars, ghostVars, StoreTyped, RestTyped
  <2> QED
    BY <2>1, <2>2, TypePartsNext
<1>3. CASE FlushEmpty
  <2>1. calls' \in Seq(Call)
    BY <1>3, ReturnTyped DEF FlushEmpty, NextCall
  <2>2. WorkerTyped' /\ StoreTyped' /\ RestTyped'
    BY <1>1, <1>3, <2>1 DEF FlushEmpty, storeVars, ghostVars, WorkerTyped, StoreTyped,
       RestTyped
  <2> QED
    BY <2>2, TypePartsNext
<1>4. CASE Flush
  <2>1. calls' \in Seq(Call)
    BY <1>1, <1>4, PushIs DEF Flush, NextCall, WorkerTyped, Call
  <2>2. events' \in Seq(Event)
    BY <1>1, <1>4, LedgerGrows DEF Flush, WorkerTyped, StoreTyped
  <2>3. WorkerTyped'
    BY <1>1, <1>4, <2>1 DEF Flush, WorkerTyped
  <2>4. StoreTyped'
    BY <1>1, <1>4, <2>2 DEF Flush, StoreTyped
  <2>5. RestTyped'
    BY <1>1, <1>4 DEF Flush, ghostVars, RestTyped
  <2> QED
    BY <2>3, <2>4, <2>5, TypePartsNext
<1>5. CASE FlushRefused
  <2>1. WorkerTyped'
    BY <1>1, <1>5, DieTyped DEF FlushRefused
  <2>2. StoreTyped'
    BY <1>1, <1>5 DEF FlushRefused, storeVars, StoreTyped
  <2>3. counts' \in [{"crashes", "stops", "requests", "refused"} -> Nat]
    BY <1>1, <1>5 DEF FlushRefused, RestTyped
  <2>4. RestTyped'
    BY <1>1, <1>5, <2>3 DEF FlushRefused, RestTyped
  <2> QED
    BY <2>1, <2>2, <2>4, TypePartsNext
<1>6. CASE BumpEvents
  <2>1. calls' \in Seq(Call)
    BY <1>6, ReturnTyped DEF BumpEvents, NextCall
  <2>2. buffer # <<>>
    BY <1>6 DEF BumpEvents, CallInv, MemoryInv
  <2>3. buffer[Len(buffer)].tick \in Nat
    <3>1. Len(buffer) \in 1..Len(buffer)
      BY <1>1, <2>2, EmptySeq DEF WorkerTyped
    <3>2. buffer[Len(buffer)] \in Event
      BY <1>1, <3>1, ElementOfSeq DEF WorkerTyped
    <3> QED
      BY <3>2 DEF Event
  <2>4. head' \in Nat
    BY <1>1, <1>6, <2>3, HeadTyped DEF BumpEvents, StoreTyped
  <2>5. <<>> \in Seq(Event)
    BY EmptySeq
  <2>6. WorkerTyped'
    BY <1>1, <1>6, <2>1, <2>5 DEF BumpEvents, WorkerTyped
  <2>7. StoreTyped' /\ RestTyped'
    BY <1>1, <1>6, <2>4 DEF BumpEvents, ghostVars, StoreTyped, RestTyped
  <2> QED
    BY <2>6, <2>7, TypePartsNext
<1> QED
  BY <1>2, <1>3, <1>4, <1>5, <1>6

LEMMA WriteTyped ==
    ASSUME TypeOK, CallInv, Bump \/ WriteSnapshot \/ RefuseSnapshot \/ WriteLive
    PROVE  TypeOK'
<1>1. WorkerTyped /\ StoreTyped /\ RestTyped
  BY TypeParts
<1>2. RestTyped'
  <2>1. CASE RefuseSnapshot
    <3>1. counts' \in [{"crashes", "stops", "requests", "refused"} -> Nat]
      BY <1>1, <2>1 DEF RefuseSnapshot, RestTyped
    <3> QED
      BY <1>1, <2>1, <3>1 DEF RefuseSnapshot, RestTyped
  <2>2. CASE Bump \/ WriteSnapshot \/ WriteLive
    BY <1>1, <2>2 DEF Bump, WriteSnapshot, WriteLive, ghostVars, RestTyped
  <2> QED
    BY <2>1, <2>2
<1>3. CASE RefuseSnapshot
  <2>1. WorkerTyped'
    BY <1>1, <1>3, DieTyped DEF RefuseSnapshot
  <2>2. StoreTyped'
    BY <1>1, <1>3 DEF RefuseSnapshot, storeVars, StoreTyped
  <2> QED
    BY <1>2, <2>1, <2>2, TypePartsNext
<1>4. CASE Bump \/ WriteSnapshot \/ WriteLive
  <2>1. mem \in World
    BY <1>4, CallFinds DEF Bump, WriteSnapshot, WriteLive, NextCall
  <2>2. calls' \in Seq(Call)
    BY <1>4, ReturnTyped DEF Bump, WriteSnapshot, WriteLive, NextCall
  <2>3. WorkerTyped'
    BY <1>1, <1>4, <2>2 DEF Bump, WriteSnapshot, WriteLive, WorkerTyped
  <2>4. mem.tick \in Nat
    BY <2>1 DEF World
  <2>5. StoreTyped'
    <3>1. CASE Bump
      BY <1>1, <2>4, <3>1, HeadTyped DEF Bump, StoreTyped
    <3>2. CASE WriteSnapshot
      BY <1>1, <2>1, <3>2 DEF WriteSnapshot, StoreTyped
    <3>3. CASE WriteLive
      BY <1>1, <2>1, <3>3 DEF WriteLive, StoreTyped
    <3> QED
      BY <1>4, <3>1, <3>2, <3>3
  <2> QED
    BY <1>2, <2>3, <2>5, TypePartsNext
<1> QED
  BY <1>3, <1>4

LEMMA EndTyped ==
    ASSUME TypeOK, CallInv,
           PauseAtTarget \/ NextIteration \/ EndLoop \/ Settle \/ Exit \/ Crash
    PROVE  TypeOK'
<1>1. WorkerTyped /\ StoreTyped /\ RestTyped
  BY TypeParts
<1>2. StoreTyped'
  BY <1>1 DEF PauseAtTarget, NextIteration, EndLoop, Settle, Exit, Crash, storeVars,
     StoreTyped
<1>3. CASE PauseAtTarget
  <2>1. seen' \in ControlState
    <3>1. seen \in ControlState /\ "reached target" \in {"", "reached target", "step complete"}
      BY <1>1 DEF WorkerTyped
    <3> QED
      BY <1>3, <3>1, ControlIs DEF PauseAtTarget
  <2>2. calls' \in Seq(Call)
    BY <1>3, AfterLoopDoes DEF PauseAtTarget
  <2>3. WorkerTyped'
    BY <1>1, <1>3, <2>1, <2>2 DEF PauseAtTarget, WorkerTyped
  <2>4. control' \in ControlState /\ overrun' \in Nat
    BY <1>1, <1>3, <2>1 DEF PauseAtTarget, PutControl, RestTyped
  <2>5. RestTyped'
    BY <1>1, <1>3, <2>4 DEF PauseAtTarget, RestTyped
  <2> QED
    BY <1>2, <2>3, <2>5, TypePartsNext
<1>4. CASE NextIteration \/ EndLoop
  <2>1. calls' \in Seq(Call)
    BY <1>4, ReturnTyped, AfterLoopDoes DEF NextIteration, EndLoop, NextCall
  <2>2. WorkerTyped' /\ RestTyped'
    BY <1>1, <1>4, <2>1 DEF NextIteration, EndLoop, ghostVars, WorkerTyped, RestTyped
  <2> QED
    BY <1>2, <2>2, TypePartsNext
<1>5. CASE Settle
  <2>1. calls' \in Seq(Call) /\ calls # <<>> /\ calls[1] = "settle"
    BY <1>5, ReturnTyped, CallFinds DEF Settle, NextCall
  <2>2. mem \in World
    BY <2>1, CallFinds
  <2>3. lastLive' \in Nat
    BY <1>5, <2>2 DEF Settle, World
  <2>4. seen.step > 0 => /\ seen' \in {Paused(seen, "step complete"), [seen EXCEPT !.step = RemainingStep]}
                         /\ PutControl(seen')
    BY <1>5 DEF Settle
  <2>5. RemainingStep \in Int
    <3>1. seen.step \in Int /\ batch \in Int
      <4>1. seen \in ControlState /\ batch \in Nat
        BY <1>1 DEF WorkerTyped
      <4>2. seen.step \in Int
        BY <4>1 DEF ControlState
      <4> QED
        BY <4>1, <4>2
    <3> QED
      BY <3>1 DEF RemainingStep, Larger
  <2>6. seen' \in ControlState
    <3>1. seen \in ControlState /\ "step complete" \in {"", "reached target", "step complete"}
      BY <1>1 DEF WorkerTyped
    <3>2. CASE seen.step > 0
      <4>1. Paused(seen, "step complete") \in ControlState
        BY <3>1, ControlIs
      <4>2. [seen EXCEPT !.step = RemainingStep] \in ControlState
        BY <2>5, <3>1, ControlIs
      <4> QED
        BY <2>4, <3>2, <4>1, <4>2
    <3>3. CASE ~(seen.step > 0)
      BY <1>5, <3>1, <3>3 DEF Settle
    <3> QED
      BY <3>2, <3>3
  <2>7. control' \in ControlState /\ overrun' \in Nat
    <3>1. CASE seen.step > 0
      <4>1. control' = seen' /\ overrun' \in {0, overrun}
        BY <2>4, <3>1 DEF PutControl
      <4> QED
        BY <1>1, <2>6, <4>1 DEF RestTyped
    <3>2. CASE ~(seen.step > 0)
      BY <1>1, <1>5, <3>2 DEF Settle, RestTyped
    <3> QED
      BY <3>1, <3>2
  <2>8. WorkerTyped'
    BY <1>1, <1>5, <2>1, <2>3, <2>6 DEF Settle, WorkerTyped, PC
  <2>9. RestTyped'
    BY <1>1, <1>5, <2>7 DEF Settle, RestTyped
  <2> QED
    BY <1>2, <2>8, <2>9, TypePartsNext
<1>6. CASE Exit
  <2>1. WorkerTyped'
    BY <1>1, <1>6, DieTyped DEF Exit
  <2>2. RestTyped'
    BY <1>1, <1>6 DEF Exit, ghostVars, RestTyped
  <2> QED
    BY <1>2, <2>1, <2>2, TypePartsNext
<1>7. CASE Crash
  <2>1. WorkerTyped'
    BY <1>1, <1>7, DieTyped DEF Crash
  <2>2. counts' \in [{"crashes", "stops", "requests", "refused"} -> Nat]
    BY <1>1, <1>7, CountTyped DEF Crash
  <2>3. RestTyped'
    BY <1>1, <1>7, <2>2 DEF Crash, RestTyped
  <2> QED
    BY <1>2, <2>1, <2>3, TypePartsNext
<1> QED
  BY <1>3, <1>4, <1>5, <1>6, <1>7

\* Every step keeps the type.
LEMMA StepTyped == ASSUME TypeOK, CallInv, [Next]_vars PROVE TypeOK'
<1>1. CASE Next
  BY <1>1, LoopTyped, TickTyped, StopTyped, LedgerTyped, WriteTyped, EndTyped,
     OperatorTyped
     DEF Next, Working
<1>2. CASE UNCHANGED vars
  <2>1. WorkerTyped /\ StoreTyped /\ RestTyped
    BY TypeParts
  <2>2. WorkerTyped' /\ StoreTyped' /\ RestTyped'
    BY <1>2, <2>1 DEF vars, workerVars, storeVars, ghostVars, WorkerTyped, StoreTyped,
       RestTyped
  <2> QED
    BY <2>2, TypePartsNext
<1> QED
  BY <1>1, <1>2

-----------------------------------------------------------------------------
(* The queue of calls, and what is in memory when the next one is made. *)

\* An empty queue.
LEMMA EmptyQueue == Shape(<<>>) /\ Appends(<<>>, 0) /\ Len(<<>>) = 0
<1>1. PICK q \in Seq(Call) : q = <<>>
  BY EmptySeq
<1>2. Len(q) = 0
  BY <1>1, EmptySeq
<1>3. Shape(q)
  BY <1>2 DEF Shape
<1>4. Ahead(q) = 0
  BY <1>1 DEF Ahead
<1>5. Appends(q, 0)
  BY <1>2, <1>4 DEF Appends
<1> QED
  BY <1>1, <1>2, <1>3, <1>5

\* With nothing queued there is nothing fresh either.
LEMMA QuietIs ==
    ASSUME TypeOK, CallInv, calls = <<>>
    PROVE  fresh = <<>> /\ Len(fresh) = 0 /\ (pc # "tick" => buffer = <<>>)
<1>1. fresh \in Seq(Event) /\ calls \in Seq(Call)
  BY DEF TypeOK
<1>2. Len(fresh) \in Nat /\ (Len(fresh) = 0 <=> fresh = <<>>)
  BY <1>1, EmptySeq
<1>3. ~(Len(fresh) > 0)
  BY <1>1, <1>2, NothingFresh DEF CallInv, QueueInv
<1> QED
  BY <1>2, <1>3 DEF CallInv, MemoryInv

\* The steps that leave the queue and the memory alone, and those of the loop that
\* find the queue empty.
LEMMA LoopKeepsCalls ==
    ASSUME TypeOK, CallInv, TypeOK',
           \/ Start \/ Poll \/ ApplyScenario \/ ClearScenario \/ NothingToRun \/ StartBatch
           \/ GetControl \/ SetControl \/ UNCHANGED vars
    PROVE  CallInv'
<1>1. CASE GetControl \/ SetControl \/ UNCHANGED vars
  BY <1>1 DEF GetControl, SetControl, vars, workerVars, storeVars, CallInv, QueueInv,
     MemoryInv,
              Ends, NextCall
<1>2. CASE Start \/ Poll \/ ApplyScenario \/ ClearScenario \/ NothingToRun \/ StartBatch
  <2>1. calls = <<>> /\ pc # "tick"
    BY <1>2 DEF Start, Poll, ApplyScenario, ClearScenario, NothingToRun, StartBatch,
       CallInv, QueueInv
  <2>2. calls' = calls /\ fresh' = fresh /\ buffer' = buffer
    BY <1>2 DEF Start, Poll, ApplyScenario, ClearScenario, NothingToRun, StartBatch
  <2>3. fresh = <<>> /\ buffer = <<>>
    BY <2>1, QuietIs
  <2>4. QueueInv'
    BY <2>1, <2>2 DEF CallInv, QueueInv, Ends
  <2>5. pc' \in {"advance", "clear", "tick"} => mem' \in World
    <3>1. CASE Poll
      <4>1. mem' = latest'
        BY <3>1 DEF Poll
      <4> QED
        BY <4>1 DEF TypeOK
    <3>2. CASE ApplyScenario
      <4>1. mem' = latest'
        BY <3>2 DEF ApplyScenario
      <4> QED
        BY <4>1 DEF TypeOK
    <3>3. CASE Start \/ ClearScenario \/ NothingToRun \/ StartBatch
      BY <3>3 DEF Start, ClearScenario, NothingToRun, StartBatch, CallInv, MemoryInv
    <3> QED
      BY <1>2, <3>1, <3>2, <3>3
  <2>6. pc' = "tick" => left' > 0 /\ mem'.tick < MaxTick
    BY <1>2 DEF Start, Poll, ApplyScenario, ClearScenario, NothingToRun, StartBatch
  <2>7. calls' = <<>> /\ Len(calls') = 0
    BY <2>1, <2>2, EmptyQueue
  <2>8. MemoryInv'
    BY <2>2, <2>3, <2>5, <2>6, <2>7 DEF MemoryInv, NextCall
  <2> QED
    BY <2>4, <2>8 DEF CallInv
<1> QED
  BY <1>1, <1>2

\* The end of the process.
LEMMA DieKeepsCalls == ASSUME Die PROVE CallInv'
<1>1. /\ pc' = "down" /\ calls' = <<>> /\ mem' = NoValue /\ fresh' = <<>> /\ buffer' = <<>>
  BY DEF Die
<1>2. Len(calls') = 0 /\ Shape(calls') /\ Appends(calls', Len(fresh'))
  BY <1>1, EmptyQueue
<1>3. QueueInv'
  BY <1>1, <1>2 DEF QueueInv, Ends
<1>4. MemoryInv'
  BY <1>1, <1>2 DEF MemoryInv, NextCall
<1> QED
  BY <1>3, <1>4 DEF CallInv

\* A call that returns, with others still to come: the ledger is flushed when a
\* world is about to be written, and the world in memory is the published one when
\* the pass is about to end.
LEMMA ReturnKeepsCalls ==
    ASSUME TypeOK, CallInv, TypeOK', calls # <<>>, Len(calls) > 1, calls[1] # "exit", Return,
           pc' = pc, mem' = mem, Appends(Tail(calls), Len(fresh')),
           calls[1] \in {"flush", "bump_events", "snapshot", "live", "bump"} => buffer' = <<>>,
           calls[1] = "live" => live' = mem,
           calls[1] # "live" => live' = live
    PROVE  CallInv'
<1>1. calls \in Seq(Call) /\ Shape(calls) /\ mem \in World /\ pc \in {"tick", "poll"}
  BY CallFinds DEF TypeOK, CallInv, QueueInv
<1>2. PICK q \in Seq(Call), r \in Seq(Call) :
        /\ q = calls /\ r = calls' /\ q # <<>> /\ r = Tail(q)
        /\ Len(r) = Len(q) - 1 /\ Len(q) \in Nat /\ Len(q) > 1
        /\ \A i \in 1..(Len(q) - 1) : r[i] = q[i + 1]
  BY <1>1, TailIs DEF Return
<1>3. Shape(r) /\ Appends(r, Len(fresh')) /\ Shape(q)
  BY <1>1, <1>2, ShapeOfTail
<1>4. r # <<>> /\ Len(r) >= 1
  <2>1. Len(r) >= 1
    BY <1>2
  <2> QED
    BY <2>1, EmptySeq
<1>5. r[Len(r)] = q[Len(q)] /\ r[1] = q[2] /\ 2 \in 1..Len(q)
  BY <1>2, <1>4
<1>6. QueueInv'
  <2>1. Ends(q) /\ Ends(r)' = Ends(r)
    BY <1>2 DEF CallInv, QueueInv, Ends
  <2>2. Ends(calls)'
    BY <1>1, <1>2, <1>4, <1>5 DEF CallInv, QueueInv, Ends
  <2> QED
    BY <1>1, <1>2, <1>3, <2>2 DEF QueueInv
<1>7. /\ q[2] \in {"snapshot", "live"} => q[1] \in {"flush", "bump_events"}
      /\ q[2] = "bump" => q[1] \in {"snapshot", "live"}
      /\ q[2] # "bump_events"
      /\ q[2] \in {"settle", "exit"} => q[1] = "bump" /\ Len(q) = 2
  <2>1. /\ q[2] \in {"snapshot", "live"} /\ 2 > 1 => q[2 - 1] \in {"flush", "bump_events"}
        /\ q[2] = "bump" /\ 2 > 1 => q[2 - 1] \in {"snapshot", "live"}
        /\ q[2] = "bump_events" => 2 = 1
        /\ q[2] \in {"settle", "exit"} /\ 2 > 1 => q[2 - 1] = "bump"
        /\ q[2] \in {"end_of_tick", "settle", "exit"} <=> 2 = Len(q)
    BY <1>3, <1>5 DEF Shape
  <2> QED
    BY <2>1
<1>8. Len(q) = 3 /\ q[3] \in {"settle", "exit"} => q[1] = "live"
  <2>1. SUFFICES ASSUME Len(q) = 3, q[3] \in {"settle", "exit"} PROVE q[1] = "live"
    OBVIOUS
  <2>2. 3 \in 1..Len(q)
    BY <2>1
  <2>3. q[3] \in {"settle", "exit"} /\ 3 > 2 => q[3 - 2] = "live"
    BY <1>3, <2>2 DEF Shape
  <2> QED
    BY <2>1, <2>3
<1>9. r[1] \in {"snapshot", "live", "bump", "settle", "exit"} => buffer' = <<>>
  BY <1>2, <1>5, <1>7
<1>10. r[1] \in {"settle", "exit"} => live' = mem'
  <2>1. SUFFICES ASSUME r[1] \in {"settle", "exit"} PROVE live' = mem'
    OBVIOUS
  <2>2. q[1] = "bump" /\ Len(q) = 2 /\ q[2] \in {"settle", "exit"}
    BY <1>5, <1>7, <2>1
  <2>3. live = mem
    BY <1>2, <2>2 DEF CallInv, MemoryInv
  <2> QED
    BY <1>2, <2>2, <2>3
<1>11. Len(r) = 2 /\ r[1] = "bump" /\ r[2] \in {"settle", "exit"} => live' = mem'
  <2>1. SUFFICES ASSUME Len(r) = 2, r[2] \in {"settle", "exit"} PROVE live' = mem'
    OBVIOUS
  <2>2. Len(q) = 3 /\ r[2] = q[3]
    <3>2. PICK m \in Nat : m = Len(q)
      BY <1>2
    <3>3. m - 1 = 2
      BY <1>2, <2>1, <3>2
    <3>4. m = 3 /\ 2 \in 1..(m - 1) /\ 2 + 1 = 3
      BY <3>3
    <3>1. Len(q) = 3 /\ 2 \in 1..(Len(q) - 1) /\ 2 + 1 = 3
      BY <3>2, <3>4
    <3> QED
      BY <1>2, <3>1
  <2> QED
    BY <1>2, <1>8, <2>1, <2>2
<1>12. Head(r) = r[1]
  BY <1>4, TailIs
<1>13. MemoryInv'
  <2>1. mem' \in World /\ mem' # NoValue /\ pc' \in {"tick", "poll"}
    BY <1>1, Constants
  <2>2. ~(NextCall("bump_events")')
    BY <1>2, <1>5, <1>7, <1>12 DEF NextCall
  <2> QED
    BY <1>2, <1>4, <1>9, <1>10, <1>11, <2>1, <2>2 DEF MemoryInv
<1> QED
  BY <1>6, <1>13 DEF CallInv

\* A flush that is called for, and the end of append_events once it has begun.
LEMMA PushKeepsCalls ==
    ASSUME TypeOK, CallInv, TypeOK', calls # <<>>, calls[1] \in {"append", "flush"},
           NEW c \in {"flush", "bump_events"}, calls' = <<c>> \o Tail(calls),
           pc' = pc, mem' = mem, Appends(calls', Len(fresh')),
           c = "bump_events" => buffer' # <<>>
    PROVE  CallInv'
<1>1. calls \in Seq(Call) /\ Shape(calls) /\ mem \in World /\ pc \in {"tick", "poll"} /\ c \in Call
  BY CallFinds DEF TypeOK, CallInv, QueueInv, Call
<1>2. PICK q \in Seq(Call), r \in Seq(Call) :
        /\ q = calls /\ r = calls' /\ q # <<>> /\ r # <<>> /\ r = <<c>> \o Tail(q)
        /\ Len(r) = Len(q) /\ r[1] = c /\ \A i \in 2..Len(q) : r[i] = q[i]
  BY <1>1, PushIs
<1>3. Shape(r) /\ Shape(q)
  BY <1>1, <1>2, ShapeOfPush
<1>4. Len(q) \in Nat /\ Len(q) > 1
  <2>1. Len(q) \in Nat /\ Len(q) >= 1
    BY <1>2, TailIs
  <2>2. Len(q) # 1
    <3>1. 1 \in 1..Len(q)
      BY <2>1
    <3>2. q[1] \in {"end_of_tick", "settle", "exit"} <=> 1 = Len(q)
      BY <1>3, <3>1 DEF Shape
    <3> QED
      BY <1>2, <3>2
  <2> QED
    BY <2>1, <2>2
<1>5. r[Len(r)] = q[Len(q)]
  BY <1>2, <1>4
<1>6. QueueInv'
  <2>1. Ends(calls)'
    BY <1>1, <1>2, <1>4, <1>5 DEF CallInv, QueueInv, Ends
  <2> QED
    BY <1>1, <1>2, <1>3, <2>1 DEF QueueInv
<1>7. Head(r) = r[1]
  BY <1>2, TailIs
<1>8. MemoryInv'
  <2>1. mem' \in World /\ mem' # NoValue /\ pc' \in {"tick", "poll"}
    BY <1>1, Constants
  <2>2. NextCall("bump_events")' => buffer' # <<>>
    BY <1>2, <1>7 DEF NextCall
  <2>3. r[1] \notin {"snapshot", "live", "bump", "settle", "exit"}
    BY <1>2
  <2> QED
    BY <1>2, <2>1, <2>2, <2>3 DEF MemoryInv
<1> QED
  BY <1>6, <1>8 DEF CallInv

\* A queue of its own: a tick's, a stop's or the one that ends a batch.
LEMMA QueueKeepsCalls ==
    ASSUME TypeOK', calls' # <<>>, Shape(calls'), Appends(calls', Len(fresh')), pc' \in {"tick", "poll"},
           calls'[Len(calls')] \in (IF pc' = "tick" THEN {"end_of_tick", "settle"} ELSE {"exit"}),
           \/ calls'[1] \in {"append", "flush", "end_of_tick"} /\ mem' \in World
           \/ /\ mem' = NoValue /\ buffer' = <<>> /\ fresh' = <<>> /\ pc' = "poll"
              /\ Len(calls') = 1 /\ calls'[1] = "exit"
    PROVE  CallInv'
<1>1. calls' \in Seq(Call)
  BY DEF TypeOK
<1>2. PICK r \in Seq(Call) : r = calls' /\ Head(r) = r[1] /\ Len(r) \in Nat /\ Len(r) >= 1
  BY <1>1, TailIs
<1>3. QueueInv'
  BY DEF QueueInv, Ends
<1>4. MemoryInv'
  BY <1>2, Constants DEF MemoryInv, NextCall
<1> QED
  BY <1>3, <1>4 DEF CallInv

LEMMA LedgerKeepsCalls ==
    ASSUME TypeOK, CallInv, TypeOK', AppendEvent \/ FlushEmpty \/ Flush \/ BumpEvents
    PROVE  CallInv'
<1>1. /\ calls # <<>> /\ calls \in Seq(Call) /\ Head(calls) = calls[1] /\ Len(fresh) \in Nat
      /\ calls[1] \in {"append", "flush", "bump_events"} /\ Appends(calls, Len(fresh))
  <2>1. calls # <<>> /\ calls \in Seq(Call) /\ fresh \in Seq(Event) /\ Appends(calls, Len(fresh))
    BY DEF AppendEvent, FlushEmpty, Flush, BumpEvents, NextCall, TypeOK, CallInv,
       QueueInv
  <2>2. Head(calls) = calls[1]
    BY <2>1, TailIs
  <2>3. Len(fresh) \in Nat
    BY <2>1, LenProperties
  <2> QED
    BY <2>1, <2>2, <2>3 DEF AppendEvent, FlushEmpty, Flush, BumpEvents, NextCall
<1>2. Len(calls) > 1
  <2>1. calls[1] \in {"end_of_tick", "settle", "exit"} <=> Len(calls) = 1
    BY <1>1, CallFinds
  <2>2. PICK n \in Nat : n = Len(calls) /\ n >= 1
    BY <1>1, TailIs
  <2>3. Len(calls) # 1
    BY <1>1, <2>1
  <2> QED
    BY <2>2, <2>3
<1>3. CASE AppendEvent
  <2>1. /\ calls[1] = "append" /\ Len(fresh') = Len(fresh) - 1
        /\ calls' = Tail(calls) \/ calls' = <<"flush">> \o Tail(calls)
    BY <1>3, AppendDoes
  <2>2. pc' = pc /\ mem' = mem /\ live' = live
    BY <1>3 DEF AppendEvent, storeVars
  <2>3. CASE calls' = Tail(calls)
    <3>1. Appends(Tail(calls), Len(fresh'))
      BY <1>1, <2>1, AppendsOfPop
    <3> QED
      BY <1>1, <1>2, <2>1, <2>2, <2>3, <3>1, ReturnKeepsCalls DEF Return
  <2>4. CASE calls' = <<"flush">> \o Tail(calls)
    <3>1. Appends(<<"flush">> \o Tail(calls), Len(fresh'))
      BY <1>1, <2>1, AppendsOfFull
    <3>2. PICK c \in {"flush", "bump_events"} : c = "flush"
      OBVIOUS
    <3>3. calls' = <<c>> \o Tail(calls) /\ Appends(calls', Len(fresh'))
      BY <2>4, <3>1, <3>2
    <3> QED
      BY <1>1, <2>1, <2>2, <3>2, <3>3, PushKeepsCalls
  <2> QED
    BY <2>1, <2>3, <2>4
<1>4. CASE FlushEmpty \/ BumpEvents
  <2>1. /\ calls[1] \in {"flush", "bump_events"} /\ buffer' = <<>> /\ Return
        /\ pc' = pc /\ mem' = mem /\ live' = live /\ fresh' = fresh
    BY <1>1, <1>4 DEF FlushEmpty, BumpEvents, NextCall, storeVars
  <2>2. Appends(Tail(calls), Len(fresh'))
    BY <1>1, <2>1, AppendsOfTail
  <2> QED
    BY <1>1, <1>2, <2>1, <2>2, ReturnKeepsCalls
<1>5. CASE Flush
  <2>1. /\ calls[1] = "flush" /\ buffer' # <<>> /\ calls' = <<"bump_events">> \o Tail(calls)
        /\ pc' = pc /\ mem' = mem /\ live' = live /\ fresh' = fresh
    BY <1>1, <1>5 DEF Flush, NextCall
  <2>2. Appends(<<"bump_events">> \o Tail(calls), Len(fresh'))
    BY <1>1, <2>1, AppendsOfFlush
  <2>3. PICK c \in {"flush", "bump_events"} : c = "bump_events"
    OBVIOUS
  <2>4. calls' = <<c>> \o Tail(calls) /\ Appends(calls', Len(fresh'))
    BY <2>1, <2>2, <2>3
  <2> QED
    BY <1>1, <2>1, <2>4, PushKeepsCalls
<1> QED
  BY <1>3, <1>4, <1>5

LEMMA WriteKeepsCalls ==
    ASSUME TypeOK, CallInv, TypeOK', Bump \/ WriteSnapshot \/ WriteLive
    PROVE  CallInv'
<1>1. /\ calls # <<>> /\ calls \in Seq(Call) /\ Head(calls) = calls[1]
      /\ calls[1] \in {"bump", "snapshot", "live"}
      /\ calls[1] = "live" => live' = mem
      /\ calls[1] # "live" => live' = live
      /\ Return /\ pc' = pc /\ mem' = mem /\ fresh' = fresh /\ buffer' = buffer
  <2>1. calls # <<>> /\ calls \in Seq(Call)
    BY DEF Bump, WriteSnapshot, WriteLive, NextCall, TypeOK
  <2>2. Head(calls) = calls[1]
    BY <2>1, TailIs
  <2> QED
    BY <2>1, <2>2 DEF Bump, WriteSnapshot, WriteLive, NextCall
<1>2. Len(calls) > 1 /\ fresh = <<>> /\ Len(fresh) = 0
  <2>1. /\ calls[1] \in {"end_of_tick", "settle", "exit"} <=> Len(calls) = 1
        /\ calls[1] \notin {"append", "flush", "bump_events"} => fresh = <<>> /\ Len(fresh) = 0
    BY <1>1, CallFinds
  <2>2. PICK n \in Nat : n = Len(calls) /\ n >= 1
    BY <1>1, TailIs
  <2>3. Len(calls) # 1
    BY <1>1, <2>1
  <2>4. fresh = <<>> /\ Len(fresh) = 0
    BY <1>1, <2>1
  <2> QED
    BY <2>2, <2>3, <2>4
<1>3. Appends(Tail(calls), Len(fresh'))
  <2>1. Appends(calls, 0)
    BY <1>2 DEF CallInv, QueueInv
  <2>2. Appends(Tail(calls), 0)
    BY <1>1, <2>1, AppendsOfTail
  <2> QED
    BY <1>1, <1>2, <2>2
<1>4. buffer' = <<>>
  BY <1>1 DEF CallInv, MemoryInv
<1> QED
  BY <1>1, <1>2, <1>3, <1>4, ReturnKeepsCalls

\* The end of an iteration and of a pass.
LEMMA EndKeepsCalls ==
    ASSUME TypeOK, CallInv, TypeOK',
           Tick \/ Stop \/ PauseAtTarget \/ NextIteration \/ EndLoop \/ Settle
    PROVE  CallInv'
<1>1. CASE Tick
  <2>1. /\ calls' # <<>> /\ Shape(calls') /\ Appends(calls', Len(fresh')) /\ mem' \in World
        /\ calls'[Len(calls')] = "end_of_tick" /\ calls'[1] \in {"append", "flush", "end_of_tick"}
        /\ pc = "tick"
    BY <1>1, TickDoes
  <2>2. pc' = "tick"
    BY <1>1, <2>1 DEF Tick
  <2> QED
    BY <2>1, <2>2, QueueKeepsCalls
<1>2. CASE Stop
  <2>1. pc' = "poll" /\ mem' = mem /\ fresh' = fresh /\ buffer' = buffer
    BY <1>2 DEF Stop
  <2>2. Len(fresh') = 0
    BY <1>2, <2>1, StopDoes, EmptyQueue
  <2>3. mem = NoValue \/ mem \in World
    BY DEF TypeOK
  <2>4. /\ calls' # <<>> /\ Shape(calls') /\ Appends(calls', Len(fresh'))
        /\ calls'[Len(calls')] = "exit"
        /\ mem = NoValue => Len(calls') = 1 /\ calls'[1] = "exit" /\ buffer' = <<>> /\ fresh' = <<>>
        /\ mem # NoValue => calls'[1] = "flush"
    BY <1>2, <2>1, <2>2, StopDoes
  <2> QED
    BY <2>1, <2>3, <2>4, Constants, QueueKeepsCalls
<1>3. CASE PauseAtTarget \/ EndLoop
  <2>1. calls # <<>> /\ Head(calls) = "end_of_tick" /\ AfterLoop
    BY <1>3 DEF PauseAtTarget, EndLoop, NextCall
  <2>2. mem \in World /\ pc = "tick" /\ fresh = <<>> /\ Len(fresh) = 0
    BY <2>1, CallFinds
  <2>3. pc' = pc /\ mem' = mem /\ fresh' = fresh
    BY <1>3 DEF PauseAtTarget, EndLoop
  <2>4. /\ calls' # <<>> /\ Shape(calls') /\ Appends(calls', Len(fresh')) /\ calls'[1] = "flush"
        /\ calls'[Len(calls')] = "settle"
    BY <2>1, <2>2, <2>3, AfterLoopDoes
  <2> QED
    BY <2>2, <2>3, <2>4, QueueKeepsCalls
<1>4. CASE NextIteration \/ Settle
  <2>1. calls # <<>> /\ Head(calls) \in {"end_of_tick", "settle"} /\ Return
    BY <1>4 DEF NextIteration, Settle, NextCall
  <2>2. /\ mem \in World /\ pc = "tick" /\ fresh = <<>> /\ Len(calls) = 1 /\ Head(calls) = calls[1]
    BY <2>1, CallFinds
  <2>3. calls' = <<>>
    BY <2>1, <2>2, TailIs DEF Return, TypeOK
  <2>4. mem' = mem /\ fresh' = fresh /\ buffer' = buffer
    BY <1>4 DEF NextIteration, Settle
  <2>5. Len(calls') = 0 /\ QueueInv'
    BY <2>2, <2>3, <2>4, EmptyQueue DEF QueueInv, Ends
  <2>6. pc' \in {"tick", "poll"} /\ (pc' = "tick" => left' > 0 /\ mem'.tick < MaxTick)
    BY <1>4, <2>2 DEF NextIteration, Settle
  <2>7. pc' = "poll" => buffer = <<>>
    BY <1>4, <2>1, <2>2 DEF NextIteration, Settle, NextCall, CallInv, MemoryInv
  <2>8. MemoryInv'
    BY <2>2, <2>3, <2>4, <2>5, <2>6, <2>7, Constants DEF MemoryInv, NextCall
  <2> QED
    BY <2>5, <2>8 DEF CallInv
<1> QED
  BY <1>1, <1>2, <1>3, <1>4

LEMMA StepKeepsCalls == ASSUME TypeOK, CallInv, TypeOK', [Next]_vars PROVE CallInv'
<1>1. CASE Die
  BY <1>1, DieKeepsCalls
<1>2. CASE ~Die
  BY <1>2, LoopKeepsCalls, LedgerKeepsCalls, WriteKeepsCalls, EndKeepsCalls
     DEF Next, Working, FlushRefused, RefuseSnapshot, Exit, Crash
<1> QED
  BY <1>1, <1>2

\* The type of the state, and what the queue and the memory owe each other.
Sound == TypeOK /\ CallInv

LEMMA SoundThroughout == Spec => []Sound
<1>1. Init => Sound
  <2>1. SUFFICES ASSUME Init PROVE Sound
    OBVIOUS
  <2>2. /\ pc = "down" /\ calls = <<>> /\ mem = NoValue /\ fresh = <<>> /\ buffer = <<>>
    BY <2>1 DEF Init
  <2>3. QueueInv /\ MemoryInv
    BY <2>2, EmptyQueue DEF QueueInv, MemoryInv, Ends, NextCall
  <2> QED
    BY <2>1, <2>3, InitTyped DEF Sound, CallInv
<1>2. Sound /\ [Next]_vars => Sound'
  BY StepTyped, StepKeepsCalls DEF Sound
<1> QED
  BY <1>1, <1>2, PTL DEF Spec

\* The worker, the store and the operator stay within their types: in particular
\* no call ever meets an empty buffer it is about to read, a world that is not
\* loaded or an append that has nothing to append.
THEOREM TypeCorrect == Spec => []TypeOK
<1>1. Sound => TypeOK
  BY DEF Sound
<1> QED
  BY <1>1, SoundThroughout, PTL

-----------------------------------------------------------------------------
(* At most one batch is run that nobody asks for any more. *)

\* A record put back asks for ticks, or the count goes on.
LEMMA PutControlDoes ==
    ASSUME NEW c, PutControl(c), OverrunInv, overrun \in Nat
    PROVE  /\ control' = c /\ overrun' \in Nat /\ overrun' <= overrun
           /\ Moving(control)' => overrun' = 0
<1>1. control' = c /\ overrun' = IF Moving(c) THEN 0 ELSE overrun
  BY DEF PutControl
<1>2. Moving(control)' <=> Moving(c)
  BY <1>1 DEF Moving
<1> QED
  BY <1>1, <1>2

LEMMA OverrunKept == ASSUME Sound, OverrunInv, [Next]_vars PROVE OverrunInv'
<1>1. /\ overrun \in Nat /\ batch \in Nat /\ left \in Nat /\ seen \in ControlState
      /\ control \in ControlState
  BY DEF Sound, TypeOK
<1>2. Longest \in Nat /\ Longest' = Longest
  BY <1>1, BudgetIs DEF Longest, Larger
<1>3. CASE Die /\ UNCHANGED <<control, overrun>>
  BY <1>1, <1>2, <1>3 DEF Die, OverrunInv, Moving
<1>4. CASE UNCHANGED <<control, overrun, batch, left, seen>> /\ pc' \in {pc, "poll"}
  BY <1>2, <1>4 DEF OverrunInv, Moving
<1>5. CASE Start \/ ApplyScenario
  BY <1>2, <1>5 DEF Start, ApplyScenario, ghostVars, OverrunInv, Moving
<1>6. CASE Poll
  BY <1>2, <1>6 DEF Poll, OverrunInv, Moving
<1>7. CASE ClearScenario
  <2>1. PICK c : c = seen' /\ PutControl(c)
    BY <1>7 DEF ClearScenario
  <2>2. /\ control' = c /\ overrun' \in Nat /\ overrun' <= overrun
        /\ Moving(control)' => overrun' = 0
    BY <1>1, <2>1, PutControlDoes
  <2>3. Moving(seen)' <=> Moving(control)'
    BY <2>1, <2>2 DEF Moving
  <2> QED
    BY <1>1, <1>2, <1>7, <2>2, <2>3 DEF ClearScenario, OverrunInv
<1>8. CASE StartBatch
  <2>1. Budget(seen) \in Nat /\ Budget(seen) <= Longest /\ Moving(seen)
    BY <1>1, <1>8, BudgetIs DEF StartBatch
  <2>2. overrun = 0 /\ overrun' = 0 /\ pc' = "tick" /\ batch' = Budget(seen) /\ left' = Budget(seen)
    BY <1>8, <2>1 DEF StartBatch, ghostVars, OverrunInv
  <2> QED
    BY <1>2, <2>1, <2>2 DEF OverrunInv
<1>9. CASE Tick
  <2>1. left > 0 /\ pc = "tick"
    BY <1>9, TickDoes DEF Sound
  <2>2. /\ left' = left - 1 /\ batch' = batch /\ pc' = "tick" /\ control' = control
        /\ overrun' = IF Moving(control) THEN 0 ELSE overrun + 1
    BY <1>9, <2>1 DEF Tick
  <2>3. Moving(control)' <=> Moving(control)
    BY <2>2 DEF Moving
  <2>4. overrun <= batch - left /\ batch <= Longest /\ left <= batch
    BY <2>1 DEF OverrunInv
  <2>5. overrun' \in Nat /\ overrun' <= batch - left' /\ overrun' <= Longest /\ left' <= batch
    BY <1>1, <1>2, <2>1, <2>2, <2>4
  <2> QED
    BY <1>2, <2>2, <2>3, <2>4, <2>5 DEF OverrunInv
<1>10. CASE PauseAtTarget \/ Settle \/ SetControl
  <2>1. /\ batch' = batch /\ left' = left
        /\ SetControl => seen' = seen
        /\ ~SetControl => pc \notin {"advance", "clear"}
    BY <1>10, CallFinds
       DEF PauseAtTarget, Settle, SetControl, workerVars, NextCall, Sound
  <2>2. CASE \E c : PutControl(c)
    <3>1. PICK c : PutControl(c)
      BY <2>2
    <3>2. overrun' \in Nat /\ overrun' <= overrun /\ (Moving(control)' => overrun' = 0)
      BY <1>1, <3>1, PutControlDoes
    <3>3. CASE SetControl
      <4>1. pc' = pc /\ seen' = seen
        BY <3>3 DEF SetControl, workerVars
      <4>2. Moving(seen)' <=> Moving(seen)
        BY <4>1 DEF Moving
      <4> QED
        BY <1>1, <1>2, <2>1, <3>2, <4>1, <4>2 DEF OverrunInv
    <3>4. CASE ~SetControl
      <4>1. pc' \notin {"advance", "clear"} /\ (pc' = "tick" => pc = "tick")
        BY <1>10, <2>1, <3>4 DEF PauseAtTarget, Settle
      <4> QED
        BY <1>1, <1>2, <2>1, <3>2, <4>1 DEF OverrunInv
    <3> QED
      BY <3>3, <3>4
  <2>3. CASE ~ \E c : PutControl(c)
    BY <1>4, <1>10, <2>3 DEF PauseAtTarget, Settle, SetControl
  <2> QED
    BY <2>2, <2>3
<1>11. CASE ~(Start \/ Poll \/ ApplyScenario \/ ClearScenario \/ StartBatch \/ Tick)
            /\ ~(PauseAtTarget \/ Settle \/ SetControl)
  <2>1. \/ Die /\ UNCHANGED <<control, overrun>>
        \/ UNCHANGED <<control, overrun, batch, left, seen>> /\ pc' \in {pc, "poll"}
    BY <1>11 DEF Next, Working, NothingToRun, AppendEvent, FlushEmpty, Flush,
       FlushRefused, BumpEvents,
           Bump, WriteSnapshot, RefuseSnapshot, WriteLive, NextIteration, EndLoop, Exit, Stop,
           Crash, GetControl, vars, workerVars, ghostVars
  <2> QED
    BY <1>3, <1>4, <2>1
<1> QED
  BY <1>5, <1>6, <1>7, <1>8, <1>9, <1>10, <1>11

\* Once the stored record asks for no ticks, the worker runs at most the batch it is
\* in, whatever the operator asks for and however often the worker is killed.
THEOREM OverrunIsBounded == Spec => []OverrunBounded
<1>1. Init => OverrunInv
  <2>1. SUFFICES ASSUME Init PROVE OverrunInv
    OBVIOUS
  <2>2. batch = 0 /\ left = 0 /\ overrun = 0 /\ pc = "down"
    BY <2>1 DEF Init
  <2>3. Longest \in Nat
    BY <2>1, InitTyped, BudgetIs DEF TypeOK
  <2> QED
    BY <2>2, <2>3 DEF OverrunInv
<1>2. Sound /\ OverrunInv /\ [Next]_vars => OverrunInv'
  BY OverrunKept
<1>3. OverrunInv => OverrunBounded
  BY DEF OverrunInv, OverrunBounded, Longest
<1> QED
  BY <1>1, <1>2, <1>3, SoundThroughout, PTL DEF Spec

-----------------------------------------------------------------------------
(* What a killed worker loses. *)

\* The world is still to be published after a call that does not publish it.
LEMMA PendingOfTail ==
    ASSUME NEW q \in Seq(Call), q # <<>>, q[1] # "live", NEW i \in 1..Len(q), q[i] = "live"
    PROVE  \E j \in 1..Len(Tail(q)) : Tail(q)[j] = "live"
<1>1. PICK r \in Seq(Call) :
        /\ r = Tail(q) /\ Len(r) = Len(q) - 1 /\ Len(q) \in Nat
        /\ \A k \in 1..(Len(q) - 1) : r[k] = q[k + 1]
  BY TailIs
<1>2. i # 1
  OBVIOUS
<1>3. i - 1 \in 1..Len(r) /\ i - 1 \in 1..(Len(q) - 1) /\ (i - 1) + 1 = i
  BY <1>1, <1>2
<1>4. r[i - 1] = "live"
  BY <1>1, <1>3
<1> QED
  BY <1>1, <1>3, <1>4

LEMMA PendingOfPush ==
    ASSUME NEW q \in Seq(Call), q # <<>>, q[1] # "live", NEW i \in 1..Len(q), q[i] = "live",
           NEW c \in Call
    PROVE  \E j \in 1..Len(<<c>> \o Tail(q)) : (<<c>> \o Tail(q))[j] = "live"
<1>1. PICK r \in Seq(Call) :
        /\ r = <<c>> \o Tail(q) /\ Len(r) = Len(q)
        /\ \A k \in 2..Len(q) : r[k] = q[k]
  BY PushIs
<1>2. i # 1 /\ Len(q) \in Nat
  BY LenProperties
<1>3. i \in 2..Len(q) /\ i \in 1..Len(r)
  BY <1>1, <1>2
<1> QED
  BY <1>1, <1>3

\* The steps that neither publish nor move the world in memory leave its publication
\* where it was.
LEMMA PendingKept ==
    ASSUME Sound, LivePending,
           \/ AppendEvent \/ FlushEmpty \/ Flush \/ BumpEvents \/ Bump \/ WriteSnapshot
           \/ NextIteration \/ Settle
    PROVE  LivePending'
<1>1. /\ calls \in Seq(Call) /\ calls # <<>> /\ Head(calls) = calls[1] /\ calls[1] # "live"
  <2>1. calls \in Seq(Call) /\ calls # <<>>
    BY DEF Sound, TypeOK, AppendEvent, FlushEmpty, Flush, BumpEvents, Bump,
       WriteSnapshot,
           NextIteration, Settle, NextCall
  <2>2. Head(calls) = calls[1]
    BY <2>1, TailIs
  <2> QED
    BY <2>1, <2>2
       DEF AppendEvent, FlushEmpty, Flush, BumpEvents, Bump, WriteSnapshot,
           NextIteration, Settle, NextCall
<1>2. PICK i \in 1..Len(calls) : calls[i] = "live"
  BY DEF LivePending
<1>3. calls' = Tail(calls) \/ \E c \in Call : calls' = <<c>> \o Tail(calls)
  <2>1. CASE AppendEvent
    BY <2>1, AppendDoes DEF Sound, Call
  <2>2. CASE Flush
    BY <2>2 DEF Flush, Call
  <2>3. CASE FlushEmpty \/ BumpEvents \/ Bump \/ WriteSnapshot \/ NextIteration \/ Settle
    BY <2>3 DEF FlushEmpty, BumpEvents, Bump, WriteSnapshot, NextIteration, Settle,
       Return
  <2> QED
    BY <2>1, <2>2, <2>3
<1>4. CASE calls' = Tail(calls)
  BY <1>1, <1>2, <1>4, PendingOfTail DEF LivePending
<1>5. CASE \E c \in Call : calls' = <<c>> \o Tail(calls)
  BY <1>1, <1>2, <1>5, PendingOfPush DEF LivePending
<1> QED
  BY <1>3, <1>4, <1>5

\* With nothing queued, nothing is to be published.
LEMMA NonePending == ASSUME Sound, calls = <<>> PROVE ~LivePending
  BY EmptyQueue DEF LivePending

LEMMA LossKept == ASSUME Sound, Sound', LossInv, [Next]_vars PROVE LossInv'
<1>1. /\ LiveEvery \in Nat /\ LiveEvery >= 1 /\ NoValue \notin World
      /\ mem \in World \cup {NoValue} /\ live \in World /\ latest \in World /\ lastLive \in Nat
      /\ live.tick \in Nat /\ latest.tick \in Nat
      /\ mem \in World => mem.tick \in Nat
  BY Constants DEF Sound, TypeOK, World
<1>2. CASE Die /\ UNCHANGED <<live, latest>>
  BY <1>1, <1>2 DEF Die, LossInv
<1>3. CASE UNCHANGED <<calls, mem, lastLive, live, latest>>
  BY <1>3 DEF LossInv, LivePending
<1>4. CASE Poll
  <2>1. calls = <<>> /\ calls' = <<>> /\ live' = live
    BY <1>4 DEF Poll, storeVars
  <2>2. ~LivePending
    BY <2>1, NonePending
  <2>3. CASE mem = NoValue
    <3>1. mem' = live /\ latest' = live /\ lastLive' = live.tick
      BY <1>4, <2>3 DEF Poll
    <3>2. PICK l \in Nat, e \in Nat : l = live.tick /\ e = LiveEvery /\ e >= 1
      <4>1. live.tick \in Nat /\ LiveEvery \in Nat /\ LiveEvery >= 1
        BY <1>1
      <4> QED
        BY <4>1, Zenon
    <3>3. l <= l + e /\ l < l + e /\ l <= l
      BY <3>2
    <3> QED
      BY <1>1, <2>1, <3>1, <3>2, <3>3 DEF LossInv
  <2>4. CASE mem # NoValue
    <3>1. mem' = mem /\ latest' = mem /\ lastLive' = lastLive /\ mem \in World
      BY <1>1, <1>4, <2>4 DEF Poll
    <3> QED
      BY <1>1, <2>1, <2>2, <3>1 DEF LossInv
  <2> QED
    BY <2>3, <2>4
<1>5. CASE ApplyScenario
  <2>1. mem \in World /\ calls = <<>> /\ calls' = <<>> /\ live' = live /\ lastLive' = lastLive
    BY <1>5 DEF ApplyScenario, Sound, CallInv, QueueInv, MemoryInv, storeVars
  <2>2. mem'.tick = mem.tick /\ latest' = mem'
    BY <1>5, <2>1, ChangedWorldIs DEF ApplyScenario
  <2>3. ~LivePending
    BY <2>1, NonePending
  <2> QED
    BY <1>1, <2>1, <2>2, <2>3 DEF LossInv
<1>6. CASE Tick
  <2>1. /\ mem \in World /\ mem'.tick = mem.tick + 1
        /\ LiveDue(mem.tick + 1) => LivePending'
    BY <1>6, TickDoes DEF Sound, LivePending
  <2>2. calls = <<>> /\ live' = live /\ latest' = mem'
        /\ lastLive' = IF LiveDue(mem'.tick) THEN mem'.tick ELSE lastLive
    BY <1>6 DEF Tick, storeVars
  <2>3. ~LivePending
    BY <2>2, NonePending
  <2>4. mem.tick < live.tick + LiveEvery /\ lastLive <= live.tick /\ live.tick <= mem.tick
    BY <2>1, <2>3 DEF LossInv
  <2>7. PICK l \in Nat, e \in Nat, m \in Nat, a \in Nat :
          l = live.tick /\ e = LiveEvery /\ m = mem.tick /\ a = lastLive /\ mem'.tick = m + 1
    <3>1. /\ live.tick \in Nat /\ LiveEvery \in Nat /\ mem.tick \in Nat /\ lastLive \in Nat
          /\ mem'.tick = mem.tick + 1
      BY <1>1, <2>1
    <3> QED
      BY <3>1, Zenon
  <2>8. m < l + e /\ a <= l /\ l <= m /\ m + 1 <= l + e /\ l <= m + 1 /\ a <= m + 1 /\ m + 1 <= m + 1
    BY <2>4, <2>7
  <2>5. CASE LiveDue(mem.tick + 1)
    <3>1. lastLive' = m + 1 /\ LivePending'
      BY <2>1, <2>2, <2>5, <2>7
    <3> QED
      BY <2>2, <2>7, <2>8, <3>1 DEF LossInv
  <2>6. CASE ~LiveDue(mem.tick + 1)
    <3>1. lastLive' = lastLive
      BY <2>1, <2>2, <2>6
    <3>2. ~(m + 1 - a >= e)
      BY <2>6, <2>7 DEF LiveDue
    <3>3. m + 1 < l + e
      BY <2>8, <3>2
    <3> QED
      BY <2>2, <2>7, <2>8, <3>1, <3>3 DEF LossInv
  <2> QED
    BY <2>5, <2>6
<1>7. CASE Stop \/ PauseAtTarget \/ EndLoop
  <2>1. UNCHANGED <<mem, lastLive, live, latest>>
    BY <1>7 DEF Stop, PauseAtTarget, EndLoop, storeVars, ghostVars
  <2>2. mem \in World => LivePending'
    <3>1. CASE Stop
      BY <1>1, <3>1, StopDoes DEF Sound, LivePending
    <3>2. CASE PauseAtTarget \/ EndLoop
      BY <3>2, AfterLoopDoes DEF PauseAtTarget, EndLoop, LivePending
    <3> QED
      BY <1>7, <3>1, <3>2
  <2> QED
    BY <2>1, <2>2 DEF LossInv
<1>8. CASE AppendEvent \/ FlushEmpty \/ Flush \/ BumpEvents \/ Bump \/ WriteSnapshot \/ NextIteration
  <2>1. UNCHANGED <<mem, lastLive, live, latest>>
    BY <1>8 DEF AppendEvent, FlushEmpty, Flush, BumpEvents, Bump, WriteSnapshot,
       NextIteration,
                storeVars, ghostVars
  <2>2. LivePending => LivePending'
    BY <1>8, PendingKept
  <2> QED
    BY <2>1, <2>2 DEF LossInv
<1>9. CASE WriteLive
  <2>1. live' = mem /\ mem' = mem /\ lastLive' = lastLive /\ latest' = latest
    BY <1>9 DEF WriteLive, ghostVars
  <2>2. mem \in World
    BY <1>9, CallFinds DEF WriteLive, NextCall, Sound
  <2>3. PICK m \in Nat, e \in Nat, a \in Nat :
          m = mem.tick /\ e = LiveEvery /\ e >= 1 /\ a = lastLive /\ a <= m /\ latest = mem
    <3>1. /\ mem.tick \in Nat /\ LiveEvery \in Nat /\ LiveEvery >= 1 /\ lastLive \in Nat
          /\ lastLive <= mem.tick /\ latest = mem
      BY <1>1, <2>2 DEF LossInv
    <3> QED
      BY <3>1, Zenon
  <2>4. m <= m + e /\ m < m + e /\ m <= m
    BY <2>3
  <2> QED
    BY <2>1, <2>3, <2>4 DEF LossInv
<1>10. CASE Settle
  <2>1. mem' = mem /\ lastLive' = mem.tick /\ latest' = latest /\ live' = live
    BY <1>10 DEF Settle, storeVars
  <2>2. mem \in World /\ calls # <<>> /\ calls[1] = "settle"
    BY <1>10, CallFinds DEF Settle, NextCall, Sound
  <2>3. live = mem
    BY <1>1, <2>2 DEF Sound, CallInv, MemoryInv
  <2>4. PICK m \in Nat, e \in Nat : m = mem.tick /\ e = LiveEvery /\ e >= 1 /\ latest = mem
    <3>1. mem.tick \in Nat /\ LiveEvery \in Nat /\ LiveEvery >= 1 /\ latest = mem
      BY <1>1, <2>2 DEF LossInv
    <3> QED
      BY <3>1, Zenon
  <2>5. m <= m + e /\ m < m + e /\ m <= m
    BY <2>4
  <2> QED
    BY <2>1, <2>3, <2>4, <2>5 DEF LossInv
<1> QED
  <2>1. \/ Die /\ UNCHANGED <<live, latest>>
        \/ UNCHANGED <<calls, mem, lastLive, live, latest>>
        \/ Poll \/ ApplyScenario \/ Tick
        \/ Stop \/ PauseAtTarget \/ EndLoop
        \/ AppendEvent \/ FlushEmpty \/ Flush \/ BumpEvents \/ Bump \/ WriteSnapshot \/ NextIteration
        \/ WriteLive \/ Settle
    BY DEF Next, Working, Start, ClearScenario, NothingToRun, StartBatch, FlushRefused,
           RefuseSnapshot, Exit, Crash, GetControl, SetControl, vars, workerVars, storeVars, ghostVars
  <2> QED
    BY <2>1, <1>2, <1>3, <1>4, <1>5, <1>6, <1>7, <1>8, <1>9, <1>10

\* Whenever the worker is killed, what it has to simulate again is at most one live
\* interval.
THEOREM LossIsBounded == Spec => []LossBounded
<1>1. Init => LossInv
  <2>1. SUFFICES ASSUME Init PROVE LossInv
    OBVIOUS
  <2>2. latest = live /\ mem = NoValue /\ live \in World
    BY <2>1, InitTyped DEF Init, TypeOK
  <2> QED
    BY <2>2, Constants DEF LossInv, World
<1>2. Sound /\ Sound' /\ LossInv /\ [Next]_vars => LossInv'
  BY LossKept
<1>3. Sound /\ LossInv => LossBounded
  <2>1. SUFFICES ASSUME Sound, LossInv PROVE LossBounded
    OBVIOUS
  <2>2. live.tick \in Nat /\ latest.tick \in Nat /\ LiveEvery \in Nat
    BY <2>1, Constants DEF Sound, TypeOK, World
  <2>3. PICK l \in Nat, m \in Nat, e \in Nat : l = live.tick /\ m = latest.tick /\ e = LiveEvery
    BY <2>2
  <2>4. m <= l + e
    BY <2>1, <2>3 DEF LossInv
  <2>5. m - l <= e
    BY <2>4
  <2> QED
    BY <2>3, <2>5 DEF LossBounded
<1> QED
  BY <1>1, <1>2, <1>3, SoundThroughout, PTL DEF Spec

-----------------------------------------------------------------------------
(* A worker that is not killed. *)

\* Two sequences of events, one after the other.
LEMMA JoinIs ==
    ASSUME NEW a \in Seq(Event), NEW b \in Seq(Event)
    PROVE  \E c \in Seq(Event) :
             /\ c = a \o b /\ Len(c) = Len(a) + Len(b)
             /\ \A i \in 1..Len(a) : c[i] = a[i]
             /\ \A i \in 1..Len(b) : c[Len(a) + i] = b[i]
             /\ \A i \in 1..Len(c) : i > Len(a) => i - Len(a) \in 1..Len(b) /\ c[i] = b[i - Len(a)]
<1>1. PICK c : c = a \o b
  OBVIOUS
<1>2. PICK m \in Nat, n \in Nat : m = Len(a) /\ n = Len(b)
  <2>1. Len(a) \in Nat /\ Len(b) \in Nat
    BY LenProperties
  <2> QED
    BY <2>1, Zenon
<1>3. /\ c \in Seq(Event) /\ Len(c) = m + n
      /\ \A i \in 1..(m + n) : c[i] = IF i <= m THEN a[i] ELSE b[i - m]
  BY <1>1, <1>2, ConcatProperties
<1>4. ASSUME NEW i \in 1..n PROVE c[m + i] = b[i]
  <2>1. m + i \in 1..(m + n) /\ ~(m + i <= m) /\ (m + i) - m = i
    BY <1>2
  <2> QED
    BY <1>3, <2>1
<1>5. \A i \in 1..m : c[i] = a[i]
  BY <1>3
<1>6. ASSUME NEW i \in 1..Len(c), i > m PROVE i - m \in 1..n /\ c[i] = b[i - m]
  BY <1>3, <1>6
<1> QED
  BY <1>1, <1>2, <1>3, <1>4, <1>5, <1>6, Zenon

LEMMA JoinNothing == ASSUME NEW a \in Seq(Event) PROVE a \o <<>> = a /\ <<>> \o a = a
  BY ConcatEmptySeq

LEMMA JoinAssociates ==
    ASSUME NEW a \in Seq(Event), NEW b \in Seq(Event), NEW c \in Seq(Event)
    PROVE  (a \o b) \o c = a \o (b \o c)
  BY ConcatAssociative

LEMMA SameEvents ==
    ASSUME NEW a \in Seq(Event), NEW b \in Seq(Event), Len(a) = Len(b),
           \A i \in 1..Len(a) : a[i] = b[i]
    PROVE  a = b
  BY SeqEqual

\* An event that moves from one sequence to the other leaves the whole as it was.
LEMMA HandOver ==
    ASSUME NEW b \in Seq(Event), NEW f \in Seq(Event), f # <<>>
    PROVE  Append(b, f[1]) \o Tail(f) = b \o f
<1>1. /\ Head(f) = f[1] /\ f[1] \in Event /\ Tail(f) \in Seq(Event)
      /\ Len(Tail(f)) = Len(f) - 1 /\ \A i \in 1..Len(Tail(f)) : Tail(f)[i] = f[i + 1]
  BY HeadTailProperties
<1>2. PICK k \in Nat, n \in Nat : k = Len(b) /\ n = Len(f) /\ n >= 1
  <2>1. Len(b) \in Nat /\ Len(f) \in Nat /\ Len(f) >= 1
    BY LenProperties, EmptySeq
  <2> QED
    BY <2>1, Zenon
<1>3. PICK b2 \in Seq(Event) :
        /\ b2 = Append(b, f[1]) /\ Len(b2) = k + 1 /\ b2[k + 1] = f[1]
        /\ \A i \in 1..k : b2[i] = b[i]
  <2>1. /\ Append(b, f[1]) \in Seq(Event) /\ Len(Append(b, f[1])) = Len(b) + 1
        /\ \A i \in 1..Len(b) : Append(b, f[1])[i] = b[i] /\ Append(b, f[1])[Len(b) + 1] = f[1]
    BY <1>1, AppendProperties
  <2>2. Append(b, f[1])[Len(b) + 1] = f[1]
    BY <1>1, AppendProperties
  <2> QED
    BY <1>2, <2>1, <2>2, Zenon
<1>4. PICK c \in Seq(Event) :
        /\ c = b2 \o Tail(f) /\ Len(c) = Len(b2) + Len(Tail(f))
        /\ \A i \in 1..Len(b2) : c[i] = b2[i]
        /\ \A i \in 1..Len(c) : i > Len(b2) => i - Len(b2) \in 1..Len(Tail(f)) /\ c[i] = Tail(f)[i - Len(b2)]
  BY <1>1, JoinIs
<1>5. PICK d \in Seq(Event) :
        /\ d = b \o f /\ Len(d) = Len(b) + Len(f)
        /\ \A i \in 1..Len(b) : d[i] = b[i]
        /\ \A i \in 1..Len(f) : d[Len(b) + i] = f[i]
  BY JoinIs
<1>6. Len(c) = k + n /\ Len(d) = k + n
  BY <1>1, <1>2, <1>3, <1>4, <1>5
<1>7. ASSUME NEW i \in 1..Len(c) PROVE c[i] = d[i]
  <2>1. CASE i <= k
    <3>1. i \in 1..k /\ i \in 1..(k + 1)
      BY <1>2, <1>6, <2>1
    <3> QED
      BY <1>2, <1>3, <1>4, <1>5, <3>1
  <2>2. CASE i = k + 1
    <3>1. c[i] = f[1]
      BY <1>2, <1>3, <1>4, <2>2
    <3>2. 1 \in 1..n
      BY <1>2
    <3> QED
      BY <1>2, <1>5, <2>2, <3>1, <3>2
  <2>3. CASE i > k + 1
    <3>1. PICK j \in 1..n : i = k + j /\ j > 1
      <4>1. i - k \in 1..n /\ i = k + (i - k) /\ i - k > 1
        BY <1>2, <1>6, <2>3
      <4> QED
        BY <4>1
    <3>2. i - (k + 1) = j - 1 /\ (j - 1) + 1 = j
      BY <1>2, <3>1
    <3>3. j - 1 \in 1..Len(Tail(f)) /\ c[i] = Tail(f)[j - 1]
      BY <1>3, <1>4, <2>3, <3>2
    <3>4. c[i] = f[j]
      BY <1>1, <3>2, <3>3
    <3>5. d[k + j] = f[j]
      BY <1>2, <1>5
    <3> QED
      BY <3>1, <3>4, <3>5
  <2>4. i <= k \/ i = k + 1 \/ i > k + 1
    BY <1>2, <1>6
  <2> QED
    BY <2>1, <2>2, <2>3, <2>4
<1>8. c = d
  BY <1>6, <1>7, SameEvents
<1> QED
  BY <1>3, <1>4, <1>5, <1>8

\* All of the buffer is recorded when the ledger and the buffer are in the order of
\* their ids.
LEMMA FlushAll ==
    ASSUME events \in Seq(Event), buffer \in Seq(Event),
           NEW all \in Seq(Event), Numbered(all), all = events \o buffer
    PROVE  Inserted[Len(buffer)] = all
<1>1. PICK m \in Nat, n \in Nat : m = Len(events) /\ n = Len(buffer)
  <2>1. Len(events) \in Nat /\ Len(buffer) \in Nat
    BY LenProperties
  <2> QED
    BY <2>1, Zenon
<1>2. /\ Len(all) = m + n /\ \A i \in 1..m : all[i] = events[i]
      /\ \A i \in 1..n : all[m + i] = buffer[i]
      /\ DOMAIN all = 1..(m + n)
  <2>1. PICK c \in Seq(Event) :
          /\ c = events \o buffer /\ Len(c) = Len(events) + Len(buffer)
          /\ \A i \in 1..Len(events) : c[i] = events[i]
          /\ \A i \in 1..Len(buffer) : c[Len(events) + i] = buffer[i]
    BY JoinIs
  <2>2. DOMAIN all = 1..Len(all)
    BY LenProperties
  <2> QED
    BY <1>1, <2>1, <2>2
<1> DEFINE R == {p \in Nat \X Seq(Event) :
                   p[1] <= n /\ Len(p[2]) = m + p[1] /\ \A i \in 1..(m + p[1]) : p[2][i] = all[i]}
<1>3. <<0, events>> \in R
  BY <1>1, <1>2
<1>4. ASSUME NEW k \in 1..Len(buffer), NEW rows \in Seq(Event), <<k - 1, rows>> \in R
      PROVE  <<k, Insert(rows, buffer[k])>> \in R
  <2>1. /\ k \in 1..n /\ buffer[k] \in Event /\ all[m + k] = buffer[k]
        /\ m + k \in 1..(m + n)
    BY <1>1, <1>2, ElementOfSeq
  <2>2. PICK j \in Nat : j = m + (k - 1) /\ j + 1 = m + k /\ j < m + k
    BY <2>1
  <2>3. Len(rows) = j /\ \A i \in 1..j : rows[i] = all[i]
    BY <1>4, <2>2
  <2>4. DOMAIN rows = 1..j
    BY <2>3, LenProperties
  <2>5. \A i \in DOMAIN rows : rows[i].id < buffer[k].id
    <3>1. SUFFICES ASSUME NEW i \in 1..j PROVE rows[i].id < buffer[k].id
      BY <2>4
    <3>2. i \in 1..(m + n) /\ i < m + k
      BY <2>1, <2>2
    <3>3. all[i].id < all[m + k].id
      BY <1>2, <2>1, <3>2 DEF Numbered
    <3> QED
      BY <2>1, <2>3, <3>3
  <2>6. \A i \in DOMAIN rows : rows[i].id # buffer[k].id
    <3>1. SUFFICES ASSUME NEW i \in DOMAIN rows PROVE rows[i].id # buffer[k].id
      OBVIOUS
    <3>2. rows[i].id \in Nat /\ buffer[k].id \in Nat /\ rows[i].id < buffer[k].id
      <4>1. i \in 1..Len(rows)
        BY <2>3, <2>4
      <4>2. rows[i] \in Event
        BY <4>1, ElementOfSeq
      <4> QED
        BY <2>1, <2>5, <4>2 DEF Event
    <3> QED
      BY <3>2
  <2>7. PICK new \in Seq(Event) : new = Insert(rows, buffer[k]) /\ new = Append(rows, buffer[k])
    <3>1. /\ Insert(rows, buffer[k]) \in Seq(Event)
          /\ Insert(rows, buffer[k]) = Append(rows, buffer[k])
      BY <2>1, <2>6, InsertIs DEF Insert
    <3> QED
      BY <3>1, Zenon
  <2>8. /\ Len(new) = j + 1 /\ \A i \in 1..j : new[i] = rows[i]
        /\ new[j + 1] = buffer[k]
    BY <2>1, <2>3, <2>7, AppendProperties
  <2>9. \A i \in 1..(m + k) : new[i] = all[i]
    <3>1. SUFFICES ASSUME NEW i \in 1..(m + k) PROVE new[i] = all[i]
      OBVIOUS
    <3>2. i \in 1..j \/ i = j + 1
      BY <2>2
    <3> QED
      BY <2>1, <2>2, <2>3, <2>8, <3>2
  <2>10. k \in Nat /\ k <= n /\ Len(new) = m + k
    BY <2>1, <2>2, <2>8
  <2> QED
    BY <2>7, <2>9, <2>10
<1>5. <<Len(buffer), Inserted[Len(buffer)]>> \in R
  <2> HIDE DEF R
  <2> QED
    BY <1>3, <1>4, FlushInduction
<1>6. PICK rows \in Seq(Event) : rows = Inserted[Len(buffer)] /\ Len(rows) = m + n
                                 /\ \A i \in 1..(m + n) : rows[i] = all[i]
  BY <1>1, <1>5
<1> QED
  BY <1>2, <1>6, SameEvents

\* The ledger and what waits for it, whichever call is next.
LEMMA WholeLedger ==
    ASSUME Sound, buffer = <<>> \/ ~NextCall("bump_events")
    PROVE  LedgerHoldsThePast <=> (mem # NoValue => mem.past = (events \o buffer) \o fresh)
<1>1. events \o <<>> = events
  BY JoinNothing DEF Sound, TypeOK
<1> QED
  BY <1>1 DEF LedgerHoldsThePast

\* What the steps find that leave the history alone.
LEMMA AsideIsOrderly ==
    ASSUME Sound, Sound', Orderly,
           UNCHANGED <<mem, fresh, buffer, events, head, live, latest>>,
           counts'.refused = counts.refused, pc' = "down" => pc = "down",
           \/ buffer = <<>>
           \/ ~NextCall("bump_events") /\ ~(NextCall("bump_events")')
           \/ calls' = calls
    PROVE  Orderly'
<1>1. LedgerHoldsThePast => LedgerHoldsThePast'
  <2>1. events \o <<>> = events
    BY JoinNothing DEF Sound, TypeOK
  <2>2. CASE buffer = <<>>
    BY <2>1, <2>2 DEF LedgerHoldsThePast
  <2>3. CASE ~NextCall("bump_events") /\ ~(NextCall("bump_events")')
    BY <2>3 DEF LedgerHoldsThePast
  <2>4. CASE calls' = calls
    BY <2>4 DEF LedgerHoldsThePast, NextCall
  <2> QED
    BY <2>2, <2>3, <2>4
<1> QED
  BY <1>1 DEF Orderly, Numbered

LEMMA LoopIsOrderly ==
    ASSUME Sound, Sound', Orderly,
           \/ Start \/ ClearScenario \/ NothingToRun \/ StartBatch \/ GetControl \/ SetControl
           \/ UNCHANGED vars \/ FlushEmpty \/ WriteSnapshot \/ Stop \/ PauseAtTarget
           \/ NextIteration \/ EndLoop \/ Settle
    PROVE  Orderly'
<1>1. /\ UNCHANGED <<mem, fresh, buffer, events, head, live, latest>>
      /\ pc' = "down" => pc = "down"
  BY DEF Start, ClearScenario, NothingToRun, StartBatch, GetControl, SetControl,
     FlushEmpty,
         WriteSnapshot, Stop, PauseAtTarget, NextIteration, EndLoop, Settle, vars, workerVars,
         storeVars, ghostVars
<1>2. counts'.refused = counts.refused
  BY DEF Start, ClearScenario, NothingToRun, StartBatch, GetControl, SetControl,
     FlushEmpty,
         WriteSnapshot, Stop, PauseAtTarget, NextIteration, EndLoop, Settle, vars,
         ghostVars, Count, Sound, TypeOK
<1>3. \/ buffer = <<>>
      \/ ~NextCall("bump_events") /\ ~(NextCall("bump_events")')
      \/ calls' = calls
  <2>1. CASE Start \/ ClearScenario \/ NothingToRun \/ StartBatch \/ GetControl \/ SetControl \/ UNCHANGED vars
    BY <2>1 DEF Start, ClearScenario, NothingToRun, StartBatch, GetControl, SetControl,
       vars, workerVars
  <2>2. CASE FlushEmpty
    BY <2>2 DEF FlushEmpty
  <2>3. CASE Stop
    BY <2>3, StopDoes DEF Sound
  <2>4. CASE WriteSnapshot \/ Settle
    <3>1. calls # <<>> /\ Head(calls) \in {"snapshot", "settle"}
      BY <2>4 DEF WriteSnapshot, Settle, NextCall
    <3>2. Head(calls) = calls[1]
      BY <3>1, CallFinds DEF Sound
    <3> QED
      BY <3>1, <3>2 DEF Sound, CallInv, MemoryInv
  <2>5. CASE NextIteration
    <3>1. calls # <<>> /\ Head(calls) = "end_of_tick" /\ calls' = Tail(calls)
      BY <2>5 DEF NextIteration, NextCall, Return
    <3>2. Head(calls) = calls[1] /\ Len(calls) = 1
      BY <3>1, CallFinds DEF Sound
    <3>3. calls' = <<>>
      BY <3>1, <3>2, TailIs DEF Sound, TypeOK
    <3> QED
      BY <3>1, <3>3 DEF NextCall
  <2>6. CASE PauseAtTarget \/ EndLoop
    <3>1. Head(calls) = "end_of_tick" /\ AfterLoop
      BY <2>6 DEF PauseAtTarget, EndLoop, NextCall
    <3>2. calls' \in Seq(Call) /\ calls' # <<>> /\ calls'[1] = "flush"
      BY <3>1, AfterLoopDoes
    <3>3. Head(calls') = "flush"
      BY <3>2, TailIs
    <3> QED
      BY <3>1, <3>3 DEF NextCall
  <2> QED
    BY <2>1, <2>2, <2>3, <2>4, <2>5, <2>6
<1> QED
  BY <1>1, <1>2, <1>3, AsideIsOrderly

\* The end of the process, if nobody kills it.
LEMMA ExitIsOrderly == ASSUME Sound, LossInv, Orderly, Exit PROVE Orderly'
<1>1. calls # <<>> /\ calls[1] = "exit" /\ Head(calls) = "exit"
  BY CallFinds DEF Exit, NextCall, Sound
<1>2. buffer = <<>> /\ fresh = <<>> /\ (mem = NoValue \/ live = mem)
  BY <1>1, CallFinds DEF Sound, CallInv, MemoryInv
<1>3. live = latest /\ live.past = events
  <2>1. CASE mem = NoValue
    BY <2>1 DEF Orderly
  <2>2. CASE mem # NoValue
    <3>1. mem \in World /\ live = mem
      BY <1>2, <2>2 DEF Sound, TypeOK
    <3>2. latest = mem /\ LedgerHoldsThePast /\ mem # NoValue
      BY <2>2, <3>1 DEF LossInv, Orderly
    <3>3. mem.past = (events \o buffer) \o fresh
      BY <1>2, <3>2, WholeLedger
    <3>4. (events \o <<>>) \o <<>> = events
      BY JoinNothing DEF Sound, TypeOK
    <3> QED
      BY <1>2, <3>1, <3>2, <3>3, <3>4
  <2> QED
    BY <2>1, <2>2
<1>4. /\ mem' = NoValue /\ buffer' = <<>> /\ fresh' = <<>>
      /\ UNCHANGED <<events, head, live, latest, counts>>
  BY DEF Exit, Die, storeVars, ghostVars
<1>5. DOMAIN <<>> = {}
  OBVIOUS
<1> QED
  BY <1>3, <1>4, <1>5, Constants DEF Orderly, Numbered

\* Nothing is refused: the head never overtakes what is still to be written.
LEMMA NothingRefused ==
    ASSUME Sound, LossInv, Orderly
    PROVE  ~FlushRefused /\ ~RefuseSnapshot
<1>1. ASSUME FlushRefused PROVE FALSE
  <2>1. buffer # <<>> /\ buffer[1].tick < head
    BY <1>1 DEF FlushRefused, Refuses
  <2>2. 1 \in DOMAIN buffer
    <3>1. buffer \in Seq(Event)
      BY DEF Sound, TypeOK
    <3>2. DOMAIN buffer = 1..Len(buffer) /\ Len(buffer) \in Nat \ {0}
      BY <2>1, <3>1, EmptySeq, LenProperties
    <3> QED
      BY <3>2
  <2>3. buffer[1] \in Event
    BY <2>2, ElementOfSeq, LenProperties DEF Sound, TypeOK
  <2>4. head <= buffer[1].tick /\ head \in Nat /\ buffer[1].tick \in Nat
    BY <2>2, <2>3 DEF Orderly, Sound, TypeOK, Event
  <2> QED
    BY <2>1, <2>4
<1>2. ASSUME RefuseSnapshot PROVE FALSE
  <2>1. mem.tick < head /\ calls # <<>> /\ Head(calls) = "snapshot"
    BY <1>2 DEF RefuseSnapshot, SnapshotRefused, Refuses, NextCall
  <2>2. mem \in World
    BY <2>1, CallFinds DEF Sound
  <2>3. head <= mem.tick /\ head \in Nat /\ mem.tick \in Nat
    BY <2>2 DEF Orderly, LossInv, Sound, TypeOK, World
  <2> QED
    BY <2>1, <2>3
<1> QED
  BY <1>1, <1>2

LEMMA PollIsOrderly == ASSUME Sound, LossInv, Orderly, Poll PROVE Orderly'
<1>1. /\ calls = <<>> /\ pc = "poll" /\ buffer = <<>> /\ fresh = <<>>
      /\ UNCHANGED <<calls, fresh, buffer, events, head, live,
                     counts>> /\ latest' = mem' /\ pc' = "advance"
      /\ mem' = IF mem # NoValue THEN mem ELSE live
  BY QuietIs DEF Poll, Sound, storeVars
<1>2. live \in World /\ NoValue \notin World /\ mem \in World \cup {NoValue} /\ events \in Seq(Event)
  BY Constants DEF Sound, TypeOK
<1>3. latest' = latest
  BY <1>1, <1>2 DEF Orderly, LossInv
<1>4. mem' # NoValue /\ mem'.past = events
  <2>1. CASE mem = NoValue
    BY <1>1, <1>2, <2>1 DEF Orderly
  <2>2. CASE mem # NoValue
    <3>1. mem.past = (events \o buffer) \o fresh
      BY <1>1, <1>2, <2>2, WholeLedger DEF Orderly
    <3>2. (events \o <<>>) \o <<>> = events
      BY <1>2, JoinNothing
    <3> QED
      BY <1>1, <2>2, <3>1, <3>2
  <2> QED
    BY <2>1, <2>2
<1>5. LedgerHoldsThePast'
  <2>1. (events \o <<>>) \o <<>> = events /\ events \o <<>> = events
    BY <1>2, JoinNothing
  <2>2. ~(NextCall("bump_events")')
    BY <1>1 DEF NextCall
  <2> QED
    BY <1>1, <1>4, <2>1, <2>2 DEF LedgerHoldsThePast
<1>6. DOMAIN <<>> = {}
  OBVIOUS
<1> QED
  BY <1>1, <1>3, <1>4, <1>5, <1>6 DEF Orderly, Numbered

LEMMA FurtherBound ==
    ASSUME NEW a \in Nat, NEW b \in Nat, NEW c \in Nat, NEW d \in Nat, d >= c, a <= b + c
    PROVE  a <= b + d
  OBVIOUS

\* A scenario adds nothing to the past, and takes an id.
LEMMA ScenarioIsOrderly == ASSUME Sound, LossInv, Orderly, ApplyScenario PROVE Orderly'
<1>1. /\ mem \in World /\ mem # NoValue /\ latest' = mem' /\ pc' = "clear" /\ latest = mem
      /\ UNCHANGED <<calls, fresh, buffer, events, head, live, counts>>
  BY Constants DEF ApplyScenario, Sound, CallInv, MemoryInv, LossInv, storeVars
<1>2. /\ mem' \in World /\ mem'.tick = mem.tick /\ mem'.past = mem.past
      /\ Len(mem'.inputs) >= Len(mem.inputs)
      /\ Len(mem.inputs) \in Nat /\ Len(mem'.inputs) \in Nat
  <2>1. mem.inputs \in Seq(Nat) /\ mem.tick \in Nat
    BY <1>1 DEF World
  <2>2. /\ Append(mem.inputs, mem.tick) \in Seq(Nat)
        /\ Len(Append(mem.inputs, mem.tick)) = Len(mem.inputs) + 1 /\ Len(mem.inputs) \in Nat
    BY <2>1, AppendProperties, LenProperties
  <2>3. \/ mem' = mem
        \/ mem' = [mem EXCEPT !.inputs = Append(@, mem.tick)]
    BY DEF ApplyScenario
  <2>4. PICK w : w = [mem EXCEPT !.inputs = Append(@, mem.tick)]
    OBVIOUS
  <2>5. w \in World /\ w.tick = mem.tick /\ w.inputs = Append(mem.inputs, mem.tick) /\ w.past = mem.past
    BY <1>1, <2>4, ChangedWorldIs
  <2>6. CASE mem' = mem
    BY <1>1, <2>2, <2>6
  <2>7. CASE mem' = w
    BY <2>2, <2>5, <2>7
  <2> QED
    BY <2>3, <2>4, <2>6, <2>7
<1>3. mem' # NoValue
  BY <1>2, Constants
<1>4. LedgerHoldsThePast'
  BY <1>1, <1>2 DEF Orderly, LedgerHoldsThePast, NextCall
<1>6. Numbered(latest'.past)
  BY <1>1, <1>2 DEF Orderly
<1>7. \A i \in DOMAIN mem'.past : mem'.past[i].id <= Len(mem'.past) + Len(mem'.inputs)
  <2>1. SUFFICES ASSUME NEW i \in DOMAIN mem.past
                 PROVE  mem.past[i].id <= Len(mem.past) + Len(mem'.inputs)
    BY <1>2
  <2>2. mem.past \in Seq(Event)
    BY <1>1 DEF World
  <2>3. mem.past[i] \in Event /\ Len(mem.past) \in Nat
    BY <2>2, ElementOfSeq, LenProperties
  <2>4. mem.past[i].id <= Len(mem.past) + Len(mem.inputs)
    BY <1>1 DEF Orderly
  <2>5. mem.past[i].id \in Nat
    BY <2>3 DEF Event
  <2> QED
    BY <1>2, <2>3, <2>4, <2>5, FurtherBound
<1> QED
  BY <1>1, <1>2, <1>3, <1>4, <1>6, <1>7, Constants DEF Orderly

\* The ids of a tick go on where those before it and the scenarios left off.
LEMMA NumbersGoOn ==
    ASSUME NEW p \in Seq(Event), NEW f \in Seq(Event), NEW s \in Nat, NEW q \in Seq(Event), q = p \o f,
           Numbered(p), \A i \in DOMAIN p : p[i].id <= Len(p) + s,
           \A k \in 1..Len(f) : f[k].id = Len(p) + s + k
    PROVE  Numbered(q) /\ \A i \in DOMAIN q : q[i].id <= Len(q) + s
<1>1. PICK m \in Nat, n \in Nat : m = Len(p) /\ n = Len(f)
  <2>1. Len(p) \in Nat /\ Len(f) \in Nat
    BY LenProperties
  <2> QED
    BY <2>1, Zenon
<1>2. /\ Len(q) = m + n /\ \A i \in 1..m : q[i] = p[i]
      /\ \A i \in 1..Len(q) : i > m => i - m \in 1..n /\ q[i] = f[i - m]
  <2>1. PICK c \in Seq(Event) :
             /\ c = p \o f /\ Len(c) = Len(p) + Len(f)
             /\ \A i \in 1..Len(p) : c[i] = p[i]
             /\ \A i \in 1..Len(f) : c[Len(p) + i] = f[i]
             /\ \A i \in 1..Len(c) : i > Len(p) => i - Len(p) \in 1..Len(f) /\ c[i] = f[i - Len(p)]
    BY JoinIs
  <2> QED
    BY <1>1, <2>1
<1>3. DOMAIN p = 1..m /\ DOMAIN q = 1..(m + n)
  BY <1>1, <1>2, LenProperties
<1>4. ASSUME NEW i \in 1..(m + n)
      PROVE  /\ q[i].id \in Nat /\ q[i].id <= m + n + s
             /\ i <= m => q[i] = p[i] /\ q[i].id <= m + s
             /\ i > m => q[i].id = i + s
  <2>1. CASE i <= m
    <3>1. i \in 1..m /\ q[i] = p[i]
      BY <1>2, <2>1
    <3>2. p[i].id \in Nat /\ p[i].id <= m + s
      <4>1. p[i] \in Event
        BY <1>1, <3>1, ElementOfSeq
      <4> QED
        BY <1>1, <1>3, <3>1, <4>1 DEF Event
    <3>3. p[i].id <= m + n + s
      BY <1>1, <3>2
    <3> QED
      BY <1>1, <2>1, <3>1, <3>2, <3>3
  <2>2. CASE i > m
    <3>1. i - m \in 1..n /\ q[i] = f[i - m]
      BY <1>2, <2>2
    <3>2. q[i].id = m + s + (i - m)
      BY <1>1, <3>1
    <3>3. q[i].id = i + s /\ i + s <= m + n + s
      BY <1>1, <2>2, <3>2
    <3> QED
      BY <1>1, <2>2, <3>3
  <2> QED
    BY <1>1, <2>1, <2>2
<1>5. Numbered(q)
  <2>1. SUFFICES ASSUME NEW i \in 1..(m + n), NEW j \in 1..(m + n), i < j PROVE q[i].id < q[j].id
    BY <1>3 DEF Numbered
  <2>2. CASE j <= m
    <3>1. i \in DOMAIN p /\ j \in DOMAIN p /\ q[i] = p[i] /\ q[j] = p[j]
      BY <1>3, <1>4, <2>1, <2>2
    <3> QED
      BY <2>1, <3>1 DEF Numbered
  <2>3. CASE i <= m /\ j > m
    BY <1>1, <1>4, <2>3
  <2>4. CASE i > m
    <3>1. i \in Nat /\ j \in Nat /\ j > m /\ i + s < j + s
      BY <1>1, <2>1, <2>4
    <3>2. q[i].id = i + s /\ q[j].id = j + s
      BY <1>4, <2>4, <3>1
    <3> QED
      BY <3>1, <3>2
  <2> QED
    BY <1>1, <2>1, <2>2, <2>3, <2>4
<1>6. \A i \in DOMAIN q : q[i].id <= Len(q) + s
  BY <1>1, <1>2, <1>3, <1>4
<1> QED
  BY <1>5, <1>6

LEMMA TickIsOrderly == ASSUME Sound, Sound', LossInv, Orderly, Tick PROVE Orderly'
<1>1. /\ mem \in World /\ mem.tick < MaxTick /\ fresh = <<>> /\ pc = "tick"
      /\ mem' \in World /\ mem'.tick = mem.tick + 1 /\ mem'.inputs = mem.inputs
      /\ mem'.past = mem.past \o fresh'
      /\ fresh' \in Seq(Event) /\ Len(fresh') \in Nat
      /\ \A k \in 1..Len(fresh') :
           /\ fresh'[k].id = Len(mem.past) + Len(mem.inputs) + k
           /\ fresh'[k].tick = mem.tick + 1
      /\ calls' \in Seq(Call) /\ calls' # <<>>
      /\ calls'[1] \in {"append", "flush", "end_of_tick"}
  BY TickDoes DEF Sound
<1>2. /\ calls = <<>> /\ latest' = mem' /\ pc' = pc
      /\ UNCHANGED <<buffer, events, head, live, counts>>
  BY DEF Tick, storeVars
<1>3. NoValue \notin World /\ latest = mem
  BY <1>1, Constants DEF LossInv
<1>4. LedgerHoldsThePast'
  <2>1. ~NextCall("bump_events") /\ ~(NextCall("bump_events")')
    <3>1. Head(calls') = calls'[1]
      BY <1>1, TailIs
    <3> QED
      BY <1>1, <1>2, <3>1 DEF NextCall
  <2>2. mem.past = (events \o buffer) \o <<>>
    BY <1>1, <1>3, <2>1, WholeLedger DEF Orderly
  <2>3. PICK whole \in Seq(Event) : whole = events \o buffer
    BY JoinIs DEF Sound, TypeOK
  <2>4. mem.past = whole
    BY <2>2, <2>3, JoinNothing
  <2> QED
    BY <1>1, <1>2, <2>1, <2>3, <2>4 DEF LedgerHoldsThePast
<1>5. /\ Numbered(mem'.past)
      /\ \A i \in DOMAIN mem'.past : mem'.past[i].id <= Len(mem'.past) + Len(mem'.inputs)
  <2>1. PICK p \in Seq(Event), q \in Seq(Event), s \in Nat, f \in Seq(Event) :
          p = mem.past /\ q = mem'.past /\ s = Len(mem.inputs) /\ f = fresh'
    <3>1. mem.past \in Seq(Event) /\ mem'.past \in Seq(Event) /\ mem.inputs \in Seq(Nat)
      BY <1>1 DEF World
    <3>2. Len(mem.inputs) \in Nat
      BY <3>1, LenProperties
    <3> QED
      BY <1>1, <3>1, <3>2, Zenon
  <2>2. Numbered(p) /\ \A i \in DOMAIN p : p[i].id <= Len(p) + s
    BY <1>3, <2>1 DEF Orderly
  <2>3. q = p \o f /\ \A k \in 1..Len(f) : f[k].id = Len(p) + s + k
    BY <1>1, <2>1
  <2>4. Numbered(q) /\ \A i \in DOMAIN q : q[i].id <= Len(q) + s
    BY <2>2, <2>3, NumbersGoOn
  <2> QED
    BY <1>1, <2>1, <2>4
<1>6. head <= mem.tick /\ live.tick <= mem.tick /\ head \in Nat /\ live.tick \in Nat /\ mem.tick \in Nat
  BY <1>1, <1>3 DEF Orderly, Sound, TypeOK, World
<1>7. head <= mem'.tick /\ live.tick <= mem'.tick /\ live.tick < mem'.tick
  BY <1>1, <1>6
<1>8. ASSUME NEW i \in DOMAIN buffer
      PROVE  live.tick < buffer[i].tick /\ buffer[i].tick <= mem'.tick /\ head <= buffer[i].tick
  <2>1. buffer[i] \in Event
    <3>1. buffer \in Seq(Event)
      BY DEF Sound, TypeOK
    <3>2. i \in 1..Len(buffer)
      BY <3>1, LenProperties
    <3> QED
      BY <3>1, <3>2, ElementOfSeq
  <2>2. buffer[i].tick \in Nat /\ live.tick < buffer[i].tick /\ buffer[i].tick <= mem.tick /\ head <= buffer[i].tick
    BY <1>3, <2>1 DEF Orderly, Event
  <2> QED
    BY <1>1, <1>6, <2>2
<1>9. \A i \in DOMAIN fresh' : live.tick < fresh'[i].tick /\ fresh'[i].tick = mem'.tick
  <2>1. DOMAIN fresh' = 1..Len(fresh')
    BY <1>1, LenProperties
  <2> QED
    BY <1>1, <1>7, <2>1
<1>10. pc' # "down" /\ mem' # NoValue
  BY <1>1, <1>2, <1>3
<1> QED
  BY <1>2, <1>4, <1>5, <1>7, <1>8, <1>9, <1>10 DEF Orderly

\* An event is handed to the ledger.
LEMMA AppendIsOrderly == ASSUME Sound, Sound', LossInv, Orderly, AppendEvent PROVE Orderly'
<1>1. /\ mem \in World /\ fresh # <<>> /\ calls[1] = "append" /\ calls # <<>>
      /\ fresh[1] \in Event /\ Len(fresh) \in Nat /\ Len(fresh) >= 1
      /\ buffer' = Append(buffer, fresh[1]) /\ buffer' \in Seq(Event) /\ buffer' # <<>>
      /\ fresh' = Tail(fresh) /\ fresh' \in Seq(Event)
      /\ calls' = Tail(calls) \/ calls' = <<"flush">> \o Tail(calls)
      /\ calls' \in Seq(Call)
  BY AppendDoes DEF Sound
<1>2. UNCHANGED <<pc, mem, events, head, live, latest, counts>>
  BY DEF AppendEvent, storeVars, ghostVars
<1>3. buffer \in Seq(Event) /\ fresh \in Seq(Event) /\ events \in Seq(Event) /\ calls \in Seq(Call)
      /\ Shape(calls)
  BY DEF Sound, TypeOK, CallInv, QueueInv
<1>4. ~NextCall("bump_events") /\ ~(NextCall("bump_events")')
  <2>1. Head(calls) = "append"
    BY <1>1, <1>3, TailIs
  <2>2. CASE calls' = Tail(calls)
    <3>1. /\ Len(calls) \in Nat /\ Len(calls) >= 1 /\ Len(Tail(calls)) = Len(calls) - 1
          /\ \A i \in 1..(Len(calls) - 1) : Tail(calls)[i] = calls[i + 1]
      BY <1>1, <1>3, TailIs
    <3>2. SUFFICES ASSUME calls' # <<>>, Head(calls') = "bump_events" PROVE FALSE
      BY <2>1 DEF NextCall
    <3>3. Len(calls') >= 1 /\ Head(calls') = calls'[1]
      BY <1>1, <3>2, TailIs
    <3>4. 1 \in 1..(Len(calls) - 1) /\ 1 + 1 = 2 /\ 2 \in 1..Len(calls)
      BY <2>2, <3>1, <3>3
    <3>5. calls[2] = "bump_events"
      BY <2>2, <3>1, <3>2, <3>3, <3>4
    <3>6. calls[2] = "bump_events" => 2 = 1
      BY <1>3, <3>4 DEF Shape
    <3> QED
      BY <3>5, <3>6
  <2>3. CASE calls' = <<"flush">> \o Tail(calls)
    <3>1. (<<"flush">> \o Tail(calls))[1] = "flush" /\ <<"flush">> \o Tail(calls) # <<>>
      BY <1>1, <1>3, PushIs DEF Call
    <3>2. Head(calls') = "flush"
      BY <1>1, <2>3, <3>1, TailIs
    <3> QED
      BY <2>1, <3>2 DEF NextCall
  <2> QED
    BY <1>1, <2>2, <2>3
<1>5. LedgerHoldsThePast'
  <2>1. mem # NoValue /\ mem.past = (events \o buffer) \o fresh
    BY <1>1, <1>4, Constants, WholeLedger DEF Orderly
  <2>2. (events \o buffer) \o fresh = events \o (buffer \o fresh)
    BY <1>3, JoinAssociates
  <2>3. (events \o buffer') \o fresh' = events \o (buffer' \o fresh')
    <3>1. events \in Seq(Event) /\ buffer' \in Seq(Event) /\ fresh' \in Seq(Event)
      BY <1>1, <1>3
    <3> QED
      BY <3>1, JoinAssociates, Zenon
  <2>4. buffer' \o fresh' = buffer \o fresh
    BY <1>1, <1>3, HandOver
  <2> QED
    BY <1>2, <1>4, <2>1, <2>2, <2>3, <2>4 DEF LedgerHoldsThePast
<1>6. /\ DOMAIN buffer = 1..Len(buffer) /\ DOMAIN fresh = 1..Len(fresh)
      /\ DOMAIN buffer' = 1..Len(buffer') /\ DOMAIN fresh' = 1..Len(fresh')
      /\ Len(buffer') = Len(buffer) + 1 /\ Len(buffer) \in Nat /\ Len(fresh') = Len(fresh) - 1
      /\ \A i \in 1..Len(buffer) : buffer'[i] = buffer[i]
      /\ \A i \in 1..Len(fresh') : fresh'[i] = fresh[i + 1]
  <2>1. /\ DOMAIN buffer = 1..Len(buffer) /\ DOMAIN fresh = 1..Len(fresh)
        /\ DOMAIN buffer' = 1..Len(buffer') /\ DOMAIN fresh' = 1..Len(fresh')
        /\ Len(buffer) \in Nat
    BY <1>1, <1>3, LenProperties
  <2>2. Len(buffer') = Len(buffer) + 1 /\ \A i \in 1..Len(buffer) : buffer'[i] = buffer[i]
    BY <1>1, <1>3, AppendProperties
  <2>3. Len(fresh') = Len(fresh) - 1 /\ \A i \in 1..Len(fresh') : fresh'[i] = fresh[i + 1]
    BY <1>1, <1>3, HeadTailProperties
  <2> QED
    BY <2>1, <2>2, <2>3
<1>7. buffer'[Len(buffer) + 1] = fresh[1]
  BY <1>1, <1>3, AppendProperties
<1>8. /\ live.tick < fresh[1].tick /\ fresh[1].tick <= latest.tick /\ head <= fresh[1].tick
  <2>1. live.tick < fresh[1].tick /\ fresh[1].tick = latest.tick /\ head <= latest.tick
    BY <1>1, <1>6 DEF Orderly
  <2>2. latest.tick \in Nat
    BY DEF Sound, TypeOK, World
  <2> QED
    BY <2>1, <2>2
<1>9. ASSUME NEW i \in DOMAIN buffer'
      PROVE  /\ live.tick < buffer'[i].tick /\ buffer'[i].tick <= latest.tick
             /\ head <= buffer'[i].tick
  <2>1. i \in 1..Len(buffer) \/ i = Len(buffer) + 1
    BY <1>6
  <2> QED
    BY <1>6, <1>7, <1>8, <2>1 DEF Orderly
<1>10. ASSUME NEW i \in DOMAIN fresh'
       PROVE  live.tick < fresh'[i].tick /\ fresh'[i].tick = latest.tick
  <2>1. i + 1 \in 1..Len(fresh) /\ fresh'[i] = fresh[i + 1]
    BY <1>1, <1>6
  <2> QED
    BY <1>6, <2>1 DEF Orderly
<1> QED
  BY <1>1, <1>2, <1>5, <1>9, <1>10, Constants DEF Orderly

\* The buffer is recorded, all of it.
LEMMA FlushDoes ==
    ASSUME Sound, LossInv, Orderly, Flush
    PROVE  /\ mem \in World /\ buffer # <<>> /\ events' = events \o buffer /\ events' \in Seq(Event)
           /\ mem.past = events' \o fresh /\ Numbered(events')
<1>1. calls # <<>> /\ Head(calls) = "flush" /\ buffer # <<>> /\ events' = Inserted[Len(buffer)]
  BY DEF Flush, NextCall
<1>2. mem \in World /\ mem # NoValue /\ latest = mem
  BY <1>1, CallFinds, Constants DEF Sound, LossInv
<1>3. buffer \in Seq(Event) /\ fresh \in Seq(Event) /\ events \in Seq(Event)
  BY DEF Sound, TypeOK
<1>4. mem.past = (events \o buffer) \o fresh
  BY <1>1, <1>2, WholeLedger DEF Orderly, NextCall
<1>5. PICK all \in Seq(Event) : all = events \o buffer
  BY <1>3, JoinIs
<1>6. Numbered(all)
  <2>1. PICK whole \in Seq(Event) :
          /\ whole = all \o fresh /\ Len(whole) = Len(all) + Len(fresh)
          /\ \A i \in 1..Len(all) : whole[i] = all[i]
    BY <1>3, JoinIs
  <2>2. Numbered(whole)
    BY <1>2, <1>4, <1>5, <2>1 DEF Orderly
  <2>3. /\ DOMAIN all = 1..Len(all) /\ DOMAIN whole = 1..Len(whole)
        /\ Len(all) \in Nat /\ Len(fresh) \in Nat
    BY <1>3, LenProperties
  <2>4. \A i \in 1..Len(all) : i \in 1..Len(whole)
    BY <2>1, <2>3
  <2> QED
    BY <2>1, <2>2, <2>3, <2>4 DEF Numbered
<1>7. events' = all
  BY <1>1, <1>3, <1>5, <1>6, FlushAll
<1> QED
  BY <1>1, <1>2, <1>4, <1>5, <1>6, <1>7

LEMMA FlushIsOrderly == ASSUME Sound, LossInv, Orderly, Flush PROVE Orderly'
<1>1. /\ mem \in World /\ mem.past = events' \o fresh
  BY FlushDoes
<1>2. UNCHANGED <<pc, mem, fresh, buffer, head, live, latest, counts>>
  BY DEF Flush, ghostVars
<1>3. NextCall("bump_events")'
  <2>1. calls # <<>> /\ calls \in Seq(Call) /\ calls' = <<"bump_events">> \o Tail(calls)
    BY DEF Flush, NextCall, Sound, TypeOK
  <2>2. /\ <<"bump_events">> \o Tail(calls) \in Seq(Call) /\ <<"bump_events">> \o Tail(calls) # <<>>
        /\ (<<"bump_events">> \o Tail(calls))[1] = "bump_events"
    BY <2>1, PushIs DEF Call
  <2>3. Head(calls') = "bump_events" /\ calls' # <<>>
    BY <2>1, <2>2, TailIs
  <2> QED
    BY <2>3 DEF NextCall
<1>4. LedgerHoldsThePast'
  BY <1>1, <1>2, <1>3 DEF LedgerHoldsThePast
<1> QED
  BY <1>1, <1>2, <1>4, Constants DEF Orderly

LEMMA BumpIsOrderly == ASSUME Sound, Sound', LossInv, Orderly, BumpEvents \/ Bump PROVE Orderly'
<1>1. /\ UNCHANGED <<pc, mem, fresh, events, live, latest, counts>> /\ buffer' = <<>>
      /\ mem \in World /\ calls # <<>> /\ Head(calls) = calls[1]
      /\ calls[1] = "bump" => buffer = <<>> /\ fresh = <<>>
      /\ Bump => calls[1] = "bump"
  <2>1. calls # <<>> /\ Head(calls) \in {"bump", "bump_events"}
    BY DEF Bump, BumpEvents, NextCall
  <2>2. Head(calls) = calls[1] /\ mem \in World /\ (calls[1] = "bump" => buffer = <<>> /\ fresh = <<>>)
    BY <2>1, CallFinds DEF Sound, CallInv, MemoryInv
  <2> QED
    BY <2>1, <2>2 DEF Bump, BumpEvents, NextCall, ghostVars
<1>2. mem # NoValue /\ latest = mem /\ events \in Seq(Event) /\ fresh \in Seq(Event)
  BY <1>1, Constants DEF LossInv, Sound, TypeOK
<1>3. mem.past = events \o fresh
  <2>1. events \o <<>> = events
    BY <1>2, JoinNothing
  <2>2. CASE NextCall("bump_events")
    BY <1>1, <1>2, <2>2 DEF Orderly, LedgerHoldsThePast
  <2>3. CASE ~NextCall("bump_events")
    <3>1. Bump
      BY <2>3 DEF BumpEvents
    <3> QED
      BY <1>1, <1>2, <2>1, <2>3, <3>1 DEF Orderly, LedgerHoldsThePast
  <2> QED
    BY <2>2, <2>3
<1>4. LedgerHoldsThePast'
  <2>1. events \o <<>> = events
    BY <1>2, JoinNothing
  <2> QED
    BY <1>1, <1>3, <2>1 DEF LedgerHoldsThePast
<1>5. head' <= latest.tick
  <2>1. head \in Nat /\ mem.tick \in Nat /\ head <= mem.tick /\ latest.tick = mem.tick
    BY <1>1, <1>2 DEF Sound, TypeOK, World, Orderly
  <2>2. CASE Bump
    BY <2>1, <2>2 DEF Bump, Larger
  <2>3. CASE BumpEvents
    <3>1. buffer # <<>> /\ buffer \in Seq(Event)
      BY <2>3 DEF BumpEvents, Sound, TypeOK, CallInv, MemoryInv
    <3>2. Len(buffer) \in 1..Len(buffer) /\ DOMAIN buffer = 1..Len(buffer)
      BY <3>1, EmptySeq, LenProperties
    <3>3. buffer[Len(buffer)] \in Event
      BY <3>1, <3>2, ElementOfSeq
    <3>4. buffer[Len(buffer)].tick \in Nat /\ buffer[Len(buffer)].tick <= mem.tick
      BY <1>2, <3>2, <3>3 DEF Orderly, Event
    <3> QED
      BY <2>1, <2>3, <3>4 DEF BumpEvents, Larger
  <2> QED
    BY <2>2, <2>3
<1>6. DOMAIN <<>> = {}
  OBVIOUS
<1> QED
  BY <1>1, <1>2, <1>4, <1>5, <1>6 DEF Orderly

LEMMA LiveIsOrderly == ASSUME Sound, LossInv, Orderly, WriteLive PROVE Orderly'
<1>1. calls # <<>> /\ calls[1] = "live" /\ mem \in World /\ buffer = <<>> /\ fresh = <<>>
  <2>1. calls # <<>> /\ Head(calls) = "live"
    BY DEF WriteLive, NextCall
  <2> QED
    BY <2>1, CallFinds DEF Sound, CallInv, MemoryInv
<1>2. live' = mem /\ UNCHANGED <<pc, mem, fresh, buffer, events, head, latest, counts>> /\ latest = mem
  BY <1>1 DEF WriteLive, ghostVars, LossInv
<1>3. LedgerHoldsThePast'
  <2>1. events \o <<>> = events
    BY JoinNothing DEF Sound, TypeOK
  <2> QED
    BY <1>1, <1>2, <2>1 DEF Orderly, LedgerHoldsThePast
<1>4. latest.tick \in Nat /\ latest.tick <= latest.tick
  BY DEF Sound, TypeOK, World
<1>5. DOMAIN <<>> = {}
  OBVIOUS
<1> QED
  BY <1>1, <1>2, <1>3, <1>4, <1>5, Constants DEF Orderly

LEMMA OrderlyKept ==
    ASSUME Sound, Sound', LossInv, OrderlyInv, [Next]_vars
    PROVE  OrderlyInv'
<1>1. SUFFICES ASSUME counts'.crashes = 0 PROVE Orderly'
  BY DEF OrderlyInv
<1>2. counts.crashes = 0 /\ ~Crash
  <2>1. counts \in [{"crashes", "stops", "requests", "refused"} -> Nat]
    BY DEF Sound, TypeOK
  <2>2. counts.crashes \in Nat
    BY <2>1
  <2>3. ~Crash
    BY <1>1, <2>1, <2>2 DEF Crash, Count
  <2>4. \/ counts' = counts
        \/ \E c \in {"stops", "requests"} : Count(c)
        \/ counts' = [counts EXCEPT !.refused = 1]
    BY <2>3 DEF Next, Working, Start, Poll, ApplyScenario, ClearScenario, NothingToRun,
       StartBatch,
           Tick, AppendEvent, FlushEmpty, Flush, FlushRefused, BumpEvents, Bump, WriteSnapshot,
           RefuseSnapshot, WriteLive, PauseAtTarget, NextIteration, EndLoop, Settle, Exit, Stop,
           GetControl, SetControl, vars, ghostVars
  <2>5. counts'.crashes = counts.crashes
    BY <2>1, <2>4 DEF Count
  <2> QED
    BY <1>1, <2>3, <2>5
<1>3. Orderly
  BY <1>2 DEF OrderlyInv
<1>4. ~FlushRefused /\ ~RefuseSnapshot
  BY <1>3, NothingRefused
<1> QED
  <2>1. \/ \/ Start \/ ClearScenario \/ NothingToRun \/ StartBatch \/ GetControl \/ SetControl
           \/ UNCHANGED vars \/ FlushEmpty \/ WriteSnapshot \/ Stop \/ PauseAtTarget
           \/ NextIteration \/ EndLoop \/ Settle
        \/ Exit \/ Poll \/ ApplyScenario \/ Tick \/ AppendEvent \/ Flush
        \/ BumpEvents \/ Bump \/ WriteLive
    BY <1>2, <1>4 DEF Next, Working
  <2>2. CASE \/ Start \/ ClearScenario \/ NothingToRun \/ StartBatch \/ GetControl \/ SetControl
             \/ UNCHANGED vars \/ FlushEmpty \/ WriteSnapshot \/ Stop \/ PauseAtTarget
             \/ NextIteration \/ EndLoop \/ Settle
    BY <1>3, <2>2, LoopIsOrderly
  <2>3. CASE Exit \/ Poll \/ ApplyScenario \/ Tick
    BY <1>3, <2>3, ExitIsOrderly, PollIsOrderly, ScenarioIsOrderly, TickIsOrderly
  <2>4. CASE AppendEvent \/ Flush \/ BumpEvents \/ Bump \/ WriteLive
    BY <1>3, <2>4, AppendIsOrderly, FlushIsOrderly, BumpIsOrderly, LiveIsOrderly
  <2> QED
    BY <2>1, <2>2, <2>3, <2>4

\* What holds of the worker in every state.
Inv == Sound /\ OverrunInv /\ LossInv /\ OrderlyInv

LEMMA InvThroughout == Spec => []Inv
<1>1. Init => Inv
  <2>1. SUFFICES ASSUME Init PROVE Inv
    OBVIOUS
  <2>2. /\ latest = live /\ latest = Genesis /\ mem = NoValue /\ live \in World /\ buffer = <<>>
        /\ fresh = <<>> /\ events = <<>> /\ head = 0 /\ counts.refused = 0 /\ pc = "down"
        /\ calls = <<>> /\ batch = 0 /\ left = 0 /\ overrun = 0
    BY <2>1, InitTyped DEF Init, TypeOK
  <2>3. Sound
    <3>1. QueueInv /\ MemoryInv
      BY <2>2, EmptyQueue DEF QueueInv, MemoryInv, Ends, NextCall
    <3> QED
      BY <2>1, <3>1, InitTyped DEF Sound, CallInv
  <2>4. OverrunInv
    <3>1. Longest \in Nat
      BY <2>3, BudgetIs DEF Sound, TypeOK
    <3> QED
      BY <2>2, <3>1 DEF OverrunInv
  <2>5. LossInv
    BY <2>2, Constants DEF LossInv, World
  <2>6. OrderlyInv
    <3>1. DOMAIN <<>> = {} /\ Genesis.past = <<>> /\ Genesis.tick = 0
      BY DEF Genesis
    <3> QED
      BY <2>2, <3>1, Constants DEF OrderlyInv, Orderly, Numbered
  <2> QED
    BY <2>3, <2>4, <2>5, <2>6 DEF Inv
<1>2. Sound /\ Sound' /\ OverrunInv /\ LossInv /\ OrderlyInv /\ [Next]_vars
        => OverrunInv' /\ LossInv' /\ OrderlyInv'
  BY OverrunKept, LossKept, OrderlyKept
<1>3. Sound /\ OverrunInv /\ LossInv /\ OrderlyInv <=> Inv
  BY DEF Inv
<1> QED
  BY <1>1, <1>2, <1>3, SoundThroughout, PTL DEF Spec

\* As long as the worker is not killed, through any number of orderly stops: no event
\* is lost or doubled between the kernel and the store, the store refuses nothing,
\* and after a stop it has the very world the worker had.
THEOREM RunsAreOrderly == Spec => [](counts.crashes = 0 => OrderlyRuns)
<1>1. Inv => (counts.crashes = 0 => OrderlyRuns)
  <2>1. SUFFICES ASSUME Inv, counts.crashes = 0 PROVE OrderlyRuns
    OBVIOUS
  <2>2. Orderly /\ OverrunBounded
    BY <2>1 DEF Inv, OrderlyInv, OverrunInv, OverrunBounded, Longest
  <2>3. LedgerHoldsThePast
    <3>1. CASE mem = NoValue
      BY <3>1 DEF LedgerHoldsThePast
    <3>2. CASE mem # NoValue
      <4>1. mem \in World
        BY <2>1, <3>2 DEF Inv, Sound, TypeOK
      <4> QED
        BY <2>2, <4>1 DEF Orderly
    <3> QED
      BY <3>1, <3>2
  <2>4. NeverRefused /\ StoppedCleanly
    BY <2>2 DEF Orderly, NeverRefused, StoppedCleanly
  <2> QED
    BY <2>2, <2>3, <2>4 DEF OrderlyRuns
<1> QED
  BY <1>1, InvThroughout, PTL

\* A flush records: what it adds is later than the published world, in the order of
\* the ids.
LEMMA FlushRecords == ASSUME Inv, counts.crashes = 0, Flush PROVE History!Record
<1>1. Sound /\ LossInv /\ Orderly
  BY DEF Inv, OrderlyInv
<1>2. /\ mem \in World /\ buffer # <<>> /\ events' = events \o buffer /\ events' \in Seq(Event)
      /\ Numbered(events')
  BY <1>1, FlushDoes
<1>3. buffer \in Seq(Event) /\ events \in Seq(Event)
  BY <1>1 DEF Sound, TypeOK
<1>4. PICK m \in Nat, n \in Nat : m = Len(events) /\ n = Len(buffer) /\ n > 0
  <2>1. Len(events) \in Nat /\ Len(buffer) \in Nat /\ Len(buffer) > 0
    BY <1>2, <1>3, LenProperties, EmptySeq
  <2> QED
    BY <2>1, Zenon
<1>5. /\ Len(events') = m + n /\ \A i \in 1..m : events'[i] = events[i]
      /\ \A i \in 1..(m + n) : i > m => i - m \in 1..n /\ events'[i] = buffer[i - m]
  <2>1. PICK c \in Seq(Event) :
          /\ c = events \o buffer /\ Len(c) = Len(events) + Len(buffer)
          /\ \A i \in 1..Len(events) : c[i] = events[i]
          /\ \A i \in 1..Len(buffer) : c[Len(events) + i] = buffer[i]
          /\ \A i \in 1..Len(c) : i > Len(events) => i - Len(events) \in 1..Len(buffer)
                                                     /\ c[i] = buffer[i - Len(events)]
    BY <1>3, JoinIs
  <2> QED
    BY <1>2, <1>4, <2>1
<1>6. SubSeq(events', 1, m) = events
  <2>1. \A i \in 1..m : events'[i] \in Event
    BY <1>3, <1>4, <1>5, ElementOfSeq
  <2>2. PICK s \in Seq(Event) : s = SubSeq(events', 1, m) /\ Len(s) = m /\ \A i \in 1..m : s[i] = events'[i]
    <3>1. /\ SubSeq(events', 1, m) \in Seq(Event)
          /\ Len(SubSeq(events', 1, m)) = IF 1 <= m THEN m - 1 + 1 ELSE 0
          /\ \A i \in 1..(m - 1 + 1) : SubSeq(events', 1, m)[i] = events'[1 + i - 1]
      BY <1>4, <2>1, SubSeqProperties
    <3>2. Len(SubSeq(events', 1, m)) = m
      BY <1>4, <3>1
    <3>3. \A i \in 1..m : SubSeq(events', 1, m)[i] = events'[i]
      <4>1. m - 1 + 1 = m /\ \A i \in 1..m : 1 + i - 1 = i
        BY <1>4
      <4> QED
        BY <3>1, <4>1
    <3> QED
      BY <3>1, <3>2, <3>3, Zenon
  <2> QED
    BY <1>3, <1>4, <1>5, <2>2, SameEvents
<1>7. ASSUME NEW k \in (m + 1)..(m + n)
      PROVE  /\ events'[k].tick > live.tick
             /\ k > 1 => events'[k - 1].id < events'[k].id
  <2>1. k \in 1..(m + n) /\ k > m /\ (k > 1 => k - 1 \in 1..(m + n) /\ k - 1 < k)
    BY <1>4
  <2>2. k - m \in 1..n /\ events'[k] = buffer[k - m]
    BY <1>5, <2>1
  <2>3. DOMAIN buffer = 1..n /\ buffer[k - m] \in Event
    BY <1>3, <1>4, <2>2, LenProperties, ElementOfSeq
  <2>4. live.tick < buffer[k - m].tick /\ live.tick \in Nat /\ buffer[k - m].tick \in Nat
    BY <1>1, <2>2, <2>3 DEF Orderly, Sound, TypeOK, World, Event
  <2>5. DOMAIN events' = 1..(m + n)
    BY <1>2, <1>5, LenProperties
  <2> QED
    BY <1>2, <2>1, <2>2, <2>4, <2>5 DEF Numbered
<1>8. live' = live /\ m + n > m
  BY <1>4 DEF Flush
<1> QED
  BY <1>4, <1>5, <1>6, <1>7, <1>8 DEF History!Record

LEMMA LivePublishes == ASSUME Inv, counts.crashes = 0, WriteLive PROVE History!Publish
<1>1. Sound /\ LossInv /\ Orderly
  BY DEF Inv, OrderlyInv
<1>2. calls # <<>> /\ calls[1] = "live" /\ Head(calls) = "live" /\ mem \in World /\ buffer = <<>> /\ fresh = <<>>
  <2>1. calls # <<>> /\ Head(calls) = "live"
    BY DEF WriteLive, NextCall
  <2> QED
    BY <1>1, <2>1, CallFinds DEF Sound, CallInv, MemoryInv
<1>3. mem.past = (events \o <<>>) \o <<>> /\ (events \o <<>>) \o <<>> = events
  BY <1>1, <1>2, Constants, WholeLedger, JoinNothing DEF Orderly, Sound, TypeOK
<1>4. live.tick <= mem.tick /\ live.tick \in Nat /\ mem.tick \in Nat
  BY <1>1, <1>2 DEF LossInv, Sound, TypeOK, World
<1>5. live' = mem /\ events' = events
  BY DEF WriteLive
<1> QED
  BY <1>3, <1>4, <1>5 DEF History!Publish

\* A worker that is never killed keeps the promise of WorldHistory: the past is
\* append-only, and a world is published with exactly the ledger as its past.
THEOREM KeepsHistory == ASSUME MaxCrashes = 0 PROVE Spec => AppendOnlyHistory
<1>1. Init => History!Init
  BY DEF Init, History!Init, Genesis
<1>2. Init => counts.crashes = 0
  BY DEF Init
<1>3. Inv /\ counts.crashes = 0 /\ [Next]_vars => (counts.crashes = 0)'
  <2>1. SUFFICES ASSUME Inv, counts.crashes = 0, [Next]_vars PROVE counts'.crashes = 0
    OBVIOUS
  <2>2. counts \in [{"crashes", "stops", "requests", "refused"} -> Nat]
    BY <2>1 DEF Inv, Sound, TypeOK
  <2>3. ~Crash
    BY <2>1 DEF Crash
  <2>4. \/ counts' = counts
        \/ \E c \in {"stops", "requests"} : Count(c)
        \/ counts' = [counts EXCEPT !.refused = 1]
    BY <2>1, <2>3 DEF Next, Working, Start, Poll, ApplyScenario, ClearScenario,
       NothingToRun, StartBatch,
           Tick, AppendEvent, FlushEmpty, Flush, FlushRefused, BumpEvents, Bump, WriteSnapshot,
           RefuseSnapshot, WriteLive, PauseAtTarget, NextIteration, EndLoop, Settle, Exit, Stop,
           GetControl, SetControl, vars, ghostVars
  <2> QED
    BY <2>1, <2>2, <2>4 DEF Count
<1>4. Inv /\ counts.crashes = 0 /\ [Next]_vars => [History!Record \/ History!Publish]_<<events, live>>
  <2>1. SUFFICES ASSUME Inv, counts.crashes = 0, [Next]_vars
                 PROVE  [History!Record \/ History!Publish]_<<events, live>>
    OBVIOUS
  <2>2. CASE Flush
    BY <2>1, <2>2, FlushRecords
  <2>3. CASE WriteLive
    BY <2>1, <2>3, LivePublishes
  <2>4. CASE ~Flush /\ ~WriteLive
    BY <2>1, <2>4 DEF Next, Working, Start, Poll, ApplyScenario, ClearScenario,
       NothingToRun, StartBatch,
           Tick, AppendEvent, FlushEmpty, FlushRefused, BumpEvents, Bump, WriteSnapshot,
           RefuseSnapshot, PauseAtTarget, NextIteration, EndLoop, Settle, Exit, Stop, Crash,
           GetControl, SetControl, vars, storeVars
  <2> QED
    BY <2>2, <2>3, <2>4
<1> QED
  BY <1>1, <1>2, <1>3, <1>4, InvThroughout, PTL DEF Spec, AppendOnlyHistory,
     History!Spec

-----------------------------------------------------------------------------
(* A step request. *)

\* A call that returns, or a flush put in its place, does not bring the end of the
\* batch about.
LEMMA NoNewSettle ==
    ASSUME Sound, SettlePending',
           \/ AppendEvent \/ FlushEmpty \/ Flush \/ BumpEvents \/ Bump \/ WriteSnapshot
           \/ WriteLive \/ NextIteration
    PROVE  SettlePending
<1>1. calls \in Seq(Call) /\ calls # <<>>
  BY DEF Sound, TypeOK, AppendEvent, FlushEmpty, Flush, BumpEvents, Bump, WriteSnapshot,
         WriteLive, NextIteration, NextCall
<1>2. calls' = Tail(calls) \/ \E c \in {"flush", "bump_events"} : calls' = <<c>> \o Tail(calls)
  <2>1. CASE AppendEvent
    BY <2>1, AppendDoes DEF Sound
  <2>2. CASE ~AppendEvent
    BY <2>2 DEF FlushEmpty, Flush, BumpEvents, Bump, WriteSnapshot, WriteLive,
       NextIteration, Return
  <2> QED
    BY <2>1, <2>2
<1>3. PICK i \in 1..Len(calls') : calls'[i] = "settle"
  BY DEF SettlePending
<1>4. CASE calls' = Tail(calls)
  <2>1. /\ Len(calls) \in Nat /\ Len(Tail(calls)) = Len(calls) - 1
        /\ \A k \in 1..(Len(calls) - 1) : Tail(calls)[k] = calls[k + 1]
    BY <1>1, TailIs
  <2>2. i \in 1..(Len(calls) - 1) /\ i + 1 \in 1..Len(calls)
    BY <1>3, <1>4, <2>1
  <2>3. calls[i + 1] = "settle"
    BY <1>3, <1>4, <2>1, <2>2
  <2> QED
    BY <2>2, <2>3 DEF SettlePending
<1>5. CASE \E c \in {"flush", "bump_events"} : calls' = <<c>> \o Tail(calls)
  <2>1. PICK c \in {"flush", "bump_events"} : calls' = <<c>> \o Tail(calls)
    BY <1>5
  <2>2. c \in Call
    BY DEF Call
  <2>3. /\ Len(<<c>> \o Tail(calls)) = Len(calls) /\ (<<c>> \o Tail(calls))[1] = c
        /\ \A k \in 2..Len(calls) : (<<c>> \o Tail(calls))[k] = calls[k]
    BY <1>1, <2>2, PushIs
  <2>4. i \in 1..Len(calls) /\ Len(calls) \in Nat
    BY <1>1, <1>3, <2>1, <2>3, LenProperties
  <2>5. i # 1
    BY <1>3, <2>1, <2>3
  <2>6. calls[i] = "settle"
    <3>1. i \in 2..Len(calls)
      BY <2>4, <2>5
    <3> QED
      BY <1>3, <2>1, <2>3, <3>1
  <2> QED
    BY <2>4, <2>6 DEF SettlePending
<1> QED
  BY <1>2, <1>4, <1>5

\* Nor does a tick.
LEMMA NoSettleInTick == ASSUME Sound, Tick PROVE ~SettlePending'
<1>1. /\ calls' \in Seq(Call) /\ Shape(calls') /\ calls'[Len(calls')] = "end_of_tick"
  BY TickDoes DEF Sound
<1>2. SUFFICES ASSUME NEW i \in 1..Len(calls'), calls'[i] = "settle" PROVE FALSE
  BY DEF SettlePending
<1>3. calls'[i] \in {"end_of_tick", "settle", "exit"} <=> i = Len(calls')
  BY <1>1 DEF Shape
<1> QED
  BY <1>1, <1>2, <1>3

\* What every step but the operator's leaves alone.
LEMMA OperatorAlone ==
    ASSUME Sound, [Next]_vars, ~GetControl, ~SetControl
    PROVE  counts'.requests = counts.requests /\ request' = request
<1>1. counts \in [{"crashes", "stops", "requests", "refused"} -> Nat]
  BY DEF Sound, TypeOK
<1>2. \/ counts' = counts
      \/ \E c \in {"stops", "crashes"} : Count(c)
      \/ counts' = [counts EXCEPT !.refused = 1]
  BY DEF Next, Working, Start, Poll, ApplyScenario, ClearScenario, NothingToRun,
     StartBatch,
         Tick, AppendEvent, FlushEmpty, Flush, FlushRefused, BumpEvents, Bump, WriteSnapshot,
         RefuseSnapshot, WriteLive, PauseAtTarget, NextIteration, EndLoop, Settle, Exit, Stop,
         Crash, vars, ghostVars
<1>3. counts'.requests = counts.requests
  BY <1>1, <1>2 DEF Count
<1>4. request' = request
  BY DEF Next, Working, Start, Poll, ApplyScenario, ClearScenario, NothingToRun,
     StartBatch,
         Tick, AppendEvent, FlushEmpty, Flush, FlushRefused, BumpEvents, Bump, WriteSnapshot,
         RefuseSnapshot, WriteLive, PauseAtTarget, NextIteration, EndLoop, Settle, Exit, Stop,
         Crash, vars, ghostVars
<1> QED
  BY <1>3, <1>4

LEMMA GetCounts ==
    ASSUME Sound, GetControl
    PROVE  /\ counts.requests \in Nat /\ counts'.requests = counts.requests + 1
           /\ \E r \in Requests : request' = [control |-> control, change |-> r]
           /\ UNCHANGED <<workerVars, storeVars, control, latest, owed, overrun>>
<1>1. counts \in [{"crashes", "stops", "requests", "refused"} -> Nat]
  BY DEF Sound, TypeOK
<1> QED
  BY <1>1 DEF GetControl, Count

\* Nothing moves before the operator asks for it.
LEMMA UnaskedKept == ASSUME Sound, Unasked, [Next]_vars PROVE Unasked'
<1>1. CASE GetControl
  <2>1. counts.requests \in Nat /\ counts'.requests = counts.requests + 1
        /\ (\E r \in Requests : request' = [control |-> control, change |-> r])
        /\ control' = control /\ pc' = pc
    BY <1>1, GetCounts DEF workerVars
  <2>2. request'.control = control
    BY <2>1
  <2>3. counts'.requests # 0 /\ (counts'.requests = 1 => counts.requests = 0)
    BY <2>1
  <2> QED
    BY <2>1, <2>2, <2>3 DEF Unasked
<1>2. CASE SetControl
  <2>1. request # NoValue /\ request' = NoValue /\ counts' = counts
    BY <1>2 DEF SetControl
  <2> QED
    BY <2>1 DEF Unasked
<1>3. CASE ~GetControl /\ ~SetControl
  <2>1. counts'.requests = counts.requests /\ request' = request
    BY <1>3, OperatorAlone
  <2>2. SUFFICES ASSUME counts.requests = 0 \/ (counts.requests = 1 /\ request # NoValue)
                 PROVE  control' = Idle /\ pc' \in {"down", "poll"}
    BY <2>1 DEF Unasked
  <2>3. control = Idle /\ pc \in {"down", "poll"}
    BY <2>2 DEF Unasked
  <2>4. ~Poll
    <3>1. Idle.mode = "paused" /\ Idle.step = 0 /\ Idle.scenario = FALSE
      BY DEF Idle
    <3>2. ~Moving(control) /\ ~control.scenario
      BY <2>3, <3>1 DEF Moving
    <3> QED
      BY <3>2 DEF Poll
  <2>5. ~ApplyScenario /\ ~ClearScenario /\ ~NothingToRun /\ ~StartBatch /\ ~Tick
    BY <2>3 DEF ApplyScenario, ClearScenario, NothingToRun, StartBatch, Tick
  <2>6. ~PauseAtTarget /\ ~Settle
    BY <2>3, CallFinds DEF PauseAtTarget, Settle, NextCall, Sound
  <2> QED
    BY <1>3, <2>3, <2>4, <2>5, <2>6
       DEF Next, Working, Start, AppendEvent, FlushEmpty, Flush, FlushRefused, BumpEvents, Bump,
           WriteSnapshot, RefuseSnapshot, WriteLive, NextIteration, EndLoop, Exit, Stop,
           Crash, Die, vars, workerVars
<1> QED
  BY <1>1, <1>2, <1>3

\* No tick is run while a scenario is waiting.
LEMMA ScenarioFirst ==
    ASSUME Sound, pc = "tick" => ~seen.scenario, [Next]_vars
    PROVE  pc' = "tick" => ~seen'.scenario
<1>1. CASE PauseAtTarget
  <2>1. pc = "tick" /\ seen \in ControlState
    BY <1>1, CallFinds DEF PauseAtTarget, NextCall, Sound, TypeOK
  <2>2. PICK note \in {"", "reached target", "step complete"} : seen' = Paused(seen, note)
    BY <1>1 DEF PauseAtTarget
  <2>3. seen'.scenario = seen.scenario
    BY <2>1, <2>2, ControlIs
  <2> QED
    BY <2>1, <2>3
<1>2. CASE ~PauseAtTarget
  BY <1>2 DEF Next, Working, Start, Poll, ApplyScenario, ClearScenario, NothingToRun,
     StartBatch,
         Tick, AppendEvent, FlushEmpty, Flush, FlushRefused, BumpEvents, Bump, WriteSnapshot,
         RefuseSnapshot, WriteLive, NextIteration, EndLoop, Settle, Exit, Stop,
         Crash, GetControl, SetControl, Die, vars, workerVars
<1> QED
  BY <1>1, <1>2

\* The operator's request is put back into the idle record it was read from.
LEMMA AskedFollows ==
    ASSUME Sound, Unasked, SetControl, counts'.requests = 1
    PROVE  Following'
<1>1. /\ request # NoValue /\ counts' = counts /\ pc' = pc
      /\ PutControl(Changed(request.control, request.change))
      /\ owed' = IF "step" \in DOMAIN request.change THEN request.change.step ELSE owed
  BY DEF SetControl, workerVars
<1>2. control = Idle /\ pc \in {"down", "poll"} /\ request.control = Idle
  BY <1>1 DEF Unasked
<1>3. PICK r \in Requests : r = request.change
  BY <1>1 DEF Sound, TypeOK
<1>4. control' = [f \in DOMAIN Idle |-> IF f \in DOMAIN r THEN r[f] ELSE Idle[f]]
  BY <1>1, <1>2, <1>3 DEF PutControl, Changed
<1>5. "note" \notin DOMAIN r
  BY <1>3, RequestsAssumption
<1>6. {"note", "step"} \subseteq DOMAIN Idle /\ Idle["note"] = "" /\ Idle["step"] = 0
  BY DEF Idle
<1>7. control'["note"] = ""
  BY <1>4, <1>5, <1>6
<1>8. control'["step"] = IF "step" \in DOMAIN r THEN r["step"] ELSE 0
  BY <1>4, <1>6
<1>9. control'.step > 0 => owed' = control'.step
  BY <1>1, <1>3, <1>8
<1> QED
  BY <1>1, <1>2, <1>7, <1>9 DEF Following, Served

\* The record the worker goes by is the stored one.
LEMMA SeenIsStored ==
    ASSUME pc \in {"advance", "clear", "tick"} => seen = control, [Next]_vars,
           ~SetControl
    PROVE  pc' \in {"advance", "clear", "tick"} => seen' = control'
<1>1. CASE Poll \/ ClearScenario \/ PauseAtTarget \/ Settle
  BY <1>1 DEF Poll, ClearScenario, PauseAtTarget, Settle, PutControl
<1>2. CASE ~Poll /\ ~ClearScenario /\ ~PauseAtTarget /\ ~Settle
  BY <1>2 DEF Next, Working, Start, ApplyScenario, NothingToRun,
         StartBatch, Tick, AppendEvent, FlushEmpty, Flush, FlushRefused, BumpEvents, Bump,
         WriteSnapshot, RefuseSnapshot, WriteLive, NextIteration, EndLoop, Exit, Stop, Crash,
         GetControl, Die, vars, workerVars
<1> QED
  BY <1>1, <1>2

\* The calls of a tick leave the request alone.
LEMMA CallsServe ==
    ASSUME Sound, LossInv, Served,
           \/ AppendEvent \/ FlushEmpty \/ Flush \/ BumpEvents \/ Bump \/ WriteSnapshot
           \/ WriteLive \/ NextIteration
    PROVE  Served'
<1>1. UNCHANGED <<pc, batch, left, control, owed, latest>> /\ live' \in {live, mem}
  BY DEF AppendEvent, FlushEmpty, Flush, BumpEvents, Bump, WriteSnapshot, WriteLive,
         NextIteration, ghostVars, storeVars
<1>2. SettlePending' => SettlePending
  BY NoNewSettle
<1>3. live' = mem => live' = latest
  <2>1. calls # <<>> /\ Head(calls) # "exit"
    BY DEF AppendEvent, FlushEmpty, Flush, BumpEvents, Bump, WriteSnapshot, WriteLive,
           NextIteration, NextCall
  <2>2. mem \in World
    BY <2>1, CallFinds DEF Sound
  <2> QED
    BY <2>2 DEF LossInv
<1>4. Moving(control)' <=> Moving(control)
  BY <1>1 DEF Moving
<1>5. Budget(control)' = Budget(control)
  BY <1>1 DEF Budget
<1> QED
  BY <1>1, <1>2, <1>3, <1>4, <1>5 DEF Served

\* A tick is one of those owed.
LEMMA TickServes ==
    ASSUME Sound, LossInv, Following, Tick, ~control.fast
    PROVE  Served'
<1>1. /\ pc = "tick" /\ left > 0 /\ mem \in World /\ mem.tick < MaxTick /\ latest = mem
      /\ left' = left - 1 /\ owed' = Larger(owed - 1, -1)
      /\ UNCHANGED <<pc, batch, control>>
  BY TickDoes DEF Sound, LossInv, Tick
<1>2. ~SettlePending'
  BY NoSettleInTick
<1>3. Served
  BY <1>1 DEF Following
<1>4. control.note # "step complete"
  BY <1>1, <1>3 DEF Served
<1>5. ASSUME control'.step > 0
      PROVE  owed' = control'.step - (batch' - left') /\ batch' = Budget(control)'
  <2>1. control.step \in Int /\ control.step > 0 /\ batch \in Nat /\ left \in Nat /\ owed \in Int
    <3>1. control \in ControlState /\ batch \in Nat /\ left \in Nat /\ owed \in Int
      BY DEF Sound, TypeOK
    <3> QED
      BY <1>1, <1>5, <3>1 DEF ControlState
  <2>2. owed = control.step - (batch - left) /\ batch = Budget(control)
    BY <1>1, <1>3, <2>1 DEF Served
  <2>3. batch <= control.step
    BY <2>1, <2>2, Constants DEF Budget, Smaller
  <2>4. owed' = owed - 1
    BY <1>1, <2>1, <2>2, <2>3 DEF Larger
  <2>5. Budget(control)' = Budget(control)
    BY <1>1 DEF Budget
  <2> QED
    BY <1>1, <2>1, <2>2, <2>4, <2>5
<1> QED
  BY <1>1, <1>2, <1>4, <1>5 DEF Served

LEMMA NoneLeft == ASSUME NEW c, c.step = 0 PROVE ~(c.step > 0)
<1>1. ~(0 > 0)
  OBVIOUS
<1> QED
  BY <1>1, Zenon

\* At the end of the batch what it ran is taken off the request, and the request is
\* complete when nothing is left of it.
LEMMA SettleServes ==
    ASSUME Sound, LossInv, Following, Settle, ~seen.scenario, ~control.fast,
           latest.tick < MaxTick
    PROVE  Served'
<1>1. calls # <<>> /\ Head(calls) = "settle" /\ calls[1] = "settle" /\ pc = "tick" /\ mem \in World
      /\ live = mem /\ latest = mem /\ SettlePending
  <2>1. calls # <<>> /\ Head(calls) = "settle"
    BY DEF Settle, NextCall
  <2>2. calls[1] = "settle" /\ pc = "tick" /\ mem \in World /\ Len(calls) \in Nat /\ Len(calls) >= 1
    BY <2>1, CallFinds DEF Sound
  <2>3. mem # NoValue
    BY <2>2, Constants
  <2>4. live = mem /\ latest = mem
    BY <2>1, <2>2, <2>3 DEF Sound, CallInv, MemoryInv, LossInv
  <2>5. SettlePending
    BY <2>2 DEF SettlePending
  <2> QED
    BY <2>1, <2>2, <2>4, <2>5
<1>2. Served /\ seen = control
  BY <1>1 DEF Following
<1>3. control.note # "step complete"
  BY <1>1, <1>2 DEF Served
<1>4. control \in ControlState /\ control.step \in Int /\ batch \in Nat /\ left \in Nat
  <2>1. control \in ControlState /\ batch \in Nat /\ left \in Nat
    BY DEF Sound, TypeOK
  <2> QED
    BY <2>1 DEF ControlState
<1>5. pc' = "poll" /\ UNCHANGED <<owed, live, latest>>
  BY DEF Settle, storeVars
<1>6. CASE seen.step > 0
  <2>1. owed = control.step - batch /\ batch <= control.step
    <3>1. owed = control.step - (batch - left) /\ batch = Budget(control) /\ left = 0
      BY <1>1, <1>2, <1>6 DEF Served
    <3> QED
      BY <1>2, <1>4, <1>6, <3>1, Constants DEF Budget, Smaller
  <2>2. RemainingStep = control.step - batch
    BY <1>2, <1>4, <2>1 DEF RemainingStep, Larger
  <2>3. CASE RemainingStep = 0 /\ seen.mode # "running"
    <3>1. PICK note \in {"", "reached target", "step complete"} : note = "step complete"
      OBVIOUS
    <3>2. control' = Paused(control, note)
      BY <1>2, <1>6, <2>3, <3>1 DEF Settle, PutControl
    <3>3. control'.mode = "paused" /\ control'.step = 0 /\ control'.scenario = control.scenario
      BY <1>4, <3>2, ControlIs
    <3>4. ~Moving(control)'
      <4>1. PICK c : c = control'
        OBVIOUS
      <4>2. c.mode # "running" /\ ~(c.step > 0)
        BY <3>3, <4>1, NoneLeft
      <4> QED
        BY <4>1, <4>2 DEF Moving
    <3>5. owed' = 0 /\ live' = latest'
      BY <1>1, <1>5, <2>1, <2>2, <2>3
    <3>6. ~control'.scenario
      BY <1>2, <3>3
    <3> QED
      BY <1>5, <3>3, <3>4, <3>5, <3>6 DEF Served
  <2>4. CASE ~(RemainingStep = 0 /\ seen.mode # "running")
    <3>1. control' = [control EXCEPT !.step = RemainingStep]
      BY <1>2, <1>6, <2>4 DEF Settle, PutControl
    <3>2. control'.note = control.note /\ control'.step = RemainingStep
      BY <1>4, <3>1 DEF ControlState
    <3>3. owed' = control'.step
      BY <1>5, <2>1, <2>2, <3>2
    <3> QED
      BY <1>3, <1>5, <3>2, <3>3 DEF Served
  <2> QED
    BY <2>3, <2>4
<1>7. CASE ~(seen.step > 0)
  <2>1. control' = control
    BY <1>7 DEF Settle
  <2> QED
    BY <1>2, <1>3, <1>5, <1>7, <2>1 DEF Served
<1> QED
  BY <1>6, <1>7

\* The rest of the loop leaves the request alone, too.
LEMMA LoopServes ==
    ASSUME Sound, LossInv, Orderly, Following, pc = "tick" => ~seen.scenario,
           ~control.fast, latest.tick < MaxTick,
           \/ Start \/ Poll \/ ApplyScenario \/ ClearScenario \/ NothingToRun \/ StartBatch
           \/ Stop \/ Exit \/ EndLoop \/ PauseAtTarget \/ UNCHANGED vars
    PROVE  Served'
<1>1. Served
  BY DEF Following
<1>2. control \in ControlState /\ seen \in ControlState /\ batch \in Nat /\ left \in Nat
  BY DEF Sound, TypeOK
<1>3. CASE Start \/ NothingToRun \/ UNCHANGED vars
  <2>1. UNCHANGED <<calls, control, owed, live, latest, batch, left>>
    BY <1>3 DEF Start, NothingToRun, vars, workerVars, storeVars, ghostVars
  <2>2. \/ pc' = pc
        \/ pc \notin {"tick"} /\ pc' = "poll"
    BY <1>3 DEF Start, NothingToRun, vars, workerVars
  <2> QED
    BY <1>1, <2>1, <2>2 DEF Served, Moving, SettlePending, Budget
<1>4. CASE Poll
  <2>1. pc = "poll" /\ (Moving(control) \/ control.scenario)
    BY <1>4 DEF Poll
  <2>2. control.note # "step complete"
    BY <1>1, <2>1 DEF Served
  <2>3. pc' = "advance" /\ control' = control /\ owed' = owed
    BY <1>4 DEF Poll
  <2>4. control.step > 0 => owed = control.step
    BY <1>1, <1>4 DEF Poll, Served
  <2> QED
    BY <2>2, <2>3, <2>4 DEF Served
<1>5. CASE ApplyScenario
  <2>1. pc = "advance" /\ pc' = "clear" /\ control' = control /\ owed' = owed
    BY <1>5 DEF ApplyScenario
  <2> QED
    BY <1>1, <2>1 DEF Served
<1>6. CASE ClearScenario
  <2>1. /\ pc = "clear" /\ pc' = "advance" /\ owed' = owed /\ seen = control
        /\ control' = [control EXCEPT !.scenario = FALSE]
    BY <1>6 DEF ClearScenario, PutControl, Following
  <2>2. control'.note = control.note /\ control'.step = control.step
    BY <1>2, <2>1 DEF ControlState
  <2> QED
    BY <1>1, <2>1, <2>2 DEF Served
<1>7. CASE StartBatch
  <2>1. /\ pc = "advance" /\ pc' = "tick" /\ seen = control /\ batch' = Budget(seen)
        /\ left' = Budget(seen) /\ calls' = calls /\ control' = control /\ owed' = owed
    BY <1>7 DEF StartBatch, Following, ghostVars
  <2>2. Budget(control)' = Budget(control) /\ Budget(control) \in Nat
    BY <1>2, <2>1, BudgetIs DEF Budget
  <2>3. calls = <<>>
    BY <2>1 DEF Sound, CallInv, QueueInv
  <2>4. ~SettlePending'
    BY <2>1, <2>3 DEF SettlePending
  <2>5. control.note # "step complete" /\ (control.step > 0 => owed = control.step)
    BY <1>1, <2>1 DEF Served
  <2>6. batch' - left' = 0 /\ batch' = Budget(control)'
    BY <2>1, <2>2
  <2>7. control.step \in Int
    BY <1>2 DEF ControlState
  <2>8. control'.step > 0 => owed' = control'.step - (batch' - left')
    <3>1. PICK n \in Int : n = control.step
      BY <2>7
    <3>2. n - 0 = n /\ control'.step = n
      BY <2>1, <3>1
    <3> QED
      BY <2>1, <2>5, <2>6, <3>1, <3>2
  <2> QED
    BY <2>1, <2>4, <2>5, <2>6, <2>8 DEF Served
<1>8. CASE Stop
  <2>1. pc = "poll" /\ UNCHANGED <<pc, control, owed, live, latest>>
    BY <1>8 DEF Stop, storeVars
  <2> QED
    BY <1>1, <2>1 DEF Served, Moving
<1>9. CASE Exit
  <2>1. pc' = "down" /\ UNCHANGED <<control, owed, live, latest>>
    BY <1>9 DEF Exit, Die, storeVars, ghostVars
  <2>2. pc = "poll"
    BY <1>9, CallFinds DEF Exit, NextCall, Sound
  <2> QED
    BY <1>1, <2>1, <2>2 DEF Served, Moving
<1>10. CASE EndLoop
  <2>1. calls # <<>> /\ Head(calls) = "end_of_tick"
    BY <1>10 DEF EndLoop, NextCall
  <2>2. pc = "tick" /\ mem \in World
    BY <2>1, CallFinds DEF Sound
  <2>3. seen = control /\ latest = mem
    BY <2>2 DEF Following, LossInv
  <2>4. mem.tick \in Nat /\ ~seen.fast
    BY <2>2, <2>3 DEF World
  <2>5. left = 0
    BY <1>10, <2>3, <2>4, Constants DEF EndLoop
  <2>6. UNCHANGED <<pc, control, owed, live, latest, batch, left>>
    BY <1>10 DEF EndLoop, storeVars, ghostVars
  <2>7. Budget(control)' = Budget(control)
    BY <2>6 DEF Budget
  <2> QED
    BY <1>1, <2>2, <2>5, <2>6, <2>7 DEF Served
<1>11. CASE PauseAtTarget
  <2>1. PICK note \in {"", "reached target", "step complete"} :
          note = "reached target" /\ control' = Paused(seen, note)
    BY <1>11 DEF PauseAtTarget, PutControl
  <2>2. control'.note = "reached target" /\ control'.step = 0
    BY <1>2, <2>1, ControlIs
  <2>3. ~(control'.step > 0)
    BY <2>2, NoneLeft
  <2> QED
    BY <2>2, <2>3 DEF Served
<1> QED
  BY <1>3, <1>4, <1>5, <1>6, <1>7, <1>8, <1>9, <1>10, <1>11

\* The only request, being served, goes on being served.
LEMMA FollowingKept ==
    ASSUME Inv, counts.crashes = 0, counts'.crashes = 0, Stepping, [Next]_vars,
           counts'.requests = 1, request' = NoValue
    PROVE  Following'
<1>1. Sound /\ LossInv /\ Orderly
  BY DEF Inv, OrderlyInv
<1>2. CASE GetControl
  <2>1. control = Idle /\ pc \in {"down", "poll"} /\ control' = control /\ pc' = pc
    BY <1>1, <1>2, GetCounts DEF Stepping, Unasked, workerVars
  <2>2. Idle.note = "" /\ ~(Idle.step > 0)
    BY DEF Idle
  <2>3. control'.note # "step complete" /\ ~(control'.step > 0)
    BY <2>1, <2>2
  <2> QED
    BY <2>1, <2>3 DEF Following, Served
<1>3. CASE SetControl
  BY <1>1, <1>3, AskedFollows DEF Stepping
<1>4. CASE ~GetControl /\ ~SetControl
  <2>1. counts'.requests = counts.requests /\ request' = request
    BY <1>1, <1>4, OperatorAlone
  <2>2. Following
    BY <2>1 DEF Stepping
  <2>3. pc' \in {"advance", "clear", "tick"} => seen' = control'
    BY <1>4, <2>2, SeenIsStored DEF Following
  <2>4. ~Crash
    <3>1. counts \in [{"crashes", "stops", "requests", "refused"} -> Nat]
      BY <1>1 DEF Sound, TypeOK
    <3> QED
      BY <3>1 DEF Crash, Count
  <2>5. ~FlushRefused /\ ~RefuseSnapshot
    BY <1>1, NothingRefused
  <2>6. SUFFICES ASSUME ~control'.fast, latest'.tick < MaxTick PROVE Served'
    BY <2>3 DEF Following
  <2>7. ~control.fast
    <3>1. control \in ControlState /\ seen \in ControlState
      BY <1>1 DEF Sound, TypeOK
    <3>2. \/ control' = control
          \/ control'.fast = seen.fast /\ pc \in {"advance", "clear", "tick"}
      <4>1. CASE ClearScenario
        BY <3>1, <4>1 DEF ClearScenario, PutControl, ControlState
      <4>2. CASE PauseAtTarget
        <5>1. pc = "tick"
          BY <1>1, <4>2, CallFinds DEF PauseAtTarget, NextCall, Sound
        <5>2. control' = Paused(seen, "reached target")
          BY <4>2 DEF PauseAtTarget, PutControl
        <5> QED
          BY <3>1, <5>1, <5>2 DEF Paused, ControlState
      <4>3. CASE Settle
        <5>1. pc = "tick"
          BY <1>1, <4>3, CallFinds DEF Settle, NextCall, Sound
        <5>2. \/ control' = control \/ control' = Paused(seen, "step complete")
              \/ control' = [seen EXCEPT !.step = RemainingStep]
          BY <4>3 DEF Settle, PutControl
        <5> QED
          BY <3>1, <5>1, <5>2 DEF Paused, ControlState
      <4>4. CASE ~ClearScenario /\ ~PauseAtTarget /\ ~Settle
        <5>1. control' = control
          BY <1>4, <2>4, <2>5, <4>4 DEF Next, Working, Start, Poll, ApplyScenario,
             NothingToRun,
             StartBatch, Tick, AppendEvent, FlushEmpty, Flush, BumpEvents, Bump,
             WriteSnapshot, WriteLive, NextIteration, EndLoop, Exit, Stop, vars
        <5> QED
          BY <5>1
      <4> QED
        BY <4>1, <4>2, <4>3, <4>4
    <3> QED
      BY <2>2, <2>6, <3>2 DEF Following
  <2>8. latest.tick < MaxTick
    <3>1. CASE Tick
      <4>1. mem \in World /\ mem.tick < MaxTick /\ latest = mem
        BY <1>1, <3>1, TickDoes DEF Sound, LossInv
      <4> QED
        BY <4>1
    <3>2. CASE Poll
      <4>1. latest' = latest
        BY <1>1, <3>2 DEF Poll, Orderly, LossInv, Sound, TypeOK
      <4> QED
        BY <2>6, <4>1
    <3>3. CASE ApplyScenario
      <4>1. mem \in World /\ latest = mem
        BY <1>1, <3>3 DEF ApplyScenario, Sound, CallInv, MemoryInv, LossInv
      <4>2. latest'.tick = mem.tick
        BY <3>3, <4>1, ChangedWorldIs DEF ApplyScenario
      <4> QED
        BY <2>6, <4>1, <4>2
    <3>4. CASE ~Tick /\ ~Poll /\ ~ApplyScenario
      <4>1. latest' = latest
        BY <1>4, <2>4, <2>5, <3>4 DEF Next, Working, Start, ClearScenario, NothingToRun,
           StartBatch, AppendEvent, FlushEmpty, Flush, BumpEvents, Bump,
           WriteSnapshot, WriteLive, PauseAtTarget, NextIteration, EndLoop, Settle, Exit, Stop,
           vars, ghostVars
      <4> QED
        BY <2>6, <4>1
    <3> QED
      BY <3>1, <3>2, <3>3, <3>4
  <2>9. Served
    BY <2>2, <2>7, <2>8 DEF Following
  <2>10. CASE \/ AppendEvent \/ FlushEmpty \/ Flush \/ BumpEvents \/ Bump \/ WriteSnapshot
              \/ WriteLive \/ NextIteration
    BY <1>1, <2>9, <2>10, CallsServe
  <2>11. CASE Tick
    BY <1>1, <2>2, <2>7, <2>11, TickServes
  <2>12. CASE Settle
    <3>1. pc = "tick"
      BY <1>1, <2>12, CallFinds DEF Settle, NextCall, Sound
    <3>2. ~seen.scenario
      BY <3>1 DEF Stepping
    <3> QED
      BY <1>1, <2>2, <2>7, <2>8, <2>12, <3>2, SettleServes
  <2>13. CASE \/ Start \/ Poll \/ ApplyScenario \/ ClearScenario \/ NothingToRun \/ StartBatch
              \/ Stop \/ Exit \/ EndLoop \/ PauseAtTarget \/ UNCHANGED vars
    BY <1>1, <2>2, <2>7, <2>8, <2>13, LoopServes DEF Stepping
  <2> QED
    BY <1>4, <2>4, <2>5, <2>10, <2>11, <2>12, <2>13 DEF Next, Working
<1> QED
  BY <1>2, <1>3, <1>4

LEMMA StepKept == ASSUME Inv, StepInv, [Next]_vars PROVE StepInv'
<1>1. SUFFICES ASSUME counts'.crashes = 0 PROVE Stepping'
  BY DEF StepInv
<1>2. counts.crashes = 0
  <2>1. counts \in [{"crashes", "stops", "requests", "refused"} -> Nat]
    BY DEF Inv, Sound, TypeOK
  <2>2. \/ counts' = counts
        \/ \E c \in {"stops", "requests", "crashes"} : Count(c)
        \/ counts' = [counts EXCEPT !.refused = 1]
    BY DEF Next, Working, Start, Poll, ApplyScenario, ClearScenario, NothingToRun,
       StartBatch,
           Tick, AppendEvent, FlushEmpty, Flush, FlushRefused, BumpEvents, Bump, WriteSnapshot,
           RefuseSnapshot, WriteLive, PauseAtTarget, NextIteration, EndLoop, Settle, Exit, Stop,
           Crash, GetControl, SetControl, vars, ghostVars
  <2> QED
    BY <1>1, <2>1, <2>2 DEF Count
<1>3. Stepping /\ Sound
  BY <1>2 DEF StepInv, Inv
<1>4. Unasked'
  BY <1>3, UnaskedKept DEF Stepping
<1>5. pc' = "tick" => ~seen'.scenario
  BY <1>3, ScenarioFirst DEF Stepping
<1>6. counts'.requests = 1 /\ request' = NoValue => Following'
  BY <1>1, <1>2, <1>3, FollowingKept
<1> QED
  BY <1>4, <1>5, <1>6 DEF Stepping

\* "step complete" is true, as long as the worker is not killed and the operator has
\* asked for nothing else: the ticks asked for have run, no more and no fewer, and the
\* world they led to is published.
THEOREM StepsAreComplete == Spec => [](counts.crashes = 0 => StepCompleteIsTrue)
<1>1. Init => StepInv
  BY DEF Init, StepInv, Stepping, Unasked
<1>2. Inv /\ StepInv => (counts.crashes = 0 => StepCompleteIsTrue)
  <2>1. SUFFICES ASSUME StepInv, counts.crashes = 0, control.note = "step complete",
                        counts.requests = 1, ~control.fast, latest.tick < MaxTick
                 PROVE  owed = 0 /\ live = latest
    BY DEF StepCompleteIsTrue
  <2>2. request = NoValue
    <3>1. Idle.note = ""
      BY DEF Idle
    <3> QED
      BY <2>1, <3>1 DEF StepInv, Stepping, Unasked
  <2> QED
    BY <2>1, <2>2 DEF StepInv, Stepping, Following, Served
<1>3. Inv /\ StepInv /\ [Next]_vars => StepInv'
  BY StepKept
<1> QED
  BY <1>1, <1>2, <1>3, InvThroughout, PTL DEF Spec

-----------------------------------------------------------------------------
(* Crashes: the course of a world no scenario is applied to. *)

Courses(g, n) ==
    /\ g \in [0..n -> World] /\ g[0] = Genesis
    /\ \A t \in 1..n : g[t] = Ticked(g[t - 1])
    /\ \A t \in 0..n : g[t].tick = t /\ g[t].inputs = <<>>

LEMMA SomethingCourses == \E g : Courses(g, MaxTick)
<1>1. MaxTick \in Nat
  BY Constants
<1> DEFINE T == {n \in 0..MaxTick : \E g : Courses(g, n)}
<1>2. 0 \in T
  <2>1. Genesis \in World /\ Genesis.tick = 0 /\ Genesis.inputs = <<>>
    BY DEF Genesis, World
  <2>2. PICK g : g = [t \in 0..0 |-> Genesis]
    OBVIOUS
  <2>3. Courses(g, 0)
    BY <2>1, <2>2 DEF Courses
  <2> QED
    BY <1>1, <2>3
<1>3. ASSUME NEW n \in 1..MaxTick, n - 1 \in T PROVE n \in T
  <2>1. PICK g : Courses(g, n - 1)
    BY <1>3
  <2>2. PICK h : h = [t \in 0..n |-> IF t = n THEN Ticked(g[n - 1]) ELSE g[t]]
    OBVIOUS
  <2>3. n \in Nat /\ n - 1 \in Nat /\ n - 1 \in 0..(n - 1) /\ n - 1 < MaxTick /\ (n - 1) + 1 = n
    BY <1>1
  <2>4. g[n - 1] \in World /\ g[n - 1].tick = n - 1 /\ g[n - 1].inputs = <<>>
    BY <2>1, <2>3 DEF Courses
  <2>5. Ticked(g[n - 1]) \in World /\ Ticked(g[n - 1]).tick = n /\ Ticked(g[n - 1]).inputs = <<>>
    <3>1. PICK w \in World : w = g[n - 1]
      BY <2>4
    <3>2. Ticked(w) \in World /\ Ticked(w).tick = w.tick + 1 /\ Ticked(w).inputs = w.inputs
      BY <2>3, <2>4, <3>1, TickedIs
    <3> QED
      BY <2>3, <2>4, <3>1, <3>2
  <2>6. \A t \in 0..(n - 1) : t \in 0..n /\ t # n /\ h[t] = g[t]
    BY <2>2, <2>3
  <2>7. h[n] = Ticked(g[n - 1])
    BY <2>2, <2>3
  <2>8. \A t \in 0..n : h[t] \in World /\ h[t].tick = t /\ h[t].inputs = <<>>
    <3>1. SUFFICES ASSUME NEW t \in 0..n PROVE h[t] \in World /\ h[t].tick = t /\ h[t].inputs = <<>>
      OBVIOUS
    <3>2. t = n \/ t \in 0..(n - 1)
      BY <2>3
    <3>3. CASE t = n
      BY <2>5, <2>7, <3>3
    <3>4. CASE t \in 0..(n - 1)
      BY <2>1, <2>6, <3>4 DEF Courses
    <3> QED
      BY <3>2, <3>3, <3>4
  <2>9. \A t \in 1..n : h[t] = Ticked(h[t - 1])
    <3>1. SUFFICES ASSUME NEW t \in 1..n PROVE h[t] = Ticked(h[t - 1])
      OBVIOUS
    <3>2. t - 1 \in 0..(n - 1) /\ h[t - 1] = g[t - 1] /\ (t = n \/ t \in 1..(n - 1))
      BY <2>3, <2>6
    <3>3. CASE t = n
      BY <2>7, <3>2, <3>3
    <3>4. CASE t \in 1..(n - 1)
      <4>1. g[t] = Ticked(g[t - 1]) /\ h[t] = g[t]
        BY <2>1, <2>3, <2>6, <3>4 DEF Courses
      <4> QED
        BY <3>2, <4>1
    <3> QED
      BY <3>2, <3>3, <3>4
  <2>10. h \in [0..n -> World] /\ h[0] = Genesis
    <3>1. h[0] = g[0] /\ g[0] = Genesis
      BY <2>1, <2>3, <2>6 DEF Courses
    <3>2. DOMAIN h = 0..n /\ h = [t \in 0..n |-> h[t]]
      BY <2>2
    <3> QED
      BY <2>8, <3>1, <3>2
  <2>11. Courses(h, n)
    BY <2>8, <2>9, <2>10 DEF Courses
  <2> QED
    BY <1>1, <2>11
<1>4. 0..MaxTick \subseteq T
  <2> HIDE DEF T
  <2> QED
    BY <1>1, <1>2, <1>3, BoundedInduction
<1> QED
  BY <1>1, <1>4

LEMMA CourseIs == Courses(Course, MaxTick)
<1>1. PICK g : Courses(g, MaxTick)
  BY SomethingCourses
<1>2. MaxTick \in Nat
  BY Constants
<1>3. g = [t \in 0..MaxTick |-> IF t = 0 THEN Genesis ELSE Ticked(g[t - 1])]
  <2>1. g \in [0..MaxTick -> World]
    BY <1>1 DEF Courses
  <2>2. \A t \in 0..MaxTick : g[t] = IF t = 0 THEN Genesis ELSE Ticked(g[t - 1])
    <3>1. SUFFICES ASSUME NEW t \in 0..MaxTick
                   PROVE  g[t] = IF t = 0 THEN Genesis ELSE Ticked(g[t - 1])
      OBVIOUS
    <3>2. t = 0 \/ t \in 1..MaxTick
      BY <1>2
    <3> QED
      BY <1>1, <3>2 DEF Courses
  <2> QED
    BY <2>1, <2>2
<1> DEFINE Def(f) == f = [t \in 0..MaxTick |-> IF t = 0 THEN Genesis ELSE Ticked(f[t - 1])]
<1>4. Course = CHOOSE f : Def(f)
  BY DEF Course
<1>5. PICK c : c = Course /\ Def(c)
  <2>1. Def(g)
    BY <1>3
  <2> HIDE DEF Def
  <2> QED
    BY <1>4, <2>1, Zenon
<1>6. \A t \in 0..MaxTick : c[t] = IF t = 0 THEN Genesis ELSE Ticked(c[t - 1])
  BY <1>5
<1>7. DOMAIN c = 0..MaxTick /\ c = [t \in 0..MaxTick |-> c[t]]
  BY <1>5
<1>8. c[0] = Genesis /\ \A t \in 1..MaxTick : c[t] = Ticked(c[t - 1])
  BY <1>2, <1>6
<1> DEFINE T == {t \in 0..MaxTick : c[t] = g[t]}
<1>9. 0 \in T
  BY <1>1, <1>2, <1>8 DEF Courses
<1>10. ASSUME NEW t \in 1..MaxTick, t - 1 \in T PROVE t \in T
  <2>1. c[t] = Ticked(c[t - 1]) /\ g[t] = Ticked(g[t - 1]) /\ c[t - 1] = g[t - 1]
    BY <1>1, <1>8, <1>10 DEF Courses
  <2> QED
    BY <1>2, <2>1
<1>11. 0..MaxTick \subseteq T
  <2> HIDE DEF T
  <2> QED
    BY <1>2, <1>9, <1>10, BoundedInduction
<1>12. c = g
  <2>1. \A t \in 0..MaxTick : c[t] = g[t]
    BY <1>11
  <2>2. g \in [0..MaxTick -> World]
    BY <1>1 DEF Courses
  <2> QED
    BY <1>7, <2>1, <2>2
<1> QED
  BY <1>1, <1>5, <1>12

\* What is on course stays on course.
LEMMA TickOnCourse ==
    ASSUME NEW w \in World, OnCourse(w), w.tick < MaxTick
    PROVE  OnCourse(Ticked(w))
<1>1. Ticked(w).tick = w.tick + 1 /\ Ticked(w).inputs = w.inputs
  BY TickedIs
<1>2. SUFFICES ASSUME w.inputs = <<>>
               PROVE  Ticked(w).tick \in 0..MaxTick /\ Ticked(w) = Course[Ticked(w).tick]
  BY <1>1 DEF OnCourse
<1>3. w.tick \in 0..MaxTick /\ w = Course[w.tick]
  BY <1>2 DEF OnCourse
<1>4. PICK t \in 1..MaxTick : t = w.tick + 1 /\ t - 1 = w.tick
  BY <1>3, Constants
<1>5. Course[t] = Ticked(Course[t - 1])
  BY CourseIs DEF Courses
<1> QED
  BY <1>1, <1>3, <1>4, <1>5

\* Each past of the course begins the one that is expected in the end, and is numbered
\* from 1.
LEMMA ExpectedIs ==
    /\ Expected \in Seq(Event)
    /\ \A k \in 1..Len(Expected) : Expected[k].id = k
    /\ \A t \in 0..MaxTick : AsExpected(Course[t].past)
<1>1. MaxTick \in Nat
  BY Constants
<1>2. \A t \in 0..MaxTick : Course[t] \in World /\ Course[t].tick = t /\ Course[t].inputs = <<>>
  BY CourseIs DEF Courses
<1>3. \A t \in 0..MaxTick : Course[t].past \in Seq(Event) /\ Len(Course[t].past) \in Nat
  BY <1>2, LenProperties DEF World
<1> DEFINE Begins(p, q) == Len(p) <= Len(q) /\ \A k \in 1..Len(p) : p[k] = q[k]
           Counted(p) == \A k \in 1..Len(p) : p[k].id = k
           T == {n \in 0..MaxTick : /\ Counted(Course[n].past)
                                    /\ \A t \in 0..n : Begins(Course[t].past, Course[n].past)}
<1>4. 0 \in T
  <2>1. Course[0].past = <<>>
    BY CourseIs DEF Courses, Genesis
  <2>2. Len(<<>>) = 0
    OBVIOUS
  <2>3. Counted(Course[0].past)
    BY <2>1, <2>2
  <2>4. \A t \in 0..0 : Begins(Course[t].past, Course[0].past)
    <3>1. SUFFICES ASSUME NEW t \in 0..0 PROVE Begins(Course[t].past, Course[0].past)
      OBVIOUS
    <3>2. t = 0
      OBVIOUS
    <3> QED
      BY <2>1, <2>2, <3>2
  <2> QED
    BY <1>1, <2>3, <2>4
<1>5. ASSUME NEW n \in 1..MaxTick, n - 1 \in T PROVE n \in T
  <2>1. n - 1 \in 0..MaxTick /\ n - 1 < MaxTick /\ n \in 0..MaxTick
    BY <1>1
  <2>2. PICK w \in World : w = Course[n - 1] /\ w.tick < MaxTick /\ w.inputs = <<>>
    BY <1>2, <2>1
  <2>3. Course[n] = Ticked(w)
    BY <2>2, CourseIs DEF Courses
  <2>4. PICK p \in Seq(Event), f \in Seq(Event) : p = w.past /\ f = NewEvents(w)
    BY <2>2, NewEventsAre DEF World
  <2>5. PICK q \in Seq(Event) :
          /\ q = p \o f /\ Len(q) = Len(p) + Len(f)
          /\ \A i \in 1..Len(p) : q[i] = p[i]
          /\ \A i \in 1..Len(f) : q[Len(p) + i] = f[i]
          /\ \A i \in 1..Len(q) : i > Len(p) => i - Len(p) \in 1..Len(f) /\ q[i] = f[i - Len(p)]
    BY JoinIs
  <2>6. Course[n].past = q
    BY <2>2, <2>3, <2>4, <2>5, TickedIs
  <2>7. Len(p) \in Nat /\ Len(f) \in Nat
    BY LenProperties
  <2>8. Counted(p) /\ \A t \in 0..(n - 1) : Begins(Course[t].past, p)
    BY <1>5, <2>2, <2>4
  <2>9. \A k \in 1..Len(f) : f[k].id = Len(p) + k
    <3>1. Len(w.inputs) = 0
      BY <2>2
    <3>2. \A k \in 1..Len(f) : f[k].id = Len(p) + Len(w.inputs) + k
      BY <2>2, <2>4, NewEventsAre
    <3> QED
      BY <2>7, <3>1, <3>2
  <2>10. Counted(q)
    <3>1. SUFFICES ASSUME NEW k \in 1..Len(q) PROVE q[k].id = k
      OBVIOUS
    <3>2. CASE k > Len(p)
      <4>1. k - Len(p) \in 1..Len(f) /\ q[k] = f[k - Len(p)]
        BY <2>5, <3>2
      <4>2. f[k - Len(p)].id = Len(p) + (k - Len(p))
        BY <2>9, <4>1
      <4> QED
        BY <2>7, <4>1, <4>2
    <3>3. CASE ~(k > Len(p))
      <4>1. k \in 1..Len(p)
        BY <2>7, <3>3
      <4> QED
        BY <2>5, <2>8, <4>1
    <3> QED
      BY <3>2, <3>3
  <2>11. \A t \in 0..n : Begins(Course[t].past, q)
    <3>1. SUFFICES ASSUME NEW t \in 0..n PROVE Begins(Course[t].past, q)
      OBVIOUS
    <3>2. CASE t = n
      <4>1. Len(q) \in Nat
        BY LenProperties
      <4> QED
        BY <2>6, <3>2, <4>1
    <3>3. CASE t # n
      <4>1. t \in 0..(n - 1) /\ t \in 0..MaxTick
        BY <1>1, <3>3
      <4>2. PICK c \in Seq(Event) : c = Course[t].past
        BY <1>3, <4>1
      <4>3. Begins(c, p) /\ Len(c) \in Nat
        BY <2>8, <4>1, <4>2, LenProperties
      <4>4. \A k \in 1..Len(c) : k \in 1..Len(p)
        BY <2>7, <4>3
      <4>5. Begins(c, q)
        BY <2>5, <2>7, <4>3, <4>4
      <4> QED
        BY <4>2, <4>5
    <3> QED
      BY <3>2, <3>3
  <2> QED
    BY <2>1, <2>6, <2>10, <2>11
<1>6. 0..MaxTick \subseteq T
  <2> HIDE DEF T
  <2> QED
    BY <1>1, <1>4, <1>5, BoundedInduction
<1>7. MaxTick \in T
  BY <1>1, <1>6
<1> QED
  BY <1>1, <1>3, <1>7 DEF Expected, AsExpected

LEMMA CoursePast ==
    ASSUME NEW w \in World, OnCourse(w), w.inputs = <<>>
    PROVE  AsExpected(w.past)
  BY ExpectedIs DEF OnCourse

\* The first rows of what is expected, and what has all the rows they have.
LEMMA AsManyRows ==
    ASSUME NEW p \in Seq(Event), NEW rows \in Seq(Event), AsExpected(p), AsExpected(rows),
           Elements(p) \subseteq Elements(rows)
    PROVE  Len(p) <= Len(rows)
<1>1. PICK m \in Nat, n \in Nat : m = Len(p) /\ n = Len(rows)
  <2>1. Len(p) \in Nat /\ Len(rows) \in Nat
    BY LenProperties
  <2> QED
    BY <2>1, Zenon
<1>2. PICK l \in Nat : l = Len(Expected)
  BY ExpectedIs, LenProperties
<1>3. SUFFICES ASSUME m >= 1 PROVE m <= n
  BY <1>1
<1>4. DOMAIN p = 1..m /\ DOMAIN rows = 1..n
  BY <1>1, LenProperties
<1>5. p[m] \in Elements(p)
  BY <1>3, <1>4 DEF Elements
<1>6. PICK j \in 1..n : rows[j] = p[m]
  BY <1>4, <1>5 DEF Elements
<1>7. p[m] = Expected[m] /\ rows[j] = Expected[j] /\ m \in 1..l /\ j \in 1..l
  BY <1>1, <1>2, <1>3 DEF AsExpected
<1>8. Expected[m].id = m /\ Expected[j].id = j
  BY <1>2, <1>7, ExpectedIs
<1> QED
  BY <1>6, <1>7, <1>8

\* What is expected to come next is there or is added.
LEMMA FlushOnCourse ==
    ASSUME events \in Seq(Event), buffer \in Seq(Event), store.postgres, AsExpected(events),
           NEW past \in Seq(Event), NEW whole \in Seq(Event), whole = past \o buffer,
           AsExpected(whole), Len(past) <= Len(events)
    PROVE  \E rows \in Seq(Event) :
             /\ rows = Inserted[Len(buffer)] /\ AsExpected(rows) /\ Len(whole) <= Len(rows)
<1>1. PICK b \in Nat, n \in Nat, l \in Nat : b = Len(past) /\ n = Len(buffer) /\ l = Len(Expected)
  <2>1. Len(past) \in Nat /\ Len(buffer) \in Nat /\ Len(Expected) \in Nat
    BY ExpectedIs, LenProperties
  <2> QED
    BY <2>1, Zenon
<1>2. Len(whole) = b + n /\ \A i \in 1..n : whole[b + i] = buffer[i]
  <2>1. PICK c \in Seq(Event) :
          /\ c = past \o buffer /\ Len(c) = Len(past) + Len(buffer)
          /\ \A i \in 1..Len(past) : c[i] = past[i]
          /\ \A i \in 1..Len(buffer) : c[Len(past) + i] = buffer[i]
          /\ \A i \in 1..Len(c) : i > Len(past) => i - Len(past) \in 1..Len(buffer) /\ c[i] = buffer[i - Len(past)]
    BY JoinIs
  <2> QED
    BY <1>1, <2>1
<1>3. b + n <= l /\ \A i \in 1..n : b + i \in 1..l /\ buffer[i] = Expected[b + i]
  <2>1. b + n <= l
    BY <1>1, <1>2 DEF AsExpected
  <2>2. \A i \in 1..n : b + i \in 1..(b + n) /\ b + i \in 1..l
    BY <2>1
  <2>3. \A k \in 1..(b + n) : whole[k] = Expected[k]
    BY <1>2 DEF AsExpected
  <2> QED
    BY <1>2, <2>1, <2>2, <2>3
<1> DEFINE R == {p \in Nat \X Seq(Event) : AsExpected(p[2]) /\ b + p[1] <= Len(p[2])}
<1>4. <<0, events>> \in R
  <2>1. Len(events) \in Nat
    BY LenProperties
  <2> QED
    BY <1>1, <2>1
<1>5. ASSUME NEW k \in 1..Len(buffer), NEW rows \in Seq(Event), <<k - 1, rows>> \in R
      PROVE  <<k, Insert(rows, buffer[k])>> \in R
  <2>1. k \in 1..n /\ k \in Nat /\ buffer[k] \in Event
    BY <1>1, <1>5, ElementOfSeq
  <2>2. PICK m \in Nat : m = Len(rows)
    BY LenProperties
  <2>3. AsExpected(rows) /\ b + (k - 1) <= m
    BY <1>5, <2>2
  <2>4. DOMAIN rows = 1..m
    BY <2>2, LenProperties
  <2>5. b + k \in 1..l /\ buffer[k] = Expected[b + k] /\ buffer[k].id = b + k
    BY <1>1, <1>3, <2>1, ExpectedIs
  <2>6. CASE b + k <= m
    <3>1. b + k \in 1..m /\ rows[b + k] = buffer[k]
      BY <2>1, <2>2, <2>3, <2>5, <2>6 DEF AsExpected
    <3>2. Insert(rows, buffer[k]) = rows
      BY <2>1, <2>4, <3>1, InsertIs
    <3> QED
      BY <2>1, <2>2, <2>3, <2>6, <3>2
  <2>7. CASE ~(b + k <= m)
    <3>1. b + k = m + 1
      BY <2>1, <2>3, <2>7
    <3>2. ASSUME NEW j \in DOMAIN rows PROVE rows[j].id # buffer[k].id
      <4>1. j \in 1..m /\ j \in 1..l
        BY <1>1, <2>2, <2>3, <2>4 DEF AsExpected
      <4>2. rows[j].id = j
        BY <1>1, <2>2, <2>3, <4>1, ExpectedIs DEF AsExpected
      <4> QED
        BY <2>5, <2>7, <4>1, <4>2
    <3>3. Insert(rows, buffer[k]) # rows
      BY <2>1, <3>2, InsertIs
    <3>4. Insert(rows, buffer[k]) = Append(rows, buffer[k])
      BY <2>1, <3>3, InsertIs
    <3>5. PICK new \in Seq(Event) :
            /\ new = Insert(rows, buffer[k]) /\ Len(new) = m + 1
            /\ \A i \in 1..m : new[i] = rows[i]
            /\ new[m + 1] = buffer[k]
      <4>1. /\ Append(rows, buffer[k]) \in Seq(Event) /\ Len(Append(rows, buffer[k])) = m + 1
            /\ \A i \in 1..m : Append(rows, buffer[k])[i] = rows[i]
            /\ Append(rows, buffer[k])[m + 1] = buffer[k]
        BY <2>1, <2>2, AppendProperties
      <4> QED
        BY <3>4, <4>1, Zenon
    <3>6. AsExpected(new)
      <4>1. Len(new) <= Len(Expected)
        BY <1>1, <2>5, <3>1, <3>5
      <4>2. ASSUME NEW i \in 1..Len(new) PROVE new[i] = Expected[i]
        <5>1. i \in 1..m \/ i = m + 1
          BY <3>5
        <5>2. CASE i \in 1..m
          BY <2>2, <2>3, <3>5, <5>2 DEF AsExpected
        <5>3. CASE i = m + 1
          BY <2>5, <3>1, <3>5, <5>3
        <5> QED
          BY <5>1, <5>2, <5>3
      <4> QED
        BY <4>1, <4>2 DEF AsExpected
    <3>7. b + k <= Len(new)
      BY <3>1, <3>5
    <3> QED
      BY <2>1, <3>5, <3>6, <3>7
  <2> QED
    BY <2>6, <2>7
<1>6. <<Len(buffer), Inserted[Len(buffer)]>> \in R
  <2> HIDE DEF R
  <2> QED
    BY <1>4, <1>5, FlushInduction
<1> QED
  BY <1>1, <1>2, <1>6

\* FileStore writes every event.
LEMMA FlushWrites ==
    ASSUME events \in Seq(Event), buffer \in Seq(Event), ~store.postgres
    PROVE  Elements(events) \cup Elements(buffer) \subseteq Elements(Inserted[Len(buffer)])
<1>1. PICK n \in Nat : n = Len(buffer) /\ DOMAIN buffer = 1..n
  BY LenProperties
<1> DEFINE R == {p \in Nat \X Seq(Event) :
                   /\ Elements(events) \subseteq Elements(p[2])
                   /\ \A i \in 1..p[1] : buffer[i] \in Elements(p[2])}
<1>2. <<0, events>> \in R
  OBVIOUS
<1>3. ASSUME NEW k \in 1..Len(buffer), NEW rows \in Seq(Event), <<k - 1, rows>> \in R
      PROVE  <<k, Insert(rows, buffer[k])>> \in R
  <2>1. k \in 1..n /\ k \in Nat /\ buffer[k] \in Event
    BY <1>1, <1>3, ElementOfSeq
  <2>2. PICK m \in Nat : m = Len(rows) /\ DOMAIN rows = 1..m
    BY LenProperties
  <2>3. Insert(rows, buffer[k]) = Append(rows, buffer[k])
    BY DEF Insert
  <2>4. PICK new \in Seq(Event) :
          /\ new = Insert(rows, buffer[k]) /\ DOMAIN new = 1..(m + 1)
          /\ \A i \in 1..m : new[i] = rows[i]
          /\ new[m + 1] = buffer[k]
    <3>1. /\ Append(rows, buffer[k]) \in Seq(Event) /\ Len(Append(rows, buffer[k])) = m + 1
          /\ \A i \in 1..m : Append(rows, buffer[k])[i] = rows[i]
          /\ Append(rows, buffer[k])[m + 1] = buffer[k]
      BY <2>1, <2>2, AppendProperties
    <3>2. DOMAIN Append(rows, buffer[k]) = 1..(m + 1)
      BY <3>1, LenProperties
    <3> QED
      BY <2>3, <3>1, <3>2, Zenon
  <2>5. Elements(rows) \subseteq Elements(new)
    <3>1. \A i \in DOMAIN rows : i \in DOMAIN new /\ rows[i] = new[i]
      BY <2>2, <2>4
    <3> QED
      BY <3>1 DEF Elements
  <2>6. buffer[k] \in Elements(new)
    <3>1. m + 1 \in DOMAIN new
      BY <2>4
    <3> QED
      BY <2>4, <3>1 DEF Elements
  <2>7. Elements(events) \subseteq Elements(rows) /\ \A i \in 1..(k - 1) : buffer[i] \in Elements(rows)
    BY <1>3
  <2>8. \A i \in 1..k : i \in 1..(k - 1) \/ i = k
    BY <2>1
  <2>9. Elements(events) \subseteq Elements(new) /\ \A i \in 1..k : buffer[i] \in Elements(new)
    BY <2>5, <2>6, <2>7, <2>8
  <2> QED
    BY <2>1, <2>4, <2>9
<1>4. <<Len(buffer), Inserted[Len(buffer)]>> \in R
  <2> HIDE DEF R
  <2> QED
    BY <1>2, <1>3, FlushInduction
<1>5. /\ Elements(events) \subseteq Elements(Inserted[Len(buffer)])
      /\ \A i \in 1..Len(buffer) : buffer[i] \in Elements(Inserted[Len(buffer)])
  BY <1>4
<1>6. Elements(buffer) \subseteq Elements(Inserted[Len(buffer)])
  BY <1>1, <1>5 DEF Elements
<1> QED
  BY <1>5, <1>6

\* No row that was there is lost, and none has a scenario's mark that had it not.
LEMMA RowsStay ==
    ASSUME events \in Seq(Event), buffer \in Seq(Event), events' = Inserted[Len(buffer)]
    PROVE  /\ Elements(events) \subseteq Elements(events')
           /\ NoScenarioYet' => NoScenarioYet
<1>1. PICK rows \in Seq(Event) :
        /\ rows = events' /\ Len(rows) >= Len(events)
        /\ \A i \in 1..Len(events) : rows[i] = events[i]
  BY LedgerGrows
<1>2. PICK m \in Nat, n \in Nat : m = Len(events) /\ n = Len(rows) /\ m <= n
  <2>1. Len(events) \in Nat /\ Len(rows) \in Nat
    BY LenProperties
  <2> QED
    BY <1>1, <2>1, Zenon
<1>3. DOMAIN events = 1..m /\ DOMAIN rows = 1..n
  BY <1>2, LenProperties
<1>4. \A i \in DOMAIN events : i \in DOMAIN rows /\ rows[i] = events[i]
  BY <1>1, <1>2, <1>3
<1> QED
  BY <1>1, <1>4 DEF Elements, NoScenarioYet

\* Rows of a world with a scenario are added with its mark, or not at all.
LEMMA MarkStays ==
    ASSUME events \in Seq(Event), buffer \in Seq(Event), events' = Inserted[Len(buffer)],
           \A i \in 1..Len(buffer) : buffer[i].inputs # <<>>, NoScenarioYet'
    PROVE  events' = events
<1>1. PICK rows \in Seq(Event) :
        /\ rows = events' /\ Len(rows) >= Len(events)
        /\ \A i \in 1..Len(events) : rows[i] = events[i]
        /\ \A i \in 1..Len(rows) : i > Len(events) => \E j \in 1..Len(buffer) : rows[i] = buffer[j]
  BY LedgerGrows
<1>2. PICK m \in Nat, n \in Nat : m = Len(events) /\ n = Len(rows) /\ m <= n
  <2>1. Len(events) \in Nat /\ Len(rows) \in Nat
    BY LenProperties
  <2> QED
    BY <1>1, <2>1, Zenon
<1>3. DOMAIN rows = 1..n
  BY <1>2, LenProperties
<1>4. ~(m < n)
  <2>1. SUFFICES ASSUME m < n PROVE FALSE
    OBVIOUS
  <2>2. n \in 1..Len(rows) /\ n > Len(events)
    BY <1>2, <2>1
  <2>3. PICK j \in 1..Len(buffer) : rows[n] = buffer[j]
    BY <1>1, <2>2
  <2>4. rows[n].inputs = <<>>
    BY <1>1, <1>2, <1>3, <2>2 DEF NoScenarioYet
  <2> QED
    BY <2>3, <2>4
<1> QED
  BY <1>1, <1>2, <1>4, SameEvents

\* The end of append_events comes only after a flush.
LEMMA NoBumpNext ==
    ASSUME NEW q \in Seq(Call), q # <<>>, Shape(q), Tail(q) # <<>>
    PROVE  Head(Tail(q)) # "bump_events"
<1>1. PICK r \in Seq(Call) :
        /\ r = Tail(q) /\ Len(r) = Len(q) - 1 /\ Len(q) \in Nat
        /\ \A i \in 1..(Len(q) - 1) : r[i] = q[i + 1]
  BY TailIs
<1>2. Len(r) >= 1 /\ Head(r) = r[1]
  BY <1>1, TailIs
<1>3. 1 \in 1..(Len(q) - 1) /\ 1 + 1 = 2 /\ 2 \in 1..Len(q)
  BY <1>1, <1>2
<1>4. \A i \in 1..Len(q) : q[i] = "bump_events" => i = 1
  BY DEF Shape
<1>5. r[1] = q[2] /\ q[2] # "bump_events"
  BY <1>1, <1>3, <1>4
<1> QED
  BY <1>1, <1>2, <1>5

LEMMA BumpAfterFlush ==
    ASSUME Sound, [Next]_vars, ~Flush, NextCall("bump_events")'
    PROVE  calls' = calls
<1>1. calls' # <<>> /\ Head(calls') = "bump_events"
  BY DEF NextCall
<1>2. calls \in Seq(Call) /\ Shape(calls)
  BY DEF Sound, TypeOK, CallInv, QueueInv
<1>3. ~Tick /\ ~Stop /\ ~PauseAtTarget /\ ~EndLoop
  <2>1. ASSUME calls' \in Seq(Call), calls'[1] \in {"append", "flush", "end_of_tick", "exit"} PROVE FALSE
    BY <1>1, <2>1, TailIs
  <2>2. ~Tick
    BY <2>1, TickDoes DEF Sound
  <2>3. ~Stop
    BY <2>1, StopDoes DEF Sound
  <2>4. ~PauseAtTarget /\ ~EndLoop
    BY <2>1, AfterLoopDoes DEF PauseAtTarget, EndLoop
  <2> QED
    BY <2>2, <2>3, <2>4
<1>4. ~Exit /\ ~FlushRefused /\ ~RefuseSnapshot /\ ~Crash
  BY <1>1 DEF Exit, FlushRefused, RefuseSnapshot, Crash, Die
<1>5. ~(calls # <<>> /\ calls' = Tail(calls))
  BY <1>1, <1>2, NoBumpNext
<1>6. ~AppendEvent
  <2>1. SUFFICES ASSUME AppendEvent PROVE FALSE
    OBVIOUS
  <2>2. calls # <<>> /\ (calls' = Tail(calls) \/ calls' = <<"flush">> \o Tail(calls))
    BY <2>1, AppendDoes DEF Sound
  <2>3. calls' = <<"flush">> \o Tail(calls)
    BY <1>5, <2>2
  <2>4. /\ <<"flush">> \o Tail(calls) \in Seq(Call) /\ <<"flush">> \o Tail(calls) # <<>>
        /\ (<<"flush">> \o Tail(calls))[1] = "flush"
    BY <1>2, <2>2, PushIs DEF Call
  <2> QED
    BY <1>1, <2>3, <2>4, TailIs
<1>7. ~FlushEmpty /\ ~BumpEvents /\ ~Bump /\ ~WriteSnapshot /\ ~WriteLive /\ ~NextIteration /\ ~Settle
  BY <1>5 DEF FlushEmpty, BumpEvents, Bump, WriteSnapshot, WriteLive, NextIteration,
     Settle,
              NextCall, Return
<1> QED
  BY <1>3, <1>4, <1>6, <1>7
     DEF Next, Working, Start, Poll, ApplyScenario, ClearScenario, NothingToRun, StartBatch,
         GetControl, SetControl, vars, workerVars

\* The past of the world in memory, where no event waits.
LEMMA NothingWaits ==
    ASSUME Sound, CoverInv, mem \in World, buffer = <<>>, fresh = <<>>
    PROVE  AnswersFor(mem) => Elements(mem.past) \subseteq Elements(events)
<1>1. PICK past \in Seq(Event) :
        /\ mem.past = (past \o buffer) \o fresh
        /\ AnswersFor(mem) => Elements(past) \subseteq Elements(events)
  BY DEF CoverInv
<1>2. (past \o <<>>) \o <<>> = past
  BY JoinNothing
<1> QED
  BY <1>1, <1>2

\* A flush covers what it is given.
LEMMA FlushCovers ==
    ASSUME Sound, CourseInv, CoverInv, Flush
    PROVE  CourseInv' /\ CoverInv'
<1>1. /\ calls # <<>> /\ Head(calls) = "flush" /\ buffer # <<>> /\ events' = Inserted[Len(buffer)]
      /\ UNCHANGED <<mem, fresh, buffer, store, snapshots, live>>
  BY DEF Flush, NextCall
<1>2. mem \in World
  BY <1>1, CallFinds DEF Sound
<1>3. buffer \in Seq(Event) /\ fresh \in Seq(Event) /\ events \in Seq(Event)
  BY DEF Sound, TypeOK
<1>4. Elements(events) \subseteq Elements(events') /\ (NoScenarioYet' => NoScenarioYet)
  BY <1>1, <1>3, RowsStay
<1>5. PICK past \in Seq(Event) :
        /\ mem.past = (past \o buffer) \o fresh
        /\ AnswersFor(mem) => Elements(past) \subseteq Elements(events)
  BY <1>2 DEF CoverInv
<1>6. PICK whole \in Seq(Event), m \in Nat, n \in Nat :
        /\ whole = past \o buffer /\ m = Len(past) /\ n = Len(buffer)
        /\ Len(whole) = m + n /\ n >= 1
        /\ \A i \in 1..m : whole[i] = past[i]
        /\ \A i \in 1..n : whole[m + i] = buffer[i]
  <2>1. PICK c \in Seq(Event) :
          /\ c = past \o buffer /\ Len(c) = Len(past) + Len(buffer)
          /\ \A i \in 1..Len(past) : c[i] = past[i]
          /\ \A i \in 1..Len(buffer) : c[Len(past) + i] = buffer[i]
          /\ \A i \in 1..Len(c) : i > Len(past) => i - Len(past) \in 1..Len(buffer) /\ c[i] = buffer[i - Len(past)]
    BY <1>3, JoinIs
  <2>2. PICK m \in Nat, n \in Nat : m = Len(past) /\ n = Len(buffer) /\ n >= 1
    <3>1. Len(past) \in Nat /\ Len(buffer) \in Nat /\ Len(buffer) >= 1
      BY <1>1, <1>3, LenProperties, EmptySeq
    <3> QED
      BY <3>1, Zenon
  <2>3. /\ c = past \o buffer /\ m = Len(past) /\ n = Len(buffer)
        /\ Len(c) = m + n /\ n >= 1
        /\ \A i \in 1..m : c[i] = past[i]
        /\ \A i \in 1..n : c[m + i] = buffer[i]
    BY <2>1, <2>2
  <2> QED
    BY <2>3, Zenon
<1>7. ASSUME store.postgres, NoScenarioYet', mem.inputs = <<>>
      PROVE  AsExpected(events') /\ Elements(buffer) \subseteq Elements(events')
  <2>1. NoScenarioYet /\ AsExpected(events) /\ Elements(past) \subseteq Elements(events)
    BY <1>4, <1>5, <1>7 DEF CourseInv, AnswersFor
  <2>2. AsExpected(mem.past)
    BY <1>2, <1>7, CoursePast DEF CourseInv
  <2>3. PICK k \in Nat : k = Len(mem.past) /\ k >= m + n /\ \A i \in 1..(m + n) : mem.past[i] = whole[i]
    <3>1. PICK c \in Seq(Event) :
            /\ c = whole \o fresh /\ Len(c) = Len(whole) + Len(fresh)
            /\ \A i \in 1..Len(whole) : c[i] = whole[i]
            /\ \A i \in 1..Len(fresh) : c[Len(whole) + i] = fresh[i]
            /\ \A i \in 1..Len(c) : i > Len(whole) => i - Len(whole) \in 1..Len(fresh) /\ c[i] = fresh[i - Len(whole)]
      BY <1>3, JoinIs
    <3>2. PICK f \in Nat : f = Len(fresh)
      BY <1>3, LenProperties
    <3>3. Len(c) = (m + n) + f /\ \A i \in 1..(m + n) : c[i] = whole[i]
      BY <1>6, <3>1, <3>2
    <3>4. mem.past = c
      BY <1>5, <1>6, <3>1
    <3>5. PICK k \in Nat : k = (m + n) + f /\ k >= m + n
      OBVIOUS
    <3>6. k = Len(mem.past) /\ k >= m + n /\ \A i \in 1..(m + n) : mem.past[i] = whole[i]
      BY <3>3, <3>4, <3>5
    <3> QED
      BY <3>6
  <2>4. PICK l \in Nat : l = Len(Expected) /\ k <= l
    BY <2>2, <2>3, ExpectedIs, LenProperties DEF AsExpected
  <2>5. AsExpected(whole)
    <3>1. \A i \in 1..(m + n) : i \in 1..k
      BY <2>3
    <3> QED
      BY <1>6, <2>2, <2>3, <2>4, <3>1 DEF AsExpected
  <2>6. AsExpected(past)
    <3>1. m <= l /\ \A i \in 1..m : i \in 1..(m + n)
      BY <2>3, <2>4
    <3> QED
      BY <1>6, <2>4, <2>5, <3>1 DEF AsExpected
  <2>7. Len(past) <= Len(events)
    BY <1>3, <2>1, <2>6, AsManyRows
  <2>8. PICK rows \in Seq(Event) :
          rows = Inserted[Len(buffer)] /\ AsExpected(rows) /\ Len(whole) <= Len(rows)
    BY <1>3, <1>6, <1>7, <2>1, <2>5, <2>7, FlushOnCourse
  <2>9. PICK j \in Nat : j = Len(rows) /\ DOMAIN rows = 1..j /\ m + n <= j
    BY <1>6, <2>8, LenProperties
  <2>10. ASSUME NEW i \in DOMAIN buffer PROVE buffer[i] \in Elements(rows)
    <3>1. i \in 1..n
      BY <1>3, <1>6, LenProperties
    <3>2. m + i \in 1..(m + n) /\ m + i \in 1..j
      BY <2>9, <3>1
    <3>3. buffer[i] = whole[m + i] /\ whole[m + i] = Expected[m + i] /\ rows[m + i] = Expected[m + i]
      BY <1>6, <2>5, <2>8, <2>9, <3>1, <3>2 DEF AsExpected
    <3> QED
      BY <2>9, <3>2, <3>3 DEF Elements
  <2>11. Elements(buffer) \subseteq Elements(rows)
    BY <2>10 DEF Elements
  <2> QED
    BY <1>1, <2>8, <2>11
<1>8. CourseInv'
  <2>1. ASSUME store.postgres, NoScenarioYet' PROVE AsExpected(events')
    <3>1. CASE mem.inputs = <<>>
      BY <1>7, <2>1, <3>1
    <3>2. CASE mem.inputs # <<>>
      <4>1. \A i \in 1..Len(buffer) : buffer[i].inputs # <<>>
        BY <1>2, <3>2 DEF CourseInv
      <4>2. events' = events
        BY <1>1, <1>3, <2>1, <4>1, MarkStays
      <4> QED
        BY <1>4, <2>1, <4>2 DEF CourseInv
    <3> QED
      BY <3>1, <3>2
  <2>2. AsExpected(events)' <=> AsExpected(events')
    BY DEF AsExpected
  <2> QED
    BY <1>1, <2>1, <2>2 DEF CourseInv, OnCourse
<1>9. AnswersFor(mem)' => AnswersFor(mem)
  BY <1>1, <1>4 DEF AnswersFor
<1>10. AnswersFor(mem)' => Elements(buffer) \subseteq Elements(events')
  <2>1. CASE store.postgres
    BY <1>1, <1>7, <2>1 DEF AnswersFor
  <2>2. CASE ~store.postgres
    BY <1>1, <1>3, <2>2, FlushWrites
  <2> QED
    BY <2>1, <2>2
<1>11. LedgerCoversRecovery'
  BY <1>1, <1>4 DEF CoverInv, LedgerCoversRecovery
<1>12. Elements(events)' = Elements(events') /\ Elements(buffer)' = Elements(buffer)
  BY <1>1 DEF Elements
<1>13. AnswersFor(mem)' => Elements(past) \subseteq Elements(events')
  BY <1>4, <1>5, <1>9
<1>14. mem'.past = (past \o buffer') \o fresh'
  BY <1>1, <1>5
<1> QED
  BY <1>8, <1>10, <1>11, <1>12, <1>13, <1>14 DEF CoverInv

\* What every step but a flush does to the worlds, the rows and what waits.
LEMMA CourseKept ==
    ASSUME Sound, Sound', CourseInv, [Next]_vars, ~Flush
    PROVE  CourseInv'
<1>1. /\ mem \in World \cup {NoValue} /\ live \in World /\ buffer \in Seq(Event) /\ fresh \in Seq(Event)
      /\ NoValue \notin World /\ buffer' \in Seq(Event) /\ fresh' \in Seq(Event)
  BY Constants DEF Sound, TypeOK
<1>2. events' = events /\ store' = store
  BY DEF Next, Working, Start, Poll, ApplyScenario, ClearScenario, NothingToRun,
     StartBatch,
         Tick, AppendEvent, FlushEmpty, FlushRefused, BumpEvents, Bump, WriteSnapshot,
         RefuseSnapshot, WriteLive, PauseAtTarget, NextIteration, EndLoop, Settle, Exit, Stop,
         Crash, GetControl, SetControl, vars, storeVars
<1>3. store'.postgres /\ NoScenarioYet' => AsExpected(events)'
  BY <1>2 DEF CourseInv, NoScenarioYet, AsExpected
<1>4. \A w \in snapshots' \cup {live'} : OnCourse(w)
  <2>1. CASE WriteSnapshot \/ WriteLive
    <3>1. calls # <<>> /\ Head(calls) # "exit"
      BY <2>1 DEF WriteSnapshot, WriteLive, NextCall
    <3>2. mem \in World
      BY <3>1, CallFinds DEF Sound
    <3>3. snapshots' \cup {live'} \subseteq snapshots \cup {live, mem}
      BY <2>1 DEF WriteSnapshot, WriteLive
    <3> QED
      BY <3>2, <3>3 DEF CourseInv
  <2>2. CASE ~WriteSnapshot /\ ~WriteLive
    <3>1. snapshots' = snapshots /\ live' = live
      BY <2>2 DEF Next, Working, Start, Poll, ApplyScenario, ClearScenario,
         NothingToRun, StartBatch,
         Tick, AppendEvent, FlushEmpty, FlushRefused, BumpEvents, Bump,
         RefuseSnapshot, PauseAtTarget, NextIteration, EndLoop, Settle, Exit, Stop,
         Crash, GetControl, SetControl, vars, storeVars
    <3> QED
      BY <3>1 DEF CourseInv
  <2> QED
    BY <2>1, <2>2
<1>6. mem \in World =>
        /\ OnCourse(mem)
        /\ \A i \in 1..Len(buffer) : buffer[i].inputs = mem.inputs
        /\ \A i \in 1..Len(fresh) : fresh[i].inputs = mem.inputs
  BY DEF CourseInv
<1>5. ASSUME mem' \in World
      PROVE  /\ OnCourse(mem')
             /\ \A i \in 1..Len(buffer') : buffer'[i].inputs = mem'.inputs
             /\ \A i \in 1..Len(fresh') : fresh'[i].inputs = mem'.inputs
  <2>1. CASE Poll
    <3>1. buffer' = buffer /\ fresh' = fresh
      BY <2>1 DEF Poll
    <3>2. CASE mem # NoValue
      <4>1. mem' = mem
        BY <2>1, <3>2 DEF Poll
      <4> QED
        BY <1>5, <1>6, <3>1, <4>1, Zenon
    <3>3. CASE mem = NoValue
      <4>1. mem' = live /\ buffer = <<>> /\ fresh = <<>> /\ Len(<<>>) = 0
        BY <2>1, <3>3 DEF Poll, Sound, CallInv, MemoryInv
      <4> QED
        BY <3>1, <4>1 DEF CourseInv
    <3> QED
      BY <3>2, <3>3
  <2>2. CASE ApplyScenario
    <3>1. /\ mem \in World /\ buffer = <<>> /\ fresh = <<>> /\ buffer' = buffer /\ fresh' = fresh
          /\ Len(<<>>) = 0
      BY <2>2 DEF ApplyScenario, Sound, CallInv, QueueInv, MemoryInv
    <3>2. CASE mem' = mem
      BY <3>1, <3>2 DEF CourseInv
    <3>3. CASE mem' # mem
      <4>1. mem'.inputs = Append(mem.inputs, mem.tick) /\ mem.inputs \in Seq(Nat) /\ mem.tick \in Nat
        BY <2>2, <3>1, <3>3, ChangedWorldIs DEF ApplyScenario, World
      <4>2. mem'.inputs # <<>>
        BY <4>1, AppendProperties
      <4> QED
        BY <3>1, <4>2 DEF OnCourse
    <3> QED
      BY <3>2, <3>3
  <2>3. CASE Tick
    <3>1. /\ mem \in World /\ mem.tick < MaxTick /\ mem'.inputs = mem.inputs
          /\ \A k \in 1..Len(fresh') : fresh'[k].inputs = mem.inputs
      BY <2>3, TickDoes DEF Sound
    <3>2. mem' = Ticked(mem) /\ buffer' = buffer
      BY <2>3 DEF Tick
    <3>3. OnCourse(mem')
      BY <1>6, <3>1, <3>2, TickOnCourse
    <3>4. \A i \in 1..Len(buffer') : buffer'[i].inputs = mem'.inputs
      BY <1>6, <3>1, <3>2, Zenon
    <3>5. \A i \in 1..Len(fresh') : fresh'[i].inputs = mem'.inputs
      BY <3>1, Zenon
    <3> QED
      BY <3>3, <3>4, <3>5
  <2>4. CASE AppendEvent
    <3>1. /\ mem \in World /\ fresh # <<>> /\ fresh[1] \in Event /\ Len(fresh) \in Nat /\ Len(fresh) >= 1
          /\ buffer' = Append(buffer, fresh[1]) /\ fresh' = Tail(fresh)
      BY <2>4, AppendDoes DEF Sound
    <3>2. mem' = mem
      BY <2>4 DEF AppendEvent
    <3>3. PICK m \in Nat, n \in Nat : m = Len(buffer) /\ n = Len(fresh) /\ n >= 1
      <4>1. Len(buffer) \in Nat
        BY <1>1, LenProperties
      <4> QED
        BY <3>1, <4>1, Zenon
    <3>4. /\ Len(buffer') = m + 1 /\ buffer'[m + 1] = fresh[1]
          /\ \A i \in 1..m : buffer'[i] = buffer[i]
      BY <1>1, <3>1, <3>3, AppendProperties
    <3>5. Len(fresh') = n - 1 /\ \A i \in 1..(n - 1) : fresh'[i] = fresh[i + 1]
      BY <1>1, <3>1, <3>3, HeadTailProperties
    <3>6. /\ \A i \in 1..m : buffer[i].inputs = mem.inputs
          /\ \A i \in 1..n : fresh[i].inputs = mem.inputs
      BY <3>1, <3>3 DEF CourseInv
    <3>7. \A i \in 1..(m + 1) : buffer'[i].inputs = mem.inputs
      <4>1. SUFFICES ASSUME NEW i \in 1..(m + 1) PROVE buffer'[i].inputs = mem.inputs
        OBVIOUS
      <4>2. i \in 1..m \/ (i = m + 1 /\ 1 \in 1..n)
        BY <3>3
      <4> QED
        BY <3>4, <3>6, <4>2
    <3>8. \A i \in 1..(n - 1) : fresh'[i].inputs = mem.inputs
      <4>1. \A i \in 1..(n - 1) : i + 1 \in 1..n
        OBVIOUS
      <4> QED
        BY <3>5, <3>6, <4>1
    <3>9. OnCourse(mem)
      BY <3>1 DEF CourseInv
    <3> QED
      BY <3>2, <3>4, <3>5, <3>7, <3>8, <3>9
  <2>5. CASE BumpEvents
    <3>1. buffer' = <<>> /\ fresh' = fresh /\ mem' = mem /\ Len(<<>>) = 0
      BY <2>5 DEF BumpEvents
    <3>2. \A i \in 1..Len(buffer') : buffer'[i].inputs = mem'.inputs
      BY <3>1
    <3> QED
      BY <1>5, <1>6, <3>1, <3>2, Zenon
  <2>6. CASE ~Poll /\ ~ApplyScenario /\ ~Tick /\ ~AppendEvent /\ ~BumpEvents
    <3>1. ~Exit /\ ~FlushRefused /\ ~RefuseSnapshot /\ ~Crash
      BY <1>1, <1>5 DEF Exit, FlushRefused, RefuseSnapshot, Crash, Die
    <3>2. mem' = mem /\ buffer' = buffer /\ fresh' = fresh
      BY <2>6, <3>1 DEF Next, Working, Start, ClearScenario, NothingToRun, StartBatch,
         FlushEmpty, Bump, WriteSnapshot,
         WriteLive, PauseAtTarget, NextIteration, EndLoop, Settle, Stop,
         GetControl, SetControl, vars, workerVars
    <3> QED
      BY <1>5, <1>6, <3>2, Zenon
  <2> QED
    BY <2>1, <2>2, <2>3, <2>4, <2>5, <2>6
<1> QED
  BY <1>3, <1>4, <1>5 DEF CourseInv

LEMMA CoverKept ==
    ASSUME Sound, Sound', CourseInv, CoverInv, [Next]_vars, ~Flush
    PROVE  CoverInv'
<1>1. /\ mem \in World \cup {NoValue} /\ live \in World /\ buffer \in Seq(Event) /\ fresh \in Seq(Event)
      /\ NoValue \notin World /\ buffer' \in Seq(Event) /\ fresh' \in Seq(Event)
  BY Constants DEF Sound, TypeOK
<1>2. events' = events /\ store' = store
  BY DEF Next, Working, Start, Poll, ApplyScenario, ClearScenario, NothingToRun,
     StartBatch,
         Tick, AppendEvent, FlushEmpty, FlushRefused, BumpEvents, Bump, WriteSnapshot,
         RefuseSnapshot, WriteLive, PauseAtTarget, NextIteration, EndLoop, Settle, Exit, Stop,
         Crash, GetControl, SetControl, vars, storeVars
<1>3. Elements(events)' = Elements(events) /\ (NoScenarioYet' <=> NoScenarioYet)
  BY <1>2 DEF Elements, NoScenarioYet
<1>4. LedgerCoversRecovery'
  <2>1. \A w \in snapshots' \cup {live'} : w \in snapshots \cup {live} \/ (w = mem /\ (WriteSnapshot \/ WriteLive))
    <3>1. CASE WriteSnapshot \/ WriteLive
      BY <3>1 DEF WriteSnapshot, WriteLive
    <3>2. CASE ~WriteSnapshot /\ ~WriteLive
      BY <3>2 DEF Next, Working, Start, Poll, ApplyScenario, ClearScenario,
         NothingToRun, StartBatch,
         Tick, AppendEvent, FlushEmpty, FlushRefused, BumpEvents, Bump,
         RefuseSnapshot, PauseAtTarget, NextIteration, EndLoop, Settle, Exit, Stop,
         Crash, GetControl, SetControl, vars, storeVars
    <3> QED
      BY <3>1, <3>2
  <2>2. WriteSnapshot \/ WriteLive => (AnswersFor(mem) => Elements(mem.past) \subseteq Elements(events))
    <3>1. SUFFICES ASSUME WriteSnapshot \/ WriteLive
                   PROVE  AnswersFor(mem) => Elements(mem.past) \subseteq Elements(events)
      OBVIOUS
    <3>2. calls # <<>> /\ Head(calls) \in {"snapshot", "live"}
      BY <3>1 DEF WriteSnapshot, WriteLive, NextCall
    <3>3. mem \in World /\ fresh = <<>> /\ buffer = <<>>
      BY <3>2, CallFinds DEF Sound, CallInv, MemoryInv
    <3> QED
      BY <3>3, NothingWaits
  <2>3. \A w \in snapshots' \cup {live'} : AnswersFor(w) => Elements(w.past) \subseteq Elements(events)
    <3>1. \A w \in snapshots \cup {live} : AnswersFor(w) => Elements(w.past) \subseteq Elements(events)
      BY DEF CoverInv, LedgerCoversRecovery, AnswersFor
    <3> QED
      BY <2>1, <2>2, <3>1
  <2>4. \A w \in snapshots' \cup {live'} :
          ~store'.postgres \/ (NoScenarioYet' /\ w.inputs = <<>>) => Elements(w.past) \subseteq Elements(events)
    BY <1>2, <1>3, <2>3 DEF AnswersFor
  <2> QED
    BY <1>2, <1>3, <2>4 DEF LedgerCoversRecovery, Elements
<1>5. ASSUME mem' \in World
      PROVE  \E past \in Seq(Event) :
               /\ mem'.past = (past \o buffer') \o fresh'
               /\ AnswersFor(mem)' => /\ Elements(past) \subseteq Elements(events)
                                      /\ NextCall("bump_events")' => Elements(buffer') \subseteq Elements(events)
  <2>1. NextCall("bump_events")' => NextCall("bump_events") /\ calls' = calls /\ calls # <<>>
    BY BumpAfterFlush DEF NextCall
  <2>2. CASE mem = NoValue
    <3>1. Poll
      BY <1>1, <1>5, <2>2, CallFinds DEF Next, Working, Start, ApplyScenario,
         ClearScenario, NothingToRun,
         StartBatch, Tick, AppendEvent, FlushEmpty, FlushRefused, BumpEvents, Bump, WriteSnapshot,
         RefuseSnapshot, WriteLive, PauseAtTarget, NextIteration, EndLoop, Settle, Exit, Stop,
         Crash, GetControl, SetControl, vars, workerVars, Die, Sound, CallInv, MemoryInv
    <3>2. mem' = live /\ buffer' = <<>> /\ fresh' = <<>> /\ calls = <<>>
      BY <2>2, <3>1 DEF Poll, Sound, CallInv, MemoryInv
    <3>3. live.past \in Seq(Event)
      BY <1>1 DEF World
    <3>4. live.past = (live.past \o <<>>) \o <<>>
      BY <3>3, JoinNothing
    <3>5. AnswersFor(mem)' => Elements(live.past) \subseteq Elements(events)
      BY <1>2, <1>3, <3>2 DEF AnswersFor, CoverInv, LedgerCoversRecovery
    <3> QED
      BY <2>1, <3>2, <3>3, <3>4, <3>5
  <2>3. CASE mem \in World
    <3>1. PICK past \in Seq(Event) :
            /\ mem.past = (past \o buffer) \o fresh
            /\ AnswersFor(mem) =>
                /\ Elements(past) \subseteq Elements(events)
                /\ NextCall("bump_events") => Elements(buffer) \subseteq Elements(events)
      BY <2>3 DEF CoverInv
    <3>2. CASE ApplyScenario
      <4>1. mem'.past = mem.past /\ UNCHANGED <<buffer, fresh, calls>> /\ calls = <<>>
        BY <2>3, <3>2, ChangedWorldIs DEF ApplyScenario, Sound, CallInv, QueueInv
      <4>2. AnswersFor(mem)' => AnswersFor(mem)
        <5>1. CASE mem' = mem
          BY <1>2, <1>3, <5>1 DEF AnswersFor
        <5>2. CASE mem' # mem
          <6>1. mem'.inputs = Append(mem.inputs, mem.tick) /\ mem.inputs \in Seq(Nat) /\ mem.tick \in Nat
            BY <2>3, <3>2, <5>2, ChangedWorldIs DEF ApplyScenario, World
          <6>2. Append(mem.inputs, mem.tick) # <<>>
            BY <6>1, AppendProperties
          <6>3. mem'.inputs # <<>>
            BY <6>1, <6>2
          <6> QED
            BY <1>2, <6>3 DEF AnswersFor
        <5> QED
          BY <5>1, <5>2
      <4> QED
        BY <2>1, <3>1, <4>1, <4>2
    <3>3. CASE Tick
      <4>1. mem'.past = mem.past \o fresh' /\ fresh = <<>> /\ mem'.inputs = mem.inputs
        BY <3>3, TickDoes DEF Sound
      <4>2. buffer' = buffer /\ calls = <<>>
        BY <3>3 DEF Tick
      <4>3. PICK whole \in Seq(Event) : whole = past \o buffer
        BY <1>1, JoinIs
      <4>4. mem.past = whole
        BY <3>1, <4>1, <4>3, JoinNothing
      <4>5. AnswersFor(mem)' => AnswersFor(mem)
        BY <1>2, <1>3, <4>1 DEF AnswersFor
      <4> QED
        BY <2>1, <3>1, <4>1, <4>2, <4>3, <4>4, <4>5
    <3>4. CASE AppendEvent
      <4>1. /\ fresh # <<>> /\ calls[1] = "append" /\ calls # <<>> /\ Head(calls) = "append"
            /\ buffer' = Append(buffer, fresh[1]) /\ fresh' = Tail(fresh)
        BY <3>4, AppendDoes DEF Sound, AppendEvent, NextCall
      <4>2. mem' = mem
        BY <3>4 DEF AppendEvent
      <4>3. buffer' \o fresh' = buffer \o fresh
        BY <1>1, <4>1, HandOver
      <4>4. (past \o buffer) \o fresh = past \o (buffer \o fresh)
        BY <1>1, JoinAssociates
      <4>5. (past \o buffer') \o fresh' = past \o (buffer' \o fresh')
        BY <1>1, JoinAssociates
      <4>6. mem'.past = (past \o buffer') \o fresh'
        BY <3>1, <4>2, <4>3, <4>4, <4>5
      <4>7. AnswersFor(mem)' => AnswersFor(mem)
        BY <1>2, <1>3, <4>2 DEF AnswersFor
      <4>8. ~(NextCall("bump_events")')
        BY <2>1, <4>1 DEF NextCall
      <4> QED
        BY <3>1, <4>6, <4>7, <4>8
    <3>5. CASE BumpEvents
      <4>1. NextCall("bump_events") /\ buffer' = <<>> /\ fresh' = fresh /\ mem' = mem
        BY <3>5 DEF BumpEvents
      <4>2. PICK whole \in Seq(Event) :
              /\ whole = past \o buffer /\ Len(whole) = Len(past) + Len(buffer)
              /\ \A i \in 1..Len(past) : whole[i] = past[i]
              /\ \A i \in 1..Len(buffer) : whole[Len(past) + i] = buffer[i]
              /\ \A i \in 1..Len(whole) : i > Len(past) => i - Len(past) \in 1..Len(buffer) /\ whole[i] = buffer[i - Len(past)]
        BY <1>1, JoinIs
      <4>3. mem'.past = (whole \o <<>>) \o fresh
        BY <3>1, <4>1, <4>2, JoinNothing
      <4>4. Elements(whole) \subseteq Elements(past) \cup Elements(buffer)
        <5>1. SUFFICES ASSUME NEW i \in DOMAIN whole
                       PROVE  whole[i] \in Elements(past) \cup Elements(buffer)
          BY DEF Elements
        <5>2. i \in 1..Len(whole) /\ DOMAIN past = 1..Len(past) /\ DOMAIN buffer = 1..Len(buffer)
              /\ Len(past) \in Nat
          BY <1>1, LenProperties
        <5>3. CASE i > Len(past)
          BY <4>2, <5>2, <5>3 DEF Elements
        <5>4. CASE ~(i > Len(past))
          <6>1. i \in 1..Len(past)
            BY <5>2, <5>4
          <6> QED
            BY <4>2, <5>2, <6>1 DEF Elements
        <5> QED
          BY <5>3, <5>4
      <4>5. AnswersFor(mem)' => Elements(whole) \subseteq Elements(events)
        <5>1. AnswersFor(mem)' => AnswersFor(mem)
          BY <1>2, <1>3, <4>1 DEF AnswersFor
        <5> QED
          BY <3>1, <4>1, <4>4, <5>1
      <4>6. Elements(<<>>) \subseteq Elements(events)
        BY DEF Elements
      <4> QED
        BY <4>1, <4>3, <4>5, <4>6
    <3>6. CASE ~ApplyScenario /\ ~Tick /\ ~AppendEvent /\ ~BumpEvents
      <4>1. ~Exit /\ ~FlushRefused /\ ~RefuseSnapshot /\ ~Crash
        BY <1>1, <1>5 DEF Exit, FlushRefused, RefuseSnapshot, Crash, Die
      <4>2. mem' = mem /\ buffer' = buffer /\ fresh' = fresh
        BY <1>1, <2>3, <3>6, <4>1 DEF Next, Working, Start, Poll, ClearScenario,
           NothingToRun, StartBatch,
           FlushEmpty, Bump, WriteSnapshot,
           WriteLive, PauseAtTarget, NextIteration, EndLoop, Settle, Stop,
           GetControl, SetControl, vars, workerVars
      <4>3. AnswersFor(mem)' => AnswersFor(mem)
        BY <1>2, <1>3, <4>2 DEF AnswersFor
      <4> QED
        BY <2>1, <3>1, <4>2, <4>3
    <3> QED
      BY <3>2, <3>3, <3>4, <3>5, <3>6
  <2> QED
    BY <1>1, <2>2, <2>3
<1> QED
  BY <1>2, <1>4, <1>5 DEF CoverInv, Elements

\* Whenever the worker is killed, and as often as it is: what it loses is at most a
\* live interval, every event in the past of what it can resume from is in the ledger,
\* and what it simulates again is not recorded again.
THEOREM RecoveryIsCovered == Spec => []RecoveryCovered
<1>1. Init => CourseInv /\ CoverInv
  <2>1. SUFFICES ASSUME Init PROVE CourseInv /\ CoverInv
    OBVIOUS
  <2>2. snapshots = {Genesis} /\ live = Genesis /\ mem = NoValue /\ events = <<>> /\ NoValue \notin World
    BY <2>1, Constants DEF Init
  <2>3. Genesis = Course[0] /\ Genesis.tick = 0 /\ Genesis.past = <<>> /\ 0 \in 0..MaxTick
    BY CourseIs, Constants DEF Courses, Genesis
  <2>4. OnCourse(Genesis)
    BY <2>3 DEF OnCourse
  <2>5. AsExpected(<<>>)
    <3>1. Len(<<>>) = 0 /\ Len(Expected) \in Nat
      BY ExpectedIs, LenProperties
    <3> QED
      BY <3>1 DEF AsExpected
  <2>6. CourseInv
    BY <2>2, <2>4, <2>5 DEF CourseInv
  <2>7. CoverInv
    BY <2>2, <2>3 DEF CoverInv, LedgerCoversRecovery
  <2> QED
    BY <2>6, <2>7
<1>2. Sound /\ Sound' /\ CourseInv /\ CoverInv /\ [Next]_vars => CourseInv' /\ CoverInv'
  BY FlushCovers, CourseKept, CoverKept
<1>3. Sound /\ CourseInv /\ CoverInv => LedgerCoversRecovery /\ PostgresExactlyOnce
  <2>1. SUFFICES ASSUME Sound, CourseInv, CoverInv PROVE PostgresExactlyOnce
    BY DEF CoverInv
  <2>2. SUFFICES ASSUME store.postgres, NoScenarioYet, NEW i \in DOMAIN events, NEW j \in DOMAIN events, i < j
                 PROVE  events[i].id < events[j].id
    BY DEF PostgresExactlyOnce
  <2>3. AsExpected(events) /\ events \in Seq(Event)
    BY <2>1, <2>2 DEF CourseInv, Sound, TypeOK
  <2>4. PICK m \in Nat, l \in Nat : m = Len(events) /\ l = Len(Expected) /\ m <= l
    <3>1. Len(events) \in Nat /\ Len(Expected) \in Nat /\ Len(events) <= Len(Expected)
      BY <2>3, ExpectedIs, LenProperties DEF AsExpected
    <3> QED
      BY <3>1, Zenon
  <2>5. i \in 1..m /\ j \in 1..m /\ i \in 1..l /\ j \in 1..l
    BY <2>3, <2>4, LenProperties
  <2>6. events[i] = Expected[i] /\ events[j] = Expected[j]
    BY <2>3, <2>4, <2>5 DEF AsExpected
  <2>7. events[i].id = i /\ events[j].id = j
    BY <2>4, <2>5, <2>6, ExpectedIs
  <2> QED
    BY <2>2, <2>7
<1> QED
  BY <1>1, <1>2, <1>3, SoundThroughout, LossIsBounded, PTL DEF Spec, RecoveryCovered
=============================================================================
