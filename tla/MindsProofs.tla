----------------------------- MODULE MindsProofs -----------------------------
(***************************************************************************)
(* Proofs about Minds, for any residents, nights, topics and budgets:      *)
(*   TypeCorrect          Spec => []TypeOK                                 *)
(*   NightsAreBounded     Spec => []NightIsBounded                         *)
(*   NobodyDozesOff       Spec => []NobodyGoesDormant                      *)
(*   NothingIsMissed      Spec => []NothingSleptThrough                    *)
(*   BudgetsAreKept       Spec => []BudgetsKept                            *)
(***************************************************************************)
EXTENDS Minds, FiniteSetTheorems, SequenceTheorems, TLAPS

-----------------------------------------------------------------------------
(* Hours and days.                                                         *)

\* The constants that count something.
LEMMA Counts ==
    /\ N \in Nat /\ N >= 1 /\ TicksPerHour \in Nat /\ TicksPerHour >= 1
    /\ HoursPerDay \in Nat /\ HoursPerDay >= 1 /\ MaxInbox \in Nat /\ MaxInbox >= 1
    /\ ReplyTokens \in Nat /\ ReplyTokens >= 1 /\ QuarantineAfter \in Nat
    /\ DormantAfter \in Nat /\ PerceptionBatch \in Nat /\ BrainBatch \in Nat
    /\ DailyCalls \in Nat /\ TokenBudget \in Nat /\ MaxCallsPerTick \in Nat
BY MindsAssumption

\* Division with a rest has one result.
LEMMA OneQuotient ==
    ASSUME NEW d \in Nat, d >= 1, NEW q \in Nat, NEW r \in Nat, r < d
    PROVE  (d * q + r) \div d = q /\ (d * q + r) % d = r
<1>1. PICK n \in Nat : n = d * q + r
  OBVIOUS
<1>2. PICK p \in Nat, s \in Nat : p = n \div d /\ s = n % d /\ n = d * p + s /\ s < d
  OBVIOUS
<1>3. d * p + s = d * q + r
  BY <1>1, <1>2
<1>4. ASSUME p < q PROVE FALSE
  <2>1. PICK k \in Nat : q = p + 1 + k
    BY <1>4
  <2>2. d * q = d * p + d + d * k /\ d * k \in Nat /\ d * p \in Nat
    BY <2>1
  <2>3. PICK x \in Nat, y \in Nat, z \in Nat : x = d * p /\ y = d * q /\ z = d * k
    BY <2>2
  <2> QED
    BY <1>2, <1>3, <2>2, <2>3
<1>5. ASSUME q < p PROVE FALSE
  <2>1. PICK k \in Nat : p = q + 1 + k
    BY <1>5
  <2>2. d * p = d * q + d + d * k /\ d * k \in Nat /\ d * q \in Nat
    BY <2>1
  <2>3. PICK x \in Nat, y \in Nat, z \in Nat : x = d * q /\ y = d * p /\ z = d * k
    BY <2>2
  <2> QED
    BY <1>3, <2>2, <2>3
<1>6. p = q
  BY <1>4, <1>5
<1>7. d * p = d * q /\ d * p \in Nat
  BY <1>6
<1>8. s = r
  BY <1>3, <1>7
<1> QED
  BY <1>1, <1>2, <1>6, <1>8

Hour(tick)   == tick \div TicksPerHour
Minute(tick) == tick % TicksPerHour

\* Every tick of the day is in one of its hours.
LEMMA HourIs ==
    ASSUME NEW c \in 0..(Day - 1)
    PROVE  /\ Day \in Nat /\ Day >= 1 /\ c \in Nat /\ c < Day
           /\ Minute(c) \in Nat /\ Minute(c) < TicksPerHour
           /\ Hour(c) \in Nat /\ Hour(c) < HoursPerDay
           /\ c = TicksPerHour * Hour(c) + Minute(c)
<1>1. PICK T \in Nat, H \in Nat : T = TicksPerHour /\ H = HoursPerDay /\ T >= 1 /\ H >= 1
  BY Counts
<1>2. PICK D \in Nat : D = T * H /\ Day = D
  BY <1>1 DEF Day
<1>3. c \in Nat /\ c < D /\ D >= 1
  BY <1>2
<1>4. PICK q \in Nat, r \in Nat : q = c \div T /\ r = c % T /\ c = T * q + r /\ r < T
  BY <1>1, <1>3
<1>5. q < H
  <2>1. SUFFICES ASSUME q >= H PROVE FALSE
    OBVIOUS
  <2>2. PICK k \in Nat : q = H + k
    BY <2>1
  <2>3. T * q = T * H + T * k /\ T * k \in Nat
    BY <2>2
  <2>4. PICK x \in Nat, z \in Nat : x = T * q /\ z = T * k
    BY <2>3
  <2> QED
    BY <1>2, <1>3, <1>4, <2>3, <2>4
<1> QED
  BY <1>1, <1>2, <1>3, <1>4, <1>5 DEF Hour, Minute

\* The next tick is in the same hour or is the first of the next, which after the
\* last is that of midnight.
LEMMA NextTick ==
    ASSUME NEW c \in 0..(Day - 1)
    PROVE  \E d \in 0..(Day - 1) :
            /\ d = (c + 1) % Day
            /\ IF (c + 1) % TicksPerHour = 0
               THEN /\ Minute(d) = 0 /\ Minute(c) = TicksPerHour - 1
                    /\ Hour(d) = IF Hour(c) = HoursPerDay - 1 THEN 0 ELSE Hour(c) + 1
               ELSE /\ Minute(d) = Minute(c) + 1 /\ Hour(d) = Hour(c) /\ d = c + 1
<1>1. PICK T \in Nat, H \in Nat : T = TicksPerHour /\ H = HoursPerDay /\ T >= 1 /\ H >= 1
  BY Counts
<1>2. PICK D \in Nat : D = T * H /\ Day = D /\ D >= 1
  BY <1>1, HourIs DEF Day
<1>3. PICK q \in Nat, r \in Nat : q = Hour(c) /\ r = Minute(c) /\ c = T * q + r /\ r < T /\ q < H
  BY <1>1, HourIs
<1>4. c \in Nat /\ c < D
  BY <1>2
<1>5. CASE r < T - 1
  <2>1. T * q + (r + 1) = c + 1 /\ r + 1 \in Nat /\ r + 1 < T
    <3>1. T * q \in Nat
      OBVIOUS
    <3> QED
      BY <1>3, <1>5, <3>1
  <2>2. (c + 1) \div T = q /\ (c + 1) % T = r + 1
    BY <1>1, <2>1, OneQuotient
  <2>3. c + 1 < D
    <3>1. PICK k \in Nat : H = q + 1 + k
      <4>1. H - (q + 1) \in Nat
        BY <1>3
      <4>2. H = q + 1 + (H - (q + 1))
        OBVIOUS
      <4> QED
        BY <4>1, <4>2
    <3>2. T * H = T * q + T + T * k /\ T * k \in Nat /\ T * q \in Nat
      BY <3>1
    <3>3. PICK x \in Nat, y \in Nat, z \in Nat : x = T * q /\ y = T * H /\ z = T * k
      BY <3>2
    <3> QED
      BY <1>2, <1>3, <1>5, <3>2, <3>3
  <2>4. (c + 1) % D = c + 1
    BY <1>2, <1>4, <2>3
  <2> QED
    BY <1>1, <1>2, <1>3, <1>4, <2>2, <2>3, <2>4 DEF Hour, Minute
<1>6. CASE r = T - 1
  <2>1. PICK e \in Nat : e = T * (q + 1) /\ e = c + 1
    <3>1. T * (q + 1) = T * q + T /\ T * q \in Nat
      OBVIOUS
    <3>2. PICK x \in Nat : x = T * q
      BY <3>1
    <3> QED
      BY <1>3, <1>6, <3>1, <3>2
  <2>2. (T * (q + 1) + 0) \div T = q + 1 /\ (T * (q + 1) + 0) % T = 0
    BY <1>1, OneQuotient
  <2>3. e \div T = q + 1 /\ e % T = 0
    BY <2>1, <2>2
  <2>4. CASE q = H - 1
    <3>1. e = D
      BY <1>2, <2>1, <2>4
    <3>2. e % D = 0
      BY <1>2, <3>1
    <3>3. (T * 0 + 0) \div T = 0 /\ (T * 0 + 0) % T = 0 /\ T * 0 + 0 = 0
      BY <1>1, OneQuotient
    <3> QED
      BY <1>1, <1>2, <1>3, <1>4, <1>6, <2>1, <2>3, <2>4, <3>2, <3>3 DEF Hour, Minute
  <2>5. CASE q < H - 1
    <3>1. PICK k \in Nat : H = (q + 1) + 1 + k
      <4>1. H - (q + 2) \in Nat
        BY <1>3, <2>5
      <4>2. H = (q + 1) + 1 + (H - (q + 2))
        OBVIOUS
      <4> QED
        BY <4>1, <4>2
    <3>2. T * H = T * (q + 1) + T + T * k /\ T * k \in Nat /\ T * (q + 1) \in Nat
      BY <3>1
    <3>3. PICK y \in Nat, z \in Nat : y = T * H /\ z = T * k
      BY <3>2
    <3>4. e < D
      BY <1>1, <1>2, <2>1, <3>2, <3>3
    <3>5. e % D = e
      BY <1>2, <3>4
    <3>6. e \in 0..(Day - 1) /\ e = (c + 1) % Day
      BY <1>2, <2>1, <3>4, <3>5
    <3>7. Minute(e) = 0 /\ Hour(e) = Hour(c) + 1 /\ Hour(c) # HoursPerDay - 1
      BY <1>1, <1>3, <2>3, <2>5 DEF Hour, Minute
    <3>8. (c + 1) % TicksPerHour = 0 /\ Minute(c) = TicksPerHour - 1
      BY <1>1, <1>3, <1>6, <2>1, <2>3
    <3> QED
      BY <3>6, <3>7, <3>8
  <2> QED
    BY <1>3, <2>4, <2>5
<1> QED
  BY <1>1, <1>3, <1>5, <1>6

-----------------------------------------------------------------------------
(* Loops and inboxes.                                                      *)

\* An order visits everybody who is chosen, and nobody else.
LEMMA OrderIs ==
    ASSUME NEW S \in SUBSET People, NEW o \in Orders(S)
    PROVE  /\ o \in Seq(People)
           /\ \A k \in 1..Len(o) : o[k] \in S
           /\ \A p \in S : \E k \in 1..Len(o) : o[k] = p
<1>1. IsFiniteSet(S)
  <2>1. 1 \in Int /\ N \in Int
    BY Counts
  <2>2. IsFiniteSet(1..N)
    BY <2>1, FS_Interval
  <2>3. S \subseteq 1..N
    BY DEF People
  <2> QED
    BY <2>2, <2>3, FS_Subset
<1>2. PICK n \in Nat : n = Cardinality(S)
  BY <1>1, FS_CardinalityType
<1>3. o \in [1..n -> S] /\ {o[k] : k \in DOMAIN o} = S
  BY <1>2 DEF Orders
<1>4. o \in Seq(S) /\ Len(o) = n /\ DOMAIN o = 1..n
  BY <1>2, <1>3
<1>5. o \in Seq(People)
  BY <1>2, <1>3
<1> QED
  BY <1>3, <1>4, <1>5

\* A batch is the first part of an order.
LEMMA FirstIs ==
    ASSUME NEW o \in Seq(People), NEW b \in Nat
    PROVE  /\ First(o, b) \in Seq(People) /\ Len(First(o, b)) =< Len(o)
           /\ \A k \in 1..Len(First(o, b)) : First(o, b)[k] = o[k]
<1>1. PICK m \in 0..Len(o) : m = IF Len(o) < b THEN Len(o) ELSE b
  BY LenProperties
<1>2. First(o, b) = SubSeq(o, 1, m)
  BY <1>1 DEF First
<1>3. /\ SubSeq(o, 1, m) \in Seq(People) /\ Len(SubSeq(o, 1, m)) = m
      /\ \A k \in 1..m : SubSeq(o, 1, m)[k] = o[k]
  BY <1>1, SubSeqProperties
<1> QED
  BY <1>1, <1>2, <1>3

\* What is left of a loop when one has been visited.
LEMMA TailIs ==
    ASSUME NEW o \in Seq(People), o # <<>>
    PROVE  /\ Head(o) \in People /\ Tail(o) \in Seq(People) /\ Len(o) \in Nat /\ Len(o) >= 1
           /\ Head(o) = o[1] /\ Len(Tail(o)) = Len(o) - 1
           /\ \A k \in 1..Len(Tail(o)) : Tail(o)[k] = o[k + 1] /\ k + 1 \in 1..Len(o)
<1>1. Len(o) \in Nat /\ Len(o) >= 1
  BY EmptySeq, LenProperties
<1>2. /\ Head(o) \in People /\ Tail(o) \in Seq(People)
      /\ Head(o) = o[1] /\ Len(Tail(o)) = Len(o) - 1
      /\ \A k \in 1..Len(Tail(o)) : Tail(o)[k] = o[k + 1]
  BY <1>1, HeadTailProperties
<1> QED
  BY <1>1, <1>2

\* An inbox is a longer one without its m-th item, than which nothing is less important.
Loses(longer, n, m, new) ==
    /\ \A j \in 1..(n + 1) : Importance[longer[m]] <= Importance[longer[j]]
    /\ \A j \in (1..(n + 1)) \ {m} : \E k \in 1..n : new[k] = longer[j]
    /\ \A k \in 1..n : \E j \in (1..(n + 1)) \ {m} : new[k] = longer[j]

\* An inbox takes what is observed, and when it overflows loses one item than which
\* nothing in it is less important.
LEMMA ObservedIs ==
    ASSUME NEW box \in Seq(Topics), NEW topic \in Topics, NEW new \in Observed(box, topic)
    PROVE  /\ new \in Seq(Topics)
           /\ \/ /\ Len(box) < MaxInbox /\ new = Append(box, topic)
              \/ /\ Len(box) >= MaxInbox /\ Len(new) = Len(box)
                 /\ \E m \in 1..(Len(box) + 1) : Loses(Append(box, topic), Len(box), m, new)
<1> DEFINE longer == Append(box, topic)
<1>1. longer \in Seq(Topics) /\ Len(longer) = Len(box) + 1 /\ Len(box) \in Nat
  BY AppendProperties, LenProperties
<1>2. CASE Len(longer) <= MaxInbox
  BY <1>1, <1>2, Counts DEF Observed
<1>3. CASE ~(Len(longer) <= MaxInbox)
  <2>1. PICK m \in Least(longer) : new = RemoveAt(longer, m)
    BY <1>3 DEF Observed
  <2> HIDE DEF longer
  <2>2. PICK n \in Nat : n = Len(box) /\ n >= MaxInbox
    BY <1>1, <1>3, Counts
  <2>3. DOMAIN longer = 1..(n + 1) /\ Len(longer) = n + 1
    BY <1>1, <2>2
  <2>4. m \in 1..(n + 1) /\ \A j \in 1..(n + 1) : Importance[longer[m]] <= Importance[longer[j]]
    BY <2>1, <2>3 DEF Least
  <2>5. PICK a \in Seq(Topics), b \in Seq(Topics) :
          /\ a = SubSeq(longer, 1, m - 1) /\ b = SubSeq(longer, m + 1, n + 1)
          /\ Len(a) = m - 1 /\ Len(b) = n + 1 - m
          /\ \A k \in 1..(m - 1) : a[k] = longer[k]
          /\ \A k \in 1..(n + 1 - m) : b[k] = longer[m + k]
    <3>1. SubSeq(longer, 1, m - 1) \in Seq(Topics) /\ SubSeq(longer, m + 1, n + 1) \in Seq(Topics)
      BY <1>1, <2>3, <2>4
    <3>2. /\ Len(SubSeq(longer, 1, m - 1)) = m - 1
          /\ \A k \in 1..(m - 1) : SubSeq(longer, 1, m - 1)[k] = longer[k]
      BY <1>1, <2>3, <2>4
    <3>3. /\ Len(SubSeq(longer, m + 1, n + 1)) = n + 1 - m
          /\ \A k \in 1..(n + 1 - m) : SubSeq(longer, m + 1, n + 1)[k] = longer[m + k]
      BY <1>1, <2>3, <2>4
    <3> QED
      BY <3>1, <3>2, <3>3
  <2>6. new = a \o b
    BY <2>1, <2>3, <2>5 DEF RemoveAt
  <2>7. /\ new \in Seq(Topics) /\ Len(new) = n
        /\ \A k \in 1..n : new[k] = IF k < m THEN a[k] ELSE b[k - (m - 1)]
    <3>1. /\ a \o b \in Seq(Topics) /\ Len(a \o b) = Len(a) + Len(b)
          /\ \A k \in 1..(Len(a) + Len(b)) :
                (a \o b)[k] = IF k <= Len(a) THEN a[k] ELSE b[k - Len(a)]
      BY ConcatProperties, Zenon
    <3>2. Len(a) + Len(b) = n
      BY <2>4, <2>5
    <3>3. \A k \in 1..n : k <= Len(a) <=> k < m
      BY <2>4, <2>5
    <3> QED
      BY <2>5, <2>6, <3>1, <3>2, <3>3
  <2>8. \A k \in 1..n : new[k] = IF k < m THEN longer[k] ELSE longer[k + 1]
    <3>1. SUFFICES ASSUME NEW k \in 1..n PROVE new[k] = IF k < m THEN longer[k] ELSE longer[k + 1]
      OBVIOUS
    <3>2. CASE k < m
      BY <2>4, <2>5, <2>7, <3>2
    <3>3. CASE ~(k < m)
      <4>1. k - (m - 1) \in 1..(n + 1 - m) /\ m + (k - (m - 1)) = k + 1
        BY <2>4, <3>3
      <4> QED
        BY <2>5, <2>7, <3>3, <4>1
    <3> QED
      BY <3>2, <3>3
  <2>9. \A j \in (1..(n + 1)) \ {m} : \E k \in 1..n : new[k] = longer[j]
    <3>1. SUFFICES ASSUME NEW j \in (1..(n + 1)) \ {m} PROVE \E k \in 1..n : new[k] = longer[j]
      OBVIOUS
    <3>2. CASE j < m
      <4>1. j \in 1..n
        BY <2>4, <3>2
      <4> QED
        BY <2>8, <3>2, <4>1
    <3>3. CASE j > m
      <4>1. j - 1 \in 1..n /\ ~(j - 1 < m) /\ (j - 1) + 1 = j
        BY <2>4, <3>3
      <4> QED
        BY <2>8, <4>1
    <3> QED
      BY <2>4, <3>2, <3>3
  <2>10. \A k \in 1..n : \E j \in (1..(n + 1)) \ {m} : new[k] = longer[j]
    <3>1. SUFFICES ASSUME NEW k \in 1..n PROVE \E j \in (1..(n + 1)) \ {m} : new[k] = longer[j]
      OBVIOUS
    <3>2. k \in 1..(n + 1) /\ k + 1 \in 1..(n + 1)
      OBVIOUS
    <3>3. CASE k < m
      BY <2>8, <3>2, <3>3
    <3>4. CASE ~(k < m)
      <4>1. k + 1 \in (1..(n + 1)) \ {m}
        BY <2>4, <3>2, <3>4
      <4> QED
        BY <2>8, <3>4, <4>1
    <3> QED
      BY <3>3, <3>4
  <2>11. m \in 1..(Len(box) + 1) /\ Loses(longer, Len(box), m, new)
    BY <2>2, <2>4, <2>9, <2>10 DEF Loses
  <2>12. new \in Seq(Topics) /\ Len(box) >= MaxInbox /\ Len(new) = Len(box)
    BY <2>2, <2>7
  <2> USE DEF longer
  <2> QED
    BY <2>11, <2>12
<1> QED
  BY <1>2, <1>3

\* What a resident observes reaches one inbox.
LEMMA ObserveIs ==
    ASSUME NEW p \in People, NEW topic \in Topics, Observe(p, topic),
           inbox \in [People -> Seq(Topics)], missed \in [People -> SUBSET Topics]
    PROVE  /\ inbox' \in [People -> Seq(Topics)] /\ missed' \in [People -> SUBSET Topics]
           /\ \A q \in People \ {p} : inbox'[q] = inbox[q] /\ missed'[q] = missed[q]
           /\ inbox'[p] \in Observed(inbox[p], topic)
           /\ missed'[p] = IF Asleep(p) THEN missed[p] \cup {topic} ELSE missed[p]
<1>1. PICK box \in Observed(inbox[p], topic) : inbox' = [inbox EXCEPT ![p] = box]
  BY DEF Observe
<1>2. box \in Seq(Topics)
  BY ObservedIs
<1>3. missed' = [missed EXCEPT ![p] = IF Asleep(p) THEN @ \cup {topic} ELSE @]
  BY DEF Observe
<1> QED
  BY <1>1, <1>2, <1>3

-----------------------------------------------------------------------------
(* Types.                                                                  *)

TimeTyped == clock \in 0..(Day - 1) /\ system \in Systems /\ todo \in Seq(People)
SleepTyped ==
    /\ alive \subseteq People /\ persistent \subseteq People
    /\ activity \in [People -> Activities]
    /\ wakeIn \in [People -> Int] /\ slept \in [People -> Nat]
    /\ idle \in [People -> Nat]
InboxTyped == inbox \in [People -> Seq(Topics)] /\ missed \in [People -> SUBSET Topics]
ModelTyped ==
    /\ fresh \in [People -> BOOLEAN] /\ used \in [People -> Nat]
    /\ spent \in [People -> Nat] /\ asked \in [People -> Nat]
    /\ callsThisTick \in Nat /\ failures \in Nat

\* The parts of the types.
LEMMA TypeParts == TypeOK <=> TimeTyped /\ SleepTyped /\ InboxTyped /\ ModelTyped
BY DEF TypeOK, TimeTyped, SleepTyped, InboxTyped, ModelTyped

\* Who is visited is the head of the loop.
LEMMA VisitIs ==
    ASSUME TimeTyped, NEW name, NEW p, Visiting(name, p)
    PROVE  /\ system = name /\ p \in People /\ p = todo[1] /\ 1 \in 1..Len(todo)
           /\ Tail(todo) \in Seq(People) /\ Len(Tail(todo)) = Len(todo) - 1
           /\ \A k \in 1..Len(Tail(todo)) : Tail(todo)[k] = todo[k + 1] /\ k + 1 \in 1..Len(todo)
BY TailIs DEF TimeTyped, Visiting

\* What a step does to the loops.
LEMMA LoopSteps ==
    ASSUME TypeOK, [Next]_vars
    PROVE  \/ UNCHANGED timeVars
           \/ StartDormancy \/ StartPerception \/ StartBrains \/ Tick
           \/ /\ system \in {"dormancy", "perception", "agent_brains"} /\ todo # <<>>
              /\ Visited
           \/ system = "agent_brains" /\ LeaveBrains /\ UNCHANGED clock
<1>1. CASE UNCHANGED vars
  BY <1>1 DEF vars
<1>2. CASE EndBrains
  BY <1>2 DEF EndBrains
<1>3. ASSUME NEW p \in People, WakingEvent(p) \/ Die(p) PROVE UNCHANGED timeVars
  BY <1>3 DEF WakingEvent, Die
<1>4. ASSUME NEW p \in People, StepRaises(p)
      PROVE  system = "agent_brains" /\ LeaveBrains /\ UNCHANGED clock
  BY <1>4 DEF StepRaises, Visiting
<1>5. ASSUME NEW p \in People,
             \/ SleepOn(p) \/ WakeOnTime(p) \/ FallAsleep(p) \/ StayUp(p) \/ Perceive(p)
             \/ DecideByRules(p) \/ DecideByModel(p) \/ ProviderFails(p)
      PROVE  /\ system \in {"dormancy", "perception", "agent_brains"} /\ todo # <<>>
             /\ Visited
  BY <1>5 DEF SleepOn, WakeOnTime, FallAsleep, StayUp, Perceive, DecideByRules,
     DecideByModel,
              ProviderFails, Visiting
<1> QED
  BY <1>1, <1>2, <1>3, <1>4, <1>5 DEF Next

\* Every loop visits residents.
LEMMA TimeStaysTyped ==
    ASSUME TypeOK, [Next]_vars PROVE TimeTyped'
<1>1. TimeTyped /\ alive \in SUBSET People
  BY DEF TypeOK, TimeTyped
<1>2. CASE UNCHANGED timeVars
  BY <1>1, <1>2 DEF TimeTyped, timeVars
<1>3. CASE StartDormancy
  <2>1. PICK o \in Orders(alive) : todo' = o
    BY <1>3 DEF StartDormancy, InOrder
  <2>2. todo' \in Seq(People)
    BY <1>1, <2>1, OrderIs
  <2> QED
    BY <1>1, <1>3, <2>2 DEF StartDormancy, TimeTyped, Systems
<1>4. CASE StartPerception
  <2>1. PICK S \in SUBSET People : S = {p \in alive : activity[p] \notin {"sleep", "offscreen"}}
    BY <1>1
  <2>2. PICK o \in Orders(S) : todo' = First(o, PerceptionBatch)
    BY <1>4, <2>1 DEF StartPerception, InOrder
  <2>3. todo' \in Seq(People)
    BY <2>1, <2>2, OrderIs, FirstIs, Counts
  <2> QED
    BY <1>1, <1>4, <2>3 DEF StartPerception, TimeTyped, Systems
<1>5. CASE StartBrains
  <2>1. CASE Quarantined
    BY <1>1, <1>5, <2>1 DEF StartBrains, TimeTyped, Systems
  <2>2. CASE ~Quarantined
    <3>1. PICK A \in SUBSET People, B \in SUBSET People :
            /\ A = {p \in alive : activity[p] = "active"} \cap persistent
            /\ B = {p \in alive : activity[p] = "active"} \ persistent
      BY <1>1
    <3>2. PICK f \in Orders(A), g \in Orders(B) : todo' = First(f \o g, BrainBatch)
      BY <1>5, <2>2, <3>1 DEF StartBrains
    <3>3. f \in Seq(People) /\ g \in Seq(People)
      BY <3>1, <3>2, OrderIs
    <3>4. f \o g \in Seq(People)
      BY <3>3, ConcatProperties, Zenon
    <3>5. todo' \in Seq(People)
      BY <3>2, <3>4, FirstIs, Counts
    <3> QED
      BY <1>1, <1>5, <2>2, <3>5 DEF StartBrains, TimeTyped, Systems
  <2> QED
    BY <2>1, <2>2
<1>6. CASE Tick
  <2>1. clock' \in 0..(Day - 1)
    BY <1>1, <1>6, NextTick DEF Tick, TimeTyped
  <2> QED
    BY <1>1, <1>6, <2>1 DEF Tick, TimeTyped, Systems
<1>7. CASE todo # <<>> /\ Visited
  BY <1>1, <1>7, TailIs DEF Visited, TimeTyped
<1>8. CASE LeaveBrains /\ UNCHANGED clock
  BY <1>1, <1>8 DEF LeaveBrains, TimeTyped, Systems
<1> QED
  BY <1>2, <1>3, <1>4, <1>5, <1>6, <1>7, <1>8, LoopSteps

\* What a step does to the residents' rest.
LEMMA RestSteps ==
    ASSUME TypeOK, [Next]_vars
    PROVE  \/ UNCHANGED <<alive, activity, wakeIn, idle, slept>>
           \/ Tick
           \/ \E p \in People :
                \/ Wake(p) /\ UNCHANGED alive /\ WakeOnTime(p)
                \/ Wake(p) /\ UNCHANGED alive /\ WakingEvent(p)
                \/ FallAsleep(p) \/ StayUp(p) \/ Die(p)
<1>1. CASE UNCHANGED vars
  BY <1>1 DEF vars, sleepVars
<1>2. CASE StartDormancy \/ StartPerception \/ StartBrains \/ EndBrains
  BY <1>2 DEF StartDormancy, StartPerception, StartBrains, EndBrains, sleepVars
<1>3. ASSUME NEW p \in People,
             \/ SleepOn(p) \/ Perceive(p) \/ DecideByRules(p) \/ DecideByModel(p)
             \/ ProviderFails(p) \/ StepRaises(p)
      PROVE  UNCHANGED <<alive, activity, wakeIn, idle, slept>>
  BY <1>3 DEF SleepOn, Perceive, DecideByRules, DecideByModel, ProviderFails,
     StepRaises, Act, sleepVars
<1>4. ASSUME NEW p \in People, WakingEvent(p)
      PROVE  UNCHANGED <<alive, activity, wakeIn, idle, slept>> \/ (Wake(p) /\ UNCHANGED alive)
  BY <1>4 DEF WakingEvent
<1>5. ASSUME NEW p \in People, WakeOnTime(p) PROVE Wake(p) /\ UNCHANGED alive
  BY <1>5 DEF WakeOnTime
<1> QED
  BY <1>1, <1>2, <1>3, <1>4, <1>5 DEF Next

\* Whoever falls asleep wakes after this tick, and not after an hour more than a day.
LEMMA WakeTickIs ==
    ASSUME TimeTyped, NEW p \in People
    PROVE  WakeTick(p) \in Int /\ WakeTick(p) >= 1 /\ WakeTick(p) <= Day + TicksPerHour
<1>1. /\ Day \in Nat /\ clock \in Nat /\ clock < Day
  BY HourIs DEF TimeTyped
<1>2. WakeAt[p] \in 0..Day
  BY MindsAssumption
<1>3. TicksPerHour \in Nat /\ TicksPerHour >= 1
  BY Counts
<1> QED
  BY <1>1, <1>2, <1>3 DEF WakeTick

\* Whoever sleeps has a wake tick, and nobody is idle for less than no time.
LEMMA SleepStaysTyped ==
    ASSUME TypeOK, [Next]_vars PROVE SleepTyped'
<1>1. SleepTyped /\ TimeTyped
  BY TypeParts
<1>2. persistent' \subseteq People
  <2>1. CASE UNCHANGED persistent
    BY <1>1, <2>1 DEF SleepTyped
  <2>2. ASSUME NEW p \in People, Act(p) PROVE persistent' \subseteq People
    BY <1>1, <2>2 DEF Act, SleepTyped
  <2>3. UNCHANGED persistent \/ \E p \in People : Act(p)
    BY DEF Next, vars, StartDormancy, StartPerception, StartBrains, EndBrains, Tick,
       SleepOn, WakeOnTime,
           FallAsleep, StayUp, Perceive, DecideByRules, DecideByModel, ProviderFails, StepRaises,
           WakingEvent, Die
  <2> QED
    BY <2>1, <2>2, <2>3
<1>3. CASE UNCHANGED <<alive, activity, wakeIn, idle, slept>>
  BY <1>1, <1>2, <1>3 DEF SleepTyped
<1>4. CASE Tick
  <2>1. /\ wakeIn' \in [People -> Int] /\ slept' \in [People -> Nat]
        /\ UNCHANGED <<alive, activity, idle>>
    BY <1>1, <1>4 DEF Tick, SleepTyped
  <2> QED
    BY <1>1, <1>2, <2>1 DEF SleepTyped
<1>5. ASSUME NEW p \in People, Wake(p), UNCHANGED alive PROVE SleepTyped'
  <2>1. /\ activity' \in [People -> Activities] /\ wakeIn' \in [People -> Int]
        /\ slept' \in [People -> Nat] /\ idle' \in [People -> Nat]
    BY <1>1, <1>5 DEF Wake, SleepTyped, Activities
  <2> QED
    BY <1>1, <1>2, <1>5, <2>1 DEF SleepTyped
<1>6. ASSUME NEW p \in People, FallAsleep(p) PROVE SleepTyped'
  <2>1. WakeTick(p) \in Int
    BY <1>1, WakeTickIs
  <2>2. /\ activity' \in [People -> Activities] /\ wakeIn' \in [People -> Int]
        /\ slept' \in [People -> Nat] /\ UNCHANGED <<alive, idle>>
    BY <1>1, <1>6, <2>1 DEF FallAsleep, SleepTyped, Activities
  <2> QED
    BY <1>1, <1>2, <2>2 DEF SleepTyped
<1>7. ASSUME NEW p \in People, StayUp(p) PROVE SleepTyped'
  <2>1. PICK salient \in BOOLEAN :
          /\ activity' = [activity EXCEPT ![p] = NextActivity(p, salient)]
          /\ idle' = [idle EXCEPT ![p] = IF salient THEN 0 ELSE @ + 1]
    BY <1>7 DEF StayUp
  <2>2. NextActivity(p, salient) \in Activities
    BY DEF NextActivity, Activities
  <2>3. UNCHANGED <<alive, wakeIn, slept>>
    BY <1>7 DEF StayUp
  <2>4. activity' \in [People -> Activities] /\ idle' \in [People -> Nat]
    BY <1>1, <2>1, <2>2 DEF SleepTyped
  <2> QED
    BY <1>1, <1>2, <2>3, <2>4 DEF SleepTyped
<1>8. ASSUME NEW p \in People, Die(p) PROVE SleepTyped'
  <2>1. /\ activity' \in [People -> Activities] /\ wakeIn' \in [People -> Int]
        /\ slept' \in [People -> Nat] /\ alive' \subseteq People /\ UNCHANGED idle
    BY <1>1, <1>8 DEF Die, SleepTyped, Activities
  <2> QED
    BY <1>1, <1>2, <2>1 DEF SleepTyped
<1> QED
  BY <1>3, <1>4, <1>5, <1>6, <1>7, <1>8, RestSteps

\* What a step does to the inboxes.
LEMMA InboxSteps ==
    ASSUME TypeOK, [Next]_vars
    PROVE  \/ UNCHANGED inboxVars
           \/ \E p \in People, t \in Topics : Observe(p, t) /\ UNCHANGED activity
           \/ \E p \in People : Wake(p)
           \/ \E p \in People : Die(p)
<1>1. CASE UNCHANGED vars
  BY <1>1 DEF vars
<1>2. CASE StartDormancy \/ StartPerception \/ StartBrains \/ EndBrains \/ Tick
  BY <1>2 DEF StartDormancy, StartPerception, StartBrains, EndBrains, Tick
<1>3. ASSUME NEW p \in People, SleepOn(p) \/ FallAsleep(p) \/ StayUp(p) \/ StepRaises(p)
      PROVE  UNCHANGED inboxVars
  BY <1>3 DEF SleepOn, FallAsleep, StayUp, StepRaises
<1>4. ASSUME NEW p \in People, WakeOnTime(p) \/ WakingEvent(p)
      PROVE  UNCHANGED inboxVars \/ Wake(p)
  BY <1>4 DEF WakeOnTime, WakingEvent
<1>5. ASSUME NEW p \in People, Perceive(p)
      PROVE  UNCHANGED inboxVars \/ \E t \in Topics : Observe(p, t) /\ UNCHANGED activity
  BY <1>5 DEF Perceive, sleepVars
<1>6. ASSUME NEW p \in People, Act(p)
      PROVE  UNCHANGED inboxVars \/ \E q \in People, t \in Topics : Observe(q, t) /\ UNCHANGED activity
  BY <1>6 DEF Act, Submit, sleepVars
<1>7. ASSUME NEW p \in People, DecideByRules(p) \/ DecideByModel(p) \/ ProviderFails(p) PROVE Act(p)
  BY <1>7 DEF DecideByRules, DecideByModel, ProviderFails
<1> QED
  BY <1>1, <1>2, <1>3, <1>4, <1>5, <1>6, <1>7 DEF Next

\* Inboxes hold topics, whatever is taken out of them.
LEMMA InboxStaysTyped ==
    ASSUME TypeOK, [Next]_vars PROVE InboxTyped'
<1>1. InboxTyped
  BY TypeParts
<1>2. CASE UNCHANGED inboxVars
  BY <1>1, <1>2 DEF InboxTyped, inboxVars
<1>3. ASSUME NEW p \in People, NEW t \in Topics, Observe(p, t) PROVE InboxTyped'
  BY <1>1, <1>3, ObserveIs DEF InboxTyped
<1>4. ASSUME NEW p \in People, Wake(p) PROVE InboxTyped'
  <2>1. <<>> \in Seq(Topics)
    OBVIOUS
  <2> QED
    BY <1>1, <1>4, <2>1 DEF Wake, InboxTyped
<1>5. ASSUME NEW p \in People, Die(p) PROVE InboxTyped'
  BY <1>1, <1>5 DEF Die, InboxTyped
<1> QED
  BY <1>2, <1>3, <1>4, <1>5, InboxSteps

\* What a step does to the budgets and the health of the brains.
LEMMA ModelSteps ==
    ASSUME TypeOK, [Next]_vars
    PROVE  \/ UNCHANGED modelVars
           \/ Tick
           \/ UNCHANGED <<fresh, used, spent>> /\ callsThisTick' = 0 /\ UNCHANGED failures
           \/ \E p \in People : Reset(p) /\ UNCHANGED <<callsThisTick, failures, spent>>
           \/ \E p \in People : MayCall(p) /\ Pay(p) /\ UNCHANGED failures
           \/ \E p \in People :
                /\ MayCall(p)
                /\ \/ Reset(p) /\ UNCHANGED spent
                   \/ /\ fresh' = [fresh EXCEPT ![p] = TRUE]
                      /\ used' = [used EXCEPT ![p] = Used(p) + 1]
                      /\ spent' = [spent EXCEPT ![p] = @ + 1]
                /\ callsThisTick' = 0 /\ failures' = failures + 1
<1>1. CASE UNCHANGED vars
  BY <1>1 DEF vars
<1>2. CASE StartDormancy \/ StartPerception \/ StartBrains
  BY <1>2 DEF StartDormancy, StartPerception, StartBrains
<1>3. CASE EndBrains
  BY <1>3 DEF EndBrains, LeaveBrains
<1>4. ASSUME NEW p \in People,
             \/ SleepOn(p) \/ WakeOnTime(p) \/ FallAsleep(p) \/ StayUp(p) \/ Perceive(p)
             \/ WakingEvent(p) \/ Die(p)
      PROVE  UNCHANGED modelVars
  BY <1>4 DEF SleepOn, WakeOnTime, FallAsleep, StayUp, Perceive, WakingEvent, Die
<1>5. ASSUME NEW p \in People, DecideByRules(p) \/ ProviderFails(p)
      PROVE  Reset(p) /\ UNCHANGED <<callsThisTick, failures, spent>>
  BY <1>5 DEF DecideByRules, ProviderFails
<1>6. ASSUME NEW p \in People, DecideByModel(p) PROVE MayCall(p) /\ Pay(p) /\ UNCHANGED failures
  BY <1>6 DEF DecideByModel
<1>7. ASSUME NEW p \in People, StepRaises(p)
      PROVE  /\ MayCall(p)
             /\ \/ Reset(p) /\ UNCHANGED spent
                \/ /\ fresh' = [fresh EXCEPT ![p] = TRUE]
                   /\ used' = [used EXCEPT ![p] = Used(p) + 1]
                   /\ spent' = [spent EXCEPT ![p] = @ + 1]
             /\ callsThisTick' = 0 /\ failures' = failures + 1
  BY <1>7 DEF StepRaises, LeaveBrains
<1> QED
  BY <1>1, <1>2, <1>3, <1>4, <1>5, <1>6, <1>7 DEF Next

\* What a step does to the questions: they are counted one by one, in the loop of the
\* brains, and from nothing at midnight.
LEMMA AskSteps ==
    ASSUME TypeOK, [Next]_vars
    PROVE  \/ Tick
           \/ UNCHANGED asked
           \/ \E p \in People :
                /\ Visiting("agent_brains", p) /\ Ask(p) /\ UNCHANGED clock
                /\ Visited \/ LeaveBrains
<1>1. CASE UNCHANGED vars
  BY <1>1 DEF vars, modelVars
<1>2. CASE StartDormancy \/ StartPerception \/ StartBrains \/ EndBrains
  BY <1>2 DEF StartDormancy, StartPerception, StartBrains, EndBrains, modelVars
<1>3. ASSUME NEW p \in People,
             \/ SleepOn(p) \/ WakeOnTime(p) \/ FallAsleep(p) \/ StayUp(p) \/ Perceive(p)
             \/ WakingEvent(p) \/ Die(p) \/ DecideByRules(p)
      PROVE  UNCHANGED asked
  BY <1>3 DEF SleepOn, WakeOnTime, FallAsleep, StayUp, Perceive, WakingEvent, Die,
     DecideByRules, modelVars
<1>4. ASSUME NEW p \in People, DecideByModel(p) \/ ProviderFails(p) \/ StepRaises(p)
      PROVE  /\ Visiting("agent_brains", p) /\ Ask(p) /\ UNCHANGED clock
             /\ Visited \/ LeaveBrains
  BY <1>4 DEF DecideByModel, ProviderFails, StepRaises, Visited
<1> QED
  BY <1>1, <1>2, <1>3, <1>4 DEF Next

\* Questions are counted in naturals.
LEMMA AskedStaysTyped ==
    ASSUME TypeOK, [Next]_vars PROVE asked' \in [People -> Nat]
<1>1. asked \in [People -> Nat]
  BY DEF TypeOK
<1>2. CASE Tick
  <2>1. asked' = [p \in People |-> 0] \/ UNCHANGED asked
    BY <1>2 DEF Tick
  <2> QED
    BY <1>1, <2>1
<1>3. ASSUME NEW p \in People, Ask(p) PROVE asked' \in [People -> Nat]
  BY <1>1, <1>3 DEF Ask
<1> QED
  BY <1>1, <1>2, <1>3, AskSteps

\* What is counted is counted up, or from nothing.
LEMMA ModelStaysTyped ==
    ASSUME TypeOK, [Next]_vars PROVE ModelTyped'
<1>1. ModelTyped /\ asked' \in [People -> Nat]
  BY TypeParts, AskedStaysTyped
<1>2. \A p \in People : Used(p) \in Nat
  BY <1>1 DEF Used, ModelTyped
<1>3. CASE UNCHANGED modelVars
  BY <1>1, <1>3 DEF ModelTyped, modelVars
<1>4. CASE Tick
  <2>1. UNCHANGED <<used, callsThisTick, failures>>
    BY <1>4 DEF Tick
  <2>2. \/ fresh' = [p \in People |-> FALSE] /\ spent' = [p \in People |-> 0]
        \/ UNCHANGED <<fresh, spent>>
    BY <1>4 DEF Tick
  <2>3. fresh \in [People -> BOOLEAN] /\ spent \in [People -> Nat]
    BY <1>1 DEF ModelTyped
  <2>4. [p \in People |-> FALSE] \in [People -> BOOLEAN] /\ [p \in People |-> 0] \in [People -> Nat]
    OBVIOUS
  <2>5. fresh' \in [People -> BOOLEAN] /\ spent' \in [People -> Nat]
    BY <2>2, <2>3, <2>4, Zenon
  <2> QED
    BY <1>1, <2>1, <2>5 DEF ModelTyped
<1>5. CASE UNCHANGED <<fresh, used, spent>> /\ callsThisTick' = 0 /\ UNCHANGED failures
  BY <1>1, <1>5 DEF ModelTyped
<1>6. ASSUME NEW p \in People, Reset(p) PROVE fresh' \in [People -> BOOLEAN] /\ used' \in [People -> Nat]
  BY <1>1, <1>2, <1>6 DEF Reset, ModelTyped
<1>7. ASSUME NEW p \in People, Pay(p), UNCHANGED failures PROVE ModelTyped'
  BY <1>1, <1>2, <1>7 DEF Pay, ModelTyped
<1>8. ASSUME NEW p \in People,
             /\ fresh' = [fresh EXCEPT ![p] = TRUE]
             /\ used' = [used EXCEPT ![p] = Used(p) + 1]
             /\ spent' = [spent EXCEPT ![p] = @ + 1]
      PROVE  fresh' \in [People -> BOOLEAN] /\ used' \in [People -> Nat] /\ spent' \in [People -> Nat]
  BY <1>1, <1>2, <1>8 DEF ModelTyped
<1>9. ASSUME NEW p \in People, Reset(p), UNCHANGED spent, callsThisTick' \in Nat, failures' \in Nat
      PROVE ModelTyped'
  BY <1>1, <1>6, <1>9 DEF ModelTyped
<1>10. callsThisTick \in Nat /\ failures \in Nat /\ failures + 1 \in Nat
  BY <1>1 DEF ModelTyped
<1>11. ASSUME NEW p \in People,
              /\ \/ Reset(p) /\ UNCHANGED spent
                 \/ /\ fresh' = [fresh EXCEPT ![p] = TRUE]
                    /\ used' = [used EXCEPT ![p] = Used(p) + 1]
                    /\ spent' = [spent EXCEPT ![p] = @ + 1]
              /\ callsThisTick' = 0 /\ failures' = failures + 1
       PROVE  ModelTyped'
  <2>1. callsThisTick' \in Nat /\ failures' \in Nat
    BY <1>10, <1>11
  <2>2. CASE Reset(p) /\ UNCHANGED spent
    BY <1>9, <2>1, <2>2
  <2>3. CASE /\ fresh' = [fresh EXCEPT ![p] = TRUE]
             /\ used' = [used EXCEPT ![p] = Used(p) + 1]
             /\ spent' = [spent EXCEPT ![p] = @ + 1]
    BY <1>1, <1>8, <2>1, <2>3 DEF ModelTyped
  <2> QED
    BY <1>11, <2>2, <2>3
<1> QED
  BY <1>3, <1>4, <1>5, <1>7, <1>9, <1>10, <1>11, ModelSteps

\* Loops, rest, inboxes and budgets keep their types: nobody is visited who is not
\* there, and no inbox loses more than it holds.
THEOREM TypeCorrect == Spec => []TypeOK
<1>1. Init => TypeOK
  <2>1. SUFFICES ASSUME Init PROVE TypeOK
    OBVIOUS
  <2>2. 0 \in 0..(Day - 1)
    <3>1. PICK T \in Nat, H \in Nat : T = TicksPerHour /\ H = HoursPerDay /\ T >= 1 /\ H >= 1
      BY Counts
    <3>2. T * H >= T * 1 /\ T * H \in Nat
      BY <3>1
    <3> QED
      BY <3>1, <3>2 DEF Day
  <2>3. <<>> \in Seq(People) /\ <<>> \in Seq(Topics) /\ Significant \subseteq People
    BY MindsAssumption
  <2> QED
    BY <2>1, <2>2, <2>3 DEF Init, TypeOK, Systems, Activities
<1>2. TypeOK /\ [Next]_vars => TypeOK'
  <2>1. SUFFICES ASSUME TypeOK, [Next]_vars PROVE TypeOK'
    OBVIOUS
  <2>2. TimeTyped' /\ SleepTyped' /\ InboxTyped' /\ ModelTyped'
    BY <2>1, TimeStaysTyped, SleepStaysTyped, InboxStaysTyped, ModelStaysTyped
  <2> QED
    BY <2>2 DEF TypeOK, TimeTyped, SleepTyped, InboxTyped, ModelTyped
<1> QED
  BY <1>1, <1>2, PTL DEF Spec

-----------------------------------------------------------------------------
(* Budgets.                                                                *)

\* What was spent today is what the gateway counts, which starts anew with the first
\* question of another day.
BudgetInv ==
    /\ \A p \in People :
        /\ spent[p] <= DailyCalls
        /\ spent[p] > 0 => (spent[p] - 1) * ReplyTokens < TokenBudget
        /\ spent[p] = Used(p)
    /\ callsThisTick <= MaxCallsPerTick

\* A question is asked only within the budgets; only midnight begins them anew.
LEMMA BudgetStaysKept ==
    ASSUME TypeOK, BudgetInv, [Next]_vars PROVE BudgetInv'
<1>1. ModelTyped
  BY TypeParts
<1>2. \A p \in People : Used(p) \in Nat /\ spent[p] = Used(p) /\ spent[p] \in Nat
  BY <1>1 DEF Used, ModelTyped, BudgetInv
<1> DEFINE Within(n) == n <= DailyCalls /\ (n > 0 => (n - 1) * ReplyTokens < TokenBudget)
<1>3. \A p \in People : Within(spent[p])
  BY DEF BudgetInv
<1>4. Within(0) /\ callsThisTick \in Nat /\ callsThisTick <= MaxCallsPerTick /\ 0 <= MaxCallsPerTick
  BY <1>1, Counts DEF BudgetInv, ModelTyped
<1>5. ASSUME NEW p \in People, MayCall(p) PROVE Within(spent[p] + 1)
  <2>1. PICK n \in Nat : n = spent[p] /\ n < DailyCalls /\ n * ReplyTokens < TokenBudget
    BY <1>2, <1>5 DEF MayCall
  <2>2. (n + 1) - 1 = n /\ n + 1 <= DailyCalls
    BY <2>1, Counts
  <2> QED
    BY <2>1, <2>2
<1> HIDE DEF Within
<1>6. ASSUME \A p \in People : Within(spent'[p]) /\ spent'[p] = Used(p)', callsThisTick' <= MaxCallsPerTick
      PROVE  BudgetInv'
  BY <1>6 DEF BudgetInv, Within
<1>7. ASSUME NEW p \in People, Reset(p) PROVE \A q \in People : Used(q)' = Used(q)
  BY <1>1, <1>7 DEF Reset, Used, ModelTyped
<1>8. ASSUME NEW p \in People, MayCall(p),
             /\ fresh' = [fresh EXCEPT ![p] = TRUE]
             /\ used' = [used EXCEPT ![p] = Used(p) + 1]
             /\ spent' = [spent EXCEPT ![p] = @ + 1]
      PROVE  \A q \in People : Within(spent'[q]) /\ spent'[q] = Used(q)'
  <2>1. spent'[p] = spent[p] + 1 /\ Used(p)' = Used(p) + 1
    BY <1>1, <1>8 DEF Used, ModelTyped
  <2>2. \A q \in People \ {p} : spent'[q] = spent[q] /\ Used(q)' = Used(q)
    BY <1>1, <1>8 DEF Used, ModelTyped
  <2> QED
    BY <1>2, <1>3, <1>5, <1>8, <2>1, <2>2
<1>9. CASE UNCHANGED modelVars
  <2>1. \A p \in People : Used(p)' = Used(p)
    BY <1>9 DEF Used, modelVars
  <2> QED
    BY <1>2, <1>3, <1>4, <1>6, <1>9, <2>1 DEF modelVars
<1>10. CASE Tick
  <2>1. CASE clock = Day - 1
    <3>1. \A p \in People : spent'[p] = 0 /\ Used(p)' = 0
      BY <1>10, <2>1 DEF Tick, Used
    <3> QED
      BY <1>4, <1>6, <1>10, <3>1 DEF Tick
  <2>2. CASE clock # Day - 1
    <3>1. UNCHANGED <<fresh, used, spent, callsThisTick>>
      BY <1>10, <2>2 DEF Tick
    <3>2. \A p \in People : Used(p)' = Used(p)
      BY <3>1 DEF Used
    <3> QED
      BY <1>2, <1>3, <1>4, <1>6, <3>1, <3>2
  <2> QED
    BY <2>1, <2>2
<1>11. CASE UNCHANGED <<fresh, used, spent>> /\ callsThisTick' = 0
  <2>1. \A p \in People : Used(p)' = Used(p)
    BY <1>11 DEF Used
  <2> QED
    BY <1>2, <1>3, <1>4, <1>6, <1>11, <2>1
<1>12. ASSUME NEW p \in People, Reset(p), UNCHANGED spent, callsThisTick' \in {0, callsThisTick}
       PROVE  BudgetInv'
  BY <1>2, <1>3, <1>4, <1>6, <1>7, <1>12
<1>13. ASSUME NEW p \in People, MayCall(p), Pay(p) PROVE BudgetInv'
  <2>1. callsThisTick' <= MaxCallsPerTick
    BY <1>4, <1>13, Counts DEF MayCall, Pay
  <2> QED
    BY <1>6, <1>8, <1>13, <2>1 DEF Pay
<1>14. ASSUME NEW p \in People, MayCall(p), callsThisTick' = 0,
              /\ fresh' = [fresh EXCEPT ![p] = TRUE]
              /\ used' = [used EXCEPT ![p] = Used(p) + 1]
              /\ spent' = [spent EXCEPT ![p] = @ + 1]
       PROVE  BudgetInv'
  BY <1>4, <1>6, <1>8, <1>14
<1> QED
  BY <1>9, <1>10, <1>11, <1>12, <1>13, <1>14, ModelSteps

-----------------------------------------------------------------------------
(* The inbox of those who sleep.                                           *)

\* Of what was observed, one topic is still there or no topic that is there is less
\* important.
Kept(box, t) ==
    \/ \E k \in 1..Len(box) : box[k] = t
    \/ /\ Len(box) >= MaxInbox
       /\ \A k \in 1..Len(box) : Importance[t] <= Importance[box[k]]

\* An inbox keeps what it has kept, and what is observed.
LEMMA ObservedIsKept ==
    ASSUME NEW box \in Seq(Topics), NEW topic \in Topics, NEW new \in Observed(box, topic),
           NEW t \in Topics, Kept(box, t) \/ t = topic
    PROVE  Kept(new, t)
<1> DEFINE longer == Append(box, topic)
<1>0. /\ new \in Seq(Topics)
      /\ \/ Len(box) < MaxInbox /\ new = longer
         \/ /\ Len(box) >= MaxInbox /\ Len(new) = Len(box)
            /\ \E m \in 1..(Len(box) + 1) : Loses(longer, Len(box), m, new)
  BY ObservedIs
<1>1. PICK n \in Nat : n = Len(box)
  OBVIOUS
<1>2. /\ longer[n + 1] = topic /\ \A k \in 1..n : longer[k] = box[k]
      /\ longer \in Seq(Topics) /\ Len(longer) = n + 1
  BY <1>1, AppendProperties
<1>3. \A x \in Topics : Importance[x] \in 0..2
  BY MindsAssumption
<1>4. \A k \in 1..(n + 1) : longer[k] \in Topics
  BY <1>2
<1> HIDE DEF longer
<1>5. MaxInbox \in Nat
  BY Counts
<1>6. CASE n < MaxInbox /\ new = longer
  <2>1. \E k \in 1..(n + 1) : longer[k] = t
    <3>1. CASE t = topic
      BY <1>2, <3>1
    <3>2. CASE Kept(box, t)
      <4>1. PICK k \in 1..n : box[k] = t
        BY <1>1, <1>5, <1>6, <3>2 DEF Kept
      <4> QED
        BY <1>2, <4>1
    <3> QED
      BY <3>1, <3>2
  <2> QED
    BY <1>2, <1>6, <2>1 DEF Kept
<1>7. ASSUME n >= MaxInbox, Len(new) = n, new \in Seq(Topics),
             NEW m \in 1..(n + 1),
             \A j \in 1..(n + 1) : Importance[longer[m]] <= Importance[longer[j]],
             \A j \in (1..(n + 1)) \ {m} : \E k \in 1..n : new[k] = longer[j],
             \A k \in 1..n : \E j \in (1..(n + 1)) \ {m} : new[k] = longer[j]
      PROVE  Kept(new, t)
  <2>1. ASSUME NEW x \in Topics, \A j \in 1..(n + 1) : Importance[x] <= Importance[longer[j]]
        PROVE  Kept(new, x)
    BY <1>7, <2>1 DEF Kept
  <2>2. ASSUME NEW j \in 1..(n + 1), longer[j] = t PROVE Kept(new, t)
    <3>1. CASE j = m
      BY <1>7, <2>1, <2>2, <3>1
    <3>2. CASE j # m
      <4>1. \E k \in 1..n : new[k] = longer[j]
        BY <1>7, <3>2
      <4> QED
        BY <1>7, <2>2, <4>1 DEF Kept
    <3> QED
      BY <3>1, <3>2
  <2>3. CASE \E j \in 1..(n + 1) : longer[j] = t
    BY <2>2, <2>3
  <2>4. CASE ~ \E j \in 1..(n + 1) : longer[j] = t
    <3>1. t # topic /\ ~ \E k \in 1..n : box[k] = t
      BY <1>2, <2>4
    <3>2. \A k \in 1..n : Importance[t] <= Importance[box[k]]
      BY <1>1, <3>1 DEF Kept
    <3>3. CASE m = n + 1
      <4>1. \A j \in (1..(n + 1)) \ {m} : j \in 1..n
        BY <3>3
      <4>2. \A k \in 1..n : \E j \in 1..n : new[k] = box[j]
        <5>1. SUFFICES ASSUME NEW k \in 1..n PROVE \E j \in 1..n : new[k] = box[j]
          OBVIOUS
        <5>2. PICK j \in (1..(n + 1)) \ {m} : new[k] = longer[j]
          BY <1>7
        <5>3. j \in 1..n /\ longer[j] = box[j]
          BY <1>2, <4>1
        <5> QED
          BY <5>2, <5>3
      <4>3. \A k \in 1..n : Importance[t] <= Importance[new[k]]
        BY <3>2, <4>2
      <4> QED
        BY <1>7, <4>3 DEF Kept
    <3>4. CASE m \in 1..n
      <4>1. Importance[longer[m]] <= Importance[topic] /\ Importance[t] <= Importance[longer[m]]
        <5>1. n + 1 \in 1..(n + 1) /\ longer[n + 1] = topic /\ longer[m] = box[m]
          BY <1>2, <3>4
        <5>2. Importance[longer[m]] <= Importance[longer[n + 1]]
          BY <1>7, <5>1
        <5>3. Importance[t] <= Importance[box[m]]
          BY <3>2, <3>4
        <5> QED
          BY <5>1, <5>2, <5>3
      <4>2. Importance[t] <= Importance[topic]
        BY <1>3, <1>4, <4>1
      <4>3. \A j \in 1..(n + 1) : Importance[t] <= Importance[longer[j]]
        <5>1. SUFFICES ASSUME NEW j \in 1..(n + 1) PROVE Importance[t] <= Importance[longer[j]]
          OBVIOUS
        <5>2. j \in 1..n \/ j = n + 1
          OBVIOUS
        <5> QED
          BY <1>2, <3>2, <4>2, <5>2
      <4> QED
        BY <2>1, <4>3
    <3> QED
      BY <3>3, <3>4
  <2> QED
    BY <2>3, <2>4
<1>8. /\ new \in Seq(Topics)
      /\ \/ n < MaxInbox /\ new = longer
         \/ /\ n >= MaxInbox /\ Len(new) = n
            /\ \E m \in 1..(n + 1) : Loses(longer, n, m, new)
  BY <1>0, <1>1
<1> QED
  BY <1>6, <1>7, <1>8 DEF Loses

\* What those who sleep have observed is kept.
SleepersKept == \A p \in People : \A t \in missed[p] : Kept(inbox[p], t)

\* Who is told something in their sleep keeps it; who is awake or dead misses nothing.
LEMMA InboxStaysKept ==
    ASSUME TypeOK, SleepersKept, [Next]_vars PROVE SleepersKept'
<1>1. InboxTyped /\ InboxTyped'
  BY TypeParts, InboxStaysTyped
<1>2. CASE UNCHANGED inboxVars
  BY <1>2 DEF SleepersKept, Kept, inboxVars
<1>3. ASSUME NEW p \in People, NEW topic \in Topics, Observe(p, topic) PROVE SleepersKept'
  <2>1. /\ \A q \in People \ {p} : inbox'[q] = inbox[q] /\ missed'[q] = missed[q]
        /\ inbox'[p] \in Observed(inbox[p], topic)
        /\ missed'[p] \subseteq missed[p] \cup {topic}
    BY <1>1, <1>3, ObserveIs DEF InboxTyped
  <2>2. inbox[p] \in Seq(Topics) /\ missed[p] \subseteq Topics
    BY <1>1 DEF InboxTyped
  <2>3. \A t \in missed'[p] : Kept(inbox'[p], t)
    <3>1. SUFFICES ASSUME NEW t \in missed'[p] PROVE Kept(inbox'[p], t)
      OBVIOUS
    <3>2. t \in Topics /\ (Kept(inbox[p], t) \/ t = topic)
      BY <2>1, <2>2 DEF SleepersKept
    <3>3. inbox[p] \in Seq(Topics) /\ inbox'[p] \in Observed(inbox[p], topic)
      BY <2>1, <2>2
    <3> QED
      BY <3>2, <3>3, ObservedIsKept
  <2>4. \A q \in People \ {p} : \A t \in missed'[q] : Kept(inbox'[q], t)
    BY <2>1 DEF SleepersKept
  <2> QED
    BY <2>3, <2>4 DEF SleepersKept, Kept
<1>4. ASSUME NEW p \in People,
             missed' = [missed EXCEPT ![p] = {}],
             inbox' = [inbox EXCEPT ![p] = <<>>] \/ UNCHANGED inbox
      PROVE  SleepersKept'
  <2>1. /\ \A q \in People \ {p} : inbox'[q] = inbox[q] /\ missed'[q] = missed[q]
        /\ missed'[p] = {}
    BY <1>1, <1>4 DEF InboxTyped
  <2>2. \A q \in People : \A t \in missed'[q] : Kept(inbox'[q], t)
    BY <2>1 DEF SleepersKept
  <2> QED
    BY <2>2 DEF SleepersKept, Kept
<1> QED
  BY <1>2, <1>3, <1>4, InboxSteps DEF Wake, Die

\* Whatever residents are told in their sleep is in the inbox they wake up to, or
\* that holds nothing less important: for inboxes of any size, any number of topics,
\* and whichever of the least important items goes.
THEOREM NothingIsMissed == Spec => []NothingSleptThrough
<1>1. Init => SleepersKept
  BY DEF Init, SleepersKept
<1>2. TypeOK /\ SleepersKept /\ [Next]_vars => SleepersKept'
  BY InboxStaysKept
<1>3. TypeOK /\ SleepersKept => NothingSleptThrough
  <2>1. SUFFICES ASSUME TypeOK, SleepersKept, NEW p \in People, NEW t \in missed[p]
                 PROVE  \/ \E k \in DOMAIN inbox[p] : inbox[p][k] = t
                        \/ /\ Len(inbox[p]) >= MaxInbox
                           /\ \A k \in DOMAIN inbox[p] : Importance[t] <= Importance[inbox[p][k]]
    BY DEF NothingSleptThrough
  <2>2. DOMAIN inbox[p] = 1..Len(inbox[p])
    BY <2>1 DEF TypeOK
  <2> QED
    BY <2>1, <2>2 DEF SleepersKept, Kept
<1> QED
  BY <1>1, <1>2, <1>3, TypeCorrect, PTL DEF Spec

-----------------------------------------------------------------------------
(* Nights and idle hours.                                                  *)

\* An hour at which a resident sleeps, the hours since then, and how many of them a
\* resident may have been idle who has still to be visited in this hour.
Bed(p) == CHOOSE h \in 0..(HoursPerDay - 1) : Sleeps(p, h * TicksPerHour)
Since(p, h) == IF h >= Bed(p) THEN h - Bed(p) ELSE h + HoursPerDay - Bed(p)
DueIn(p, h) == IF h = Bed(p) THEN HoursPerDay ELSE Since(p, h)

\* The hours since bedtime grow by one an hour, up to a day.
LEMMA SinceIs ==
    ASSUME NEW p \in People, NEW h \in 0..(HoursPerDay - 1)
    PROVE  /\ Bed(p) \in 0..(HoursPerDay - 1) /\ Sleeps(p, Bed(p) * TicksPerHour)
           /\ Since(p, h) \in Nat /\ Since(p, h) < HoursPerDay
           /\ DueIn(p, h) \in Nat /\ DueIn(p, h) >= 1 /\ DueIn(p, h) <= HoursPerDay
           /\ Since(p, h) <= DueIn(p, h)
           /\ h # Bed(p) => DueIn(p, h) = Since(p, h)
           /\ DueIn(p, IF h = HoursPerDay - 1 THEN 0 ELSE h + 1) = Since(p, h) + 1
<1>1. Bed(p) \in 0..(HoursPerDay - 1) /\ Sleeps(p, Bed(p) * TicksPerHour)
  BY NightsAssumption DEF Bed
<1>2. PICK b \in Nat, H \in Nat : b = Bed(p) /\ H = HoursPerDay /\ b < H
  BY <1>1, Counts
<1>3. h \in Nat /\ h < H
  BY <1>2
<1>4. Since(p, h) = IF h >= b THEN h - b ELSE h + H - b
  BY <1>2 DEF Since
<1>5. DueIn(p, h) = IF h = b THEN H ELSE Since(p, h)
  BY <1>2 DEF DueIn
<1>6. DueIn(p, IF h = HoursPerDay - 1 THEN 0 ELSE h + 1) = Since(p, h) + 1
  <2>1. CASE h = H - 1
    <3>1. DueIn(p, 0) = IF 0 = b THEN H ELSE IF 0 >= b THEN 0 - b ELSE 0 + H - b
      BY <1>2 DEF DueIn, Since
    <3> QED
      BY <1>2, <1>3, <1>4, <2>1, <3>1
  <2>2. CASE h # H - 1
    <3>1. DueIn(p, h + 1) = IF h + 1 = b THEN H ELSE IF h + 1 >= b THEN h + 1 - b ELSE h + 1 + H - b
      BY <1>2 DEF DueIn, Since
    <3> QED
      BY <1>2, <1>3, <1>4, <2>2, <3>1
  <2> QED
    BY <2>1, <2>2
<1> QED
  BY <1>1, <1>2, <1>3, <1>4, <1>5, <1>6

Up == {"active", "light_idle", "dormant"}

\* What the rest of one who has still to be visited in this hour is like, and of one
\* who has been visited: the wake hour is not much behind, and the idle hours are not
\* more than those since an hour of sleep.
Waits(p, c, a, w, s, i) ==
    /\ a # "dormant"
    /\ a = "sleep" => s + w <= Day + TicksPerHour /\ w >= 1 - TicksPerHour
    /\ a \in Up => i < DueIn(p, Hour(c))
Rests(p, c, a, w, s, i) ==
    /\ a # "dormant"
    /\ a = "sleep" => s + w <= Day + TicksPerHour /\ w + Minute(c) >= 1
    /\ a \in Up => i <= Since(p, Hour(c))

Pending(p) == system = "due" \/ (system = "dormancy" /\ \E k \in 1..Len(todo) : todo[k] = p)

RestInv ==
    \A p \in People :
        IF Pending(p) THEN Waits(p, clock, activity[p], wakeIn[p], slept[p], idle[p])
        ELSE Rests(p, clock, activity[p], wakeIn[p], slept[p], idle[p])

\* Systems run at full hours; the dead are off screen; a loop visits each of the
\* living once.
LoopInv ==
    /\ system # "none" => Minute(clock) = 0
    /\ \A p \in People : p \notin alive <=> activity[p] = "offscreen"
    /\ system = "dormancy" =>
        /\ \A k \in 1..Len(todo) : todo[k] \in alive
        /\ \A j, k \in 1..Len(todo) : j < k => todo[j] < todo[k]

\* The night goes on, and an hour later whoever is up may have been idle for another.
LEMMA RestsOn ==
    ASSUME NEW p \in People, NEW c \in 0..(Day - 1), NEW a \in Activities,
           NEW w \in Int, NEW s \in Nat, NEW i \in Nat, NEW v, NEW z,
           Rests(p, c, a, w, s, i),
           v = IF a = "sleep" THEN w - 1 ELSE w, z = IF a = "sleep" THEN s + 1 ELSE s
    PROVE  IF (c + 1) % TicksPerHour = 0
           THEN Waits(p, (c + 1) % Day, a, v, z, i)
           ELSE Rests(p, (c + 1) % Day, a, v, z, i)
<1>1. PICK d \in 0..(Day - 1) :
        /\ d = (c + 1) % Day
        /\ IF (c + 1) % TicksPerHour = 0
           THEN /\ Minute(d) = 0 /\ Minute(c) = TicksPerHour - 1
                /\ Hour(d) = IF Hour(c) = HoursPerDay - 1 THEN 0 ELSE Hour(c) + 1
           ELSE /\ Minute(d) = Minute(c) + 1 /\ Hour(d) = Hour(c) /\ d = c + 1
  BY NextTick
<1>2. PICK h \in 0..(HoursPerDay - 1), m \in Nat : h = Hour(c) /\ m = Minute(c)
  BY HourIs, Counts
<1>3. Since(p, h) \in Nat /\ DueIn(p, IF h = HoursPerDay - 1 THEN 0 ELSE h + 1) = Since(p, h) + 1
  BY SinceIs
<1>4. PICK D \in Nat, T \in Nat : D = Day /\ T = TicksPerHour /\ T >= 1
  BY HourIs, Counts
<1>5. a # "dormant" /\ (a \in Up => i <= Since(p, h))
  BY <1>2 DEF Rests
<1>6. a = "sleep" => s + w <= D + T /\ w + m >= 1
  BY <1>2, <1>4 DEF Rests
<1>7. CASE (c + 1) % TicksPerHour = 0
  <2>1. m = T - 1 /\ Hour(d) = IF h = HoursPerDay - 1 THEN 0 ELSE h + 1
    BY <1>1, <1>2, <1>4, <1>7
  <2>2. a \in Up => i < DueIn(p, Hour(d))
    <3>1. DueIn(p, Hour(d)) = Since(p, h) + 1
      BY <1>3, <2>1
    <3> QED
      BY <1>3, <1>5, <3>1
  <2>3. a = "sleep" => z + v <= D + T /\ v >= 1 - T
    BY <1>4, <1>6, <2>1
  <2>4. Waits(p, d, a, v, z, i)
    BY <1>4, <1>5, <2>2, <2>3 DEF Waits
  <2> QED
    BY <1>1, <1>7, <2>4
<1>8. CASE ~((c + 1) % TicksPerHour = 0)
  <2>1. Minute(d) = m + 1 /\ Hour(d) = h
    BY <1>1, <1>2, <1>8
  <2>2. a = "sleep" => z + v <= D + T /\ v + Minute(d) >= 1
    BY <1>4, <1>6, <2>1
  <2>3. Rests(p, d, a, v, z, i)
    BY <1>4, <1>5, <2>1, <2>2 DEF Rests
  <2> QED
    BY <1>1, <1>8, <2>3
<1> QED
  BY <1>7, <1>8

\* What a visit of DormancySystem is.
LEMMA VisitSteps ==
    ASSUME TypeOK, [Next]_vars
    PROVE  \/ StartDormancy \/ Tick
           \/ \E p \in People : WakingEvent(p) \/ Die(p)
           \/ \E p \in People : SleepOn(p) \/ WakeOnTime(p) \/ FallAsleep(p) \/ StayUp(p)
           \/ /\ UNCHANGED <<clock, alive, activity, wakeIn, idle, slept>>
              /\ \/ UNCHANGED <<system, todo>>
                 \/ system = "dormancy" /\ todo = <<>> /\ system' \notin {"due", "dormancy"}
                 \/ system \in {"perception", "agent_brains"} /\ system' \notin {"due", "dormancy"}
<1>1. CASE UNCHANGED vars
  BY <1>1 DEF vars, timeVars, sleepVars
<1>2. CASE StartPerception
  BY <1>2 DEF StartPerception, sleepVars
<1>3. CASE StartBrains
  BY <1>3 DEF StartBrains, sleepVars
<1>4. CASE EndBrains
  BY <1>4 DEF EndBrains, LeaveBrains, sleepVars
<1>5. ASSUME NEW p \in People, StepRaises(p)
      PROVE  /\ UNCHANGED <<clock, alive, activity, wakeIn, idle, slept>>
             /\ system \in {"perception", "agent_brains"} /\ system' \notin {"due", "dormancy"}
  BY <1>5 DEF StepRaises, Visiting, LeaveBrains, sleepVars
<1>6. ASSUME NEW p \in People,
             Perceive(p) \/ DecideByRules(p) \/ DecideByModel(p) \/ ProviderFails(p)
      PROVE  /\ UNCHANGED <<clock, alive, activity, wakeIn, idle, slept>>
             /\ system \in {"perception", "agent_brains"} /\ system' \notin {"due", "dormancy"}
  BY <1>6 DEF Perceive, DecideByRules, DecideByModel, ProviderFails, Visiting, Visited,
     Act, sleepVars
<1> QED
  BY <1>1, <1>2, <1>3, <1>4, <1>5, <1>6 DEF Next

\* Those who are chosen are visited one by one.
LEMMA InOrderIs ==
    ASSUME NEW S \in SUBSET People, NEW o \in InOrder(S)
    PROVE  /\ o \in Seq(People)
           /\ \A k \in 1..Len(o) : o[k] \in S
           /\ \A p \in S : \E k \in 1..Len(o) : o[k] = p
           /\ \A j, k \in 1..Len(o) : j < k => o[j] < o[k]
<1>1. o \in Orders(S) /\ \A j, k \in DOMAIN o : j < k => o[j] < o[k]
  BY DEF InOrder
<1>2. /\ o \in Seq(People) /\ \A k \in 1..Len(o) : o[k] \in S
      /\ \A p \in S : \E k \in 1..Len(o) : o[k] = p
  BY <1>1, OrderIs
<1>3. DOMAIN o = 1..Len(o)
  BY <1>2
<1> QED
  BY <1>1, <1>2, <1>3

\* The next hour's loop starts with everybody who lives.
LEMMA StartsWithAll ==
    ASSUME TypeOK, StartDormancy
    PROVE  /\ system = "due" /\ system' = "dormancy" /\ todo' \in Seq(People)
           /\ UNCHANGED <<clock, alive, activity, wakeIn, idle, slept>>
           /\ \A k \in 1..Len(todo') : todo'[k] \in alive
           /\ \A p \in alive : \E k \in 1..Len(todo') : todo'[k] = p
           /\ \A j, k \in 1..Len(todo') : j < k => todo'[j] < todo'[k]
<1>1. alive \in SUBSET People
  BY DEF TypeOK
<1>2. PICK o \in InOrder(alive) : todo' = o
  BY DEF StartDormancy
<1>3. /\ o \in Seq(People)
      /\ \A k \in 1..Len(o) : o[k] \in alive
      /\ \A p \in alive : \E k \in 1..Len(o) : o[k] = p
      /\ \A j, k \in 1..Len(o) : j < k => o[j] < o[k]
  BY <1>1, <1>2, InOrderIs
<1> QED
  BY <1>2, <1>3 DEF StartDormancy, sleepVars

\* A visit takes the head of the loop, whose next element comes after it.
LEMMA VisitGoesOn ==
    ASSUME TypeOK, LoopInv, NEW p \in People, Visiting("dormancy", p), Visited
    PROVE  /\ system = "dormancy" /\ system' = "dormancy" /\ clock' = clock
           /\ p \in alive /\ Minute(clock) = 0
           /\ Pending(p) /\ ~Pending(p)'
           /\ \A q \in People \ {p} : Pending(q)' <=> Pending(q)
           /\ \A k \in 1..Len(todo') : todo'[k] \in alive
           /\ \A j, k \in 1..Len(todo') : j < k => todo'[j] < todo'[k]
<1>1. /\ system = "dormancy" /\ p = todo[1] /\ 1 \in 1..Len(todo) /\ Len(todo) \in Nat
      /\ todo' = Tail(todo) /\ UNCHANGED <<clock, system>>
      /\ Len(todo') = Len(todo) - 1
      /\ \A k \in 1..Len(todo') : todo'[k] = todo[k + 1] /\ k + 1 \in 1..Len(todo)
  BY TypeParts, TailIs DEF Visiting, Visited, TimeTyped
<1>2. /\ \A k \in 1..Len(todo) : todo[k] \in alive
      /\ \A j, k \in 1..Len(todo) : j < k => todo[j] < todo[k]
      /\ Minute(clock) = 0
  BY <1>1 DEF LoopInv
<1>3. /\ \A k \in 1..Len(todo') : todo'[k] \in alive
      /\ \A j, k \in 1..Len(todo') : j < k => todo'[j] < todo'[k]
  BY <1>1, <1>2
<1>4. \A k \in 1..Len(todo') : todo'[k] # p
  <2>1. SUFFICES ASSUME NEW k \in 1..Len(todo') PROVE todo'[k] # p
    OBVIOUS
  <2>2. k + 1 \in 1..Len(todo) /\ 1 < k + 1 /\ todo'[k] = todo[k + 1]
    BY <1>1
  <2>3. todo[1] < todo[k + 1]
    BY <1>1, <1>2, <2>2
  <2>4. p \in Int
    BY DEF People
  <2> QED
    BY <1>1, <2>2, <2>3, <2>4
<1>5. ASSUME NEW q \in People \ {p}
      PROVE  (\E k \in 1..Len(todo') : todo'[k] = q) <=> (\E k \in 1..Len(todo) : todo[k] = q)
  <2>1. ASSUME NEW k \in 1..Len(todo), todo[k] = q PROVE \E j \in 1..Len(todo') : todo'[j] = q
    <3>1. k # 1
      BY <1>1, <2>1
    <3>2. k - 1 \in 1..Len(todo') /\ (k - 1) + 1 = k
      BY <1>1, <3>1
    <3> QED
      BY <1>1, <2>1, <3>2
  <2>2. ASSUME NEW k \in 1..Len(todo'), todo'[k] = q PROVE \E j \in 1..Len(todo) : todo[j] = q
    BY <1>1, <2>2
  <2> QED
    BY <2>1, <2>2
<1>6. Pending(p) /\ ~Pending(p)'
  BY <1>1, <1>4 DEF Pending
<1>7. \A q \in People \ {p} : Pending(q)' <=> Pending(q)
  BY <1>1, <1>5 DEF Pending
<1> QED
  BY <1>1, <1>2, <1>3, <1>6, <1>7

\* Each loop starts with the living, each once, and a death comes between the loops.
LEMMA LoopStaysSound ==
    ASSUME TypeOK, LoopInv, [Next]_vars PROVE LoopInv'
<1>1. TimeTyped /\ SleepTyped
  BY TypeParts
<1>2. ASSUME clock' = clock, system # "none" \/ system' = "none"
      PROVE  system' # "none" => Minute(clock') = 0
  BY <1>2 DEF LoopInv
<1>3. CASE StartDormancy
  BY <1>3, <1>2, StartsWithAll DEF LoopInv
<1>4. CASE Tick
  <2>1. (clock + 1) % TicksPerHour = 0 => Minute(clock') = 0
    <3>1. PICK c \in 0..(Day - 1) : c = clock
      BY <1>1 DEF TimeTyped
    <3>2. (c + 1) % TicksPerHour = 0 => Minute((c + 1) % Day) = 0
      BY NextTick
    <3> QED
      BY <1>4, <3>1, <3>2 DEF Tick
  <2>2. system' \in {"due", "none"} /\ (system' # "none" => (clock + 1) % TicksPerHour = 0)
    BY <1>4 DEF Tick
  <2>3. UNCHANGED <<alive, activity>>
    BY <1>4 DEF Tick
  <2> QED
    BY <2>1, <2>2, <2>3 DEF LoopInv
<1>5. ASSUME NEW p \in People, WakingEvent(p) PROVE LoopInv'
  <2>1. UNCHANGED <<clock, system, todo, alive>> /\ system # "dormancy" /\ p \in alive
    BY <1>5 DEF WakingEvent, timeVars
  <2>2. UNCHANGED activity \/ activity' = [activity EXCEPT ![p] = "active"]
    BY <1>5 DEF WakingEvent, Wake
  <2>3. \A q \in People : activity'[q] = activity[q] \/ (q = p /\ activity'[q] = "active")
    BY <1>1, <2>1, <2>2 DEF SleepTyped
  <2> QED
    BY <2>1, <2>3 DEF LoopInv
<1>6. ASSUME NEW p \in People, Die(p) PROVE LoopInv'
  <2>1. UNCHANGED <<clock, system, todo>> /\ system = "none" /\ alive' = alive \ {p}
    BY <1>6 DEF Die, timeVars
  <2>2. \A q \in People : activity'[q] = IF q = p THEN "offscreen" ELSE activity[q]
    BY <1>1, <1>6 DEF Die, SleepTyped
  <2> QED
    BY <2>1, <2>2 DEF LoopInv
<1>7. ASSUME NEW p \in People, SleepOn(p) \/ WakeOnTime(p) \/ FallAsleep(p) \/ StayUp(p) PROVE LoopInv'
  <2>1. Visiting("dormancy", p) /\ Visited /\ alive' = alive
    BY <1>7 DEF SleepOn, WakeOnTime, FallAsleep, StayUp, sleepVars
  <2>2. \/ UNCHANGED activity
        \/ \E a \in Activities \ {"offscreen"} : activity' = [activity EXCEPT ![p] = a]
    BY <1>7 DEF SleepOn, WakeOnTime, Wake, FallAsleep, StayUp, NextActivity,
       Activities, sleepVars
  <2>3. \A q \in People : activity'[q] = activity[q] \/ (q = p /\ activity'[q] # "offscreen")
    BY <1>1, <2>2 DEF SleepTyped
  <2>4. /\ p \in alive /\ system' = "dormancy" /\ Minute(clock') = 0
        /\ \A k \in 1..Len(todo') : todo'[k] \in alive
        /\ \A j, k \in 1..Len(todo') : j < k => todo'[j] < todo'[k]
    BY <2>1, VisitGoesOn
  <2> QED
    BY <2>1, <2>3, <2>4 DEF LoopInv
<1>8. CASE /\ UNCHANGED <<clock, alive, activity>>
           /\ \/ UNCHANGED <<system, todo>>
              \/ system \in {"dormancy"} /\ system' \notin {"due", "dormancy"}
  BY <1>8, <1>2 DEF LoopInv
<1>9. CASE /\ UNCHANGED <<clock, alive, activity>>
           /\ system \in {"perception", "agent_brains"} /\ system' \notin {"due", "dormancy"}
  BY <1>9, <1>2 DEF LoopInv
<1> QED
  BY <1>3, <1>4, <1>5, <1>6, <1>7, <1>8, <1>9, VisitSteps

\* Every step keeps what is said of nights and idle hours, one resident at a time.
LEMMA RestStaysSound ==
    ASSUME TypeOK, LoopInv, RestInv, [Next]_vars PROVE RestInv'
<1>1. TimeTyped /\ SleepTyped /\ SleepTyped'
  BY TypeParts, SleepStaysTyped
<1>2. \A q \in People :
        /\ activity[q] \in Activities /\ wakeIn[q] \in Int /\ slept[q] \in Nat /\ idle[q] \in Nat
        /\ IF Pending(q) THEN Waits(q, clock, activity[q], wakeIn[q], slept[q], idle[q])
           ELSE Rests(q, clock, activity[q], wakeIn[q], slept[q], idle[q])
  BY <1>1 DEF RestInv, SleepTyped
<1>3. PICK h \in 0..(HoursPerDay - 1) : h = Hour(clock)
  <2>1. Hour(clock) \in Nat /\ Hour(clock) < HoursPerDay
    BY <1>1, HourIs DEF TimeTyped
  <2> QED
    BY <2>1, Counts
<1>4. \A q \in People :
        /\ Since(q, h) \in Nat /\ DueIn(q, h) \in Nat /\ DueIn(q, h) >= 1 /\ DueIn(q, h) <= HoursPerDay
        /\ h # Bed(q) => DueIn(q, h) = Since(q, h)
  BY SinceIs
<1>5. /\ Day \in Nat /\ TicksPerHour \in Nat /\ TicksPerHour >= 1
      /\ HoursPerDay \in Nat /\ DormantAfter \in Nat /\ DormantAfter >= HoursPerDay
      /\ clock = TicksPerHour * h + Minute(clock)
  BY <1>1, <1>3, HourIs, Counts, NightsAssumption DEF TimeTyped
\* One step of one resident.
<1> DEFINE Sound(q, c, pending) ==
             IF pending THEN Waits(q, c, activity'[q], wakeIn'[q], slept'[q], idle'[q])
             ELSE Rests(q, c, activity'[q], wakeIn'[q], slept'[q], idle'[q])
<1>6. ASSUME NEW q \in People, clock' = clock, Pending(q)' <=> Pending(q),
             activity'[q] = activity[q], wakeIn'[q] = wakeIn[q],
             slept'[q] = slept[q], idle'[q] = idle[q]
      PROVE  Sound(q, clock', Pending(q)')
  BY <1>2, <1>6
<1>7. ASSUME NEW q \in People, clock' = clock, activity'[q] = "active", idle'[q] = 0
      PROVE  Sound(q, clock', Pending(q)')
  <2>1. 0 < DueIn(q, h) /\ 0 <= Since(q, h)
    BY <1>4
  <2> QED
    BY <1>3, <1>7, <2>1 DEF Waits, Rests
<1>8. ASSUME NEW q \in People, activity'[q] = "offscreen" PROVE Sound(q, clock', Pending(q)')
  BY <1>8 DEF Waits, Rests, Up
<1>9. ASSUME \A q \in People : Sound(q, clock', Pending(q)') PROVE RestInv'
  BY <1>9 DEF RestInv
<1> HIDE DEF Sound
\* The next tick.
<1>10. CASE Tick
  <2>1. SUFFICES ASSUME NEW q \in People PROVE Sound(q, clock', Pending(q)')
    BY <1>9
  <2>2. /\ clock' = (clock + 1) % Day /\ activity'[q] = activity[q] /\ idle'[q] = idle[q]
        /\ wakeIn'[q] = IF activity[q] = "sleep" THEN wakeIn[q] - 1 ELSE wakeIn[q]
        /\ slept'[q] = IF activity[q] = "sleep" THEN slept[q] + 1 ELSE slept[q]
    BY <1>10 DEF Tick, Asleep
  <2>3. /\ ~Pending(q) /\ (Pending(q)' <=> (clock + 1) % TicksPerHour = 0)
    BY <1>10 DEF Tick, Pending
  <2>4. Rests(q, clock, activity[q], wakeIn[q], slept[q], idle[q])
    BY <1>2, <2>3
  <2>5. clock \in 0..(Day - 1)
    BY <1>1 DEF TimeTyped
  <2>6. IF (clock + 1) % TicksPerHour = 0
        THEN Waits(q, (clock + 1) % Day, activity[q], wakeIn'[q], slept'[q], idle[q])
        ELSE Rests(q, (clock + 1) % Day, activity[q], wakeIn'[q], slept'[q], idle[q])
    BY <1>2, <2>2, <2>4, <2>5, RestsOn
  <2> QED
    BY <2>2, <2>3, <2>6 DEF Sound
\* The hour begins: everybody who lives is still to be visited.
<1>11. CASE StartDormancy
  <2>1. SUFFICES ASSUME NEW q \in People PROVE Sound(q, clock', Pending(q)')
    BY <1>9
  <2>2. /\ UNCHANGED <<clock, alive, activity, wakeIn, idle, slept>>
        /\ Pending(q) /\ (q \in alive => Pending(q)')
    BY <1>11, StartsWithAll DEF Pending
  <2>3. q \notin alive => activity[q] = "offscreen"
    BY DEF LoopInv
  <2> QED
    BY <1>6, <1>8, <2>2, <2>3
\* An event, or a death, between the steps.
<1>12. ASSUME NEW p \in People, WakingEvent(p) PROVE RestInv'
  <2>1. SUFFICES ASSUME NEW q \in People PROVE Sound(q, clock', Pending(q)')
    BY <1>9
  <2>2. clock' = clock /\ (Pending(q)' <=> Pending(q))
    BY <1>12 DEF WakingEvent, timeVars, Pending
  <2>3. CASE Wake(p)
    <3>1. CASE q = p
      BY <1>1, <1>7, <2>2, <2>3, <3>1 DEF Wake, SleepTyped
    <3>2. CASE q # p
      BY <1>1, <1>6, <2>2, <2>3, <3>2 DEF Wake, SleepTyped
    <3> QED
      BY <3>1, <3>2
  <2>4. CASE UNCHANGED <<activity, wakeIn, idle, slept>>
    BY <1>6, <2>2, <2>4
  <2> QED
    BY <1>12, <2>3, <2>4 DEF WakingEvent
<1>13. ASSUME NEW p \in People, Die(p) PROVE RestInv'
  <2>1. SUFFICES ASSUME NEW q \in People PROVE Sound(q, clock', Pending(q)')
    BY <1>9
  <2>2. clock' = clock /\ (Pending(q)' <=> Pending(q)) /\ UNCHANGED idle
    BY <1>13 DEF Die, timeVars, Pending
  <2>3. CASE q = p
    BY <1>1, <1>8, <1>13, <2>3 DEF Die, SleepTyped
  <2>4. CASE q # p
    <3>1. activity'[q] = activity[q] /\ wakeIn'[q] = wakeIn[q] /\ slept'[q] = slept[q]
      BY <1>1, <1>13, <2>4 DEF Die, SleepTyped
    <3> QED
      BY <1>6, <2>2, <3>1
  <2> QED
    BY <2>3, <2>4
\* A visit of DormancySystem.
<1>14. ASSUME NEW p \in People, Visiting("dormancy", p), Visited,
              \A q \in People \ {p} : /\ activity'[q] = activity[q] /\ wakeIn'[q] = wakeIn[q]
                                      /\ slept'[q] = slept[q] /\ idle'[q] = idle[q],
              Rests(p, clock, activity'[p], wakeIn'[p], slept'[p], idle'[p])
       PROVE  RestInv'
  <2>1. /\ clock' = clock /\ ~Pending(p)'
        /\ \A q \in People \ {p} : Pending(q)' <=> Pending(q)
    BY <1>14, VisitGoesOn
  <2>2. Sound(p, clock', Pending(p)')
    BY <1>14, <2>1 DEF Sound
  <2>3. \A q \in People \ {p} : Sound(q, clock', Pending(q)')
    BY <1>6, <1>14, <2>1
  <2> QED
    BY <1>9, <2>2, <2>3
<1>15. ASSUME NEW p \in People, Visiting("dormancy", p), Visited
       PROVE  /\ Minute(clock) = 0 /\ clock = TicksPerHour * h
              /\ activity[p] # "dormant"
              /\ activity[p] = "sleep" => slept[p] + wakeIn[p] <= Day + TicksPerHour
              /\ activity[p] \in Up => idle[p] < DueIn(p, h)
  <2>1. Minute(clock) = 0 /\ Pending(p)
    BY <1>15, VisitGoesOn
  <2>2. clock = TicksPerHour * h
    BY <1>3, <1>5, <2>1
  <2>3. Waits(p, clock, activity[p], wakeIn[p], slept[p], idle[p])
    BY <1>2, <2>1
  <2> QED
    BY <1>3, <2>1, <2>2, <2>3 DEF Waits
<1>16. ASSUME NEW p \in People, SleepOn(p) PROVE RestInv'
  <2>1. /\ Visiting("dormancy", p) /\ Visited /\ activity[p] = "sleep" /\ wakeIn[p] > 0
        /\ UNCHANGED <<activity, wakeIn, slept, idle>>
    BY <1>2, <1>16 DEF SleepOn, Asleep, WakesNow, sleepVars
  <2>2. Minute(clock) = 0 /\ slept[p] + wakeIn[p] <= Day + TicksPerHour
    BY <1>15, <2>1
  <2>3. Rests(p, clock, activity'[p], wakeIn'[p], slept'[p], idle'[p])
    BY <1>2, <2>1, <2>2 DEF Rests, Up
  <2> QED
    BY <1>14, <2>1, <2>3
<1>17. ASSUME NEW p \in People, WakeOnTime(p) PROVE RestInv'
  <2>1. Visiting("dormancy", p) /\ Visited /\ Wake(p)
    BY <1>17 DEF WakeOnTime
  <2>2. activity'[p] = "active" /\ idle'[p] = 0
    BY <1>1, <2>1 DEF Wake, SleepTyped
  <2>3. Rests(p, clock, activity'[p], wakeIn'[p], slept'[p], idle'[p])
    BY <1>3, <1>4, <2>2 DEF Rests
  <2>4. \A q \in People \ {p} : /\ activity'[q] = activity[q] /\ wakeIn'[q] = wakeIn[q]
                                /\ slept'[q] = slept[q] /\ idle'[q] = idle[q]
    BY <1>1, <2>1 DEF Wake, SleepTyped
  <2> QED
    BY <1>14, <2>1, <2>3, <2>4
<1>18. ASSUME NEW p \in People, FallAsleep(p) PROVE RestInv'
  <2>1. /\ Visiting("dormancy", p) /\ Visited
        /\ activity' = [activity EXCEPT ![p] = "sleep"]
        /\ wakeIn' = [wakeIn EXCEPT ![p] = WakeTick(p)]
        /\ slept' = [slept EXCEPT ![p] = 0] /\ idle' = idle
    BY <1>18 DEF FallAsleep
  <2>2. /\ activity'[p] = "sleep" /\ wakeIn'[p] = WakeTick(p) /\ slept'[p] = 0
        /\ \A q \in People \ {p} : /\ activity'[q] = activity[q] /\ wakeIn'[q] = wakeIn[q]
                                   /\ slept'[q] = slept[q] /\ idle'[q] = idle[q]
    BY <1>1, <2>1 DEF SleepTyped
  <2>3. WakeTick(p) \in Int /\ WakeTick(p) >= 1 /\ WakeTick(p) <= Day + TicksPerHour
    BY <1>1, WakeTickIs
  <2>4. Minute(clock) = 0
    BY <1>15, <2>1
  <2>5. Rests(p, clock, activity'[p], wakeIn'[p], slept'[p], idle'[p])
    BY <1>5, <2>2, <2>3, <2>4 DEF Rests, Up
  <2> QED
    BY <1>14, <2>1, <2>2, <2>5
\* Another idle hour, which is not one at which they sleep, and so not the last of a day.
<1>19. ASSUME NEW p \in People, StayUp(p) PROVE RestInv'
  <2>1. PICK salient \in BOOLEAN :
          /\ activity' = [activity EXCEPT ![p] = NextActivity(p, salient)]
          /\ idle' = [idle EXCEPT ![p] = IF salient THEN 0 ELSE @ + 1]
    BY <1>19 DEF StayUp
  <2>2. /\ Visiting("dormancy", p) /\ Visited /\ activity[p] # "sleep" /\ ~Sleeps(p, clock)
        /\ UNCHANGED <<wakeIn, slept>>
    BY <1>19 DEF StayUp, Asleep, Bedtime
  <2>3. /\ activity'[p] = NextActivity(p, salient)
        /\ idle'[p] = IF salient THEN 0 ELSE idle[p] + 1
        /\ \A q \in People \ {p} : /\ activity'[q] = activity[q] /\ wakeIn'[q] = wakeIn[q]
                                   /\ slept'[q] = slept[q] /\ idle'[q] = idle[q]
    BY <1>1, <2>1, <2>2 DEF SleepTyped
  <2>4. h # Bed(p)
    <3>1. Bed(p) \in Nat /\ Sleeps(p, Bed(p) * TicksPerHour)
      BY <1>3, SinceIs
    <3>2. h = Bed(p) => clock = Bed(p) * TicksPerHour
      <4>1. clock = TicksPerHour * h
        BY <1>15, <2>2
      <4>2. TicksPerHour * Bed(p) = Bed(p) * TicksPerHour
        BY <1>5, <3>1
      <4> QED
        BY <4>1, <4>2
    <3> QED
      BY <2>2, <3>1, <3>2
  <2>5. activity[p] \in Up
    <3>1. p \in alive
      BY <2>2, VisitGoesOn
    <3>2. activity[p] \in Activities /\ activity[p] # "offscreen"
      BY <1>2, <3>1 DEF LoopInv
    <3> QED
      BY <2>2, <3>2 DEF Activities, Up
  <2>6. idle[p] < Since(p, h) /\ idle[p] < HoursPerDay
    <3>1. idle[p] < DueIn(p, h)
      BY <1>15, <2>2, <2>5
    <3> QED
      BY <1>2, <1>4, <1>5, <2>4, <3>1
  <2>7. activity'[p] \in {"active", "light_idle"}
    BY <1>2, <1>5, <2>3, <2>6 DEF NextActivity
  <2>8. idle'[p] <= Since(p, h)
    BY <1>2, <1>4, <2>3, <2>6
  <2>9. Rests(p, clock, activity'[p], wakeIn'[p], slept'[p], idle'[p])
    BY <1>3, <2>7, <2>8 DEF Rests
  <2> QED
    BY <1>14, <2>2, <2>3, <2>9
\* The other steps.
<1>20. CASE /\ UNCHANGED <<clock, alive, activity, wakeIn, idle, slept>>
            /\ \/ UNCHANGED <<system, todo>>
               \/ system = "dormancy" /\ todo = <<>> /\ system' \notin {"due", "dormancy"}
               \/ system \in {"perception", "agent_brains"} /\ system' \notin {"due", "dormancy"}
  <2>1. \A q \in People : Pending(q)' <=> Pending(q)
    <3>1. todo = <<>> => Len(todo) = 0
      OBVIOUS
    <3> QED
      BY <1>20, <3>1 DEF Pending
  <2> QED
    BY <1>6, <1>9, <1>20, <2>1
<1> QED
  BY <1>10, <1>11, <1>12, <1>13, <1>16, <1>17, <1>18, <1>19, <1>20, VisitSteps

\* What holds of nights and idle hours at the start.
LEMMA RestStarts == ASSUME Init PROVE LoopInv /\ RestInv
<1>1. Day \in Nat /\ Day >= 1
  <2>1. PICK T \in Nat, H \in Nat : T = TicksPerHour /\ H = HoursPerDay /\ T >= 1 /\ H >= 1
    BY Counts
  <2>2. T * H >= T * 1 /\ T * H \in Nat
    BY <2>1
  <2> QED
    BY <2>1, <2>2 DEF Day
<1>2. Minute(0) = 0 /\ Hour(0) \in 0..(HoursPerDay - 1)
  <2>1. 0 \in 0..(Day - 1)
    BY <1>1
  <2>2. Hour(0) \in Nat /\ Hour(0) < HoursPerDay
    BY <2>1, HourIs
  <2>3. 0 % TicksPerHour = 0
    BY Counts
  <2> QED
    BY <2>2, <2>3, Counts DEF Minute
<1>3. \A p \in People : DueIn(p, Hour(0)) \in Nat /\ DueIn(p, Hour(0)) >= 1
  BY <1>2, SinceIs
<1>4. LoopInv
  BY <1>2 DEF Init, LoopInv
<1>5. RestInv
  <2>1. SUFFICES ASSUME NEW p \in People
                 PROVE  Pending(p) /\ Waits(p, 0, "active", 0, 0, 0)
    BY DEF Init, RestInv
  <2>2. 0 < DueIn(p, Hour(0))
    BY <1>3
  <2> QED
    BY <2>2 DEF Init, Pending, Waits
<1> QED
  BY <1>4, <1>5

\* Nights and idle hours throughout a behaviour.
LEMMA RestHolds == Spec => [](TypeOK /\ LoopInv /\ RestInv)
<1>1. Init => LoopInv /\ RestInv
  BY RestStarts
<1>2. TypeOK /\ LoopInv /\ RestInv /\ [Next]_vars => LoopInv' /\ RestInv'
  BY LoopStaysSound, RestStaysSound
<1> QED
  BY <1>1, <1>2, TypeCorrect, PTL DEF Spec

\* Nobody sleeps past a day and two hours, wherever the wake hour lies between two
\* full hours and whoever falls asleep an hour before it.
THEOREM NightsAreBounded == Spec => []NightIsBounded
<1>1. TypeOK /\ LoopInv /\ RestInv => NightIsBounded
  <2>1. SUFFICES ASSUME TypeOK, RestInv, NEW p \in People, activity[p] = "sleep"
                 PROVE  slept[p] < Day + 2 * TicksPerHour
    BY DEF NightIsBounded, Asleep
  <2>2. clock \in 0..(Day - 1) /\ slept[p] \in Nat /\ wakeIn[p] \in Int
    BY <2>1 DEF TypeOK
  <2>3. /\ Day \in Nat /\ TicksPerHour \in Nat /\ TicksPerHour >= 1
        /\ Minute(clock) \in Nat /\ Minute(clock) < TicksPerHour
    BY <2>2, HourIs, Counts
  <2>4. /\ slept[p] + wakeIn[p] <= Day + TicksPerHour
        /\ wakeIn[p] >= 1 - TicksPerHour \/ wakeIn[p] + Minute(clock) >= 1
    BY <2>1 DEF RestInv, Waits, Rests
  <2> QED
    BY <2>2, <2>3, <2>4
<1> QED
  BY <1>1, RestHolds, PTL

\* Nobody goes dormant: whoever sleeps at some hour of the day has not been idle for a
\* day, and to go dormant takes one at least.
THEOREM NobodyDozesOff == Spec => []NobodyGoesDormant
<1>1. TypeOK /\ LoopInv /\ RestInv => NobodyGoesDormant
  BY DEF RestInv, Waits, Rests, NobodyGoesDormant
<1> QED
  BY <1>1, RestHolds, PTL

-----------------------------------------------------------------------------
(* Questions.                                                              *)

\* Who may still be asked about in this hour.
Open(p) ==
    \/ system \in {"due", "dormancy", "perception"}
    \/ system = "agent_brains" /\ \E k \in 1..Len(todo) : todo[k] = p

\* Of each hour that has begun a resident has asked one question at most, and none yet
\* of this one if the loop of the brains has still to visit them, which it does once.
AskedInv ==
    /\ \A p \in People : asked[p] <= IF Open(p) THEN Hour(clock) ELSE Hour(clock) + 1
    /\ system = "agent_brains" => \A j, k \in 1..Len(todo) : j # k => todo[j] # todo[k]

\* An order visits nobody twice.
LEMMA OrderIsOnce ==
    ASSUME NEW S \in SUBSET People, NEW o \in Orders(S)
    PROVE  \A j, k \in 1..Len(o) : j # k => o[j] # o[k]
<1>1. IsFiniteSet(S)
  <2>1. 1 \in Int /\ N \in Int
    BY Counts
  <2>2. IsFiniteSet(1..N)
    BY <2>1, FS_Interval
  <2> QED
    BY <2>2, FS_Subset DEF People
<1>2. PICK n \in Nat : n = Cardinality(S)
  BY <1>1, FS_CardinalityType
<1>3. o \in [1..n -> S] /\ {o[k] : k \in DOMAIN o} = S
  BY <1>2 DEF Orders
<1>4. IsFiniteSet(1..n) /\ Cardinality(1..n) = n
  BY FS_Interval
<1>5. o \in Surjection(1..n, S)
  BY <1>3 DEF Surjection
<1>6. o \in Injection(1..n, S)
  BY <1>1, <1>2, <1>4, <1>5, FS_SurjSameCardinalityImpliesInj
<1>7. \A j, k \in 1..n : j # k => o[j] # o[k]
  BY <1>6 DEF Injection, IsInjective
<1>8. 1..Len(o) = 1..n
  <2>1. o \in Seq(People) /\ DOMAIN o = 1..n
    BY <1>3, OrderIs
  <2> QED
    BY <2>1
<1> QED
  BY <1>7, <1>8

\* The loop of the brains visits Tier A and then the rest, each once.
LEMMA BrainsVisitOnce ==
    ASSUME TypeOK, StartBrains
    PROVE  /\ UNCHANGED <<clock, asked>> /\ system = "perception" /\ system' \in {"agent_brains", "none"}
           /\ system' = "agent_brains" => \A j, k \in 1..Len(todo') : j # k => todo'[j] # todo'[k]
<1>1. UNCHANGED <<clock, asked>> /\ system = "perception" /\ system' \in {"agent_brains", "none"}
  BY DEF StartBrains, modelVars
<1>2. ASSUME system' = "agent_brains" PROVE \A j, k \in 1..Len(todo') : j # k => todo'[j] # todo'[k]
  <2>1. ~Quarantined
    BY <1>2 DEF StartBrains
  <2>2. PICK A \in SUBSET People, B \in SUBSET People :
          /\ A = {p \in alive : activity[p] = "active"} \cap persistent
          /\ B = {p \in alive : activity[p] = "active"} \ persistent
    BY DEF TypeOK
  <2>3. A \cap B = {}
    BY <2>2
  <2>4. PICK f \in Orders(A), g \in Orders(B) : todo' = First(f \o g, BrainBatch)
    BY <2>1, <2>2 DEF StartBrains
  <2>5. /\ f \in Seq(People) /\ \A k \in 1..Len(f) : f[k] \in A
        /\ g \in Seq(People) /\ \A k \in 1..Len(g) : g[k] \in B
    BY <2>4, OrderIs
  <2>6. /\ \A j, k \in 1..Len(f) : j # k => f[j] # f[k]
        /\ \A j, k \in 1..Len(g) : j # k => g[j] # g[k]
    BY <2>4, OrderIsOnce
  <2>7. PICK h : h = f \o g
    OBVIOUS
  <2>8. /\ h \in Seq(People) /\ Len(h) = Len(f) + Len(g)
        /\ \A k \in 1..Len(h) : h[k] = IF k <= Len(f) THEN f[k] ELSE g[k - Len(f)]
    BY <2>5, <2>7, ConcatProperties
  <2>9. \A j, k \in 1..Len(h) : j # k => h[j] # h[k]
    <3>1. SUFFICES ASSUME NEW j \in 1..Len(h), NEW k \in 1..Len(h), j < k PROVE h[j] # h[k]
      BY <2>8
    <3>2. PICK a \in Nat, b \in Nat : a = Len(f) /\ b = Len(g)
      BY <2>5
    <3>3. CASE k <= a
      <4>1. j \in 1..a /\ k \in 1..a /\ h[j] = f[j] /\ h[k] = f[k]
        BY <2>8, <3>1, <3>2, <3>3
      <4> QED
        BY <2>6, <3>1, <3>2, <4>1
    <3>4. CASE j > a
      <4>1. j - a \in 1..b /\ k - a \in 1..b /\ j - a # k - a /\ ~(j <= a) /\ ~(k <= a)
        BY <2>8, <3>1, <3>2, <3>4
      <4>2. h[j] = g[j - a] /\ h[k] = g[k - a]
        BY <2>8, <3>1, <3>2, <4>1
      <4> QED
        BY <2>6, <3>2, <4>1, <4>2
    <3>5. CASE j <= a /\ k > a
      <4>1. j \in 1..a /\ k - a \in 1..b /\ h[j] = f[j] /\ h[k] = g[k - a]
        BY <2>8, <3>1, <3>2, <3>5
      <4>2. h[j] \in A /\ h[k] \in B
        BY <2>5, <3>2, <4>1
      <4> QED
        BY <2>3, <4>2
    <3> QED
      BY <3>1, <3>2, <3>3, <3>4, <3>5
  <2>10. /\ First(h, BrainBatch) \in Seq(People) /\ Len(First(h, BrainBatch)) <= Len(h)
         /\ \A k \in 1..Len(First(h, BrainBatch)) : First(h, BrainBatch)[k] = h[k]
    BY <2>8, FirstIs, Counts
  <2>11. \A k \in 1..Len(todo') : k \in 1..Len(h) /\ todo'[k] = h[k]
    BY <2>4, <2>7, <2>8, <2>10
  <2> QED
    BY <2>9, <2>11
<1> QED
  BY <1>1, <1>2

\* A visit of the brains takes the head of the loop, which visits nobody twice.
LEMMA BrainsGoOn ==
    ASSUME TypeOK, AskedInv, NEW p \in People, Visiting("agent_brains", p), Visited
    PROVE  /\ system' = "agent_brains" /\ clock' = clock
           /\ Open(p) /\ ~Open(p)'
           /\ \A q \in People : Open(q)' => Open(q)
           /\ \A q \in People \ {p} : Open(q) => Open(q)'
           /\ \A j, k \in 1..Len(todo') : j # k => todo'[j] # todo'[k]
<1>1. /\ system = "agent_brains" /\ p = todo[1] /\ 1 \in 1..Len(todo) /\ Len(todo) \in Nat
      /\ todo' = Tail(todo) /\ UNCHANGED <<clock, system>>
      /\ Len(todo') = Len(todo) - 1
      /\ \A k \in 1..Len(todo') : todo'[k] = todo[k + 1] /\ k + 1 \in 1..Len(todo)
  BY TypeParts, TailIs DEF Visiting, Visited, TimeTyped
<1>2. \A j, k \in 1..Len(todo) : j # k => todo[j] # todo[k]
  BY <1>1 DEF AskedInv
<1>3. \A j, k \in 1..Len(todo') : j # k => todo'[j] # todo'[k]
  BY <1>1, <1>2
<1>4. \A k \in 1..Len(todo') : todo'[k] # p
  BY <1>1, <1>2
<1>5. ASSUME NEW q \in People \ {p}, NEW k \in 1..Len(todo), todo[k] = q
      PROVE  \E j \in 1..Len(todo') : todo'[j] = q
  <2>1. k # 1
    BY <1>1, <1>5
  <2>2. k - 1 \in 1..Len(todo') /\ (k - 1) + 1 = k
    BY <1>1, <2>1
  <2> QED
    BY <1>1, <1>5, <2>2
<1>6. Open(p) /\ ~Open(p)'
  BY <1>1, <1>4 DEF Open
<1>7. \A q \in People : Open(q)' => Open(q)
  BY <1>1 DEF Open
<1>8. \A q \in People \ {p} : Open(q) => Open(q)'
  BY <1>1, <1>5 DEF Open
<1> QED
  BY <1>1, <1>3, <1>6, <1>7, <1>8

\* The hour ends with everybody asked about who will be; the next may ask again, and
\* midnight forgets what was asked.
LEMMA HourEnds ==
    ASSUME TypeOK, LoopInv, AskedInv, Tick
    PROVE  AskedInv'
<1>1. PICK c \in 0..(Day - 1) : c = clock
  BY DEF TypeOK
<1>2. PICK d \in 0..(Day - 1) :
        /\ d = (c + 1) % Day
        /\ IF (c + 1) % TicksPerHour = 0
           THEN /\ Minute(d) = 0 /\ Minute(c) = TicksPerHour - 1
                /\ Hour(d) = IF Hour(c) = HoursPerDay - 1 THEN 0 ELSE Hour(c) + 1
           ELSE /\ Minute(d) = Minute(c) + 1 /\ Hour(d) = Hour(c) /\ d = c + 1
  BY NextTick
<1>3. /\ system = "none" /\ clock' = d /\ system' \in {"due", "none"}
      /\ system' = "due" <=> (c + 1) % TicksPerHour = 0
  BY <1>1, <1>2 DEF Tick
<1>4. \A p \in People : asked[p] \in Nat /\ asked[p] <= Hour(c) + 1
  BY <1>1, <1>3 DEF AskedInv, Open, TypeOK
<1>5. Hour(d) \in Nat /\ Hour(c) \in Nat
  BY HourIs
<1>6. CASE c = Day - 1
  <2>1. \A p \in People : asked'[p] = 0
    BY <1>1, <1>6 DEF Tick
  <2> QED
    BY <1>3, <1>5, <2>1 DEF AskedInv, Open
<1>7. CASE c # Day - 1
  <2>1. \A p \in People : asked'[p] = asked[p]
    BY <1>1, <1>7 DEF Tick
  <2>2. CASE (c + 1) % TicksPerHour # 0
    <3>1. system' = "none" /\ Hour(d) = Hour(c)
      BY <1>2, <1>3, <2>2
    <3> QED
      BY <1>3, <1>4, <2>1, <3>1 DEF AskedInv, Open
  <2>3. CASE (c + 1) % TicksPerHour = 0
    <3>1. PICK D \in Nat : D = Day /\ D >= 1 /\ c \in Nat /\ c < D
      BY HourIs
    <3>2. d = c + 1
      <4>1. c + 1 \in Nat /\ c + 1 < D
        BY <1>7, <3>1
      <4>2. (c + 1) % D = c + 1
        BY <3>1, <4>1
      <4> QED
        BY <1>2, <3>1, <4>2
    <3>3. Hour(d) # 0
      <4>1. SUFFICES ASSUME Hour(d) = 0 PROVE FALSE
        OBVIOUS
      <4>2. Minute(d) = 0 /\ d = TicksPerHour * Hour(d) + Minute(d)
        BY <1>2, <2>3, HourIs
      <4>3. TicksPerHour * 0 = 0
        BY Counts
      <4>4. d = 0
        BY <4>1, <4>2, <4>3
      <4> QED
        BY <3>1, <3>2, <4>4
    <3>4. Hour(d) = Hour(c) + 1
      BY <1>2, <2>3, <3>3
    <3> QED
      BY <1>3, <1>4, <1>5, <2>1, <2>3, <3>4 DEF AskedInv, Open
  <2> QED
    BY <2>2, <2>3
<1> QED
  BY <1>6, <1>7

\* Every step keeps what is said of questions.
LEMMA AskedStaysBounded ==
    ASSUME TypeOK, LoopInv, AskedInv, [Next]_vars PROVE AskedInv'
<1>1. /\ clock \in 0..(Day - 1) /\ Hour(clock) \in Nat /\ asked \in [People -> Nat]
      /\ \A p \in People : asked[p] \in Nat
  BY HourIs DEF TypeOK
<1>2. \A p \in People : asked[p] <= Hour(clock) + 1 /\ (Open(p) => asked[p] <= Hour(clock))
  BY <1>1 DEF AskedInv
<1>3. ASSUME UNCHANGED <<clock, asked>>, \A p \in People : Open(p)' => Open(p),
             system' = "agent_brains" => \A j, k \in 1..Len(todo') : j # k => todo'[j] # todo'[k]
      PROVE  AskedInv'
  BY <1>2, <1>3 DEF AskedInv
<1>4. CASE Tick
  BY <1>4, HourEnds
<1>5. ASSUME NEW p \in People, Visiting("agent_brains", p), Ask(p), UNCHANGED clock, Visited
      PROVE  AskedInv'
  <2>1. /\ system' = "agent_brains" /\ Open(p) /\ ~Open(p)'
        /\ \A q \in People : Open(q)' => Open(q)
        /\ \A j, k \in 1..Len(todo') : j # k => todo'[j] # todo'[k]
    BY <1>5, BrainsGoOn
  <2>2. asked'[p] = asked[p] + 1 /\ \A q \in People \ {p} : asked'[q] = asked[q]
    BY <1>1, <1>5 DEF Ask
  <2>3. \A q \in People : asked'[q] <= IF Open(q)' THEN Hour(clock) ELSE Hour(clock) + 1
    BY <1>1, <1>2, <2>1, <2>2
  <2> QED
    BY <1>5, <2>1, <2>3 DEF AskedInv
<1>6. ASSUME NEW p \in People, Visiting("agent_brains", p), Ask(p), UNCHANGED clock, LeaveBrains
      PROVE  AskedInv'
  <2>1. Open(p) /\ system' = "none"
    <3>1. system = "agent_brains" /\ p = todo[1] /\ 1 \in 1..Len(todo)
      BY <1>6, VisitIs, TypeParts
    <3> QED
      BY <1>6, <3>1 DEF Open, LeaveBrains
  <2>2. asked'[p] = asked[p] + 1 /\ \A q \in People \ {p} : asked'[q] = asked[q]
    BY <1>1, <1>6 DEF Ask
  <2>3. \A q \in People : asked'[q] <= Hour(clock) + 1
    BY <1>1, <1>2, <2>1, <2>2
  <2>4. \A q \in People : ~Open(q)'
    BY <2>1 DEF Open
  <2> QED
    BY <1>6, <2>1, <2>3, <2>4 DEF AskedInv
<1>7. ASSUME UNCHANGED asked, ~Tick PROVE AskedInv'
  <2>1. CASE UNCHANGED timeVars
    <3>1. \A p \in People : Open(p)' => Open(p)
      BY <2>1 DEF timeVars, Open
    <3> QED
      BY <1>3, <1>7, <2>1, <3>1 DEF timeVars, AskedInv
  <2>2. CASE StartDormancy \/ StartPerception
    <3>1. /\ system \in {"due", "dormancy"} /\ system' \in {"dormancy", "perception"}
          /\ UNCHANGED clock
      BY <2>2 DEF StartDormancy, StartPerception
    <3> QED
      BY <1>3, <1>7, <3>1 DEF Open
  <2>3. CASE StartBrains
    <3>1. \A p \in People : Open(p)
      BY <2>3, BrainsVisitOnce DEF Open
    <3> QED
      BY <1>3, <2>3, <3>1, BrainsVisitOnce
  <2>4. CASE system \in {"dormancy", "perception"} /\ Visited
    <3>1. UNCHANGED <<clock, system>>
      BY <2>4 DEF Visited
    <3> QED
      BY <1>3, <1>7, <2>4, <3>1 DEF Open
  <2>5. CASE system = "agent_brains" /\ todo # <<>> /\ Visited
    <3>1. PICK p \in People : Visiting("agent_brains", p)
      <4>1. todo \in Seq(People) /\ todo # <<>>
        BY <2>5 DEF TypeOK
      <4>2. Head(todo) \in People
        BY <4>1
      <4> QED
        BY <2>5, <4>2 DEF Visiting
    <3>2. /\ clock' = clock /\ \A q \in People : Open(q)' => Open(q)
          /\ \A j, k \in 1..Len(todo') : j # k => todo'[j] # todo'[k]
      BY <2>5, <3>1, BrainsGoOn
    <3> QED
      BY <1>3, <1>7, <3>2
  <2>6. CASE LeaveBrains /\ UNCHANGED clock
    BY <1>3, <1>7, <2>6 DEF LeaveBrains, Open
  <2> QED
    BY <1>7, <2>1, <2>2, <2>3, <2>4, <2>5, <2>6, LoopSteps
<1> QED
  BY <1>4, <1>5, <1>6, <1>7, AskSteps

\* No resident is answered more often on a day than calls and tokens allow, but for the
\* last reply, no tick more often than a tick may be, and nobody asks twice in an hour,
\* for any promotions, failures and midnights.
THEOREM BudgetsAreKept == Spec => []BudgetsKept
<1>1. Init => BudgetInv
  BY Counts DEF Init, BudgetInv, Used
<1>2. Init => AskedInv
  <2>1. SUFFICES ASSUME Init PROVE AskedInv
    OBVIOUS
  <2>2. clock \in 0..(Day - 1) /\ system = "due" /\ \A p \in People : asked[p] = 0
    <3>1. Day \in Nat /\ Day >= 1
      <4>1. PICK T \in Nat, H \in Nat : T = TicksPerHour /\ H = HoursPerDay /\ T >= 1 /\ H >= 1
        BY Counts
      <4>2. T * H >= T * 1 /\ T * H \in Nat
        BY <4>1
      <4> QED
        BY <4>1, <4>2 DEF Day
    <3> QED
      BY <2>1, <3>1 DEF Init
  <2>3. Hour(clock) \in Nat
    BY <2>2, HourIs
  <2> QED
    BY <2>2, <2>3 DEF AskedInv
<1>3. TypeOK /\ BudgetInv /\ [Next]_vars => BudgetInv'
  BY BudgetStaysKept
<1>4. TypeOK /\ LoopInv /\ AskedInv /\ [Next]_vars => AskedInv'
  BY AskedStaysBounded
<1>5. TypeOK /\ BudgetInv /\ AskedInv => BudgetsKept
  <2>1. SUFFICES ASSUME TypeOK, BudgetInv, AskedInv PROVE BudgetsKept
    OBVIOUS
  <2>2. Hour(clock) \in Nat
    BY <2>1, HourIs DEF TypeOK
  <2>3. \A p \in People : asked[p] \in Nat /\ asked[p] <= Hour(clock) + 1
    BY <2>1, <2>2 DEF AskedInv, TypeOK
  <2> QED
    BY <2>1, <2>3 DEF BudgetsKept, BudgetInv, Hour
<1> QED
  BY <1>1, <1>2, <1>3, <1>4, <1>5, TypeCorrect, RestHolds, PTL DEF Spec

=============================================================================
