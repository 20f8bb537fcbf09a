---------------------------- MODULE KernelProofs ----------------------------
(***************************************************************************)
(* Proofs about KernelTick, for every wiring of systems, every threshold   *)
(* and every bound:                                                        *)
(*   TypeCorrect        Spec => []TypeOK                                   *)
(*   LedgerOrder        Spec => []LedgerInOrder                            *)
(*   QuarantineIsFinal  Spec => QuarantineFreezes                          *)
(*   LedgerIsWhole      Spec => []LedgerWhole                              *)
(*   CausesTrue         Spec => []CausesAreTrue                            *)
(*   TimersAccounted    Spec => []TimerAccounting                          *)
(* None of the invariants is inductive.  The order of the ledger has to    *)
(* hold along the whole path of an event, from the bus through the event   *)
(* being delivered and the tick's list to the ledger (OrderInv), and so    *)
(* has its completeness (WholeInv); the causes need both.  Each timer is   *)
(* followed by its number through the queue, the popped timers and the     *)
(* events (TimerInv).                                                      *)
(***************************************************************************)
EXTENDS KernelTick, SequenceTheorems, FiniteSetTheorems, TLAPS

Increasing(seq) == \A i, j \in DOMAIN seq : i < j => seq[i] < seq[j]
Before(s, t)    == \A i \in DOMAIN s, j \in DOMAIN t : s[i] < t[j]
UpTo(seq, n)    == \A i \in DOMAIN seq : seq[i] <= n
Below(seq, n)   == \A i \in DOMAIN seq : seq[i] < n
Above(seq, n)   == \A i \in DOMAIN seq : n < seq[i]

\* ledger, delivered, current, pending, in this order, is increasing, and all
\* of it has been emitted.
OrderInv ==
    /\ Increasing(ledger) /\ Increasing(delivered) /\ Increasing(pending)
    /\ Before(ledger, delivered) /\ Before(ledger, pending)
    /\ Before(delivered, pending)
    /\ UpTo(ledger, Len(emitted)) /\ UpTo(delivered, Len(emitted))
    /\ UpTo(pending, Len(emitted)) /\ current <= Len(emitted)
    /\ pc \in {"deliver", "handler"} =>
        /\ Below(ledger, current) /\ Below(delivered, current)
        /\ Above(pending, current)

-----------------------------------------------------------------------------
(* Sequences. *)

\* Cutting the last element off a sequence leaves a sequence of the same type.
LEMMA FrontType ==
    ASSUME NEW S, NEW s \in Seq(S)
    PROVE  SubSeq(s, 1, Len(s) - 1) \in Seq(S)
<1>1. CASE s = <<>>
  <2>1. SubSeq(s, 1, Len(s) - 1) = <<>>
    BY <1>1
  <2>. QED BY <2>1
<1>2. CASE s # <<>>
  <2>1. Len(s) \in Nat /\ Len(s) >= 1
    BY <1>2
  <2>. QED BY <2>1, SubSeqProperties
<1>. QED BY <1>1, <1>2

-----------------------------------------------------------------------------
(* Type correctness. *)

\* Appending a member keeps a sequence's type.
LEMMA AppendType ==
    ASSUME NEW S, NEW s \in Seq(S), NEW x \in S
    PROVE  Append(s, x) \in Seq(S)
BY AppendProperties

\* TickContext.emit keeps the types of the events and of the bus.
LEMMA PublishType ==
    ASSUME TypeOK, NEW topic \in Topics, NEW causes \in Seq(Nat),
           NEW timer \in Nat, NEW scenario \in BOOLEAN,
           Publish(topic, causes, timer, scenario)
    PROVE  /\ emitted' \in Seq(Event)
           /\ pending' \in Seq(Nat)
BY DEF TypeOK, ControlType, BusType, Publish, Event

\* So does a system or a handler that emits.
LEMMA EmitType ==
    ASSUME TypeOK, StepEmit \/ HandlerEmit
    PROVE  /\ emitted' \in Seq(Event)
           /\ pending' \in Seq(Nat)
<1>1. PICK topic \in StepEmits[running] \cup HandlerEmits[running] : Emit(topic)
  BY DEF StepEmit, HandlerEmit
<1>2. running \in Systems
  BY DEF StepEmit, HandlerEmit, TypeOK, CallType
<1>3. topic \in Topics
  BY <1>2, KernelAssumption
<1>. QED BY <1>1, <1>3, PublishType DEF Emit, TypeOK, CallType, ControlType

\* A recorded failure announces itself and counts for the system that raised.
LEMMA RecordFailureType ==
    ASSUME TypeOK, NEW s \in Systems, RecordFailure(s)
    PROVE  /\ emitted' \in Seq(Event)
           /\ pending' \in Seq(Nat)
           /\ health' \in [Systems -> Health]
<1>1. Publish(FailureTopic, <<>>, 0, inScenario)
  BY DEF RecordFailure
<1>2. inScenario \in BOOLEAN /\ <<>> \in Seq(Nat)
  BY DEF TypeOK, ControlType
<1>3. emitted' \in Seq(Event) /\ pending' \in Seq(Nat)
    BY <1>1, <1>2, PublishType, KernelAssumption
<1>4. health' \in [Systems -> Health]
  BY DEF RecordFailure, TypeOK, ControlType, Health
<1>. QED BY <1>3, <1>4

\* The newest n snapshots are snapshots.
LEMMA LastOfType ==
    ASSUME NEW S, NEW s \in Seq(S), NEW n \in Nat
    PROVE  LastOf(s, n) \in Seq(S)
<1>1. CASE Len(s) <= n
  BY <1>1 DEF LastOf
<1>2. CASE Len(s) > n
  <2>1. \A i \in (Len(s) - n + 1)..Len(s) : s[i] \in S
    BY <1>2
  <2>. QED BY <1>2, <2>1, SubSeqProperties DEF LastOf
<1>. QED BY <1>1, <1>2

\* A part of the state no variable of which changes keeps its type.
LEMMA TypeKept ==
    /\ BusType /\ UNCHANGED busVars => BusType'
    /\ TimerType /\ UNCHANGED timerVars => TimerType'
    /\ CaptureType /\ UNCHANGED captureVars => CaptureType'
BY DEF BusType, busVars, TimerType, timerVars, CaptureType, captureVars

\* The initial state is well typed.
LEMMA TypeInit == Init => TypeOK
<1>. SUFFICES ASSUME Init PROVE TypeOK
  OBVIOUS
<1>1. health \in [Systems -> Health]
  BY DEF Init, Health
<1>2. inScenario \in BOOLEAN
  BY DEF Init
<1>5. ControlType
    BY <1>1, <1>2 DEF Init, ControlType, PC
<1>3. BusType /\ CallType
  BY DEF Init, BusType, CallType
<1>4. TimerType /\ CaptureType
  BY DEF Init, TimerType, CaptureType
<1>. QED BY <1>3, <1>4, <1>5 DEF TypeOK

\* Every step keeps the types.
LEMMA TypeNext == TypeOK /\ [Next]_vars => TypeOK'
<1>. SUFFICES ASSUME TypeOK, [Next]_vars
              PROVE  TypeOK'
  OBVIOUS
<1>. ControlType /\ BusType /\ CallType /\ TimerType /\ CaptureType
  BY DEF TypeOK
<1>1. CASE BeginTick
  <2>1. inScenario' \in BOOLEAN
    BY <1>1 DEF BeginTick
  <2>2. DueTimers \subseteq Timer
    BY DEF DueTimers, TimerType
  <2>3. Rearmed \subseteq Timer
    BY <2>2 DEF Rearmed, Timer
  <2>4. ControlType'
    BY <1>1, <2>1 DEF BeginTick, ControlType, PC
  <2>5. CallType'
    BY <1>1 DEF BeginTick, CallType, callVars
  <2>6. TimerType'
    BY <1>1, <2>2, <2>3 DEF BeginTick, TimerType
  <2>. QED BY <1>1, <2>4, <2>5, <2>6, TypeKept DEF BeginTick, TypeOK
<1>2. CASE RunScenario
  <2>1. PICK topic \in ScenarioTopics : Publish(topic, causeStack, 0, TRUE)
    BY <1>2 DEF RunScenario
  <2>2. emitted' \in Seq(Event) /\ pending' \in Seq(Nat)
    BY <2>1, PublishType, KernelAssumption DEF CallType
  <2>3. ControlType'
    BY <1>2 DEF RunScenario, ControlType, PC
  <2>4. BusType'
    BY <1>2, <2>2 DEF RunScenario, BusType
  <2>5. CallType'
    BY <1>2 DEF RunScenario, CallType, callVars
  <2>. QED BY <1>2, <2>3, <2>4, <2>5, TypeKept DEF RunScenario, TypeOK
<1>3. CASE FireTimer
  <2>1. PICK t \in firing : Publish(t.topic, causeStack, t.id, FALSE)
    BY <1>3 DEF FireTimer
  <2>2. emitted' \in Seq(Event) /\ pending' \in Seq(Nat)
    BY <2>1, PublishType DEF CallType, TimerType, Timer
  <2>3. ControlType'
    BY <1>3 DEF FireTimer, ControlType, scenarioVars
  <2>4. BusType'
    BY <1>3, <2>2 DEF FireTimer, BusType
  <2>5. CallType'
    BY <1>3 DEF FireTimer, CallType, callVars
  <2>6. TimerType'
    BY <1>3 DEF FireTimer, TimerType
  <2>. QED BY <1>3, <2>3, <2>4, <2>5, <2>6, TypeKept DEF FireTimer, TypeOK
<1>4. CASE CollectDue
  <2>1. ControlType'
    BY <1>4 DEF CollectDue, ControlType, Due, PC, scenarioVars
  <2>2. CallType'
    BY <1>4 DEF CollectDue, CallType, callVars
  <2>. QED BY <1>4, <2>1, <2>2, TypeKept DEF CollectDue, TypeOK
<1>5. CASE BeginStep
  <2>1. ControlType'
    BY <1>5 DEF BeginStep, ControlType, PC, scenarioVars
  <2>2. CallType'
    BY <1>5 DEF BeginStep, CallType, ControlType
  <2>. QED BY <1>5, <2>1, <2>2, TypeKept DEF BeginStep, TypeOK
<1>6. CASE StepEmit
  <2>1. emitted' \in Seq(Event) /\ pending' \in Seq(Nat)
    BY <1>6, EmitType
  <2>2. ControlType'
    BY <1>6 DEF StepEmit, ControlType, scenarioVars
  <2>3. BusType'
    BY <1>6, <2>1 DEF StepEmit, BusType
  <2>4. CallType'
    BY <1>6 DEF StepEmit, CallType
  <2>. QED BY <1>6, <2>2, <2>3, <2>4, TypeKept DEF StepEmit, TypeOK
<1>7. CASE StepReturn
  <2>1. ControlType'
    BY <1>7 DEF StepReturn, ControlType, LeaveStep, PC, scenarioVars
  <2>2. BusType'
    BY <1>7 DEF StepReturn, BusType, LeaveStep
  <2>3. CallType'
    BY <1>7 DEF StepReturn, CallType, LeaveStep
  <2>. QED BY <1>7, <2>1, <2>2, <2>3, TypeKept DEF StepReturn, TypeOK
<1>8. CASE StepRaise
  <2>1. running \in Systems
    BY <1>8, KernelAssumption DEF StepRaise
  <2>2. RecordFailure(running)
    BY <1>8 DEF StepRaise
  <2>3. /\ emitted' \in Seq(Event) /\ pending' \in Seq(Nat)
        /\ health' \in [Systems -> Health]
    BY <2>1, <2>2, RecordFailureType
  <2>4. ControlType'
    BY <1>8, <2>3 DEF StepRaise, ControlType, LeaveStep, PC, scenarioVars
  <2>5. BusType'
    BY <1>8, <2>3 DEF StepRaise, BusType, LeaveStep
  <2>6. CallType'
    BY <1>8 DEF StepRaise, CallType, LeaveStep
  <2>. QED BY <1>8, <2>4, <2>5, <2>6, TypeKept DEF StepRaise, TypeOK
<1>9. CASE Schedule
  <2>1. PICK fire \in tick..MaxTick, repeat \in Repeats, topic \in StepEmits[running] :
            LET timer == [id |-> Len(scheduled) + 1, fire |-> fire,
                          repeat |-> repeat, topic |-> topic]
            IN  /\ timers' = timers \cup {timer}
                /\ scheduled' = Append(scheduled, timer)
    BY <1>9 DEF Schedule
  <2>2. running \in Systems
    BY <1>9 DEF Schedule, CallType
  <2>3. topic \in Topics /\ repeat \in Nat
    BY <2>2, KernelAssumption
  <2>4. fire \in Nat /\ Len(scheduled) + 1 \in Nat
    BY KernelAssumption DEF ControlType, TimerType
  <2>5. [id |-> Len(scheduled) + 1, fire |-> fire,
         repeat |-> repeat, topic |-> topic] \in Timer
    BY <2>3, <2>4 DEF Timer
  <2>6. ControlType'
    BY <1>9 DEF Schedule, ControlType, scenarioVars
  <2>7. CallType'
    BY <1>9 DEF Schedule, CallType, callVars
  <2>8. TimerType'
    BY <1>9, <2>1, <2>5 DEF Schedule, TimerType
  <2>. QED BY <1>9, <2>6, <2>7, <2>8, TypeKept DEF Schedule, TypeOK
<1>10. CASE FinalDrain
  <2>1. ControlType'
    BY <1>10 DEF FinalDrain, ControlType, PC, scenarioVars
  <2>2. BusType'
    BY <1>10 DEF FinalDrain, BusType
  <2>3. CallType'
    BY <1>10 DEF FinalDrain, CallType, callVars
  <2>. QED BY <1>10, <2>1, <2>2, <2>3, TypeKept DEF FinalDrain, TypeOK
<1>11. CASE BeginPersist
  <2>1. ControlType'
    BY <1>11 DEF BeginPersist, ControlType, PC, scenarioVars
  <2>2. CallType'
    BY <1>11 DEF BeginPersist, CallType, callVars
  <2>. QED BY <1>11, <2>1, <2>2, TypeKept DEF BeginPersist, TypeOK
<1>12. CASE PopEvent
  <2>1. ControlType'
    BY <1>12 DEF PopEvent, ControlType, PC, scenarioVars
  <2>2. BusType'
    BY <1>12 DEF PopEvent, BusType, Subscribers
  <2>3. CallType'
    BY <1>12 DEF PopEvent, CallType, callVars
  <2>. QED BY <1>12, <2>1, <2>2, <2>3, TypeKept DEF PopEvent, TypeOK
<1>13. CASE EventStorm
  <2>1. inScenario' \in BOOLEAN
    BY <1>13 DEF EventStorm
  <2>2. ControlType'
    BY <1>13, <2>1 DEF EventStorm, ControlType, PC
  <2>3. CallType'
    BY <1>13 DEF EventStorm, CallType, callVars
  <2>. QED BY <1>13, <2>2, <2>3, TypeKept DEF EventStorm, TypeOK
<1>14. CASE SkipHandler
  <2>1. ControlType'
    BY <1>14 DEF SkipHandler, ControlType, scenarioVars
  <2>2. BusType'
    BY <1>14 DEF SkipHandler, BusType
  <2>3. CallType'
    BY <1>14 DEF SkipHandler, CallType, callVars
  <2>. QED BY <1>14, <2>1, <2>2, <2>3, TypeKept DEF SkipHandler, TypeOK
<1>15. CASE BeginHandler
  <2>1. ControlType'
    BY <1>15 DEF BeginHandler, ControlType, PC, scenarioVars
  <2>2. BusType'
    BY <1>15 DEF BeginHandler, BusType
  <2>3. CallType'
    BY <1>15 DEF BeginHandler, CallType, BusType
  <2>. QED BY <1>15, <2>1, <2>2, <2>3, TypeKept DEF BeginHandler, TypeOK
<1>16. CASE HandlerEmit
  <2>1. emitted' \in Seq(Event) /\ pending' \in Seq(Nat)
    BY <1>16, EmitType
  <2>2. ControlType'
    BY <1>16 DEF HandlerEmit, ControlType, scenarioVars
  <2>3. BusType'
    BY <1>16, <2>1 DEF HandlerEmit, BusType
  <2>4. CallType'
    BY <1>16 DEF HandlerEmit, CallType
  <2>. QED BY <1>16, <2>2, <2>3, <2>4, TypeKept DEF HandlerEmit, TypeOK
<1>17. CASE HandlerReturn
  <2>1. causeStack' \in Seq(Nat)
    BY <1>17, FrontType DEF HandlerReturn, LeaveHandler, CallType
  <2>2. ControlType'
    BY <1>17 DEF HandlerReturn, ControlType, LeaveHandler, PC, scenarioVars
  <2>3. CallType'
    BY <1>17, <2>1 DEF HandlerReturn, CallType, LeaveHandler
  <2>. QED BY <1>17, <2>2, <2>3, TypeKept DEF HandlerReturn, TypeOK
<1>18. CASE HandlerRaise
  <2>1. causeStack' \in Seq(Nat)
    BY <1>18, FrontType DEF HandlerRaise, LeaveHandler, CallType
  <2>2. running \in Systems
    BY <1>18, KernelAssumption DEF HandlerRaise
  <2>3. RecordFailure(running)
    BY <1>18 DEF HandlerRaise
  <2>4. /\ emitted' \in Seq(Event) /\ pending' \in Seq(Nat)
        /\ health' \in [Systems -> Health]
    BY <2>2, <2>3, RecordFailureType
  <2>5. ControlType'
    BY <1>18, <2>4 DEF HandlerRaise, ControlType, LeaveHandler, PC, scenarioVars
  <2>6. BusType'
    BY <1>18, <2>4 DEF HandlerRaise, BusType
  <2>7. CallType'
    BY <1>18, <2>1 DEF HandlerRaise, CallType, LeaveHandler
  <2>. QED BY <1>18, <2>5, <2>6, <2>7, TypeKept DEF HandlerRaise, TypeOK
<1>19. CASE EndDelivery
  <2>1. ControlType'
    BY <1>19 DEF EndDelivery, ControlType, BusType, PC, scenarioVars
  <2>2. BusType'
    BY <1>19 DEF EndDelivery, BusType
  <2>3. CallType'
    BY <1>19 DEF EndDelivery, CallType, callVars
  <2>. QED BY <1>19, <2>1, <2>2, <2>3, TypeKept DEF EndDelivery, TypeOK
<1>20. CASE EndDrain
  <2>1. inScenario' \in BOOLEAN
    BY <1>20 DEF EndDrain
  <2>2. ControlType'
    BY <1>20, <2>1 DEF EndDrain, ControlType, PC
  <2>3. CallType'
    BY <1>20 DEF EndDrain, CallType, callVars
  <2>. QED BY <1>20, <2>2, <2>3, TypeKept DEF EndDrain, TypeOK
<1>21. CASE PersistOne
  <2>1. ControlType'
    BY <1>21 DEF PersistOne, ControlType, scenarioVars
  <2>2. CallType'
    BY <1>21 DEF PersistOne, CallType, callVars
  <2>. QED BY <1>21, <2>1, <2>2, TypeKept DEF PersistOne, TypeOK
<1>22. CASE EndTick
  <2>1. Append(snapshotTicks, tick) \in Seq(Nat)
    BY DEF ControlType, CaptureType
  <2>2. LastOf(Append(snapshotTicks, tick), MaxSnapshotTicks) \in Seq(Nat)
    BY <2>1, LastOfType, KernelAssumption
  <2>3. checkpoints' \in SUBSET Nat
    BY <1>22 DEF EndTick, Newest, ControlType, CaptureType
  <2>4. [tick |-> tick, seen |-> Len(emitted)] \in [tick : Nat, seen : Nat]
    BY DEF ControlType, BusType
  <2>5. \/ snapshots' = snapshots
        \/ snapshots' = Append(snapshots, [tick |-> tick, seen |-> Len(emitted)])
    BY <1>22 DEF EndTick
  <2>6. Append(snapshots, [tick |-> tick, seen |-> Len(emitted)])
            \in Seq([tick : Nat, seen : Nat])
    BY <2>4, AppendType, Zenon DEF CaptureType
  <2>7. snapshots' \in Seq([tick : Nat, seen : Nat])
    BY <2>5, <2>6, Zenon DEF CaptureType
  <2>8. ControlType'
    BY <1>22 DEF EndTick, ControlType, PC, scenarioVars
  <2>9. CallType'
    BY <1>22 DEF EndTick, CallType, callVars
  <2>10. CaptureType'
    BY <1>22, <2>2, <2>3, <2>7 DEF EndTick, CaptureType
  <2>. QED BY <1>22, <2>8, <2>9, <2>10, TypeKept DEF EndTick, TypeOK
<1>23. CASE UNCHANGED vars
  <2>1. ControlType' /\ CallType'
    BY <1>23 DEF vars, callVars, scenarioVars, ControlType, CallType
  <2>. QED BY <1>23, <2>1, TypeKept DEF vars, TypeOK
<1>. QED
    BY <1>1, <1>2, <1>3, <1>4, <1>5, <1>6, <1>7, <1>8, <1>9, <1>10, <1>11,
     <1>12, <1>13, <1>14, <1>15, <1>16, <1>17, <1>18, <1>19, <1>20, <1>21, <1>22,
     <1>23
  DEF Next, Kernel

\* Every state of every behaviour of KernelTick is well typed.
THEOREM TypeCorrect == Spec => []TypeOK
<1>. QED BY TypeInit, TypeNext, PTL DEF Spec

-----------------------------------------------------------------------------
(* The order of the ledger. *)

\* Adding a number above everything in the sequence keeps it increasing.
LEMMA AppendOrder ==
    ASSUME NEW s \in Seq(Nat), NEW n \in Nat, Below(s, n)
    PROVE  /\ Increasing(s) => Increasing(Append(s, n))
           /\ UpTo(Append(s, n), n)
           /\ \A t \in Seq(Nat) : Before(t, s) /\ Below(t, n) => Before(t, Append(s, n))
           /\ \A t \in Seq(Nat) : Before(s, t) /\ Above(t, n) => Before(Append(s, n), t)
           /\ \A m \in Nat : n < m /\ Below(s, m) => Below(Append(s, n), m)
           /\ \A m \in Nat : n <= m /\ UpTo(s, m) => UpTo(Append(s, n), m)
           /\ \A m \in Nat : m < n /\ Above(s, m) => Above(Append(s, n), m)
<1>. DEFINE u == Append(s, n)
<1>1. /\ u \in Seq(Nat)
      /\ Len(s) \in Nat
      /\ \A i \in 1..Len(s) : s[i] \in Nat
      /\ Len(u) = Len(s) + 1
      /\ DOMAIN u = 1..(Len(s) + 1) /\ DOMAIN s = 1..Len(s)
      /\ \A i \in 1..Len(s) : u[i] = s[i]
      /\ u[Len(s) + 1] = n
  OBVIOUS
<1>. HIDE DEF u
<1>. SUFFICES /\ Increasing(s) => Increasing(u)
              /\ UpTo(u, n)
              /\ \A t \in Seq(Nat) : Before(t, s) /\ Below(t, n) => Before(t, u)
              /\ \A t \in Seq(Nat) : Before(s, t) /\ Above(t, n) => Before(u, t)
              /\ \A m \in Nat : n < m /\ Below(s, m) => Below(u, m)
              /\ \A m \in Nat : n <= m /\ UpTo(s, m) => UpTo(u, m)
              /\ \A m \in Nat : m < n /\ Above(s, m) => Above(u, m)
  BY DEF u
<1>2. ASSUME Increasing(s) PROVE Increasing(u)
  <2>1. SUFFICES ASSUME NEW i \in DOMAIN u, NEW j \in DOMAIN u, i < j
                 PROVE  u[i] < u[j]
    BY DEF Increasing
  <2>2. i \in 1..Len(s) /\ u[i] = s[i]
    BY <1>1, <2>1
  <2>3. CASE j \in 1..Len(s)
    BY <1>1, <1>2, <2>1, <2>2, <2>3 DEF Increasing
  <2>4. CASE j = Len(s) + 1
    BY <1>1, <2>2, <2>4 DEF Below
  <2>. QED BY <1>1, <2>3, <2>4
<1>3. UpTo(u, n)
  BY <1>1 DEF UpTo, Below
<1>4. \A t \in Seq(Nat) : Before(t, s) /\ Below(t, n) => Before(t, u)
  <2>. SUFFICES ASSUME NEW t \in Seq(Nat), Before(t, s), Below(t, n),
                       NEW i \in DOMAIN t, NEW j \in DOMAIN u
                PROVE  t[i] < u[j]
    BY DEF Before
  <2>1. CASE j \in 1..Len(s)
    BY <1>1, <2>1 DEF Before
  <2>2. CASE j = Len(s) + 1
    BY <1>1, <2>2 DEF Below
  <2>. QED BY <1>1, <2>1, <2>2
<1>5. \A t \in Seq(Nat) : Before(s, t) /\ Above(t, n) => Before(u, t)
  <2>. SUFFICES ASSUME NEW t \in Seq(Nat), Before(s, t), Above(t, n),
                       NEW i \in DOMAIN u, NEW j \in DOMAIN t
                PROVE  u[i] < t[j]
    BY DEF Before
  <2>1. CASE i \in 1..Len(s)
    BY <1>1, <2>1 DEF Before
  <2>2. CASE i = Len(s) + 1
    BY <1>1, <2>2 DEF Above
  <2>. QED BY <1>1, <2>1, <2>2
<1>6. \A m \in Nat : n < m /\ Below(s, m) => Below(u, m)
  BY <1>1 DEF Below
<1>7. \A m \in Nat : n <= m /\ UpTo(s, m) => UpTo(u, m)
  <2>. SUFFICES ASSUME NEW m \in Nat, n <= m, UpTo(s, m), NEW i \in DOMAIN u
                PROVE  u[i] <= m
    BY DEF UpTo
  <2>1. CASE i \in 1..Len(s)
    BY <1>1, <2>1 DEF UpTo
  <2>2. CASE i = Len(s) + 1
    BY <1>1, <2>2
  <2>. QED BY <1>1, <2>1, <2>2
<1>8. \A m \in Nat : m < n /\ Above(s, m) => Above(u, m)
  BY <1>1 DEF Above
<1>. QED BY <1>2, <1>3, <1>4, <1>5, <1>6, <1>7, <1>8

\* Taking the head off an increasing sequence leaves one above the head.
LEMMA TailOrder ==
    ASSUME NEW s \in Seq(Nat), s # <<>>
    PROVE  /\ Head(s) \in Nat /\ Tail(s) \in Seq(Nat)
           /\ Increasing(s) => Increasing(Tail(s)) /\ Above(Tail(s), Head(s))
           /\ \A t \in Seq(Nat) : Before(t, s) => Before(t, Tail(s)) /\ Below(t, Head(s))
           /\ \A t \in Seq(Nat) : Before(s, t) => Before(Tail(s), t) /\ Above(t, Head(s))
           /\ \A m \in Nat : UpTo(s, m) => UpTo(Tail(s), m) /\ Head(s) <= m
           /\ \A m \in Nat : Below(s, m) => Below(Tail(s), m) /\ Head(s) < m
           /\ \A m \in Nat : Above(s, m) => Above(Tail(s), m)
<1>. DEFINE u == Tail(s)
<1>1. /\ u \in Seq(Nat) /\ Head(s) \in Nat /\ Head(s) = s[1]
      /\ Len(s) \in Nat /\ Len(s) >= 1
      /\ DOMAIN u = 1..(Len(s) - 1) /\ DOMAIN s = 1..Len(s)
      /\ \A i \in 1..(Len(s) - 1) : u[i] = s[i + 1]
  OBVIOUS
<1>2. \A i \in DOMAIN u : i + 1 \in DOMAIN s /\ u[i] = s[i + 1]
  BY <1>1
<1>9. 1 \in DOMAIN s /\ \A i \in DOMAIN u : 1 < i + 1
  BY <1>1
<1>10. DOMAIN u \subseteq Nat
  BY <1>1
<1>. HIDE DEF u
<1>3. Increasing(s) => Increasing(u) /\ Above(u, Head(s))
  <2>. SUFFICES ASSUME Increasing(s) PROVE Increasing(u) /\ Above(u, Head(s))
    OBVIOUS
  <2>1. Above(u, Head(s))
    BY <1>1, <1>2, <1>9 DEF Increasing, Above
  <2>2. ASSUME NEW i \in DOMAIN u, NEW j \in DOMAIN u, i < j
        PROVE  u[i] < u[j]
    <3>1. i + 1 < j + 1
      BY <2>2, <1>10
    <3>. QED BY <1>2, <3>1 DEF Increasing
  <2>. QED BY <2>1, <2>2 DEF Increasing
<1>4. \A t \in Seq(Nat) : Before(t, s) => Before(t, u) /\ Below(t, Head(s))
  BY <1>1, <1>2, <1>9 DEF Before, Below
<1>5. \A t \in Seq(Nat) : Before(s, t) => Before(u, t) /\ Above(t, Head(s))
  BY <1>1, <1>2, <1>9 DEF Before, Above
<1>6. \A m \in Nat : UpTo(s, m) => UpTo(u, m) /\ Head(s) <= m
  BY <1>1, <1>2, <1>9 DEF UpTo
<1>7. \A m \in Nat : Below(s, m) => Below(u, m) /\ Head(s) < m
  BY <1>1, <1>2, <1>9 DEF Below
<1>8. \A m \in Nat : Above(s, m) => Above(u, m)
  BY <1>1, <1>2 DEF Above
<1>. QED BY <1>1, <1>3, <1>4, <1>5, <1>6, <1>7, <1>8 DEF u

Delivering == pc \in {"deliver", "handler"}

\* An action that publishes one event and moves nothing else along the path.
LEMMA PublishOrder ==
    ASSUME TypeOK, OrderInv,
           Len(emitted') = Len(emitted) + 1,
           pending' = Append(pending, Len(emitted) + 1),
           UNCHANGED <<ledger, delivered, current>>,
           Delivering' => Delivering
    PROVE  OrderInv'
<1>. DEFINE n == Len(emitted) + 1
<1>1. /\ ledger \in Seq(Nat) /\ delivered \in Seq(Nat) /\ pending \in Seq(Nat)
      /\ current \in Nat /\ Len(emitted) \in Nat /\ n \in Nat
  BY DEF TypeOK, ControlType, BusType
<1>2. \A s \in Seq(Nat) : UpTo(s, Len(emitted)) => Below(s, n) /\ UpTo(s, n)
  BY <1>1 DEF UpTo, Below
<1>3. Below(ledger, n) /\ Below(delivered, n) /\ Below(pending, n) /\ current < n
  BY <1>1, <1>2 DEF OrderInv
<1>4. UpTo(ledger, n) /\ UpTo(delivered, n)
  BY <1>1, <1>2 DEF OrderInv
<1>. HIDE DEF n
<1>5. /\ Increasing(Append(pending, n)) /\ UpTo(Append(pending, n), n)
      /\ Before(ledger, Append(pending, n)) /\ Before(delivered, Append(pending, n))
      /\ Above(pending, current) => Above(Append(pending, n), current)
  BY <1>1, <1>3, AppendOrder DEF OrderInv
<1>6. pending' = Append(pending, n) /\ Len(emitted') = n
  BY DEF n
<1>. QED BY <1>1, <1>3, <1>4, <1>5, <1>6 DEF OrderInv, Delivering

\* Initially nothing has been emitted.
LEMMA OrderInit == Init => OrderInv
BY DEF Init, OrderInv, Increasing, Before, UpTo

\* Every step keeps the order along the path.
LEMMA OrderNext == TypeOK /\ OrderInv /\ [Next]_vars => OrderInv'
<1>. SUFFICES ASSUME TypeOK, OrderInv, [Next]_vars
              PROVE  OrderInv'
  OBVIOUS
<1>. /\ ledger \in Seq(Nat) /\ delivered \in Seq(Nat) /\ pending \in Seq(Nat)
     /\ current \in Nat /\ Len(emitted) \in Nat
  BY DEF TypeOK, ControlType, BusType
<1>1. CASE RunScenario \/ FireTimer \/ StepEmit \/ StepRaise \/ HandlerEmit \/ HandlerRaise
  <2>1. emitted \in Seq(Event)
    BY DEF TypeOK, BusType
  <2>2. /\ \E e : emitted' = Append(emitted, e)
        /\ pending' = Append(pending, Len(emitted) + 1)
        /\ UNCHANGED <<ledger, delivered, current>>
        /\ Delivering' => Delivering
    BY <1>1 DEF RunScenario, FireTimer, StepEmit, StepRaise, HandlerEmit, HandlerRaise,
                Emit, Publish, RecordFailure, LeaveStep, LeaveHandler, Delivering
  <2>3. Len(emitted') = Len(emitted) + 1
    BY <2>1, <2>2
  <2>. QED BY <2>2, <2>3, PublishOrder
<1>2. CASE PopEvent
  <2>1. /\ pending # <<>> /\ current' = Head(pending) /\ pending' = Tail(pending)
        /\ UNCHANGED <<ledger, delivered, emitted>>
    BY <1>2 DEF PopEvent
  <2>. QED BY <2>1, TailOrder DEF OrderInv
<1>3. CASE EndDelivery
  <2>1. /\ pc = "deliver" /\ pc' = "drain" /\ current' = 0
        /\ delivered' = Append(delivered, current)
        /\ UNCHANGED <<ledger, pending, emitted>>
    BY <1>3 DEF EndDelivery, busVars
  <2>. QED BY <2>1, AppendOrder DEF OrderInv
<1>4. CASE PersistOne
  <2>1. /\ pc' = "persist" /\ delivered # <<>> /\ delivered' = Tail(delivered)
        /\ \/ ledger' = Append(ledger, Head(delivered))
           \/ ledger' = ledger
        /\ UNCHANGED <<current, pending, emitted>>
    BY <1>4 DEF PersistOne, busVars
  <2>2. /\ Head(delivered) \in Nat /\ Below(ledger, Head(delivered))
        /\ Above(pending, Head(delivered)) /\ Head(delivered) <= Len(emitted)
    BY <2>1, TailOrder DEF OrderInv
  <2>3. /\ Increasing(Tail(delivered)) /\ Before(ledger, Tail(delivered))
        /\ Before(Tail(delivered), pending) /\ UpTo(Tail(delivered), Len(emitted))
        /\ Above(Tail(delivered), Head(delivered)) /\ Tail(delivered) \in Seq(Nat)
    BY <2>1, TailOrder DEF OrderInv
  <2>4. CASE ledger' = Append(ledger, Head(delivered))
    BY <2>1, <2>2, <2>3, <2>4, AppendOrder DEF OrderInv
  <2>5. CASE ledger' = ledger
    BY <2>1, <2>3, <2>5 DEF OrderInv
  <2>. QED BY <2>1, <2>4, <2>5
<1>5. CASE BeginTick \/ EventStorm \/ EndDrain
  <2>1. /\ ~Delivering'
        /\ delivered' = <<>> \/ delivered' = delivered
        /\ UNCHANGED <<ledger, pending, emitted, current>>
    BY <1>5 DEF BeginTick, EventStorm, EndDrain, Delivering, busVars
  <2>. QED BY <2>1 DEF OrderInv, Delivering, Increasing, Before, UpTo
<1>6. CASE \/ CollectDue \/ BeginStep \/ StepReturn \/ Schedule \/ FinalDrain
           \/ BeginPersist \/ SkipHandler \/ BeginHandler \/ HandlerReturn
           \/ EndTick \/ UNCHANGED vars
  <2>1. /\ Delivering' => Delivering
        /\ UNCHANGED <<ledger, delivered, pending, emitted, current>>
    BY <1>6 DEF CollectDue, BeginStep, StepReturn, Schedule, FinalDrain, BeginPersist,
                SkipHandler, BeginHandler, HandlerReturn, EndTick, LeaveStep,
                LeaveHandler, Delivering, busVars, vars
  <2>. QED BY <2>1 DEF OrderInv, Delivering
<1>. QED BY <1>1, <1>2, <1>3, <1>4, <1>5, <1>6 DEF Next, Kernel

\* The ledger holds events in the order they were made, each at most once,
\* whatever the wiring of the systems, their failures and the scenarios.
THEOREM LedgerOrder == Spec => []LedgerInOrder
<1>1. OrderInv => LedgerInOrder
  BY DEF OrderInv, Increasing, LedgerInOrder
<1>. QED BY <1>1, TypeCorrect, OrderInit, OrderNext, PTL DEF Spec

-----------------------------------------------------------------------------
(* Quarantine. *)

\* Nothing is due outside tick()'s loop over the due systems, a quarantined
\* system that is still due or still running failed in this very tick, and
\* nobody's last run is in the future.
QuarantineInv ==
    /\ pc \in {"idle", "fire", "persist"} \/ inScenario => todo = {}
    /\ inScenario => pc \in {"drain", "deliver", "handler"}
    /\ running # 0 => pc \in {"step", "handler"}
    /\ \A s \in Systems :
        /\ health[s].lastTick <= tick
        /\ health[s].quarantined /\ (s \in todo \/ s = running)
                => health[s].lastTick = tick


\* Nothing is due in the initial state.
LEMMA QuarantineInit == Init => QuarantineInv
BY DEF Init, QuarantineInv

\* A failure is recorded at the current tick.
LEMMA FailureRecorded ==
    ASSUME TypeOK, NEW s \in Systems, RecordFailure(s)
    PROVE  /\ health'[s].lastTick = tick
           /\ \A r \in Systems : r # s => health'[r] = health[r]
<1>1. health \in [Systems -> Health]
  BY DEF TypeOK, ControlType
<1>. QED BY <1>1 DEF RecordFailure

\* Every step keeps what the quarantine needs.
LEMMA QuarantineNext == TypeOK /\ QuarantineInv /\ [Next]_vars => QuarantineInv'
<1>. SUFFICES ASSUME TypeOK, QuarantineInv, [Next]_vars
              PROVE  QuarantineInv'
  OBVIOUS
<1>. /\ tick \in Nat /\ health \in [Systems -> Health] /\ todo \subseteq Systems
     /\ running \in Systems \cup {0} /\ Systems \subseteq Nat \ {0}
  BY KernelAssumption DEF TypeOK, ControlType, CallType, Systems
<1>1. CASE BeginTick
  <2>1. /\ pc = "idle" /\ pc' = "fire" /\ tick' = tick + 1
        /\ todo' = todo /\ health' = health /\ running' = running /\ ~inScenario'
    BY <1>1 DEF BeginTick, callVars
  <2>2. \A s \in Systems : health[s].lastTick \in Int
    BY DEF Health
  <2>. QED BY <2>1, <2>2 DEF QuarantineInv
<1>2. CASE CollectDue
  <2>1. /\ pc = "fire" /\ pc' = "pick" /\ todo' = Due
        /\ UNCHANGED <<tick, health, running, inScenario>>
    BY <1>2 DEF CollectDue, callVars, scenarioVars
  <2>2. \A s \in Due : ~health[s].quarantined
    BY DEF Due
  <2>. QED BY <2>1, <2>2 DEF QuarantineInv
<1>3. CASE BeginStep
  <2>1. PICK s \in todo : /\ running' = s /\ todo' = todo \ {s}
    BY <1>3 DEF BeginStep
  <2>2. /\ pc = "pick" /\ pc' = "step"
        /\ UNCHANGED <<tick, health, inScenario>>
    BY <1>3 DEF BeginStep, scenarioVars
  <2>. QED BY <2>1, <2>2 DEF QuarantineInv
<1>4. CASE BeginHandler
  <2>1. PICK s \in subs : ~health[s].quarantined /\ running' = s
    BY <1>4 DEF BeginHandler
  <2>2. /\ pc = "deliver" /\ pc' = "handler"
        /\ UNCHANGED <<tick, health, todo, inScenario>>
    BY <1>4 DEF BeginHandler, scenarioVars
  <2>. QED BY <2>1, <2>2 DEF QuarantineInv
<1>5. CASE StepRaise \/ HandlerRaise
  <2>1. /\ pc \in {"step", "handler"} /\ RecordFailure(running)
        /\ pc' \in {"drain", "deliver"} /\ running' = 0
        /\ UNCHANGED <<tick, todo, inScenario>>
    BY <1>5 DEF StepRaise, HandlerRaise, LeaveStep, LeaveHandler, scenarioVars
  <2>2. running \in Systems
    BY <1>5, KernelAssumption DEF StepRaise, HandlerRaise
  <2>3. /\ health'[running].lastTick = tick
        /\ \A r \in Systems : r # running => health'[r] = health[r]
    BY <2>1, <2>2, FailureRecorded
  <2>4. pc = "step" => ~inScenario
    BY DEF QuarantineInv
  <2>. QED BY <2>1, <2>2, <2>3, <2>4 DEF QuarantineInv
<1>6. CASE StepReturn \/ HandlerReturn
  <2>1. /\ pc \in {"step", "handler"} /\ pc' \in {"drain", "deliver"} /\ running' = 0
        /\ UNCHANGED <<tick, todo, health, inScenario>>
    BY <1>6 DEF StepReturn, HandlerReturn, LeaveStep, LeaveHandler, scenarioVars
  <2>. QED BY <2>1 DEF QuarantineInv
<1>7. CASE RunScenario
  <2>1. /\ pc = "idle" /\ pc' = "drain" /\ UNCHANGED <<tick, todo, health, running>>
    BY <1>7 DEF RunScenario, callVars
  <2>. QED BY <2>1 DEF QuarantineInv
<1>8. CASE BeginPersist
  <2>1. /\ pc = "pick" /\ todo = {} /\ pc' = "persist"
        /\ UNCHANGED <<tick, todo, health, running, inScenario>>
    BY <1>8 DEF BeginPersist, callVars, scenarioVars
  <2>. QED BY <2>1 DEF QuarantineInv
<1>9. CASE EventStorm \/ EndDrain
  <2>1. /\ pc = "drain" /\ pc' \in {"idle", "dead", "pick"} /\ ~inScenario'
        /\ pc' = "idle" => inScenario
        /\ UNCHANGED <<tick, todo, health, running>>
    BY <1>9 DEF EventStorm, EndDrain, callVars
  <2>. QED BY <2>1 DEF QuarantineInv
<1>10. CASE PopEvent \/ EndDelivery \/ FinalDrain \/ EndTick
  <2>1. /\ pc \in {"drain", "deliver", "pick", "persist"}
        /\ pc = "pick" => todo = {} /\ pc' = "drain"
        /\ pc = "persist" => pc' = "idle"
        /\ pc \in {"drain", "deliver"} => pc' \in {"drain", "deliver"}
        /\ UNCHANGED <<tick, todo, health, running, inScenario>>
    BY <1>10 DEF PopEvent, EndDelivery, FinalDrain, EndTick, callVars, scenarioVars
  <2>. QED BY <2>1 DEF QuarantineInv
<1>11. CASE \/ FireTimer \/ StepEmit \/ Schedule \/ SkipHandler \/ HandlerEmit
            \/ PersistOne \/ UNCHANGED vars
  <2>1. UNCHANGED <<pc, tick, todo, health, running, inScenario>>
    BY <1>11 DEF FireTimer, StepEmit, Schedule, SkipHandler, HandlerEmit, PersistOne,
                 callVars, scenarioVars, vars
  <2>. QED BY <2>1 DEF QuarantineInv
<1>. QED
    BY <1>1, <1>2, <1>3, <1>4, <1>5, <1>6, <1>7, <1>8, <1>9, <1>10, <1>11
  DEF Next, Kernel

\* No step touches or runs a system that was quarantined in an earlier tick.
LEMMA QuarantineStep ==
    ASSUME TypeOK, QuarantineInv, [Next]_vars,
           NEW s \in Systems, health[s].quarantined, health[s].lastTick < tick
    PROVE  health'[s] = health[s] /\ running' # s
<1>. /\ tick \in Nat /\ health \in [Systems -> Health] /\ todo \subseteq Systems
     /\ s # 0
  BY KernelAssumption DEF TypeOK, ControlType, Systems
<1>. health[s].lastTick \in Int
  BY DEF Health
<1>1. s \notin todo /\ s # running
  BY DEF QuarantineInv
<1>2. CASE BeginStep \/ BeginHandler
  <2>1. /\ health' = health
        /\ running' \in todo \/ ~health[running'].quarantined
    BY <1>2 DEF BeginStep, BeginHandler
  <2>. QED BY <2>1, <1>1
<1>3. CASE StepRaise \/ HandlerRaise
  <2>1. running' = 0 /\ RecordFailure(running) /\ running \in Systems
    BY <1>3, KernelAssumption DEF StepRaise, HandlerRaise, LeaveStep, LeaveHandler
  <2>. QED BY <2>1, <1>1, FailureRecorded
<1>4. CASE \/ BeginTick \/ RunScenario \/ FireTimer \/ CollectDue \/ StepEmit
           \/ StepReturn \/ Schedule \/ FinalDrain \/ BeginPersist \/ PopEvent
           \/ EventStorm \/ SkipHandler \/ HandlerEmit \/ HandlerReturn
           \/ EndDelivery \/ EndDrain \/ PersistOne \/ EndTick \/ UNCHANGED vars
  <2>1. health' = health /\ running' \in {running, 0}
    BY <1>4 DEF BeginTick, RunScenario, FireTimer, CollectDue, StepEmit, StepReturn,
                Schedule, FinalDrain, BeginPersist, PopEvent, EventStorm, SkipHandler,
                HandlerEmit, HandlerReturn, EndDelivery, EndDrain, PersistOne, EndTick,
                LeaveStep, LeaveHandler, callVars, vars
  <2>. QED BY <2>1, <1>1
<1>. QED BY <1>2, <1>3, <1>4 DEF Next, Kernel

\* Quarantine is final: whatever the wiring and whichever systems raise, nothing
\* of a system that was quarantined in an earlier tick ever runs again.
THEOREM QuarantineIsFinal == Spec => QuarantineFreezes
<1>1. TypeOK /\ QuarantineInv /\ [Next]_vars
        => [\A s \in Systems :
                health[s].quarantined /\ health[s].lastTick < tick
                    => /\ health'[s] = health[s]
                       /\ running' # s]_vars
  BY QuarantineStep
<1>. QED BY <1>1, TypeCorrect, QuarantineInit, QuarantineNext, PTL
        DEF Spec, QuarantineFreezes

-----------------------------------------------------------------------------
(* The cause stack. *)

\* Every step leaves the cause stack balanced.
LEMMA CauseStackNext ==
    TypeOK /\ CauseStackBalanced /\ [Next]_vars => CauseStackBalanced'
<1>. SUFFICES ASSUME TypeOK, CauseStackBalanced, [Next]_vars
              PROVE  CauseStackBalanced'
  OBVIOUS
<1>1. CASE BeginHandler
  <2>1. /\ pc = "deliver" /\ pc' = "handler" /\ current' = current
        /\ causeStack' = Append(causeStack, current)
    BY <1>1 DEF BeginHandler
  <2>2. causeStack = <<>>
    BY <2>1 DEF CauseStackBalanced
  <2>. QED BY <2>1, <2>2 DEF CauseStackBalanced
<1>2. CASE HandlerReturn \/ HandlerRaise
  <2>1. /\ pc = "handler" /\ pc' = "deliver"
        /\ causeStack' = SubSeq(causeStack, 1, Len(causeStack) - 1)
    BY <1>2 DEF HandlerReturn, HandlerRaise, LeaveHandler
  <2>2. causeStack = <<current>>
    BY <2>1 DEF CauseStackBalanced
  <2>3. causeStack' = <<>>
    BY <2>1, <2>2
  <2>. QED BY <2>1, <2>3 DEF CauseStackBalanced
<1>3. CASE \/ FireTimer \/ StepEmit \/ SkipHandler \/ HandlerEmit \/ PersistOne
           \/ Schedule \/ UNCHANGED vars
  <2>1. UNCHANGED <<pc, causeStack, current>>
    BY <1>3 DEF FireTimer, StepEmit, SkipHandler, HandlerEmit, PersistOne, Schedule,
                busVars, callVars, vars
  <2>. QED BY <2>1 DEF CauseStackBalanced
<1>4. CASE \/ BeginTick \/ RunScenario \/ CollectDue \/ BeginStep \/ StepReturn
           \/ StepRaise \/ FinalDrain \/ BeginPersist \/ PopEvent \/ EventStorm
           \/ EndDelivery \/ EndDrain \/ EndTick
  <2>1. pc # "handler" /\ pc' # "handler" /\ causeStack' = causeStack
    BY <1>4 DEF BeginTick, RunScenario, CollectDue, BeginStep, StepReturn, StepRaise,
                FinalDrain, BeginPersist, PopEvent, EventStorm, EndDelivery, EndDrain,
                EndTick, LeaveStep, callVars
  <2>. QED BY <2>1 DEF CauseStackBalanced
<1>. QED BY <1>1, <1>2, <1>3, <1>4 DEF Next, Kernel

-----------------------------------------------------------------------------
(* The whole of the ledger. *)

\* What Kernel._persist keeps of what a tick makes.
Wanted(e) == emitted[e].topic \in Important /\ ~emitted[e].scenario

\* The events between their emission and the ledger.
OnTheWay == Elements(delivered) \cup Elements(pending)
                \cup (IF Delivering THEN {current} ELSE {})

\* A wanted event is in the ledger or on its way there while the worker lives;
\* between ticks and in a scenario it is in the ledger; _persist starts with
\* an empty bus.  Nothing on the path is unknown to the kernel.
WholeInv ==
    /\ OnTheWay \cup Elements(ledger) \subseteq DOMAIN emitted
    /\ pc # "dead" =>
        \A e \in DOMAIN emitted : Wanted(e) => e \in Elements(ledger) \cup OnTheWay
    /\ pc = "idle" \/ inScenario =>
        \A e \in DOMAIN emitted : Wanted(e) => e \in Elements(ledger)
    /\ pc = "persist" => pending = <<>>
    /\ inScenario => pc \in {"drain", "deliver", "handler"}
    /\ \A e \in Elements(ledger) : emitted[e].topic \in Important
    /\ \A k \in DOMAIN snapshots :
        /\ snapshots[k].seen <= Len(emitted)
        /\ \A e \in 1..snapshots[k].seen : Wanted(e) => e \in Elements(ledger)

\* A cause is an earlier event.
CauseInv ==
    \A e \in DOMAIN emitted :
        \A c \in Elements(emitted[e].causes) : c \in 1..(e - 1)


\* Elements of the sequences the path is made of.
LEMMA ElementsOf ==
    ASSUME NEW s \in Seq(Nat)
    PROVE  /\ Elements(<<>>) = {}
           /\ \A n \in Nat : Elements(Append(s, n)) = Elements(s) \cup {n}
           /\ s # <<>> => Elements(s) = {Head(s)} \cup Elements(Tail(s))
<1>1. Elements(<<>>) = {}
  BY DEF Elements
<1>2. \A n \in Nat : Elements(Append(s, n)) = Elements(s) \cup {n}
  <2>. TAKE n \in Nat
  <2>1. /\ DOMAIN Append(s, n) = DOMAIN s \cup {Len(s) + 1}
        /\ \A i \in DOMAIN s : Append(s, n)[i] = s[i]
        /\ Append(s, n)[Len(s) + 1] = n
    OBVIOUS
  <2>. QED BY <2>1 DEF Elements
<1>3. ASSUME s # <<>>
      PROVE  Elements(s) = {Head(s)} \cup Elements(Tail(s))
  <2>1. /\ Head(s) = s[1] /\ 1 \in DOMAIN s
        /\ \A i \in DOMAIN Tail(s) : i + 1 \in DOMAIN s /\ Tail(s)[i] = s[i + 1]
        /\ \A i \in DOMAIN s : i = 1 \/ (i - 1 \in DOMAIN Tail(s) /\ Tail(s)[i - 1] = s[i])
    BY <1>3
  <2>2. ASSUME NEW x \in Elements(s) PROVE x \in {Head(s)} \cup Elements(Tail(s))
    <3>1. PICK i \in DOMAIN s : x = s[i]
      BY DEF Elements
    <3>2. i = 1 \/ (i - 1 \in DOMAIN Tail(s) /\ Tail(s)[i - 1] = x)
      BY <2>1, <3>1
    <3>. QED BY <2>1, <3>1, <3>2 DEF Elements
  <2>3. Head(s) \in Elements(s)
    BY <2>1 DEF Elements
  <2>4. ASSUME NEW x \in Elements(Tail(s)) PROVE x \in Elements(s)
    <3>1. PICK i \in DOMAIN Tail(s) : x = Tail(s)[i]
      BY DEF Elements
    <3>. QED BY <2>1, <3>1 DEF Elements
  <2>. QED BY <2>2, <2>3, <2>4
<1>. QED BY <1>1, <1>2, <1>3

\* Publishing an event adds one, on the bus, and leaves the others as they were.
LEMMA PublishAdds ==
    ASSUME TypeOK, NEW topic \in Topics, NEW causes \in Seq(Nat), NEW timer \in Nat,
           NEW scenario \in BOOLEAN, Publish(topic, causes, timer, scenario)
    PROVE  /\ Len(emitted') = Len(emitted) + 1
           /\ DOMAIN emitted' = DOMAIN emitted \cup {Len(emitted) + 1}
           /\ Len(emitted) + 1 \notin DOMAIN emitted
           /\ \A e \in DOMAIN emitted : emitted'[e] = emitted[e]
           /\ emitted'[Len(emitted) + 1].scenario = scenario
           /\ emitted'[Len(emitted) + 1].causes = causes
           /\ emitted'[Len(emitted) + 1].timer = timer
           /\ pending' = Append(pending, Len(emitted) + 1)
           /\ Elements(pending') = Elements(pending) \cup {Len(emitted) + 1}
<1>. DEFINE event == [topic |-> topic, tick |-> tick, causes |-> causes,
                      timer |-> timer, scenario |-> scenario]
<1>1. /\ emitted \in Seq(Event) /\ pending \in Seq(Nat) /\ tick \in Nat
      /\ Len(emitted) \in Nat
  BY DEF TypeOK, BusType, ControlType
<1>2. event \in Event
  BY <1>1 DEF Event
<1>3. emitted' = Append(emitted, event) /\ pending' = Append(pending, Len(emitted) + 1)
  BY DEF Publish
<1>4. /\ event.scenario = scenario /\ event.causes = causes /\ event.timer = timer
  OBVIOUS
<1>. HIDE DEF event
<1>5. /\ Len(emitted') = Len(emitted) + 1
      /\ DOMAIN emitted' = DOMAIN emitted \cup {Len(emitted) + 1}
      /\ Len(emitted) + 1 \notin DOMAIN emitted
      /\ \A e \in DOMAIN emitted : emitted'[e] = emitted[e]
      /\ emitted'[Len(emitted) + 1] = event
  BY <1>1, <1>2, <1>3
<1>6. Elements(pending') = Elements(pending) \cup {Len(emitted) + 1}
  BY <1>1, <1>3, ElementsOf
<1>. QED BY <1>3, <1>4, <1>5, <1>6

\* Each emission of a scenario, a timer, a system, a handler and of the failure
\* report is one such event: made by a scenario exactly when one is running,
\* and blamed on nothing but the event being delivered.
LEMMA Emission ==
    ASSUME TypeOK, CauseStackBalanced, pc = "fire" => ~inScenario,
           RunScenario \/ FireTimer \/ StepEmit \/ StepRaise \/ HandlerEmit \/ HandlerRaise
    PROVE  /\ Len(emitted') = Len(emitted) + 1
           /\ DOMAIN emitted' = DOMAIN emitted \cup {Len(emitted) + 1}
           /\ Len(emitted) + 1 \notin DOMAIN emitted
           /\ \A e \in DOMAIN emitted : emitted'[e] = emitted[e]
           /\ emitted'[Len(emitted) + 1].scenario = inScenario'
           /\ emitted'[Len(emitted) + 1].causes \in {<<>>, <<current>>}
           /\ pc # "handler" => emitted'[Len(emitted) + 1].causes = <<>>
           /\ ~FireTimer => emitted'[Len(emitted) + 1].timer = 0
           /\ Elements(pending') = Elements(pending) \cup {Len(emitted) + 1}
<1>1. /\ causeStack \in Seq(Nat) /\ current \in Nat /\ inScenario \in BOOLEAN
      /\ <<>> \in Seq(Nat) /\ FailureTopic \in Topics
      /\ causeStack \in {<<>>, <<current>>}
      /\ pc # "handler" => causeStack = <<>>
  BY KernelAssumption DEF TypeOK, ControlType, BusType, CallType, CauseStackBalanced
<1>2. CASE RunScenario
  <2>1. PICK topic \in ScenarioTopics : Publish(topic, causeStack, 0, TRUE)
    BY <1>2 DEF RunScenario
  <2>2. topic \in Topics
    BY KernelAssumption
  <2>3. inScenario' = TRUE /\ pc # "handler" /\ ~FireTimer
    BY <1>2 DEF RunScenario, FireTimer
  <2>. QED BY <1>1, <2>1, <2>2, <2>3, PublishAdds
<1>3. CASE FireTimer
  <2>1. PICK t \in firing : Publish(t.topic, causeStack, t.id, FALSE)
    BY <1>3 DEF FireTimer
  <2>2. t.topic \in Topics /\ t.id \in Nat
    BY DEF TypeOK, TimerType, Timer
  <2>3. pc # "handler" /\ inScenario' = inScenario /\ inScenario = FALSE
    BY <1>1, <1>3 DEF FireTimer, scenarioVars
  <2>. QED BY <1>1, <2>1, <2>2, <2>3, <1>3, PublishAdds
<1>4. CASE StepEmit \/ HandlerEmit
  <2>1. PICK topic \in StepEmits[running] \cup HandlerEmits[running] :
            Publish(topic, causeStack, 0, inScenario)
    BY <1>4 DEF StepEmit, HandlerEmit, Emit
  <2>2. running \in Systems
    BY <1>4 DEF StepEmit, HandlerEmit, TypeOK, CallType
  <2>3. topic \in Topics
    BY <2>2, KernelAssumption
  <2>4. inScenario' = inScenario
    BY <1>4 DEF StepEmit, HandlerEmit, scenarioVars
  <2>5. ~FireTimer
    BY <1>4 DEF StepEmit, HandlerEmit, FireTimer
  <2>6. 0 \in Nat
    OBVIOUS
  <2>8. causeStack \in Seq(Nat) /\ inScenario \in BOOLEAN
    BY <1>1
  <2>7. /\ Len(emitted') = Len(emitted) + 1
        /\ DOMAIN emitted' = DOMAIN emitted \cup {Len(emitted) + 1}
        /\ Len(emitted) + 1 \notin DOMAIN emitted
        /\ \A e \in DOMAIN emitted : emitted'[e] = emitted[e]
        /\ emitted'[Len(emitted) + 1].scenario = inScenario
        /\ emitted'[Len(emitted) + 1].causes = causeStack
        /\ emitted'[Len(emitted) + 1].timer = 0
        /\ Elements(pending') = Elements(pending) \cup {Len(emitted) + 1}
    BY <2>1, <2>3, <2>6, <2>8, PublishAdds
  <2>. QED BY <1>1, <2>4, <2>5, <2>7, Zenon
<1>5. CASE StepRaise \/ HandlerRaise
  <2>1. Publish(FailureTopic, <<>>, 0, inScenario)
    BY <1>5 DEF StepRaise, HandlerRaise, RecordFailure
  <2>2. inScenario' = inScenario
    BY <1>5 DEF StepRaise, HandlerRaise, scenarioVars
  <2>. QED BY <1>1, <2>1, <2>2, PublishAdds
<1>. QED BY <1>2, <1>3, <1>4, <1>5

\* Nothing is wanted of an empty world.
LEMMA WholeInit == Init => WholeInv
BY DEF Init, WholeInv, OnTheWay, Elements, Delivering

\* What a sequence holds after something was appended to it.
LEMMA AppendedTo ==
    ASSUME NEW S, NEW s \in Seq(S), NEW x \in S
    PROVE  \A k \in DOMAIN Append(s, x) :
                \/ Append(s, x)[k] = x
                \/ k \in DOMAIN s /\ Append(s, x)[k] = s[k]
OBVIOUS

\* The part of WholeInv that is about the snapshots outlives more events and a
\* longer ledger.
LEMMA SnapshotsKept ==
    ASSUME TypeOK, WholeInv, UNCHANGED snapshots,
           Elements(ledger) \subseteq Elements(ledger'),
           Len(emitted') \in Nat, Len(emitted') >= Len(emitted),
           \A e \in DOMAIN emitted : emitted'[e] = emitted[e]
    PROVE  \A k \in DOMAIN snapshots' :
                /\ snapshots'[k].seen <= Len(emitted')
                /\ \A e \in 1..snapshots'[k].seen : Wanted(e)' => e \in Elements(ledger')
<1>. SUFFICES ASSUME NEW k \in DOMAIN snapshots
              PROVE  /\ snapshots[k].seen <= Len(emitted')
                     /\ \A e \in 1..snapshots[k].seen : Wanted(e)' => e \in Elements(ledger')
  OBVIOUS
<1>5. snapshots \in Seq([tick : Nat, seen : Nat])
  BY DEF TypeOK, CaptureType
<1>6. snapshots[k] \in [tick : Nat, seen : Nat]
  BY <1>5, LenProperties, ElementOfSeq, Zenon
<1>1. /\ snapshots[k].seen \in Nat /\ Len(emitted) \in Nat /\ emitted \in Seq(Event)
  BY <1>6 DEF TypeOK, BusType
<1>2. /\ snapshots[k].seen <= Len(emitted)
      /\ \A e \in 1..snapshots[k].seen : Wanted(e) => e \in Elements(ledger)
  BY DEF WholeInv
<1>3. \A e \in 1..snapshots[k].seen : e \in DOMAIN emitted
  BY <1>1, <1>2
<1>4. \A e \in DOMAIN emitted : Wanted(e)' <=> Wanted(e)
  BY DEF Wanted
<1>. QED BY <1>1, <1>2, <1>3, <1>4

\* Every step keeps the wanted events in the ledger or on their way to it.
LEMMA WholeNext ==
    TypeOK /\ CauseStackBalanced /\ WholeInv /\ [Next]_vars => WholeInv'
<1>. SUFFICES ASSUME TypeOK, CauseStackBalanced, WholeInv, [Next]_vars
              PROVE  WholeInv'
  OBVIOUS
<1>. /\ ledger \in Seq(Nat) /\ delivered \in Seq(Nat) /\ pending \in Seq(Nat)
     /\ current \in Nat /\ emitted \in Seq(Event) /\ Len(emitted) \in Nat
  BY DEF TypeOK, ControlType, BusType
<1>1. CASE RunScenario \/ FireTimer \/ StepEmit \/ StepRaise \/ HandlerEmit \/ HandlerRaise
  <2>16. PICK n \in Nat : n = Len(emitted) + 1
    OBVIOUS
  <2>1. /\ Len(emitted') = n
        /\ DOMAIN emitted' = DOMAIN emitted \cup {n}
        /\ \A e \in DOMAIN emitted : emitted'[e] = emitted[e]
        /\ emitted'[n].scenario = inScenario'
        /\ Elements(pending') = Elements(pending) \cup {n}
    BY <1>1, <2>16, Emission DEF WholeInv
  <2>12. UNCHANGED <<ledger, delivered, current, captureVars>>
    BY <1>1 DEF RunScenario, FireTimer, StepEmit, StepRaise, HandlerEmit, HandlerRaise
  <2>13. /\ Delivering' <=> Delivering
         /\ pc # "persist" /\ pc' # "persist" /\ pc # "dead" /\ pc' # "idle"
    BY <1>1 DEF RunScenario, FireTimer, StepEmit, StepRaise, HandlerEmit, HandlerRaise,
                LeaveStep, LeaveHandler, Delivering
  <2>15. inScenario => pc \in {"drain", "deliver", "handler"}
    BY DEF WholeInv
  <2>14. /\ inScenario' => pc' \in {"drain", "deliver", "handler"}
         /\ inScenario' => pc = "idle" \/ inScenario
    <3>1. CASE RunScenario
      BY <3>1 DEF RunScenario
    <3>2. CASE ~RunScenario
      <4>1. inScenario' = inScenario
        BY <1>1, <3>2 DEF FireTimer, StepEmit, StepRaise, HandlerEmit, HandlerRaise,
                          scenarioVars
      <4>2. pc \in {"drain", "deliver", "handler"} => pc' \in {"drain", "deliver", "handler"}
        BY <1>1, <3>2 DEF FireTimer, StepEmit, StepRaise, HandlerEmit, HandlerRaise,
                          LeaveStep, LeaveHandler
      <4>. QED BY <2>15, <4>1, <4>2
    <3>. QED BY <3>1, <3>2
  <2>2. /\ UNCHANGED <<ledger, delivered, current, snapshots>>
        /\ Delivering' <=> Delivering
        /\ pc # "persist" /\ pc' # "persist" /\ pc # "dead" /\ pc' # "idle"
        /\ inScenario' => pc' \in {"drain", "deliver", "handler"}
        /\ inScenario' => pc = "idle" \/ inScenario
    BY <2>12, <2>13, <2>14 DEF captureVars
  <2>3. n > Len(emitted)
    BY <2>16
  <2>4. \A e \in DOMAIN emitted : Wanted(e)' <=> Wanted(e)
    BY <2>1 DEF Wanted
  <2>5. Wanted(n)' => ~inScenario'
    BY <2>1, Zenon DEF Wanted
  <2>6. OnTheWay' = OnTheWay \cup {n}
    BY <2>1, <2>2 DEF OnTheWay
  <2>7. OnTheWay' \cup Elements(ledger') \subseteq DOMAIN emitted'
    BY <2>1, <2>2, <2>6 DEF WholeInv
  <2>8. \A e \in DOMAIN emitted' : Wanted(e)' => e \in Elements(ledger') \cup OnTheWay'
    BY <2>1, <2>2, <2>4, <2>6 DEF WholeInv
  <2>9. inScenario' => \A e \in DOMAIN emitted' : Wanted(e)' => e \in Elements(ledger')
    <3>. SUFFICES ASSUME inScenario', NEW e \in DOMAIN emitted', Wanted(e)'
                  PROVE  e \in Elements(ledger')
      OBVIOUS
    <3>1. e \in DOMAIN emitted /\ Wanted(e)
      BY <2>1, <2>4, <2>5
    <3>. QED BY <2>2, <3>1 DEF WholeInv
  <2>10. \A e \in Elements(ledger') : emitted'[e].topic \in Important
    BY <2>1, <2>2 DEF WholeInv
  <2>11. \A k \in DOMAIN snapshots' :
                /\ snapshots'[k].seen <= Len(emitted')
                /\ \A e \in 1..snapshots'[k].seen : Wanted(e)' => e \in Elements(ledger')
    BY <2>1, <2>2, <2>3, SnapshotsKept
  <2>. QED BY <2>2, <2>7, <2>8, <2>9, <2>10, <2>11 DEF WholeInv
<1>2. CASE PopEvent
  <2>1. /\ pending # <<>> /\ current' = Head(pending) /\ pending' = Tail(pending)
        /\ pc = "drain" /\ pc' = "deliver"
        /\ UNCHANGED <<ledger, delivered, emitted, snapshots, inScenario>>
    BY <1>2 DEF PopEvent, captureVars, scenarioVars
  <2>2. Elements(pending) = {current'} \cup Elements(pending')
    BY <2>1, ElementsOf
  <2>3. OnTheWay' = OnTheWay
    BY <2>1, <2>2 DEF OnTheWay, Delivering
  <2>. QED BY <2>1, <2>3 DEF WholeInv, Wanted
<1>3. CASE EndDelivery
  <2>1. /\ pc = "deliver" /\ pc' = "drain" /\ delivered' = Append(delivered, current)
        /\ UNCHANGED <<ledger, pending, emitted, snapshots, inScenario>>
    BY <1>3 DEF EndDelivery, captureVars, scenarioVars
  <2>2. Elements(delivered') = Elements(delivered) \cup {current}
    BY <2>1, ElementsOf
  <2>3. OnTheWay' = OnTheWay
    BY <2>1, <2>2 DEF OnTheWay, Delivering
  <2>. QED BY <2>1, <2>3 DEF WholeInv, Wanted
<1>4. CASE PersistOne
  <2>. DEFINE h == Head(delivered)
  <2>1. /\ pc = "persist" /\ pc' = "persist" /\ ~inScenario
        /\ delivered # <<>> /\ delivered' = Tail(delivered)
        /\ ledger' = IF emitted[h].topic \in Important THEN Append(ledger, h) ELSE ledger
        /\ UNCHANGED <<pending, current, emitted, snapshots, inScenario>>
    BY <1>4 DEF PersistOne, busVars, captureVars, scenarioVars, WholeInv
  <2>2. /\ Elements(delivered) = {h} \cup Elements(delivered') /\ h \in Nat
    BY <2>1, ElementsOf
  <2>3. Elements(ledger') = IF emitted[h].topic \in Important
                            THEN Elements(ledger) \cup {h} ELSE Elements(ledger)
    BY <2>1, <2>2, ElementsOf
  <2>. HIDE DEF h
  <2>4. OnTheWay = OnTheWay' \cup {h}
    BY <2>1, <2>2 DEF OnTheWay, Delivering
  <2>5. \A e \in DOMAIN emitted' : Wanted(e)' => e \in Elements(ledger') \cup OnTheWay'
    BY <2>1, <2>3, <2>4 DEF WholeInv, Wanted
  <2>6. \A e \in Elements(ledger') : emitted'[e].topic \in Important
    BY <2>1, <2>3 DEF WholeInv
  <2>7. OnTheWay' \cup Elements(ledger') \subseteq DOMAIN emitted'
    BY <2>1, <2>3, <2>4 DEF WholeInv
  <2>8. \A k \in DOMAIN snapshots' :
                /\ snapshots'[k].seen <= Len(emitted')
                /\ \A e \in 1..snapshots'[k].seen : Wanted(e)' => e \in Elements(ledger')
    BY <2>1, <2>3, SnapshotsKept
  <2>. QED BY <2>1, <2>5, <2>6, <2>7, <2>8 DEF WholeInv
<1>5. CASE BeginTick
  <2>1. /\ pc = "idle" /\ pc' = "fire" /\ delivered' = <<>> /\ ~inScenario'
        /\ UNCHANGED <<ledger, pending, current, emitted, snapshots>>
    BY <1>5 DEF BeginTick, busVars, captureVars
  <2>2. OnTheWay' \subseteq OnTheWay
    BY <2>1, ElementsOf DEF OnTheWay, Delivering
  <2>. QED BY <2>1, <2>2 DEF WholeInv, Wanted
<1>6. CASE EventStorm \/ EndDrain
  <2>1. /\ pc = "drain" /\ ~inScenario'
        /\ \/ pc' = "dead" /\ delivered' = <<>>
           \/ pc' = "idle" /\ inScenario /\ delivered' = <<>>
           \/ pc' = "pick" /\ delivered' = delivered
        /\ UNCHANGED <<ledger, pending, current, emitted, snapshots>>
    BY <1>6 DEF EventStorm, EndDrain, busVars, captureVars
  <2>2. /\ OnTheWay' \subseteq OnTheWay
        /\ delivered' = delivered => OnTheWay' = OnTheWay
    BY <2>1, ElementsOf DEF OnTheWay, Delivering
  <2>. QED BY <2>1, <2>2 DEF WholeInv, Wanted
<1>7. CASE BeginPersist
  <2>1. /\ pc = "pick" /\ pc' = "persist" /\ pending = <<>>
        /\ UNCHANGED <<ledger, delivered, pending, current, emitted, snapshots,
                       inScenario>>
    BY <1>7 DEF BeginPersist, busVars, captureVars, scenarioVars
  <2>2. OnTheWay' = OnTheWay
    BY <2>1 DEF OnTheWay, Delivering
  <2>. QED BY <2>1, <2>2 DEF WholeInv, Wanted
<1>8. CASE EndTick
  <2>. DEFINE entry == [tick |-> tick, seen |-> Len(emitted)]
  <2>1. /\ pc = "persist" /\ pc' = "idle" /\ delivered = <<>>
        /\ UNCHANGED <<ledger, delivered, pending, current, emitted, inScenario>>
        /\ snapshots' = Append(snapshots, entry) \/ snapshots' = snapshots
    BY <1>8 DEF EndTick, busVars, scenarioVars
  <2>2. OnTheWay = {} /\ OnTheWay' = {}
    BY <2>1, ElementsOf DEF OnTheWay, Delivering, WholeInv
  <2>3. \A e \in DOMAIN emitted : Wanted(e) => e \in Elements(ledger)
    BY <2>1, <2>2 DEF WholeInv
  <2>4. /\ snapshots \in Seq([tick : Nat, seen : Nat]) /\ entry \in [tick : Nat, seen : Nat]
        /\ entry.seen = Len(emitted)
    BY DEF TypeOK, CaptureType, ControlType
  <2>. DEFINE Entry == [tick : Nat, seen : Nat]
  <2>9. snapshots \in Seq(Entry) /\ entry \in Entry
    BY <2>4
  <2>. HIDE DEF entry, Entry
  <2>5. \A k \in DOMAIN snapshots' : \/ snapshots'[k].seen = Len(emitted)
                                     \/ k \in DOMAIN snapshots /\ snapshots'[k] = snapshots[k]
    <3>1. CASE snapshots' = snapshots
      BY <3>1
    <3>2. CASE snapshots' = Append(snapshots, entry)
      <4>1. \A k \in DOMAIN snapshots' : \/ snapshots'[k] = entry
                                         \/ k \in DOMAIN snapshots /\ snapshots'[k] = snapshots[k]
        <5>1. \A k \in DOMAIN Append(snapshots, entry) :
                \/ Append(snapshots, entry)[k] = entry
                \/ k \in DOMAIN snapshots /\ Append(snapshots, entry)[k] = snapshots[k]
          BY <2>9, AppendedTo
        <5>. QED BY <3>2, <5>1
      <4>. QED BY <2>4, <4>1
    <3>. QED BY <2>1, <3>1, <3>2
  <2>6. \A e \in 1..Len(emitted) : Wanted(e) => e \in Elements(ledger)
    BY <2>3
  <2>7. \A k \in DOMAIN snapshots' :
            /\ snapshots'[k].seen <= Len(emitted)
            /\ \A e \in 1..snapshots'[k].seen : Wanted(e) => e \in Elements(ledger)
    <3>. SUFFICES ASSUME NEW k \in DOMAIN snapshots'
                  PROVE  /\ snapshots'[k].seen <= Len(emitted)
                         /\ \A e \in 1..snapshots'[k].seen : Wanted(e) => e \in Elements(ledger)
      OBVIOUS
    <3>1. CASE snapshots'[k].seen = Len(emitted)
      BY <2>6, <3>1
    <3>2. CASE k \in DOMAIN snapshots /\ snapshots'[k] = snapshots[k]
      BY <3>2 DEF WholeInv
    <3>. QED BY <2>5, <3>1, <3>2
  <2>. QED BY <2>1, <2>2, <2>3, <2>7 DEF WholeInv, Wanted
<1>9. CASE \/ CollectDue \/ BeginStep \/ StepReturn \/ Schedule \/ FinalDrain
           \/ SkipHandler \/ BeginHandler \/ HandlerReturn \/ UNCHANGED vars
  <2>1. /\ UNCHANGED <<ledger, delivered, pending, current, emitted, snapshots, inScenario>>
        /\ Delivering' = Delivering
        /\ pc' = pc \/ (pc \notin {"idle", "persist", "dead"}
                         /\ pc' \notin {"idle", "persist", "dead"})
        /\ pc' \in {"fire", "pick", "step", "persist", "idle", "dead"}
                => pc' = pc \/ pc \in {"fire", "pick"}
        /\ pc' \notin {"fire", "pick", "step", "persist", "idle", "dead"}
                => pc' = pc \/ pc' \in {"drain", "deliver", "handler"}
    BY <1>9 DEF CollectDue, BeginStep, StepReturn, Schedule, FinalDrain, SkipHandler,
                BeginHandler, HandlerReturn, LeaveStep, LeaveHandler, Delivering,
                busVars, captureVars, scenarioVars, vars
  <2>2. OnTheWay' = OnTheWay
    BY <2>1 DEF OnTheWay
  <2>. QED BY <2>1, <2>2 DEF WholeInv, Wanted
<1>. QED BY <1>1, <1>2, <1>3, <1>4, <1>5, <1>6, <1>7, <1>8, <1>9 DEF Next, Kernel

\* What is restored, and what the ledger promises, follow from the path.
LEMMA WholeLedger == TypeOK /\ WholeInv => LedgerWhole
<1>. SUFFICES ASSUME TypeOK, WholeInv PROVE LedgerWhole
  OBVIOUS
<1>1. LedgerComplete
  BY DEF WholeInv, LedgerComplete, Wanted
<1>2. SnapshotBehindLedger
  BY DEF WholeInv, SnapshotBehindLedger, Wanted
<1>. QED BY <1>1, <1>2 DEF LedgerWhole

\* Between ticks the ledger has every important event the ticks have made and
\* nothing else, and no snapshot is ahead of it.
THEOREM LedgerIsWhole == Spec => []LedgerWhole
<1>1. Init => CauseStackBalanced
  BY DEF Init, CauseStackBalanced
<1>. QED BY <1>1, TypeCorrect, CauseStackNext, WholeInit, WholeNext, WholeLedger, PTL
        DEF Spec

\* No event is caused by itself or by a later one.
LEMMA CauseNext ==
    TypeOK /\ CauseStackBalanced /\ WholeInv /\ CauseInv /\ [Next]_vars => CauseInv'
<1>. SUFFICES ASSUME TypeOK, CauseStackBalanced, WholeInv, CauseInv, [Next]_vars
              PROVE  CauseInv'
  OBVIOUS
<1>. emitted \in Seq(Event) /\ Len(emitted) \in Nat
  BY DEF TypeOK, BusType
<1>1. CASE RunScenario \/ FireTimer \/ StepEmit \/ StepRaise \/ HandlerEmit \/ HandlerRaise
  <2>. DEFINE n == Len(emitted) + 1
  <2>1. /\ DOMAIN emitted' = DOMAIN emitted \cup {n}
        /\ \A e \in DOMAIN emitted : emitted'[e] = emitted[e]
        /\ emitted'[n].causes \in {<<>>, <<current>>}
        /\ pc # "handler" => emitted'[n].causes = <<>>
    BY <1>1, Emission DEF WholeInv
  <2>2. pc = "handler" => current \in 1..(n - 1)
    BY DEF WholeInv, OnTheWay, Delivering
  <2>3. Elements(<<>>) = {} /\ Elements(<<current>>) = {current}
    BY DEF Elements
  <2>4. \A c \in Elements(emitted'[n].causes) : c \in 1..(n - 1)
    BY <2>1, <2>2, <2>3
  <2>. HIDE DEF n
  <2>. QED BY <2>1, <2>4 DEF CauseInv
<1>2. CASE ~(RunScenario \/ FireTimer \/ StepEmit \/ StepRaise \/ HandlerEmit \/ HandlerRaise)
  <2>1. emitted' = emitted
    BY <1>2 DEF Next, Kernel, BeginTick, CollectDue, BeginStep, StepReturn, Schedule,
                FinalDrain, BeginPersist, PopEvent, EventStorm, SkipHandler, BeginHandler,
                HandlerReturn, EndDelivery, EndDrain, PersistOne, EndTick, busVars, vars
  <2>. QED BY <2>1 DEF CauseInv
<1>. QED BY <1>1, <1>2

\* What has reached the ledger was made before all that is still on its way.
LEMMA LedgerBeforePath ==
    ASSUME TypeOK, OrderInv, NEW i \in DOMAIN ledger, NEW c \in OnTheWay
    PROVE  ledger[i] < c
<1>1. CASE c \in Elements(delivered)
  BY <1>1 DEF Elements, OrderInv, Before
<1>2. CASE c \in Elements(pending)
  BY <1>2 DEF Elements, OrderInv, Before
<1>3. CASE Delivering /\ c = current
  BY <1>3 DEF OrderInv, Below, Delivering
<1>. QED BY <1>1, <1>2, <1>3 DEF OnTheWay

Dead == pc = "dead"

\* While the worker lives, the causes of what is in the ledger are in it, earlier.
LEMMA CausesInLedger ==
    TypeOK /\ OrderInv /\ WholeInv /\ CauseInv /\ ~Dead => CausesBeforeEffects
<1>. SUFFICES ASSUME TypeOK, OrderInv, WholeInv, CauseInv, ~Dead,
                     NEW i \in DOMAIN ledger,
                     NEW c \in Elements(emitted[ledger[i]].causes), Wanted(c)
              PROVE  \E j \in 1..(i - 1) : ledger[j] = c
  BY DEF CausesBeforeEffects, Wanted
<1>. /\ ledger \in Seq(Nat) /\ i \in Nat /\ Len(ledger) \in Nat
     /\ emitted \in Seq(Event) /\ Len(emitted) \in Nat
  BY DEF TypeOK, ControlType, BusType
<1>1. ledger[i] \in DOMAIN emitted
  BY DEF WholeInv, Elements
<1>2. c \in 1..(ledger[i] - 1)
  BY <1>1 DEF CauseInv
<1>3. c < ledger[i] /\ c \in DOMAIN emitted /\ ledger[i] \in Nat /\ c \in Nat
  BY <1>1, <1>2
<1>4. c \in Elements(ledger) \cup OnTheWay
  BY <1>3 DEF WholeInv, Dead
<1>5. c \notin OnTheWay
  BY <1>3, LedgerBeforePath
<1>6. PICK j \in DOMAIN ledger : ledger[j] = c
  BY <1>4, <1>5 DEF Elements
<1>7. ~(i < j) /\ i # j
  BY <1>3, <1>6 DEF OrderInv, Increasing
<1>8. j \in 1..(i - 1)
  BY <1>6, <1>7
<1>. QED BY <1>6, <1>8

\* The step on which the worker dies leaves the ledger and the events alone.
LEMMA CausesKept ==
    CausesBeforeEffects /\ Dead' /\ [Next]_vars => CausesBeforeEffects'
<1>. SUFFICES ASSUME CausesBeforeEffects, Dead', [Next]_vars
              PROVE  CausesBeforeEffects'
  OBVIOUS
<1>1. CASE EventStorm \/ UNCHANGED vars
  <2>1. UNCHANGED <<ledger, emitted>>
    BY <1>1 DEF EventStorm, busVars, vars
  <2>. QED BY <2>1 DEF CausesBeforeEffects
<1>2. CASE BeginTick \/ RunScenario
  BY <1>2 DEF BeginTick, RunScenario, Dead
<1>3. CASE \/ CollectDue \/ BeginStep \/ StepReturn \/ StepRaise \/ FinalDrain
           \/ BeginPersist \/ PopEvent \/ BeginHandler \/ HandlerReturn
           \/ HandlerRaise \/ EndDelivery \/ EndDrain \/ EndTick
  BY <1>3 DEF CollectDue, BeginStep, StepReturn, StepRaise, FinalDrain, BeginPersist,
              PopEvent, BeginHandler, HandlerReturn, HandlerRaise, EndDelivery,
              EndDrain, EndTick, LeaveStep, LeaveHandler, Dead
<1>4. CASE FireTimer \/ StepEmit \/ Schedule \/ SkipHandler \/ HandlerEmit \/ PersistOne
  BY <1>4 DEF FireTimer, StepEmit, Schedule, SkipHandler, HandlerEmit, PersistOne, Dead
<1>. QED BY <1>1, <1>2, <1>3, <1>4 DEF Next, Kernel

\* Every event carries the causes it has, and whoever reads only the ledger can
\* follow every chain of important events back to its start.
THEOREM CausesTrue == Spec => []CausesAreTrue
<1>1. Init => CauseStackBalanced /\ CauseInv /\ CausesBeforeEffects
  BY DEF Init, CauseStackBalanced, CauseInv, CausesBeforeEffects
<1>. QED BY <1>1, TypeCorrect, OrderInit, OrderNext, CauseStackNext, WholeInit,
            WholeNext,
            CauseNext, CausesInLedger, CausesKept, PTL
        DEF Spec, CausesAreTrue

-----------------------------------------------------------------------------
(* Timers. *)

\* The queue holds each timer at most once, as it was scheduled but for its
\* next fire tick, and _fire_timers empties what the tick has popped.
TimerInv ==
    /\ \A id \in DOMAIN scheduled : scheduled[id].id = id
    /\ \A t \in timers \cup firing :
        /\ t.id \in DOMAIN scheduled
        /\ t.repeat = scheduled[t.id].repeat
    /\ \A t, u \in timers : t.id = u.id => t = u
    /\ \A t, u \in firing : t.id = u.id => t = u
    /\ pc # "fire" => firing = {}
    /\ \A e \in DOMAIN emitted : emitted[e].timer \in 0..Len(scheduled)
    /\ TimerAccounting

\* The three places TimerAccounting counts.
Waiting(id) == {t \in timers : t.id = id}
DueNow(id)  == {t \in firing : t.id = id}
Fired(id)   == {e \in DOMAIN emitted : emitted[e].timer = id}
Count(id)   == Cardinality(DueNow(id)) + Cardinality(Fired(id))

Accounted(id) ==
    IF scheduled[id].repeat = 0
    THEN Cardinality(Waiting(id)) + Count(id) = 1
    ELSE \E t \in Waiting(id) :
            /\ Waiting(id) = {t}
            /\ t.fire = scheduled[id].fire + scheduled[id].repeat * Count(id)

\* A timer is in at most one place of the queue, and has fired a number of times.
LEMMA TimerCounts ==
    ASSUME TypeOK, TimerInv
    PROVE  /\ \A id : Cardinality(Fired(id)) \in Nat /\ IsFiniteSet(Fired(id))
           /\ \A id, t : t \in Waiting(id) => Waiting(id) = {t}
           /\ \A id, t : t \in DueNow(id) => DueNow(id) = {t}
           /\ Cardinality({}) = 0 /\ \A t : Cardinality({t}) = 1
           /\ \A id \in DOMAIN scheduled : Accounted(id)
<1>1. \A id : Cardinality(Fired(id)) \in Nat /\ IsFiniteSet(Fired(id))
  <2>. TAKE id
  <2>1. DOMAIN emitted = 1..Len(emitted) /\ Len(emitted) \in Nat
    BY DEF TypeOK, BusType
  <2>2. IsFiniteSet(DOMAIN emitted)
    BY <2>1, FS_Interval
  <2>3. Fired(id) \subseteq DOMAIN emitted
    BY DEF Fired
  <2>4. IsFiniteSet(Fired(id))
    BY <2>2, <2>3, FS_Subset
  <2>. QED BY <2>4, FS_CardinalityType
<1>2. \A id, t : t \in Waiting(id) => Waiting(id) = {t}
  BY DEF Waiting, TimerInv
<1>3. \A id, t : t \in DueNow(id) => DueNow(id) = {t}
  BY DEF DueNow, TimerInv
<1>4. Cardinality({}) = 0 /\ \A t : Cardinality({t}) = 1
  BY FS_EmptySet, FS_Singleton
<1>5. \A id \in DOMAIN scheduled : Accounted(id)
  BY Zenon DEF TimerInv, TimerAccounting, Accounted, Waiting, DueNow, Fired, Count
<1>. QED BY <1>1, <1>2, <1>3, <1>4, <1>5

\* A timer nothing happens to stays accounted for.
LEMMA AccountKept ==
    ASSUME NEW id, Accounted(id), scheduled'[id] = scheduled[id],
           Waiting(id)' = Waiting(id), Count(id)' = Count(id)
    PROVE  Accounted(id)'
BY DEF Accounted

\* So does every timer when an event that is no timer's is published.
LEMMA FiredKept ==
    ASSUME TypeOK, TimerInv, NEW n, DOMAIN emitted' = DOMAIN emitted \cup {n},
           \A e \in DOMAIN emitted : emitted'[e] = emitted[e],
           NEW id, emitted'[n].timer # id
    PROVE  Fired(id)' = Fired(id)
BY DEF Fired

\* The queue, what the tick has popped and what has fired, after Publish.
LEMMA TimerFires ==
    ASSUME TypeOK, TimerInv, FireTimer
    PROVE  TimerInv'
<1>. /\ emitted \in Seq(Event) /\ Len(emitted) \in Nat
     /\ timers \subseteq Timer /\ firing \subseteq Timer /\ scheduled \in Seq(Timer)
  BY DEF TypeOK, BusType, TimerType
<1>1. PICK t \in firing : /\ Publish(t.topic, causeStack, t.id, FALSE)
                          /\ firing' = firing \ {t}
  BY DEF FireTimer
<1>2. PICK n \in Nat : n = Len(emitted) + 1
  OBVIOUS
<1>3. /\ causeStack \in Seq(Nat) /\ t.topic \in Topics /\ t.id \in Nat
  BY DEF TypeOK, CallType, Timer
<1>4. /\ DOMAIN emitted' = DOMAIN emitted \cup {n} /\ n \notin DOMAIN emitted
      /\ \A e \in DOMAIN emitted : emitted'[e] = emitted[e]
      /\ emitted'[n].timer = t.id
  BY <1>1, <1>2, <1>3, PublishAdds
<1>5. pc = "fire" /\ pc' = "fire" /\ timers' = timers /\ scheduled' = scheduled
  BY DEF FireTimer
<1>6. t.id \in DOMAIN scheduled /\ t.id \in 0..Len(scheduled)
  BY DEF TimerInv
<1>7. ASSUME NEW id \in DOMAIN scheduled PROVE Accounted(id)'
  <2>1. Waiting(id)' = Waiting(id) /\ Accounted(id)
    BY <1>5, TimerCounts DEF Waiting
  <2>2. Count(id)' = Count(id)
    <3>1. CASE id = t.id
      <4>1. DueNow(id) = {t} /\ DueNow(id)' = {}
        BY <1>1, <3>1, TimerCounts DEF DueNow
      <4>2. Fired(id)' = Fired(id) \cup {n} /\ n \notin Fired(id)
        BY <1>4, <3>1 DEF Fired
      <4>3. /\ Cardinality(Fired(id)') = Cardinality(Fired(id)) + 1
            /\ Cardinality(Fired(id)) \in Nat
        BY <4>2, TimerCounts, FS_AddElement
      <4>. QED BY <4>1, <4>3, TimerCounts DEF Count
    <3>2. CASE id # t.id
      <4>1. DueNow(id)' = DueNow(id)
        BY <1>1, <3>2 DEF DueNow
      <4>2. Fired(id)' = Fired(id)
        BY <1>4, <3>2, FiredKept
      <4>. QED BY <4>1, <4>2 DEF Count
    <3>. QED BY <3>1, <3>2
  <2>. QED BY <1>5, <2>1, <2>2, AccountKept
<1>8. TimerAccounting'
  BY <1>5, <1>7, Zenon DEF TimerAccounting, Accounted, Waiting, DueNow, Fired, Count
<1>9. \A e \in DOMAIN emitted' : emitted'[e].timer \in 0..Len(scheduled')
  BY <1>4, <1>5, <1>6 DEF TimerInv
<1>. QED BY <1>1, <1>5, <1>8, <1>9 DEF TimerInv

\* A repeating timer's next fire tick is one period further each time it fires.
LEMMA OnceMore ==
    ASSUME NEW a \in Nat, NEW b \in Nat, NEW k \in Nat
    PROVE  (a + b * k) + b = a + b * (k + 1)
OBVIOUS

\* pop_due_timers takes every due timer out and puts the repeating ones back.
LEMMA TimersPop ==
    ASSUME TypeOK, TimerInv, BeginTick
    PROVE  TimerInv'
<1>. /\ timers \subseteq Timer /\ scheduled \in Seq(Timer) /\ tick \in Nat
  BY DEF TypeOK, ControlType, TimerType
<1>1. /\ firing = {} /\ firing' = DueTimers /\ pc' = "fire"
      /\ timers' = (timers \ DueTimers) \cup Rearmed
      /\ scheduled' = scheduled /\ emitted' = emitted
  BY DEF BeginTick, TimerInv, busVars
<1>2. /\ DueTimers \subseteq timers
      /\ \A t \in DueTimers : t.fire <= tick + 1
  BY DEF DueTimers
<1>3. \A r \in Rearmed : \E d \in DueTimers :
            d.repeat > 0 /\ r.id = d.id /\ r.repeat = d.repeat /\ r.fire = d.fire + d.repeat
  BY DEF Rearmed
<1>4. \A d \in DueTimers : d.repeat > 0 =>
            \E r \in Rearmed : r.id = d.id /\ r.repeat = d.repeat /\ r.fire = d.fire + d.repeat
  <2>. SUFFICES ASSUME NEW d \in DueTimers, d.repeat > 0
                PROVE  \E r \in Rearmed : /\ r.id = d.id /\ r.repeat = d.repeat
                                         /\ r.fire = d.fire + d.repeat
    OBVIOUS
  <2>1. [id |-> d.id, fire |-> d.fire + d.repeat, repeat |-> d.repeat, topic |-> d.topic]
            \in Rearmed
    BY DEF Rearmed
  <2>. QED BY <2>1
<1>5. \A r, q \in Rearmed : r.id = q.id => r = q
  BY <1>2 DEF Rearmed, TimerInv
<1>6. \A t, u \in timers' : t.id = u.id => t = u
  BY <1>1, <1>2, <1>3, <1>5 DEF TimerInv
<1>7. \A t \in timers' \cup firing' :
            t.id \in DOMAIN scheduled /\ t.repeat = scheduled[t.id].repeat
  BY <1>1, <1>2, <1>3 DEF TimerInv
<1>8. ASSUME NEW id \in DOMAIN scheduled PROVE Accounted(id)'
  <2>8. DueNow(id) = {} /\ Fired(id)' = Fired(id)
    BY <1>1 DEF DueNow, Fired
  <2>1. /\ Accounted(id) /\ DueNow(id) = {} /\ Fired(id)' = Fired(id)
        /\ Cardinality(Fired(id)) \in Nat
    BY <2>8, TimerCounts
  <2>2. PICK k \in Nat : k = Cardinality(Fired(id))
    BY <2>1
  <2>3. Count(id) = k /\ Count(id)' = Cardinality(DueNow(id)') + k
    BY <2>1, <2>2, TimerCounts DEF Count
  <2>9. scheduled[id] \in Timer
    BY LenProperties, ElementOfSeq, Zenon
  <2>4. scheduled[id].repeat \in Nat /\ scheduled[id].fire \in Nat
    BY <2>9 DEF Timer
  <2>5. CASE Waiting(id) = {}
    <3>1. Waiting(id)' = {} /\ DueNow(id)' = {}
      BY <1>1, <1>2, <1>3, <2>5 DEF Waiting, DueNow
    <3>2. Count(id)' = Count(id)
      BY <2>3, <3>1, TimerCounts
    <3>. QED BY <1>1, <2>1, <2>5, <3>1, <3>2, AccountKept
  <2>6. ASSUME NEW t \in Waiting(id), t \notin DueTimers PROVE Accounted(id)'
    <3>1. Waiting(id) = {t} /\ t \in timers /\ t.id = id
      BY <2>6, TimerCounts DEF Waiting
    <3>2. \A d \in DueTimers : d.id # id
      BY <1>2, <2>6, <3>1 DEF TimerInv
    <3>3. \A r \in Rearmed : r.id # id
      BY <1>3, <3>2
    <3>4. Waiting(id)' = {t} /\ DueNow(id)' = {}
      BY <1>1, <2>6, <3>1, <3>2, <3>3 DEF Waiting, DueNow
    <3>5. Count(id)' = Count(id)
      BY <2>3, <3>4, TimerCounts
    <3>. QED BY <1>1, <2>1, <3>1, <3>4, <3>5, AccountKept
  <2>7. ASSUME NEW t \in Waiting(id), t \in DueTimers PROVE Accounted(id)'
    <3>1. Waiting(id) = {t} /\ t \in timers /\ t.id = id /\ t \in Timer
      BY <2>7, TimerCounts DEF Waiting
    <3>2. \A d \in timers : d.id = id => d = t
      BY <3>1 DEF Waiting
    <3>3. DueNow(id)' = {t}
      BY <1>1, <1>2, <2>7, <3>1, <3>2 DEF DueNow
    <3>8. Cardinality(DueNow(id)') = 1
      BY <3>3, TimerCounts
    <3>4. Count(id)' = k + 1
      BY <2>3, <3>8
    <3>5. t.repeat = scheduled[id].repeat
      BY <3>1 DEF TimerInv
    <3>6. CASE t.repeat = 0
      <4>1. Waiting(id)' = {}
        BY <1>1, <1>3, <1>2, <2>7, <3>2, <3>6 DEF Waiting
      <4>2. Cardinality(Waiting(id)) = 1 /\ Cardinality(Waiting(id)') = 0
        BY <3>1, <4>1, TimerCounts
      <4>3. k = 0
        BY <2>1, <2>3, <3>5, <3>6, <4>2 DEF Accounted
      <4>. QED BY <1>1, <3>4, <3>5, <3>6, <4>2, <4>3 DEF Accounted
    <3>7. CASE t.repeat # 0
      <4>5. t.repeat > 0
        BY <3>1, <3>7 DEF Timer
      <4>1. PICK r \in Rearmed : r.id = id /\ r.fire = t.fire + t.repeat
        BY <1>4, <2>7, <3>1, <4>5
      <4>2. Waiting(id)' = {r}
        BY <1>1, <1>5, <2>7, <3>2, <4>1 DEF Waiting
      <4>3. t.fire = scheduled[id].fire + scheduled[id].repeat * k
        BY <2>1, <2>3, <3>1, <3>5, <3>7 DEF Accounted
      <4>4. r.fire = scheduled[id].fire + scheduled[id].repeat * (k + 1)
        <5>1. (scheduled[id].fire + scheduled[id].repeat * k) + scheduled[id].repeat
                = scheduled[id].fire + scheduled[id].repeat * (k + 1)
          BY <2>4, OnceMore
        <5>. QED BY <3>5, <4>1, <4>3, <5>1, Zenon
      <4>. QED BY <1>1, <3>4, <3>5, <3>7, <4>2, <4>4 DEF Accounted
    <3>. QED BY <3>6, <3>7
  <2>. QED BY <2>5, <2>6, <2>7
<1>9. TimerAccounting'
  BY <1>1, <1>8, Zenon DEF TimerAccounting, Accounted, Waiting, DueNow, Fired, Count
<1>10. \A t, u \in firing' : t.id = u.id => t = u
  BY <1>1, <1>2 DEF TimerInv
<1>. QED BY <1>1, <1>6, <1>7, <1>9, <1>10 DEF TimerInv

\* TickContext.schedule adds a timer with a number of its own.
LEMMA TimerScheduled ==
    ASSUME TypeOK, TimerInv, Schedule
    PROVE  TimerInv'
<1>. /\ timers \subseteq Timer /\ scheduled \in Seq(Timer) /\ Len(scheduled) \in Nat
  BY DEF TypeOK, TimerType
<1>1. PICK fire \in tick..MaxTick, repeat \in Repeats, topic \in StepEmits[running] :
        LET timer == [id |-> Len(scheduled) + 1, fire |-> fire,
                      repeat |-> repeat, topic |-> topic]
        IN  /\ timers' = timers \cup {timer}
            /\ scheduled' = Append(scheduled, timer)
  BY DEF Schedule
<1>2. PICK n \in Nat : n = Len(scheduled) + 1
  OBVIOUS
<1>3. PICK new : new = [id |-> n, fire |-> fire, repeat |-> repeat, topic |-> topic]
  OBVIOUS
<1>4. timers' = timers \cup {new} /\ scheduled' = Append(scheduled, new)
  BY <1>1, <1>2, <1>3
<1>5. new.id = n /\ new.fire = fire /\ new.repeat = repeat /\ repeat \in Nat /\ fire \in Nat
  BY <1>3, KernelAssumption DEF TypeOK, ControlType
<1>6. /\ DOMAIN scheduled' = DOMAIN scheduled \cup {n} /\ n \notin DOMAIN scheduled
      /\ \A id \in DOMAIN scheduled : scheduled'[id] = scheduled[id]
      /\ scheduled'[n] = new /\ Len(scheduled') = n
  BY <1>2, <1>4
<1>7. /\ UNCHANGED <<firing, emitted>> /\ pc' = pc /\ firing = {}
  BY DEF Schedule, busVars, TimerInv
<1>8. \A t \in timers : t.id # n
  BY <1>6 DEF TimerInv
<1>9. ASSUME NEW id \in DOMAIN scheduled PROVE Accounted(id)'
  <2>1. Waiting(id)' = Waiting(id)
    BY <1>4, <1>5, <1>6 DEF Waiting
  <2>2. Count(id)' = Count(id)
    BY <1>7 DEF Count, DueNow, Fired
  <2>. QED BY <1>6, <2>1, <2>2, TimerCounts, AccountKept
<1>10. Accounted(n)'
  <2>1. Waiting(n)' = {new}
    BY <1>4, <1>5, <1>8 DEF Waiting
  <2>2. DueNow(n)' = {}
    BY <1>7 DEF DueNow
  <2>3. Fired(n)' = {}
    BY <1>2, <1>7 DEF Fired, TimerInv
  <2>5. /\ Cardinality(DueNow(n)') = 0 /\ Cardinality(Fired(n)') = 0
        /\ Cardinality(Waiting(n)') = 1
    BY <2>1, <2>2, <2>3, TimerCounts
  <2>4. Count(n)' = 0 /\ Cardinality(Waiting(n)') = 1
    BY <2>5 DEF Count
  <2>. QED BY <1>5, <1>6, <2>1, <2>4 DEF Accounted
<1>11. \A id \in DOMAIN scheduled' : Accounted(id)'
  BY <1>6, <1>9, <1>10
<1>12. TimerAccounting'
  BY <1>11, Zenon DEF TimerAccounting, Accounted, Waiting, DueNow, Fired, Count
<1>13. \A id \in DOMAIN scheduled' : scheduled'[id].id = id
  BY <1>5, <1>6 DEF TimerInv
<1>14. \A t \in timers' \cup firing' :
            t.id \in DOMAIN scheduled' /\ t.repeat = scheduled'[t.id].repeat
  BY <1>4, <1>5, <1>6, <1>7 DEF TimerInv
<1>15. \A t, u \in timers' : t.id = u.id => t = u
  BY <1>4, <1>5, <1>8 DEF TimerInv
<1>16. \A e \in DOMAIN emitted' : emitted'[e].timer \in 0..Len(scheduled')
  BY <1>2, <1>6, <1>7 DEF TimerInv
<1>. QED BY <1>7, <1>12, <1>13, <1>14, <1>15, <1>16 DEF TimerInv

\* No timer is known to an empty world.
LEMMA TimerInit == Init => TimerInv
BY DEF Init, TimerInv, TimerAccounting

\* Every step keeps the timers accounted for.
LEMMA TimerNext ==
    TypeOK /\ CauseStackBalanced /\ WholeInv /\ TimerInv /\ [Next]_vars => TimerInv'
<1>. SUFFICES ASSUME TypeOK, CauseStackBalanced, WholeInv, TimerInv, [Next]_vars
              PROVE  TimerInv'
  OBVIOUS
<1>1. CASE FireTimer
  BY <1>1, TimerFires
<1>2. CASE BeginTick
  BY <1>2, TimersPop
<1>3. CASE Schedule
  BY <1>3, TimerScheduled
<1>4. CASE ~FireTimer /\ (RunScenario \/ StepEmit \/ StepRaise \/ HandlerEmit \/ HandlerRaise)
  <2>1. PICK n : n = Len(emitted) + 1
    OBVIOUS
  <2>2. /\ DOMAIN emitted' = DOMAIN emitted \cup {n} /\ n \notin DOMAIN emitted
        /\ \A e \in DOMAIN emitted : emitted'[e] = emitted[e]
        /\ emitted'[n].timer = 0
    BY <1>4, <2>1, Emission DEF WholeInv
  <2>3. /\ UNCHANGED <<timers, firing, scheduled>> /\ firing = {}
    BY <1>4 DEF RunScenario, StepEmit, StepRaise, HandlerEmit, HandlerRaise, timerVars,
                TimerInv
  <2>4. 0 \in 0..Len(scheduled) /\ \A id \in DOMAIN scheduled : id # 0
    BY DEF TypeOK, TimerType
  <2>5. ASSUME NEW id \in DOMAIN scheduled PROVE Accounted(id)'
    <3>1. Fired(id)' = Fired(id)
      BY <2>2, <2>4, FiredKept
    <3>2. Waiting(id)' = Waiting(id) /\ DueNow(id)' = DueNow(id)
      BY <2>3 DEF Waiting, DueNow
    <3>3. Count(id)' = Count(id)
      BY <3>1, <3>2 DEF Count
    <3>. QED BY <2>3, <3>2, <3>3, TimerCounts, AccountKept
  <2>6. TimerAccounting'
    BY <2>3, <2>5, Zenon DEF TimerAccounting, Accounted, Waiting, DueNow, Fired, Count
  <2>. QED BY <2>2, <2>3, <2>4, <2>6 DEF TimerInv
<1>5. CASE \/ CollectDue \/ BeginStep \/ StepReturn \/ FinalDrain \/ BeginPersist
           \/ PopEvent \/ EventStorm \/ SkipHandler \/ BeginHandler \/ HandlerReturn
           \/ EndDelivery \/ EndDrain \/ PersistOne \/ EndTick \/ UNCHANGED vars
  <2>1. UNCHANGED <<timers, firing, scheduled, emitted>>
    BY <1>5 DEF CollectDue, BeginStep, StepReturn, FinalDrain, BeginPersist, PopEvent,
                EventStorm, SkipHandler, BeginHandler, HandlerReturn, EndDelivery,
                EndDrain, PersistOne, EndTick, busVars, timerVars, vars
  <2>2. pc = "fire" => firing = {} \/ pc' = "fire"
    BY <1>5 DEF CollectDue, BeginStep, StepReturn, FinalDrain, BeginPersist, PopEvent,
                EventStorm, SkipHandler, BeginHandler, HandlerReturn, EndDelivery,
                EndDrain, PersistOne, EndTick, vars
  <2>3. TimerAccounting'
    <3>1. ASSUME NEW id \in DOMAIN scheduled PROVE Accounted(id)'
      <4>1. Waiting(id)' = Waiting(id) /\ Count(id)' = Count(id)
        BY <2>1 DEF Waiting, Count, DueNow, Fired
      <4>. QED BY <2>1, <4>1, TimerCounts, AccountKept
    <3>. QED BY <2>1, <3>1, Zenon DEF TimerAccounting, Accounted, Waiting, DueNow,
                Fired, Count
  <2>4. pc' # "fire" => firing' = {}
    BY <2>1, <2>2 DEF TimerInv
  <2>. QED BY <2>1, <2>3, <2>4 DEF TimerInv
<1>. QED BY <1>1, <1>2, <1>3, <1>4, <1>5 DEF Next, Kernel

\* Timers are neither lost nor fired twice, and a repeating timer keeps its own
\* period, whatever else the systems, the handlers and the scenarios do.
THEOREM TimersAccounted == Spec => []TimerAccounting
<1>1. Init => CauseStackBalanced
  BY DEF Init, CauseStackBalanced
<1>2. TimerInv => TimerAccounting
  BY DEF TimerInv
<1>. QED BY <1>1, <1>2, TypeCorrect, CauseStackNext, WholeInit, WholeNext, TimerInit,
            TimerNext, PTL
        DEF Spec

=============================================================================
