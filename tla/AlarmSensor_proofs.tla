------------------------- MODULE AlarmSensor_proofs -------------------------
(***************************************************************************)
(* Theorems about AlarmSensor, for every value of its constants: hence for *)
(* the PIR and for the driveway sensor with their real periods.  The       *)
(* inductive invariant is TypeOK together with the three facts below.      *)
(***************************************************************************)
EXTENDS AlarmSensor, SequenceTheorems, TLAPS

\* The thread is where its sleep and its call of led_command allow it to be.
Paced ==
  /\ pc = "asleep" => uptime <= wakeAt + Latency
  /\ pc = "led" => wakeAt <= uptime /\ uptime <= wakeAt + Latency + MaxBlock

\* While a level is unnoticed the next reading is near: a reading that missed
\* it came before it, and so did the wake-up of that reading.
ReadingIsNear ==
  pin # last =>
    /\ pc = "asleep" => wakeAt <= pinSince + PollPeriod + Latency + MaxBlock
    /\ pc = "led" => wakeAt <= pinSince

\* The limiter was set by the last uplink or later, and by an edge.
LimiterCoversUplinks ==
  /\ last_msg <= lastEdge
  /\ \A i \in DOMAIN uplinks : uplinks[i] <= last_msg

IInv == TypeOK /\ Paced /\ ReadingIsNear /\ LimiterCoversUplinks /\ AlarmsSpaced

-----------------------------------------------------------------------------
\* Seconds are natural numbers and never go back while ticks pass.
LEMMA SecsMonotone ==
  ASSUME NEW t \in Nat
  PROVE  Secs(t) \in Nat /\ Secs(t) <= Secs(t + 1)
<1> DEFINE q == t \div TicksPerSec
           p == (t + 1) \div TicksPerSec
<1>1. TicksPerSec \in Nat /\ TicksPerSec > 0
  BY AlarmSensorConstants
<1>2. q \in Nat /\ p \in Nat
  BY <1>1
<1>3. q <= p
  BY <1>1, <1>2
<1> QED BY <1>2, <1>3 DEF Secs

\* The inductive invariant holds at the start.
LEMMA InitIInv == Init => IInv
<1> SUFFICES ASSUME Init PROVE IInv
  OBVIOUS
<1>1. Secs(0) \in Nat
  BY SecsMonotone
<1>2. TypeOK
  BY <1>1, AlarmSensorConstants DEF Init, TypeOK, Levels
<1> QED
  BY <1>2 DEF Init, IInv, Paced, ReadingIsNear, LimiterCoversUplinks, AlarmsSpaced

\* Every step keeps the types.
LEMMA StepTypeOK == TypeOK /\ [Next]_vars => TypeOK'
<1> SUFFICES ASSUME TypeOK, [Next]_vars PROVE TypeOK'
  OBVIOUS
<1> USE DEF TypeOK
<1>1. Secs(uptime) \in Nat /\ Secs(uptime) <= Secs(uptime + 1)
  BY SecsMonotone
<1>2. CASE Start
  BY <1>2, AlarmSensorConstants DEF Start
<1>3. CASE PinChange
  BY <1>3 DEF PinChange, Levels
<1>4. CASE SampleSame
  BY <1>4, AlarmSensorConstants DEF SampleSame
<1>5. CASE SampleEdge
  BY <1>5 DEF SampleEdge
<1>6. CASE Report
  <2>1. uplinks' \in Seq(Nat)
    BY <1>1, <1>6 DEF Report
  <2>2. last_msg' \in 0..Secs(uptime)'
    BY <1>1, <1>6 DEF Report
  <2> QED BY <1>1, <1>6, <2>1, <2>2, AlarmSensorConstants DEF Report
<1>7. CASE Tick
  <2>1. uptime' \in 0..MaxUptime
    BY <1>7, AlarmSensorConstants DEF Tick
  <2>2. last_msg' \in 0..Secs(uptime)' /\ lastEdge' \in 0..Secs(uptime)'
    <3>1. Secs(uptime)' = Secs(uptime + 1)
      BY <1>7 DEF Tick, Secs
    <3>2. Secs(uptime + 1) \in Nat
      BY SecsMonotone
    <3> QED BY <1>1, <1>7, <3>1, <3>2 DEF Tick
  <2> QED BY <1>7, <2>1, <2>2, AlarmSensorConstants DEF Tick
<1>8. CASE UNCHANGED vars
  BY <1>8 DEF vars
<1> QED BY <1>2, <1>3, <1>4, <1>5, <1>6, <1>7, <1>8 DEF Next

\* Every step keeps the sleep paced: no thread oversleeps a reading.
LEMMA StepPaced == TypeOK /\ Paced /\ [Next]_vars => Paced'
<1> SUFFICES ASSUME TypeOK, Paced, [Next]_vars PROVE Paced'
  OBVIOUS
<1> USE AlarmSensorConstants DEF TypeOK, Paced
<1>1. CASE Start
  BY <1>1 DEF Start
<1>2. CASE PinChange
  BY <1>2 DEF PinChange
<1>3. CASE SampleSame
  BY <1>3 DEF SampleSame
<1>4. CASE SampleEdge
  BY <1>4 DEF SampleEdge
<1>5. CASE Report
  BY <1>5 DEF Report
<1>6. CASE Tick
  <2>1. pc = "asleep" => uptime < wakeAt + Latency
    BY <1>6 DEF Tick, InTime
  <2>2. pc = "led" => uptime < wakeAt + Latency + MaxBlock
    BY <1>6 DEF Tick, InTime
  <2> QED BY <1>6, <2>1, <2>2 DEF Tick
<1>7. CASE UNCHANGED vars
  BY <1>7 DEF vars
<1> QED BY <1>1, <1>2, <1>3, <1>4, <1>5, <1>6, <1>7 DEF Next

\* A level that was not read yet is read soon.
LEMMA StepReadingIsNear ==
  TypeOK /\ Paced /\ ReadingIsNear /\ [Next]_vars => ReadingIsNear'
<1> SUFFICES ASSUME TypeOK, Paced, ReadingIsNear, [Next]_vars PROVE ReadingIsNear'
  OBVIOUS
<1> USE AlarmSensorConstants DEF TypeOK, Paced, ReadingIsNear
<1>1. CASE Start
  BY <1>1 DEF Start
<1>2. CASE PinChange
  BY <1>2 DEF PinChange
<1>3. CASE SampleSame
  BY <1>3 DEF SampleSame
<1>4. CASE SampleEdge
  BY <1>4 DEF SampleEdge
<1>5. CASE Report
  BY <1>5 DEF Report
<1>6. CASE Tick
  BY <1>6 DEF Tick
<1>7. CASE UNCHANGED vars
  BY <1>7 DEF vars
<1> QED BY <1>1, <1>2, <1>3, <1>4, <1>5, <1>6, <1>7 DEF Next

\* Only a report touches the limiter: the uplink it adds comes more than MinGap
\* after last_msg, and so after every earlier uplink.
LEMMA StepLimiter ==
  TypeOK /\ LimiterCoversUplinks /\ AlarmsSpaced /\ [Next]_vars =>
    LimiterCoversUplinks' /\ AlarmsSpaced'
<1> SUFFICES ASSUME TypeOK, LimiterCoversUplinks, AlarmsSpaced, [Next]_vars
             PROVE  LimiterCoversUplinks' /\ AlarmsSpaced'
  OBVIOUS
<1>1. CASE Report
  <2> DEFINE now == Secs(uptime)
  <2>1. now \in Nat /\ last_msg <= now /\ last_msg \in Nat
    BY SecsMonotone DEF TypeOK
  <2>2. last_msg' \in Nat /\ last_msg <= last_msg' /\ last_msg' <= lastEdge'
    BY <1>1, <2>1 DEF Report
  <2>3. CASE UNCHANGED uplinks
    <3>1. LimiterCoversUplinks'
      BY <2>1, <2>2, <2>3 DEF LimiterCoversUplinks, TypeOK
    <3>2. AlarmsSpaced'
      BY <2>3 DEF AlarmsSpaced
    <3> QED BY <3>1, <3>2
  <2>4. CASE LimiterOpen /\ last = AlarmLevel
    <3>1. uplinks' = Append(uplinks, now) /\ last_msg' = now /\ now - last_msg > MinGap
      BY <1>1, <2>4 DEF Report, LimiterOpen
    <3>2. /\ DOMAIN uplinks' = 1..(Len(uplinks) + 1)
          /\ uplinks'[Len(uplinks) + 1] = now
          /\ \A i \in DOMAIN uplinks : uplinks'[i] = uplinks[i]
          /\ DOMAIN uplinks = 1..Len(uplinks) /\ Len(uplinks) \in Nat
      BY <2>1, <3>1 DEF TypeOK
    <3>3. \A i \in DOMAIN uplinks : uplinks[i] \in Nat /\ uplinks[i] <= last_msg
      BY DEF LimiterCoversUplinks, TypeOK
    <3>4. LimiterCoversUplinks'
      <4>1. \A i \in DOMAIN uplinks' : uplinks'[i] <= now
        BY <2>1, <3>2, <3>3
      <4> QED BY <2>2, <3>1, <4>1 DEF LimiterCoversUplinks
    <3>5. AlarmsSpaced'
      <4> SUFFICES ASSUME NEW i \in DOMAIN uplinks', NEW j \in DOMAIN uplinks', i < j
                   PROVE  uplinks'[j] - uplinks'[i] > MinGap
        BY DEF AlarmsSpaced
      <4>1. i \in DOMAIN uplinks
        BY <3>2
      <4>2. CASE j \in DOMAIN uplinks
        BY <3>2, <4>1, <4>2 DEF AlarmsSpaced
      <4>3. CASE j = Len(uplinks) + 1
        BY <2>1, <3>1, <3>2, <3>3, <4>1, <4>3, AlarmSensorConstants
      <4> QED BY <3>2, <4>2, <4>3
    <3> QED BY <3>4, <3>5
  <2> QED BY <1>1, <2>3, <2>4 DEF Report
<1>2. CASE Start \/ PinChange \/ SampleSame \/ SampleEdge \/ Tick \/ UNCHANGED vars
  <2>1. UNCHANGED <<uplinks, last_msg, lastEdge>>
    BY <1>2 DEF Start, PinChange, SampleSame, SampleEdge, Tick, vars
  <2> QED BY <2>1 DEF LimiterCoversUplinks, AlarmsSpaced
<1> QED BY <1>1, <1>2 DEF Next

\* Every step keeps the inductive invariant.
LEMMA StepIInv == IInv /\ [Next]_vars => IInv'
BY StepTypeOK, StepPaced, StepReadingIsNear, StepLimiter DEF IInv

\* IInv is an invariant of every behaviour of the sensor thread.
THEOREM IInvHolds == Spec => []IInv
BY InitIInv, StepIInv, PTL DEF Spec

-----------------------------------------------------------------------------
\* The state of the sensor thread keeps its types and its bounds.
THEOREM TypeCorrect == Spec => []TypeOK
<1>1. IInv => TypeOK
  BY DEF IInv
<1> QED BY <1>1, IInvHolds, PTL

\* The limiter of pir.c:49 and driveway_sensor.c:58 keeps the uplinks apart.
THEOREM UplinksAreSpaced == Spec => []AlarmsSpaced
<1>1. IInv => AlarmsSpaced
  BY DEF IInv
<1> QED BY <1>1, IInvHolds, PTL

\* What the invariant says of a level that is not yet noticed.
LEMMA IInvNotices == IInv => LevelNoticed
<1> SUFFICES ASSUME IInv, pc # "off", pin # last
             PROVE  uptime <= pinSince + PollPeriod + MaxBlock + 2 * Latency
  BY DEF LevelNoticed
<1> USE AlarmSensorConstants DEF IInv, TypeOK, Paced, ReadingIsNear
<1>1. CASE pc = "asleep"
  BY <1>1
<1>2. CASE pc = "led"
  BY <1>2
<1> QED BY <1>1, <1>2

\* Polling notices every level that lasts longer than its delays.
THEOREM LevelsAreNoticed == Spec => []LevelNoticed
BY IInvNotices, IInvHolds, PTL

\* What SteadyEdgeAlarms says of one step.
CalmEdgeSends ==
  /\ pc = "led" /\ pc' = "asleep"
  /\ last = AlarmLevel
  /\ Secs(uptime) - lastEdge > MinGap
  => uplinks' = Append(uplinks, Secs(uptime))

LEMMA StepSends == IInv /\ [Next]_vars => [CalmEdgeSends]_vars
<1> SUFFICES ASSUME IInv, Next, pc = "led", pc' = "asleep", last = AlarmLevel,
                    Secs(uptime) - lastEdge > MinGap
             PROVE  uplinks' = Append(uplinks, Secs(uptime))
  BY DEF CalmEdgeSends
<1>1. Report
  BY DEF Next, Start, PinChange, SampleSame, SampleEdge, Tick
<1>2. LimiterOpen
  <2>1. Secs(uptime) \in Nat
    BY SecsMonotone DEF IInv, TypeOK
  <2> QED BY <2>1, AlarmSensorConstants
          DEF IInv, TypeOK, LimiterCoversUplinks, LimiterOpen
<1> QED BY <1>1, <1>2 DEF Report

\* An alarm edge after more than MinGap seconds without edges is reported.
THEOREM SteadyAlarmsAreSent == Spec => SteadyEdgeAlarms
BY StepSends, IInvHolds, PTL DEF Spec, SteadyEdgeAlarms, CalmEdgeSends

=============================================================================
