---------------------------- MODULE AlarmSensor ----------------------------
(***************************************************************************)
(* A sensor thread: pir_thread of src/src/pir/pir.c and, with other        *)
(* constants, driveway_sensor_thread of                                    *)
(* src/src/driveway_sensor/driveway_sensor.c.  The thread polls a pin.  On *)
(* a change it commands the red LED, a call that may block, and then asks  *)
(* the modem for an uplink if the pin is at its alarm level and the        *)
(* limiter agrees.                                                         *)
(*                                                                         *)
(* Time is counted in ticks; the limiter counts seconds of TicksPerSec     *)
(* ticks.  Latency bounds how late the thread runs after its sleep ended,  *)
(* MaxBlock how long led_command blocks it: Node, which composes this      *)
(* module with Led, shows that it never blocks it longer.                  *)
(***************************************************************************)
EXTENDS Integers, Sequences

CONSTANTS
  InitialLast,  \* the level the thread starts with: 2 is neither level
  AlarmLevel,   \* the level whose edge is an alarm
  FirstPoll,    \* how long after its start the thread reads the pin first
  PollPeriod,   \* the sleep between two readings (100 ms)
  TicksPerSec,  \* ticks of a second (1000 ms)
  MinGap,       \* the limiter wants more than MinGap seconds (5)
  Latency,      \* the longest the thread, once awake, waits for the processor
  MaxBlock,     \* the longest led_command blocks
  MaxUptime     \* bound of the clock

Levels == {0, 1}

ASSUME AlarmSensorConstants ==
  /\ InitialLast \in Levels \cup {2}
  /\ AlarmLevel \in Levels
  /\ PollPeriod \in Nat \ {0}
  /\ FirstPoll \in 0..PollPeriod
  /\ TicksPerSec \in Nat \ {0}
  /\ MinGap \in Nat
  /\ Latency \in Nat \ {0}
  /\ MaxBlock \in Nat
  /\ MaxUptime \in Nat

VARIABLES
  uptime,    \* k_uptime_get()
  pin,       \* the level of the pin
  pc,        \* "off", "asleep", or "led": in led_command after an edge
  last,      \* last_pir, last_ds
  last_msg,  \* last_msg_uptime_secs
  wakeAt,    \* the uptime at which the current or the last sleep ends
  uplinks,   \* the second of each smtc_modem_request_uplink, in order
  pinSince,  \* ghost: the uptime since which the thread could read this level
  lastEdge   \* ghost: the second in which an edge was last dealt with

vars == <<uptime, pin, pc, last, last_msg, wakeAt, uplinks, pinSince, lastEdge>>

\* uptime_secs
Secs(t) == t \div TicksPerSec

-----------------------------------------------------------------------------
Init ==
  /\ uptime = 0
  /\ pin \in Levels
  /\ pc = "off"
  /\ last = InitialLast
  /\ last_msg = 0
  /\ wakeAt = 0
  /\ uplinks = << >>
  /\ pinSince = 0
  /\ lastEdge = 0

\* pir_init, driveway_sensor_init: the thread starts.
Start ==
  /\ pc = "off"
  /\ pc' = "asleep"
  /\ wakeAt' = uptime + FirstPoll
  /\ pinSince' = uptime
  /\ UNCHANGED <<uptime, pin, last, last_msg, uplinks, lastEdge>>

\* The world moves the pin.
PinChange ==
  /\ pin' = 1 - pin
  /\ pinSince' = uptime
  /\ UNCHANGED <<uptime, pc, last, last_msg, wakeAt, uplinks, lastEdge>>

\* The thread wakes, reads the level it knows, and sleeps again.
SampleSame ==
  /\ pc = "asleep" /\ uptime >= wakeAt
  /\ pin = last
  /\ wakeAt' = uptime + PollPeriod
  /\ UNCHANGED <<uptime, pin, pc, last, last_msg, uplinks, pinSince, lastEdge>>

\* The thread wakes, reads another level, and calls led_command.
SampleEdge ==
  /\ pc = "asleep" /\ uptime >= wakeAt
  /\ pin # last
  /\ last' = pin
  /\ pc' = "led"
  /\ UNCHANGED <<uptime, pin, last_msg, wakeAt, uplinks, pinSince, lastEdge>>

\* Bugs the limiter might have: one second too early or too late.
LimiterOpen_Early == Secs(uptime) - last_msg >= MinGap
LimiterOpen_Late  == Secs(uptime) - last_msg > MinGap + 1

LimiterOpen == Secs(uptime) - last_msg > MinGap

\* A report that would keep the uptime where it must keep seconds, and one
\* that would sleep twice.
Report_Ticks ==
  /\ pc = "led"
  /\ last_msg' = IF LimiterOpen THEN uptime ELSE last_msg
  /\ pc' = "asleep"
  /\ wakeAt' = uptime + PollPeriod
  /\ UNCHANGED <<uptime, pin, last, uplinks, pinSince, lastEdge>>

Report_SleepsTwice ==
  /\ pc = "led"
  /\ pc' = "asleep"
  /\ wakeAt' = uptime + 2 * PollPeriod
  /\ UNCHANGED <<uptime, pin, last, last_msg, uplinks, pinSince, lastEdge>>

\* led_command returned: the limiter, perhaps the uplink, and the next sleep.
\* The limiter is set again on an edge of either level.
Report ==
  /\ pc = "led"
  /\ last_msg' = IF LimiterOpen THEN Secs(uptime) ELSE last_msg
  /\ uplinks'  = IF LimiterOpen /\ last = AlarmLevel
                 THEN Append(uplinks, Secs(uptime)) ELSE uplinks
  /\ pc' = "asleep"
  /\ wakeAt' = uptime + PollPeriod
  /\ lastEdge' = Secs(uptime)
  /\ UNCHANGED <<uptime, pin, last, pinSince>>

\* Time passes, but not past the instant by which the thread must have acted.
InTime ==
  CASE pc = "off"    -> TRUE
    [] pc = "asleep" -> uptime < wakeAt + Latency
    [] pc = "led"    -> uptime < wakeAt + Latency + MaxBlock

Tick ==
  /\ uptime < MaxUptime
  /\ InTime
  /\ uptime' = uptime + 1
  /\ UNCHANGED <<pin, pc, last, last_msg, wakeAt, uplinks, pinSince, lastEdge>>

Next == Start \/ PinChange \/ SampleSame \/ SampleEdge \/ Report \/ Tick

Spec == Init /\ [][Next]_vars

-----------------------------------------------------------------------------
(* Properties *)

TypeOK ==
  /\ uptime \in 0..MaxUptime
  /\ pin \in Levels
  /\ pc \in {"off", "asleep", "led"}
  /\ last \in Levels \cup {2}
  /\ last_msg \in 0..Secs(uptime)
  /\ wakeAt \in 0..(uptime + PollPeriod)
  /\ uplinks \in Seq(Nat)
  /\ pinSince \in 0..uptime
  /\ lastEdge \in 0..Secs(uptime)

\* However the pin behaves, the modem is asked for two uplinks only with more
\* than MinGap seconds between them.
AlarmsSpaced ==
  \A i, j \in DOMAIN uplinks : i < j => uplinks[j] - uplinks[i] > MinGap

\* A level that lasts longer than a poll, with every delay the thread may
\* meet, is noticed: no shorter pulse is promised anything.
LevelNoticed ==
  pc # "off" /\ pin # last =>
    uptime <= pinSince + PollPeriod + MaxBlock + 2 * Latency

\* An alarm edge is never suppressed when more than MinGap seconds passed
\* without any edge, and since the boot: only a burst of edges loses alarms.
SteadyEdgeAlarms ==
  [][/\ pc = "led" /\ pc' = "asleep"
     /\ last = AlarmLevel
     /\ Secs(uptime) - lastEdge > MinGap
     => uplinks' = Append(uplinks, Secs(uptime))]_vars

\* pir.c:45, driveway_sensor.c:54: "If we have not sent a message to the host
\* for a while, send that now."  A while is what the limiter says, MinGap.
SentWhenNoneForAWhile ==
  [][/\ pc = "led" /\ pc' = "asleep"
     /\ last = AlarmLevel
     /\ Secs(uptime) - (IF uplinks = << >> THEN 0 ELSE uplinks[Len(uplinks)]) > MinGap
     => uplinks' = Append(uplinks, Secs(uptime))]_vars

=============================================================================
