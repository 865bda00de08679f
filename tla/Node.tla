-------------------------------- MODULE Node --------------------------------
(***************************************************************************)
(* The firmware started by src/src/ct_main.c: the LED thread (Led), the    *)
(* PIR and driveway sensor threads (two instances of AlarmSensor), the     *)
(* accelerometer's callback (Accel) and ct_main itself, on one clock.      *)
(* They meet in led_command: a sensor, the callback or ct_main blocked on  *)
(* a full led_msgq waits for the LED thread, and the commands of all of    *)
(* them are mixed in the queue.                                            *)
(*                                                                         *)
(* Each step of a thread is the conjunction of that thread's own action    *)
(* with the action of Led that its led_command takes.                      *)
(***************************************************************************)
EXTENDS Integers, Sequences

CONSTANTS
  QueueLen, GetTimeout, Latency, Modulus, MaxUptime,  \* of Led
  PollPeriod, TicksPerSec, MinGap, MaxBlock,          \* of AlarmSensor
  AccelPeriod,  \* ticks between two interrupts of the accelerometer (10 ms)
  GreenRate,    \* argument of ct_main's BLINK (1000 ms)
  RedRate,      \* argument of the driveway sensor's BLINK (100 ms)
  HalfSecond,   \* argument of accel_callback's BLINK_ONCE (500 ms)
  Active,       \* the sensors that sense something: bound of the instance
  Pulses        \* whether a pin may move again before its thread has dealt with
                \* its level: FALSE bounds an instance

ASSUME NodeConstants ==
  /\ {QueueLen, GetTimeout, Latency, Modulus, PollPeriod, TicksPerSec} \subseteq Nat \ {0}
  /\ {MaxUptime, MinGap, MaxBlock, AccelPeriod, GreenRate, RedRate, HalfSecond} \subseteq Nat
  /\ Pulses \in BOOLEAN

VARIABLES
  uptime,
  led_msgq, pending, ledPc, received, since, leds, lastMsg,
  pir, pirPc, last_pir, pirMsg, pirWake, pirUplinks, pirSince, pirEdge,
  ds, dsPc, last_ds, dsMsg, dsWake, dsUplinks, dsSince, dsEdge,
  dsSeen,     \* ghost: driveway_sensor_thread has seen an edge
  trigger, accel_has_called_back, callback, reader, rc, unread,
  accelNext,  \* the uptime of the accelerometer's next sample
  main        \* where ct_main is: "init", "bt" or "done"

ledVars   == <<led_msgq, pending, ledPc, received, since, leds, lastMsg>>
pirVars   == <<pir, pirPc, last_pir, pirMsg, pirWake, pirUplinks, pirSince, pirEdge>>
dsVars    == <<ds, dsPc, last_ds, dsMsg, dsWake, dsUplinks, dsSince, dsEdge, dsSeen>>
accelVars == <<trigger, accel_has_called_back, callback, reader, rc, unread, accelNext>>
vars      == <<uptime, ledVars, pirVars, dsVars, accelVars, main>>

Red   == "LED_RED"
Green == "LED_GREEN"

Call(client, id, cmd, arg) ==
  [client |-> client, msg |-> [id |-> id, cmd |-> cmd, arg |-> arg]]

MainCall == Call("main", Green, "BLINK", GreenRate)
PirCall_OnGreen(level) == Call("pir", Green, "SET", 1 - level)
PirCall_Inverted(level) == Call("pir", Red, "SET", level)
PirCall(level) == Call("pir", Red, "SET", 1 - level)
DrivewayCall_Inverted(level) ==
  IF level = 1 THEN Call("driveway", Red, "BLINK", RedRate)
               ELSE Call("driveway", Red, "SET", 0)
DrivewayCall(level) ==
  IF level = 0 THEN Call("driveway", Red, "BLINK", RedRate)
               ELSE Call("driveway", Red, "SET", 0)
AccelCall == Call("accel", Green, "BLINK_ONCE", HalfSecond)

AllCalls == {MainCall, AccelCall} \cup {PirCall(v) : v \in {0, 1}}
                                  \cup {DrivewayCall(v) : v \in {0, 1}}

Threads == {"main", "pir", "driveway", "accel"}

\* A priority one of the sensors might have been given.
ThreadRank_PirLast == [c \in Threads |-> CASE c = "accel" -> -1
                                           [] c = "main"  -> 0
                                           [] c = "pir"   -> 5
                                           [] OTHER       -> 3]

\* Priorities: the sensors' threads have 3, the main thread 0, and the
\* trigger of the accelerometer runs on a cooperative thread of the kernel.
ThreadRank == [c \in Threads |-> CASE c = "accel" -> -1
                                   [] c = "main"  -> 0
                                   [] OTHER       -> 3]

LedService == INSTANCE Led WITH
  Leds <- {Red, Green}, Clients <- Threads, Rank <- ThreadRank,
  Calls <- AllCalls, pc <- ledPc

Pir == INSTANCE AlarmSensor WITH
  InitialLast <- 2, AlarmLevel <- 1, FirstPoll <- 0,
  pin <- pir, pc <- pirPc, last <- last_pir, last_msg <- pirMsg,
  wakeAt <- pirWake, uplinks <- pirUplinks, pinSince <- pirSince,
  lastEdge <- pirEdge

Driveway == INSTANCE AlarmSensor WITH
  InitialLast <- 1, AlarmLevel <- 0, FirstPoll <- 1,
  pin <- ds, pc <- dsPc, last <- last_ds, last_msg <- dsMsg,
  wakeAt <- dsWake, uplinks <- dsUplinks, pinSince <- dsSince,
  lastEdge <- dsEdge

Accelerometer == INSTANCE Accel

-----------------------------------------------------------------------------
Init ==
  /\ LedService!Init
  /\ Pir!Init /\ ("pir" \in Active \/ pir = 0)
  /\ Driveway!Init /\ ("driveway" \in Active \/ ds = 1)
  /\ dsSeen = FALSE
  /\ Accelerometer!Init
  /\ accelNext = 0
  /\ main = "init"

\* ct_main up to bt_thread_start: driveway_sensor_init and led_init.  The LED
\* thread is ready from the start, as Led says.
CtMainStarts ==
  /\ main = "init"
  /\ Driveway!Start
  /\ main' = "bt"
  /\ UNCHANGED <<ledVars, pirVars, dsSeen, accelVars>>

\* ct_main after bt_thread_start, which may take its time: the other threads,
\* and the first command of the green LED.
CtMainEnds ==
  /\ main = "bt"
  /\ Pir!Start
  /\ LedService!led_command(MainCall)
  /\ accelNext' = uptime
  /\ main' = "done"
  /\ UNCHANGED <<dsVars, trigger, accel_has_called_back, callback, reader, rc, unread>>

\* The world moves the pin of the PIR: whenever it likes, also while led_command
\* blocks the thread, or where Pulses is FALSE once the thread knows the level.
PirMovesPin ==
  /\ "pir" \in Active
  /\ Pulses \/ (pirPc = "asleep" /\ pir = last_pir)
  /\ Pir!PinChange
  /\ UNCHANGED <<ledVars, dsVars, accelVars, main>>

PirSampleSame ==
  /\ Pir!SampleSame
  /\ UNCHANGED <<ledVars, dsVars, accelVars, main>>

PirSampleEdge ==
  /\ Pir!SampleEdge
  /\ LedService!led_command(PirCall(pir))
  /\ UNCHANGED <<dsVars, accelVars, main>>

PirReport ==
  /\ ~LedService!Blocked("pir")
  /\ Pir!Report
  /\ UNCHANGED <<ledVars, dsVars, accelVars, main>>

DrivewayMovesPin ==
  /\ "driveway" \in Active
  /\ Pulses \/ (dsPc = "asleep" /\ ds = last_ds)
  /\ Driveway!PinChange
  /\ UNCHANGED <<ledVars, pirVars, dsSeen, accelVars, main>>

DrivewaySampleSame ==
  /\ Driveway!SampleSame
  /\ UNCHANGED <<ledVars, pirVars, dsSeen, accelVars, main>>

DrivewaySampleEdge ==
  /\ Driveway!SampleEdge
  /\ LedService!led_command(DrivewayCall(ds))
  /\ dsSeen' = TRUE
  /\ UNCHANGED <<pirVars, accelVars, main>>

DrivewayReport ==
  /\ ~LedService!Blocked("driveway")
  /\ Driveway!Report
  /\ UNCHANGED <<ledVars, pirVars, dsSeen, accelVars, main>>

\* accel_thread, which ct_main has started before pir_init.
AccelStarts ==
  /\ "accel" \in Active
  /\ main = "done"
  /\ Accelerometer!AccelThread
  /\ UNCHANGED <<uptime, ledVars, pirVars, dsVars, accelNext, main>>

\* The accelerometer samples at AccelPeriod: it cannot call back more often.
AccelMoved ==
  /\ "accel" \in Active
  /\ uptime >= accelNext
  /\ Accelerometer!Moved
  /\ LedService!led_command(AccelCall)
  /\ accelNext' = uptime + AccelPeriod
  /\ UNCHANGED <<pirVars, dsVars, main>>

AccelUplink ==
  /\ ~LedService!Blocked("accel")
  /\ Accelerometer!Uplink
  /\ UNCHANGED <<uptime, ledVars, pirVars, dsVars, accelNext, main>>

\* The semtracker polls accel_has_moved.
HasMoved ==
  /\ "semtracker" \in Active
  /\ Accelerometer!ReadFlag \/ Accelerometer!ClearFlag
  /\ UNCHANGED <<uptime, ledVars, pirVars, dsVars, accelNext, main>>

LedRuns ==
  /\ LedService!LedThread
  /\ UNCHANGED <<pirVars, dsVars, accelVars, main>>

\* A sensor or the callback that led_command has released goes on at once:
\* all of them are more urgent than the LED thread that released them.
Released(client, inLed) == inLed /\ ~LedService!Blocked(client)

Tick ==
  /\ main # "init"
  /\ uptime < MaxUptime
  /\ LedService!InTime
  /\ pirPc = "asleep" => Pir!InTime
  /\ dsPc = "asleep" => Driveway!InTime
  /\ ~Released("pir", pirPc = "led")
  /\ ~Released("driveway", dsPc = "led")
  /\ ~Released("accel", callback = "led")
  /\ uptime' = uptime + 1
  /\ UNCHANGED <<ledVars, pirVars, dsVars, accelVars, main>>

\* The modelled time is over: any other state without a step is a deadlock.
TimeIsOver == uptime = MaxUptime /\ UNCHANGED vars

Next ==
  \/ CtMainStarts \/ CtMainEnds
  \/ PirMovesPin \/ PirSampleSame \/ PirSampleEdge \/ PirReport
  \/ DrivewayMovesPin \/ DrivewaySampleSame \/ DrivewaySampleEdge \/ DrivewayReport
  \/ AccelStarts \/ AccelMoved \/ AccelUplink \/ HasMoved
  \/ LedRuns
  \/ Tick
  \/ TimeIsOver

Spec == Init /\ [][Next]_vars

-----------------------------------------------------------------------------
(* Properties *)

\* Seen alone, pir_thread is the sensor of AlarmSensor: whatever the other
\* callers do, led_command never blocks it for longer than MaxBlock.
PirAsSpecified == Pir!Spec

\* So is driveway_sensor_thread, which starts before ct_main's own command.
DrivewayAsSpecified == Driveway!Spec

\* A movement is reported once, although the callback comes at any moment.
MovementReportedOnce == Accelerometer!ReportedOnce

\* Nothing is on its way to a LED.
Settled(id) ==
  /\ \A i \in DOMAIN received : received[i].msg.id # id
  /\ \A i \in DOMAIN led_msgq : led_msgq[i].msg.id # id
  /\ \A i \in DOMAIN pending  : pending[i].msg.id # id

\* A LED that stays as it is, its pin driven or not.
Steady(id, on) == leds[id].state = "IDLE" /\ (leds[id].lit <=> on)

\* pir.c:40: "Always keep the LED up to date": when nothing is on its way to
\* the red LED, its pin shows the level that pir_thread has seen.
PirLedUpToDate ==
  last_pir # 2 /\ Settled(Red) => Steady(Red, last_pir = 0)

\* The red LED never makes things up: once one of its two sensors has seen an
\* edge, and nothing is on its way to the LED, the pin shows what one of them
\* last saw.  Before, it is lit because gpio_configure lit it.
RedShowsASensor ==
  Settled(Red) /\ (last_pir # 2 \/ dsSeen) =>
    \/ last_pir # 2 /\ Steady(Red, last_pir = 0)
    \/ dsSeen /\ last_ds = 0 /\ leds[Red].state = "BLINK"
    \/ dsSeen /\ last_ds = 1 /\ Steady(Red, FALSE)

\* Nothing but a movement ends the blinking ct_main has started: once it
\* blinks, the green LED stops only by obeying the callback, whatever the other
\* callers have in the queue and whenever the LED thread turns to its timeouts.
GreenBlinksUntilMovement ==
  [][leds[Green].state = "BLINK" /\ leds'[Green].state # "BLINK"
     => received # <<>> /\ Head(received).client = "accel"]_vars

=============================================================================
