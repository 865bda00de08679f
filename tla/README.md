# Verification of connectivity-technology in TLA+

The repository holds the firmware of a LoRaWAN sensor node on Zephyr
(`src/src`): a PIR and a driveway sensor that send alarms, an accelerometer, two
LEDs, Bluetooth, Wi-Fi scans; and a monitor on a host (`src/host`) that prints
the alarms. The code has no tests. What makes it hard to test is time and
interleaving: threads of different priorities meet in one message queue, with
timeouts, limiters and a clock that wraps, an interrupt shares a flag with a
thread, configuration is saved entry by entry in a flash that may fail.

Paths below are relative to the repository; `led.c` is `src/led/led.c` in it.

## Inventory

| Component | State | Operations | Meets | Hard behaviour | Correct when |
|---|---|---|---|---|---|
| LED service, `led/` | two `led_t`, queue of 10 | `led_command` (BLINK, BLINK_ONCE, SET), thread turn: message or 50 ms timeout | every thread calls `led_command` | full queue blocks callers (`K_FOREVER`), timeouts only when no message comes, `uint32_t` clock | commands are obeyed once and in order, LEDs change when due, nobody is blocked for nothing |
| PIR, `pir/` | last level, last message second | poll every 100 ms, red LED, uplink on port 60 | LED service, modem | limiter, pulses, blocked LED call | levels are noticed, alarms are spaced and not lost |
| Driveway sensor, `driveway_sensor/` | the same | the same with BLINK and port 70 | LED service, modem | shares the red LED with the PIR | the same |
| Accelerometer, `accel/` | `accel_has_called_back`, the driver's trigger | set-up, callback, `accel_has_moved` | LED service, modem, semtracker | callback between read and clear; a wake-up that is commented out | a movement is reported, once |
| Start, `ct_main.c` | none | starts the threads, green BLINK | all | order of start | no command is lost |
| Configuration variables, `bluetooth/vars.c` | table of variables, flash entries | set, get, save, load, clear, reboot | flash | failing write, retry, power loss in a save | what is confirmed survives, nothing is invented |
| Host monitor, `host/apps/home_security` | one static event, loop counter | receive, filter, parse, print | MQTT broker, libyaml | leftovers of the message before, parse that stops half way | a printed line is the uplink's own, and `main` returns |
| Base64 | tables | decode, encode | host monitor | lengths, padding, a table that is filled for one alphabet only | decode inverts encode, and reads what a network server writes as far as it can |
| Way of an uplink | modem's queue, sleep of the radio, messages under way | request, wake-up, transmit, lose, receive | senders, semtracker, network, monitor | refused requests, sleep between request and wake-up, losses | an accepted alarm leaves the node; it is shown at most once, in order, as what it is |
| Wi-Fi, `wifi.c` | `wifi_ready`, counters of `tracker_ctx` | init, scan, events | middleware, modem | events together, apart, across scans; packet size | a scan is counted and sent once, its packet holds its results |
| Bluetooth | stack's | enable, advertise | none | callbacks registered after advertising | a connection is always seen |
| RF switch, radio mutex | two pins, a mutex | select, lock | callers in missing submodules | two writes, one selection | one antenna is selected |
| Temperature/humidity, GPIO mapper, debug GPIO, `lora.c`, `stubs.c` | none that matters | print, toggle pins | none | none | nothing to state |

The semtracker, the modem and Zephyr are not in the repository. They appear as
environment: the reader of `accel_has_moved`, the modem's queue and the radio's
sleep, the kernel's queue and scheduler, modelled by what the code relies on.

## Modules

| Module | Models | Correspondence |
|---|---|---|
| `Led` | `led.c` | `led_thread` is `pc`: `start` (before `gpio_configure`), `waiting` in `k_msgq_get`, `message`, `timeout`. `LedMessage` and `LedTimeout` are whole turns of the loop, up to the next `k_msgq_get`. `led_command` hands its message over, stores it or blocks. `leds` holds `led_t`; `due` is the timeout before truncation, `lit` the pin. |
| `LedService` | what `led.h` promises | no thread, queue or clock: commands outstanding per caller, and what each LED shows |
| `AlarmSensor` | `pir.c`, `driveway_sensor.c` | one poll is `SampleSame`, or `SampleEdge` (read and `led_command`) and `Report` (limiter, uplink, sleep): the call may block between the two |
| `Accel` | `accel.c` | `AccelThread` sets the trigger or fails to; `accel_callback` in two steps around `led_command`, `accel_has_moved` in two around the race |
| `Node` | `ct_main.c` and all of the above | every step is the conjunction of a thread's action and of the `Led` action its call takes |
| `Vars` | `vars.c` | one action per command; a save is `flash_save`, one `SaveEntry` per saved key, `SaveEnds`; `Restart` may come between any two |
| `VarStore` | what the commands promise | shown values, kept copies, a confirmation |
| `Base64` | `base64.c` | a letter is its place in the program's alphabet, in which `-` and `_` are the last two; the standard `+` and `/` are characters of their own, for which the decoder has whatever `malloc` left (`Leftovers`); each loop is the function that says what stands at each place of its result |
| `Host` | `home_security.c`, `message.c`, `event.c` | one action per outcome of `MQTTClient_receive`, one `ScanToken` per token, so that the scanner may give up anywhere; data is decoded by `Base64` |
| `Uplinks` | the senders' requests and wake-ups, composed with `Host` | `RequestUplink` and `WakeTracker` are the two calls of `pir.c:57` and `62`; modem, radio and network are environment; every step of the monitor is a step of `Host` |
| `Delivery` | what node and monitor promise together | alarms owed, and the line that is shown |
| `Wifi` | `wifi.c` | `on_wifi_event` is one step of the branches `ScanDone` and `Terminated` and the final clear; the middleware raises events between |
| `MCLed`, `MCVars`, `MCHost`, `MCUplinks` | none | values of constants for TLC |
| `Led_proofs`, `AlarmSensor_proofs`, `Vars_proofs`, `Base64_proofs`, `Host_proofs`, `Uplinks_proofs`, `Wifi_proofs`, `Node_proofs` | none | theorems |

Definitions named with a suffix, as `TimedOut_BlinkOnly`, are bugs the code might
have; each is used to see that a property notices it, and nothing else uses them.

### Abstractions

* The kernel's queue: a put hands its message to the waiting thread, stores it,
  or blocks; blocked callers wait by priority, then by arrival; a get moves the
  first blocked message into the room it makes.
* Time is a counter. `Latency` bounds how long a ready thread waits for the
  processor; `Tick` stops where a thread must have acted. A delay of a loaded
  processor beyond that bound is not modelled.
* Values of variables are numbers; texts are what `atoi` reads. A string fits
  its buffer. Flash entries change one by one and whole, as the flash file
  system promises; a write may fail, a mount or a read may fail, a clear may
  stop half way. After a clear the file system may want to be mounted again.
* In `Host` a document has members with different names, `fPort` and `data` are
  plain and at the top level, as the network server writes them; data is in
  standard base64 with padding (`Standard`), while `base64.c` knows the alphabet
  for URLs. What `malloc` left in the decoder's table for `+` and `/` is chosen
  once, among the bytes of `Junk`: the code builds a table per process.
* `led_set` configures the pin as an active output before it sets it; the short
  glitch is not modelled. `lit` is the pin after the call, and `TRUE` from
  `gpio_configure`, which lights every LED, to the first command.
* `Uplinks` has no clock: a sender may send at any moment, which `AlarmSensor`
  restricts. The modem refuses when it is full and whenever it likes; the radio
  may fall asleep whenever the modem is empty; its timer may wake it or never.
  Messages are lost anywhere on the way, but not reordered or doubled: LoRaWAN
  does not repeat an unconfirmed uplink, nor MQTT's QoS 0 a message.
* In `Wifi` an entry of the packet is an access point, and the bytes of the
  stack are entries of any packet or junk. `on_wifi_event` runs on the
  middleware's thread, so nothing is raised during it.
* `wifi_init` may be called again; the middleware is outside the repository, and
  one that is initialised while it runs is assumed to keep its scan and its events.
* In `Node` a pin moves at any moment, also while `led_command` blocks its thread.
  The constant `Pulses` bounds instances: where it is `FALSE`, a pin keeps its
  level until its thread has dealt with it. The theorems hold for both.

## Runs

| Run | Shows | Bounds, and why they are enough |
|---|---|---|
| `led_service` | types, discipline of the queue, release of the most urgent caller, refinement of `LedService`; LEDs are punctual | three callers of two priorities on a queue of 1: full queue, two blocked callers, overtaking; a clock of 8, past two waits and several phases of a blink; every duration is longer than a wait, as in the source |
| `led_wrap` | violation: past the wrap a LED is overdue | modulus 5, clock 12 |
| `alarm_sensor` | levels noticed, alarms spaced, none lost after a calm | 2 ticks a second, gap 1 second, 14 ticks: several alarms, every alignment of ticks and seconds |
| `alarm_sensor_sent` | violation: an edge that sends nothing sets the limiter | the same |
| `node_sensors` | once a sensor has seen an edge, the pin of a settled red LED shows what one of them last saw; neither sensor is ever blocked longer than `AlarmSensor` assumes | queue of 1: both sensors and `ct_main` compete for it; five ticks, one more than the latest instant by which the driveway sensor's first call must have returned; seconds of three ticks and no gap, since the limiter is `alarm_sensor`'s; without `Pulses`, which `node_accel` has |
| `node_accel` | the red LED's pin follows the PIR when it has no rival; movements reported once; nothing but a movement ends the blinking of the green LED | queue of 1, four ticks, the PIR, the callback and `ct_main`; the pin moves at any moment (`Pulses`) |
| `node_red` | violation: with a rival it does not | as `node_sensors` |
| `accel` | violation: a movement between read and clear is lost | the flag alone |
| `vars` | confirmed saves survive; every start and load shows them for all keys that could be read; refinement of `VarStore`, where a variable takes only what a text it accepts says | one saved key of each type and a read-only one; texts 0, 1, 6 with a modulus of 4: truncation happens, and 6 has a bad digit for the binary key; every write, read and mount may fail |
| `host` | what is printed is the uplink's own and complete, but for the groups with `+` or `/`; `main` returns | two messages, all documents of up to three members in all orders, every scanner failure; payloads that leave no, one and two places of a group of letters, one with a zero inside, and one whose second group is `+/A=`, for each of two leftovers of `malloc` |
| `uplinks` | accepted alarms are woken for and leave the node, without the timer; node, network and monitor implement `Delivery` | the texts the firmware sends; four alarms of three senders, a modem of 2 so that it fills and uplinks queue behind each other, three receives so that the monitor is between messages and at its end |
| `wifi` | every scan counts once; the packet carries what fits | packet of 21 bytes for two entries, up to three results: one too many, and the last byte is what an entry lacks; three scans, so that two sets of events are pending together and a third comes after |

Assumption and guarantee fit together in `PirAsSpecified` and
`DrivewayAsSpecified`: `AlarmSensor` assumes that `led_command` blocks for at most
`MaxBlock`, and `Node`, where the queue is real, implements it with that bound,
twice. With `MaxBlock = 1` both runs are violated, so the bound of 2 is tight for
these instances, in which three callers compete. The theorems take all four
callers and four turns of the LED thread (see Proofs). The bound depends on the
callback not coming more often than the LED thread serves the others: it is more
urgent than the sensors and overtakes them in the queue.

Deadlock is checked except in `host`, where `main` returns, and in `uplinks` and
`wifi`, whose alarms and scans are bounded. `Node` stutters only
when the modelled time is over, so that threads waiting for each other would be
reported.

### Fairness

`FairSpec` of `Led` assumes weak fairness of the LED thread and of the clock:
the thread is ready until it runs, and the scheduler runs a ready thread when
those above it sleep, which all of them do in every turn of their loops. The
callers are not assumed fair. `MostUrgentReleased` is stated for the callers
that nobody precedes: a less urgent one may be overtaken forever.

`FairSpec` of `Host` assumes that a receive that gets nothing returns, after its
second, and that parsing and the end of the loop, which wait for nobody, go on.
Nothing is assumed of what is published, so that `main` must return under any
load and under none.

`FairSpec` of `Uplinks` assumes that a sender's thread goes on from its request
to its wake-up, two statements with nothing between them that blocks, and that
the semtracker, once awake, serves the radio. That its timer ever fires is not
assumed: the wake-ups suffice. For the accelerometer they do not, and
`AlarmsLeaveTheNode` leaves it out.

### What the violations say

1. `led_wrap`: timeouts are kept in 32 bits; after 49.7 days a LED is stuck
   (`led.c:168`, `109`).
2. `alarm_sensor_sent`: an edge that ends an alarm sets the limiter and can
   suppress the next alarm (`pir.c:51`), against the comment in `pir.c:45`.
3. `node_red`: both sensors command the red LED; "Always keep the LED up to
   date" (`pir.c:40`) holds for neither when both are fitted.
4. `accel`: `accel_has_moved` can clear a movement it did not return.

`PROJECT.json` lists further findings met while reading: a successful retry is
reported as a failed save (`vars.c:298`), a failed load and a failed clear are
answered with "1" (`vars.c:587`, `308`), a timeout computed across the wrap of the clock
changes its LED at once (`led.c:109`), the green LED's "until further notice" ends
for good with the first movement (`accel.c:67`), the wake-up after a movement is
commented out (`accel.c:74`), `base64_encode` cuts its text (`base64.c:57`), the
decoder has no `+` and no `/` (`base64.c:13`; the model has it so, and the
properties of `host` say how far the damage goes), 64 bytes are sent whatever the Wi-Fi packet holds
(`wifi.c:118`), comments that name other levels, colours and periods than the
code.

## Proofs

TLC checks small instances; the theorems hold for all constants that satisfy
the module's assumption (`LedConstants`, `AlarmSensorConstants`, `NodeConstants`,
...), which say of each constant what kind of number or set it is; `Uplinks` adds
`PayloadsAreClear`, and the theorems on time and blocking name theirs below.

* `Led_proofs`. `TypeCorrect` needs that a blinking LED is on or off
  (`BlinksOnOff`), because `value ^ 1` is then again 0 or 1. `QueueIsDisciplined`
  is inductive with the types; the work is in what `InsertAt` does to the order
  of blocked callers. `BlinkingIsPunctual` assumes `NoWrap`,
  that the clock and every timeout stay below `Modulus`: `led_wrap` shows that
  it cannot be dropped. Its invariant `TimeInv` says that no timeout was
  truncated, that the thread acts in time, and that a LED was not yet due when
  the present wait began unless a message preceded the wait.
  `LedImplementsService` is the refinement of `LedService`. Commands are one line:
  the message the thread has taken, the queue, the blocked callers (`Line`). A
  call joins the line ahead of less urgent callers that are blocked and behind
  everything of its own caller (`Joined`), a turn of the thread takes the head,
  and nothing else moves. What is outstanding for a caller is the line restricted
  to it (`Messages`); the lemmas say that restricting a line commutes with joining
  at a place behind which the caller has nothing, and with taking the head.
  Discipline of the queue is needed: without it a caller might be blocked twice,
  or stand behind the place its next command joins at.
* `AlarmSensor_proofs`. `IInv` adds to the types that the thread is where its
  sleep allows it (`Paced`), that the next reading of an unnoticed level is near
  (`ReadingIsNear`), and that the limiter was set no earlier than the last uplink
  (`LimiterCoversUplinks`). From it follow `AlarmsSpaced`, `LevelNoticed` and
  `SteadyEdgeAlarms`, for both sensors with their real periods.
* `Vars_proofs`. `IInv` adds `SaveInProgress`: while no write has failed, the
  entries a save has passed equal the variables. `ConfirmedIsKept` follows, and
  with it `ConfirmedComesBack`: a start or a load that could read a key finds
  there what was confirmed. For the refinement of `VarStore`, `AcceptedIsStored`
  says that `vars_set` answers "success" for the texts a variable accepts and
  stores what they say (`Meaning`), and otherwise changes nothing.
* `Base64_proofs`. One argument for both alphabets (`ByteRead`): a byte is decoded
  rightly if the four characters of its group are read as their letters
  (`Sextets` of a number of three bytes, and back), and the places of the last
  group are counted. `DecodeInvertsPadded` is the case of the program's own
  letters, for every text; `DecodeReadsStandard` that of a network server's, where
  the groups with `+` or `/` are excepted. `ClearIsRead` is the case without such
  groups, and `AsciiIsClear` names texts of this kind. `EncodeCutsTwoOfThree` says
  for which lengths `base64_encode` returns its text at all.
* `Host_proofs`. The invariant `Parsing` ties the scanner to the document: it is
  between two members, at one of the three places before the end of a member
  (`At`), or inside a value whose key is not wanted (`Inside`); and the event has
  what the document says, or nothing as long as that member waits (`Faithful`).
  It is needed because `event` and `key` alone do not say where a value came
  from. With `DecodeReadsStandard` it gives `PrintsThisUplink` and
  `PrintsEveryUplink`, for every content of the decoder's table.
* `Uplinks_proofs`. `AlarmsWakeTheRadio` is inductive with the types: a request
  leaves its sender about to wake, the radio sleeps only on an empty modem, and a
  wake-up wakes for everybody.
  `UplinksImplementDelivery`: what is owed is the uplink in
  the monitor's hands, those on their way and those in the modem, in this order.
  `Way` says that the monitor parses an uplink of a sender and shows nothing yet,
  and takes over `Parsing` from `Host_proofs`: the monitor of `Uplinks` makes only
  steps `Host` makes, so its event is empty or the sender's own. A parse that
  gives up before the port is the loss of an alarm; every other loss is the
  removal of an entry, and the lemmas on sequences say where. That an uplink is
  shown as itself needs `PayloadsAreClear`, an assumption on the payloads that the
  firmware's texts satisfy.
* `Wifi_proofs`. Both invariants with the types: events are cleared only by the
  step that handled all of them, and a scan is measured only after that.
  `EntriesFit` is the arithmetic of the packet's size.

* `Node_proofs`. Every step of `Node` is a step of `Led` or leaves the LED service
  alone (`LedAsSpecified`), so that what `Led_proofs` proves of any callers holds
  of these. `SettledRedShowsASensor` and `PirKeepsLedUpToDate` need more than the
  LED: `UpToDate` says that the last command of each sensor in the line is the one
  for the level it last saw, and a command taken from the line leaves the red LED
  as that command says. The second assumes that the driveway sensor is silent,
  which `node_red` shows to be necessary. `OnlyMovementEndsBlinking` is about the
  green LED, which only `ct_main` and the callback command.
  The red LED's pin is `lit` by `gpio_configure` before the first word, so that the
  first carries the same case (`BeforeTheFirstWord`).
  `ReportsMovementOnce` needs that between two calls of `accel_has_moved` a flag
  that is set was not read (`FlagIsUnread`).

  `PirIsAsSpecified` and `DrivewayIsAsSpecified` discharge what `AlarmSensor`
  assumes of `led_command`, under `Timing`: four latencies of the LED thread fit
  into `MaxBlock` and pass before the accelerometer's next interrupt. Nothing is
  assumed of the queue's length or the sensors' periods. A blocked caller is
  released after as many turns of the thread as it has places before it in
  `pending`, and a turn takes at most a latency. It may be overtaken by
  the more urgent ones: by `ct_main`, which commands once, and by the callback,
  which under `Timing` comes once during a wait. The invariant (`OnTime`) is that
  the end of this wait (`WaitEnds`), counted with the command `ct_main` still owes
  and the callback that may still come, is no later than the instant by which
  `AlarmSensor` wants the sensor to go on. Every step must not put `WaitEnds` off:
  a caller that overtakes takes the turn that was kept for it, and the thread's
  turn uses one. `Started` says who cannot be there yet before `ct_main` is done.
  Composed with `AlarmSensor_proofs` this gives `SensorsNoticeAndSpace` and
  `SensorsSendAfterCalm`: on the real queue, with the delays it causes and pins that move during them, both
  sensors keep what `AlarmSensor` promises.

Only model-checked: the liveness properties `MostUrgentReleased`, `MainReturns`
and `AlarmsLeaveTheNode`, because TLAPS has no backend here for liveness under
fairness. Every other property of a passing run is a theorem.

## Plan

Written, in this order: `LedService`, `Led`, `AlarmSensor`, `Accel`, `Node`, their
proofs, `Vars` with `VarStore` and its proofs, `Host`, `Base64`, `Uplinks` with
`Delivery`, `Wifi`, and their proofs.

`Led_proofs` with the refinement of `LedService`, and `Node_proofs`, came last.

Left, most important first:

1. Fewer than four turns in `Timing` when a sensor is not active: the instances of
   the runs need two. The invariant would count the callers that can be there.
2. The safety core of the liveness properties, as the release of a blocked caller
   within a bounded number of turns, for `Led` with any set of callers.

## Not modelled

Temperature and humidity, debug GPIO, GPIO mapper, `lora.c` and the stubs keep no
state and meet nobody. Bluetooth's state is the stack's, and its callbacks only
print, so that nothing of the program depends on when they are registered. The
RF switch and the radio mutex have no caller in the repository: who selects,
from which thread and under which lock is not in the source.

In the modules above are left out: the buffers of `message.c` and the texts that
would not fit them, `atoi`, characters other than `+` and `/` that are in no
base64 alphabet; the GNSS
parts, static mode and internal log of `wifi.c`; `vars_get` of plain variables
and `list_next_command`, which only format. Formatting, `printk`, the sensor's
attributes and the build files are left out. The modem, Zephyr and the broker
are outside the repository.
