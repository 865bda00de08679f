-------------------------------- MODULE Led --------------------------------
(***************************************************************************)
(* The LED service of src/src/led/led.c: one thread that owns the LEDs and *)
(* a message queue, led_msgq, through which every other thread commands    *)
(* them.  The thread waits for a message for GetTimeout (50 ms): a message *)
(* goes to handle_msg, a timeout to handle_timeout, which is the only      *)
(* place where a blinking LED changes.                                     *)
(*                                                                         *)
(* The kernel's queue (k_msgq_put, k_msgq_get) is modelled by what led.c   *)
(* relies on: a put hands its message to the waiting thread, or stores it, *)
(* or, when the queue is full, blocks its caller until a get makes room.   *)
(* Blocked callers wait in the order of their priorities, first come first *)
(* served among equals.                                                    *)
(*                                                                         *)
(* Time is explicit: uptime is k_uptime_get(), and Tick, bounded by        *)
(* MaxUptime, advances it.  Latency bounds how long the thread, once it    *)
(* has something to do, waits for the processor.                           *)
(***************************************************************************)
EXTENDS Integers, Sequences, SequencesExt

CONSTANTS
  Leds,        \* led_id_e: the LEDs of the board
  Clients,     \* the threads that call led_command
  Rank,        \* Rank[c]: Zephyr priority of client c, smaller is more urgent
  Calls,       \* the calls of led_command: who sends which message
  QueueLen,    \* capacity of led_msgq (10)
  GetTimeout,  \* how long k_msgq_get waits (50 ms)
  Latency,     \* the longest the thread waits for the processor
  Modulus,     \* timeouts are uint32_t: they are kept modulo Modulus (2^32)
  MaxUptime    \* bound of the clock

Commands == {"BLINK", "BLINK_ONCE", "SET"}
States   == {"IDLE", "BLINK", "BLINK_ONCE"}

ASSUME LedConstants ==
  /\ Rank \in [Clients -> Int]
  /\ Calls \subseteq
       [client : Clients, msg : [id : Leds, cmd : Commands, arg : Nat]]
  /\ QueueLen \in Nat \ {0}
  /\ GetTimeout \in Nat \ {0}
  /\ Latency \in Nat \ {0}
  /\ Modulus \in Nat \ {0}
  /\ MaxUptime \in Nat

VARIABLES
  uptime,    \* k_uptime_get()
  led_msgq,  \* the queue, oldest first: messages and, as a ghost, who sent them
  pending,   \* the callers blocked in k_msgq_put, with their messages
  pc,        \* what the LED thread does next
  received,  \* what k_msgq_get returned, a sequence of at most one
  since,     \* the uptime at which pc last changed, or the wait began
  leds,      \* led_t of each LED; due is the timeout before it is truncated
  lastMsg    \* ghost: the uptime at which a message was last handled

vars == <<uptime, led_msgq, pending, pc, received, since, leds, lastMsg>>

Led == [state : States, blink_rate : Nat, timeout : Nat, value : Nat,
        lit : BOOLEAN, due : Nat]

Blocked(c) == \E i \in DOMAIN pending : pending[i].client = c

-----------------------------------------------------------------------------
\* led_set: drive the pin, and compute when the LED changes next.  The pin is
\* active for the instant between its configuration and the level: left out.
led_set(led, value, duration) ==
  [led EXCEPT !.value   = value,
              !.lit     = value # 0,
              !.timeout = (uptime + duration) % Modulus,
              !.due     = uptime + duration]

\* A bug handle_msg might have: BLINK_ONCE keeps the state of BLINK.
handle_msg_WrongState(msg, led) ==
  led_set([led EXCEPT !.state = IF msg.cmd = "SET" THEN "IDLE" ELSE "BLINK",
                      !.blink_rate = msg.arg],
          IF msg.cmd = "SET" THEN msg.arg ELSE 1, msg.arg)

handle_msg(msg, led) ==
  CASE msg.cmd = "BLINK" ->
         led_set([led EXCEPT !.state = "BLINK", !.blink_rate = msg.arg], 1, msg.arg)
    [] msg.cmd = "BLINK_ONCE" ->
         led_set([led EXCEPT !.state = "BLINK_ONCE"], 1, msg.arg)
    [] msg.cmd = "SET" ->
         led_set([led EXCEPT !.state = "IDLE"], msg.arg, 0)

\* A bug it might have: BLINK_ONCE forgotten.
TimedOut_BlinkOnly(led) == led.state = "BLINK" /\ uptime % Modulus >= led.timeout

\* The comparison of handle_timeout, on the truncated uptime.
TimedOut(led) == led.state # "IDLE" /\ uptime % Modulus >= led.timeout

handle_timeout(led) ==
  IF ~TimedOut(led) THEN led
  ELSE IF led.state = "BLINK" THEN led_set(led, 1 - led.value, led.blink_rate)
  ELSE led_set([led EXCEPT !.state = "IDLE"], 0, 0)

\* A get that would leave the blocked callers where they are.
k_msgq_get_NoRefill ==
  /\ since' = uptime
  /\ pc' = IF led_msgq = << >> THEN "waiting" ELSE "message"
  /\ received' = IF led_msgq = << >> THEN << >> ELSE <<Head(led_msgq)>>
  /\ led_msgq' = IF led_msgq = << >> THEN << >> ELSE Tail(led_msgq)
  /\ UNCHANGED pending

\* The thread reaches k_msgq_get: it takes the oldest message, and the first
\* blocked caller's message takes the room; or it starts to wait.
k_msgq_get ==
  /\ since' = uptime
  /\ IF led_msgq = << >>
     THEN /\ pc' = "waiting"
          /\ received' = << >>
          /\ UNCHANGED <<led_msgq, pending>>
     ELSE /\ pc' = "message"
          /\ received' = <<Head(led_msgq)>>
          /\ IF pending = << >>
             THEN led_msgq' = Tail(led_msgq) /\ UNCHANGED pending
             ELSE /\ led_msgq' = Append(Tail(led_msgq), Head(pending))
                  /\ pending' = Tail(pending)

-----------------------------------------------------------------------------
Init ==
  /\ uptime = 0
  /\ led_msgq = << >>
  /\ pending = << >>
  /\ pc = "start"
  /\ received = << >>
  /\ since = 0
  /\ leds = [l \in Leds |-> [state |-> "IDLE", blink_rate |-> 0, timeout |-> 0,
                             value |-> 0, lit |-> FALSE, due |-> 0]]
  /\ lastMsg = 0

\* led_command, where k_msgq_put finds the thread waiting.
PutWakes(call) ==
  /\ pc = "waiting"
  /\ pc' = "message"
  /\ received' = <<call>>
  /\ since' = uptime
  /\ UNCHANGED <<led_msgq, pending>>

\* A put that would store one message too many.
PutStores_OneTooMany(call) ==
  /\ pc # "waiting"
  /\ Len(led_msgq) <= QueueLen
  /\ led_msgq' = Append(led_msgq, call)
  /\ UNCHANGED <<pending, pc, received, since>>

\* led_command, where k_msgq_put finds room in the queue.
PutStores(call) ==
  /\ pc # "waiting"
  /\ Len(led_msgq) < QueueLen
  /\ led_msgq' = Append(led_msgq, call)
  /\ UNCHANGED <<pending, pc, received, since>>

\* led_command, where k_msgq_put blocks its caller (K_FOREVER): it waits
\* behind the callers that are as urgent and ahead of the others.
PutBlocks(call) ==
  /\ pc # "waiting"
  /\ Len(led_msgq) >= QueueLen
  /\ \E k \in 1..(Len(pending) + 1) :
       /\ \A i \in DOMAIN pending :
            i < k <=> Rank[pending[i].client] <= Rank[call.client]
       /\ pending' = InsertAt(pending, k, call)
  /\ UNCHANGED <<led_msgq, pc, received, since>>

led_command(call) ==
  /\ ~Blocked(call.client)
  /\ PutWakes(call) \/ PutStores(call) \/ PutBlocks(call)
  /\ UNCHANGED <<uptime, leds, lastMsg>>

\* led_thread before its loop: gpio_configure drives every LED active.
LedStart ==
  /\ pc = "start"
  /\ leds' = [l \in Leds |-> [leds[l] EXCEPT !.lit = TRUE]]
  /\ k_msgq_get
  /\ UNCHANGED <<uptime, lastMsg>>

\* One turn of the loop that got a message.
LedMessage ==
  /\ pc = "message"
  /\ LET msg == Head(received).msg
     IN  leds' = [leds EXCEPT ![msg.id] = handle_msg(msg, leds[msg.id])]
  /\ lastMsg' = uptime
  /\ k_msgq_get
  /\ UNCHANGED uptime

\* k_msgq_get gives up waiting.
GetTimesOut ==
  /\ pc = "waiting"
  /\ uptime = since + GetTimeout
  /\ pc' = "timeout"
  /\ since' = uptime
  /\ UNCHANGED <<uptime, led_msgq, pending, received, leds, lastMsg>>

\* One turn of the loop that got none.
LedTimeout ==
  /\ pc = "timeout"
  /\ leds' = [l \in Leds |-> handle_timeout(leds[l])]
  /\ k_msgq_get
  /\ UNCHANGED <<uptime, lastMsg>>

LedThread == LedStart \/ LedMessage \/ GetTimesOut \/ LedTimeout

\* Time passes, but not past the instant by which the thread must have acted.
InTime ==
  uptime < since + (IF pc = "waiting" THEN GetTimeout ELSE Latency)

Tick ==
  /\ uptime < MaxUptime
  /\ InTime
  /\ uptime' = uptime + 1
  /\ UNCHANGED <<led_msgq, pending, pc, received, since, leds, lastMsg>>

Next ==
  \/ \E call \in Calls : led_command(call)
  \/ LedThread
  \/ Tick

Spec == Init /\ [][Next]_vars

\* The LED thread is never left ready forever: the scheduler runs it.
FairSpec == Spec /\ WF_vars(LedThread) /\ WF_vars(Tick)

-----------------------------------------------------------------------------
(* Properties *)

TypeOK ==
  /\ uptime \in 0..MaxUptime
  /\ led_msgq \in Seq(Calls) /\ Len(led_msgq) <= QueueLen
  /\ pending \in Seq(Calls)
  /\ pc \in {"start", "waiting", "message", "timeout"}
  /\ received \in Seq(Calls) /\ Len(received) = (IF pc = "message" THEN 1 ELSE 0)
  /\ since \in 0..uptime
  /\ leds \in [Leds -> Led]
  /\ lastMsg \in 0..uptime

\* The queue and its waiters never contradict each other: the LED thread
\* waits only when nobody has a message for it, callers are blocked only on a
\* full queue, none of them twice, and the most urgent are in front.
QueueDiscipline ==
  /\ pc = "waiting" => led_msgq = << >> /\ pending = << >>
  /\ pending # << >> => Len(led_msgq) = QueueLen
  /\ \A i, j \in DOMAIN pending : i < j =>
       /\ pending[i].client # pending[j].client
       /\ Rank[pending[i].client] <= Rank[pending[j].client]

\* The uptime and every timeout stay below Modulus.  The product does not
\* guarantee it: uptime passes 2^32 ms after 49.7 days.
NoWrap ==
  /\ MaxUptime < Modulus
  /\ \A call \in Calls : MaxUptime + call.msg.arg < Modulus

\* Once no message has come for a while, a LED that blinks has changed at the
\* instant it was due, give or take one wait of k_msgq_get and one latency:
\* the skew that led_thread's comment accepts, and the only one.
PunctualWhenQuiet ==
  \A l \in Leds : leds[l].state # "IDLE" =>
    \/ uptime <= leds[l].due + GetTimeout + Latency
    \/ uptime <= lastMsg + GetTimeout + Latency

\* A caller of led_command as urgent as any other is not blocked forever.
MostUrgentReleased ==
  \A c \in Clients : (\A d \in Clients : Rank[c] <= Rank[d]) =>
    (Blocked(c) ~> ~Blocked(c))

\* The calls on their way to the LEDs, in the order in which the thread is going
\* to take them.
Line == received \o led_msgq \o pending

\* The messages of client c in a line of calls.
Messages(line, c) ==
  LET places == {i \in DOMAIN line : line[i].client = c}
      Nth(n) == CHOOSE i \in places : Cardinality({j \in places : j <= i}) = n
  IN  [n \in 1..Cardinality(places) |-> line[Nth(n)].msg]

\* What the clients of led.h see: the commands of each client on their way to
\* the LEDs, wherever they are, and the LEDs.
OnTheWay(c) == Messages(Line, c)

Service == INSTANCE LedService WITH
  outstanding <- [c \in Clients |-> OnTheWay(c)],
  shown       <- [l \in Leds |-> [state |-> leds[l].state, value |-> leds[l].value]]

\* The thread and its queue lose, duplicate or reorder no command of a client,
\* and change no LED that is not told to blink.
ImplementsService == Service!Spec

=============================================================================
